----------------------------- MODULE ProbeCores -----------------------------
(* The live probes of a candidate (ai_qualification, transport_qualification,*)
(* mihomo_probe_runtime): each shard of nodes gets a Mihomo core of its own, *)
(* on ports the system called free a moment before; the probe switches the   *)
(* core's selector to a node over the controller port, and then asks through *)
(* the mixed port. A verdict is worth what those two ports were worth. The   *)
(* shards of an AI round run concurrently and share one controller secret;   *)
(* the general inventory is one shard, with a transport check of its own.    *)
EXTENDS Naturals, FiniteSets

CONSTANTS AiShards, ShardNodes, \* the shards of an AI round; shard -> its nodes
          General,         \* the one shard of a transport round
          Ports, Reserved, \* Reserved: a port handed out is not handed out again before its probe ended
          Working,         \* the nodes through which the service answers as expected
          MaxExits,        \* bound: cores that exit by themselves
          Unset

VARIABLES
  round,      \* "ai" or "transport"
  attempt,    \* of the round
  pc,         \* shard -> where its thread is
  mixed, controller, \* shard -> the port it was handed, or Unset
  bound,      \* port -> <<shard, role>> of the core that listens on it, or Unset
  core,       \* shard -> none, up or gone
  now,        \* shard -> the node its core's selector has chosen, Unset while loading
  todo, node, \* shard -> nodes still to judge, and the one being judged
  ended,      \* shard -> how its future ended: none, ok, runtime or invalid
  trial,      \* node -> none, unselected, failed or passed
  through,    \* history: the attempt and the node a trial went through
  exits,      \* cores that exited by themselves
  outcome     \* running, qualified or rejected

shardVars == <<pc, mixed, controller, core, now, todo, node, ended>>
judged == <<trial, through>>
probeVars == <<round, attempt, shardVars, bound, judged, exits, outcome>>

All == AiShards \cup {General}
ProbedNodes == ShardNodes[General]
Active == IF round = "ai" THEN AiShards ELSE {General}

ASSUME ProbeAssumption ==
  /\ General \notin AiShards /\ \A s \in AiShards : ShardNodes[s] \subseteq ProbedNodes
  /\ Unset \notin Ports /\ Unset \notin ProbedNodes /\ Unset \notin Working
  /\ \A s \in All : Unset # <<s, "mixed">> /\ Unset # <<s, "controller">>

\* Every shard at its beginning.
Start ==
  [pc |-> [s \in All |-> "mixed"], todo |-> [s \in All |-> ShardNodes[s]],
   nothing |-> [s \in All |-> Unset], notYet |-> [s \in All |-> "none"],
   unjudged |-> [n \in ProbedNodes |-> "none"], through |-> [n \in ProbedNodes |-> Unset]]

ProbeInit ==
  /\ round \in {"ai", "transport"} /\ attempt = 1
  /\ pc = Start.pc /\ todo = Start.todo
  /\ mixed = Start.nothing /\ controller = Start.nothing /\ now = Start.nothing /\ node = Start.nothing
  /\ core = Start.notYet /\ ended = Start.notYet
  /\ trial = Start.unjudged /\ through = Start.through
  /\ bound = [p \in Ports |-> Unset]
  /\ exits = 0 /\ outcome = "running"

Step(s, from, to) == pc[s] = from /\ pc' = [pc EXCEPT ![s] = to]
Round == UNCHANGED <<round, attempt, exits, outcome>>

---------------------------------------------------------------------------
(* Starting and stopping a core.                                             *)

Released(s) == [p \in Ports |-> IF bound[p] # Unset /\ bound[p][1] = s THEN Unset ELSE bound[p]]

\* stop_mihomo_process in a finally block, TERM and then KILL: whatever ends
\* the shard, its core is gone before its future is.
Ends(s, how) ==
  /\ pc' = [pc EXCEPT ![s] = "ended"] /\ ended' = [ended EXCEPT ![s] = how]
  /\ core' = [core EXCEPT ![s] = "gone"] /\ bound' = Released(s)
  /\ Round /\ UNCHANGED <<mixed, controller, now, todo, node, judged>>

\* What a core that will not start or answer raises: AIProbeRuntimeError, or
\* in a transport round ValidationError.
Failure == IF round = "ai" THEN "runtime" ELSE "invalid"

\* Binding port 0 and closing: nobody listens there now.
FreeTcpPort ==
  LET held == {mixed[s] : s \in {s \in All : pc[s] # "ended"}} \cup {controller[s] : s \in {s \in All : pc[s] # "ended"}}
  IN  {p \in Ports : bound[p] = Unset /\ (Reserved => p \notin held)}

TakeMixed(s) ==
  /\ Step(s, "mixed", "controller")
  /\ \E p \in FreeTcpPort : mixed' = [mixed EXCEPT ![s] = p]
  /\ Round /\ UNCHANGED <<controller, core, now, todo, node, ended, bound, judged>>
TakeController(s) ==
  /\ Step(s, "controller", "start")
  /\ \E p \in FreeTcpPort : controller' = [controller EXCEPT ![s] = p]
  /\ Round /\ UNCHANGED <<mixed, core, now, todo, node, ended, bound, judged>>

\* The configuration test opens no port.
ConfigTestFails(s) ==
  /\ pc[s] = "start"
  /\ \E how \in {Failure, "invalid"} : Ends(s, how)

\* A core that cannot bind a port says so in its log and runs on.
Listen(b, p, s, role) == IF b[p] = Unset THEN [b EXCEPT ![p] = <<s, role>>] ELSE b
StartCore(s) ==
  /\ Step(s, "start", "wait")
  /\ core' = [core EXCEPT ![s] = "up"]
  /\ bound' \in {Listen(Listen(bound, mixed[s], s, "mixed"), controller[s], s, "controller"),
                 Listen(Listen(bound, controller[s], s, "controller"), mixed[s], s, "mixed")}
  /\ Round /\ UNCHANGED <<mixed, controller, now, todo, node, ended, judged>>

\* The provider fills the selector some time after the start.
CoreLoads(s) ==
  /\ core[s] = "up" /\ now[s] = Unset
  /\ \E n \in ShardNodes[s] : now' = [now EXCEPT ![s] = n]
  /\ Round /\ UNCHANGED <<pc, mixed, controller, core, todo, node, ended, bound, judged>>

CoreExits(s) ==
  /\ core[s] = "up" /\ exits < MaxExits
  /\ core' = [core EXCEPT ![s] = "gone"] /\ bound' = Released(s) /\ exits' = exits + 1
  /\ UNCHANGED <<round, attempt, pc, mixed, controller, now, todo, node, ended, judged, outcome>>

---------------------------------------------------------------------------
(* Waiting for it.                                                           *)

Listening(p, role) == {t \in All : bound[p] = <<t, role>>}
Controller(s) == Listening(controller[s], "controller")

\* ensure_process_running, the deadline, or an answer that makes no sense.
WaitFails(s) ==
  /\ pc[s] \in {"wait", "load", IF round = "ai" THEN "confirm" ELSE "select"}
  /\ Ends(s, Failure)

\* Any core behind the port answers: they share the secret.
ControllerReady(s) ==
  /\ Step(s, "wait", "load") /\ core[s] = "up"
  /\ Controller(s) # {}
  /\ Round /\ UNCHANGED <<mixed, controller, core, now, todo, node, ended, bound, judged>>

MembersReady(s) ==
  /\ Step(s, "load", IF round = "ai" THEN "next" ELSE "sample") /\ core[s] = "up"
  /\ \E t \in Controller(s) : now[t] # Unset /\ ShardNodes[s] \subseteq ShardNodes[t]
  /\ Round /\ UNCHANGED <<mixed, controller, core, now, todo, node, ended, bound, judged>>

---------------------------------------------------------------------------
(* Judging one node after the other.                                         *)

\* Two delay requests for the whole group; one answer is enough. A controller
\* that does not answer leaves an empty sample.
SampleGroup(s) ==
  /\ pc[s] = "sample"
  /\ \E answered \in {{}} \cup (IF Controller(s) = {} THEN {} ELSE SUBSET (ProbedNodes \cap Working)) :
       IF answered = {} THEN Ends(s, "invalid")
       ELSE /\ todo' = [todo EXCEPT ![s] = answered]
            /\ pc' = [pc EXCEPT ![s] = "next"]
            /\ Round /\ UNCHANGED <<mixed, controller, core, now, node, ended, bound, judged>>

TakeNode(s) ==
  /\ Step(s, "next", "select") /\ (round = "ai" => core[s] = "up")
  /\ \E n \in todo[s] : node' = [node EXCEPT ![s] = n] /\ todo' = [todo EXCEPT ![s] = @ \ {n}]
  /\ Round /\ UNCHANGED <<mixed, controller, core, now, ended, bound, judged>>

\* Only the AI probe looks at its process between two nodes; a transport round
\* without one node that carries UDP is invalid.
Finish(s) ==
  /\ pc[s] = "next"
  /\ \/ todo[s] = {} /\ (round = "ai" \/ \E n \in ProbedNodes : trial[n] = "passed") /\ Ends(s, "ok")
     \/ todo[s] = {} /\ round = "transport" /\ (\A n \in ProbedNodes : trial[n] # "passed") /\ Ends(s, "invalid")
     \/ todo[s] # {} /\ round = "ai" /\ core[s] = "gone" /\ Ends(s, "runtime")

Record(s, result, via) ==
  /\ trial' = [trial EXCEPT ![node[s]] = result]
  /\ through' = [through EXCEPT ![node[s]] = via]
  /\ pc' = [pc EXCEPT ![s] = "next"]
  /\ Round /\ UNCHANGED <<mixed, controller, core, todo, node, ended, bound>>

\* The update reaches the core behind the controller port.
Switched(s) ==
  {[now EXCEPT ![t] = node[s]] : t \in {t \in Controller(s) : now[t] # Unset /\ node[s] \in ShardNodes[t]}}

\* It is answered: the AI probe then reads the selector back, the transport
\* probe goes ahead.
Select(s) ==
  /\ Step(s, "select", IF round = "ai" THEN "confirm" ELSE "probe")
  /\ now' \in Switched(s)
  /\ Round /\ UNCHANGED <<mixed, controller, core, todo, node, ended, bound, judged>>

\* Its answer is lost; the AI probe tries again until its deadline.
SelectUnanswered(s) ==
  /\ pc[s] = "select" /\ round = "ai"
  /\ now' \in Switched(s)
  /\ Round /\ UNCHANGED <<pc, mixed, controller, core, todo, node, ended, bound, judged>>

\* The deadline passed, or the transport probe's only update failed.
SelectFailsIgnored(s) ==
  /\ Step(s, "select", "probe")
  /\ Round /\ UNCHANGED <<mixed, controller, core, now, todo, node, ended, bound, judged>>
SelectFails(s) ==
  /\ pc[s] = "select"
  /\ now' \in {now} \cup (IF round = "transport" THEN Switched(s) ELSE {})
  /\ Record(s, "unselected", Unset)

Confirm(s) ==
  /\ pc[s] = "confirm"
  /\ \E read \in BOOLEAN :
       LET confirmed == read /\ \E t \in Controller(s) : now[t] = node[s]
       IN  pc' = [pc EXCEPT ![s] = IF confirmed THEN "probe" ELSE "select"]
  /\ Round /\ UNCHANGED <<mixed, controller, core, now, todo, node, ended, bound, judged>>

\* The request goes through whatever core listens on the mixed port, and the
\* node that core has selected.
Request(s) ==
  /\ pc[s] = "probe"
  /\ \E via \in IF Listening(mixed[s], "mixed") = {} THEN {Unset} ELSE {now[t] : t \in Listening(mixed[s], "mixed")} :
     \E passes \in IF via \in Working THEN BOOLEAN ELSE {FALSE} :
       /\ UNCHANGED now
       /\ Record(s, IF passes THEN "passed" ELSE "failed", <<attempt, via>>)

---------------------------------------------------------------------------
(* The round: every future ends, then the first error counts.                *)

Collected == /\ outcome = "running" /\ \A s \in Active : ended[s] # "none"
             /\ UNCHANGED <<round, bound, exits>>

Collect ==
  /\ Collected
  /\ \A s \in Active : ended[s] = "ok"
  /\ outcome' = "qualified" /\ UNCHANGED <<attempt, shardVars, judged>>

\* A core that failed is tried once more, every shard from its beginning.
Repeat ==
  /\ Collected /\ attempt = 1
  /\ \E s \in Active : ended[s] = "runtime"
  /\ attempt' = 2 /\ UNCHANGED outcome
  /\ pc' = Start.pc /\ todo' = Start.todo
  /\ mixed' = Start.nothing /\ controller' = Start.nothing /\ now' = Start.nothing /\ node' = Start.nothing
  /\ core' = Start.notYet /\ ended' = Start.notYet
  /\ trial' = Start.unjudged /\ through' = Start.through

GiveUp ==
  /\ Collected
  /\ \E s \in Active : ended[s] = "invalid" \/ (ended[s] = "runtime" /\ attempt = 2)
  /\ outcome' = "rejected" /\ UNCHANGED <<attempt, shardVars, judged>>

ShardNext(s) ==
  \/ TakeMixed(s) \/ TakeController(s) \/ ConfigTestFails(s) \/ StartCore(s) \/ CoreLoads(s) \/ CoreExits(s)
  \/ WaitFails(s) \/ ControllerReady(s) \/ MembersReady(s)
  \/ SampleGroup(s) \/ TakeNode(s) \/ Finish(s) \/ Select(s) \/ SelectUnanswered(s) \/ SelectFails(s)
  \/ Confirm(s) \/ Request(s)

ProbeNext == (\E s \in Active : ShardNext(s)) \/ Collect \/ Repeat \/ GiveUp
ProbeSpec == ProbeInit /\ [][ProbeNext]_probeVars

---------------------------------------------------------------------------

\* ai_qualification.py, transport_qualification.py: a node is admitted on a
\* request that went through that very node, in the attempt that counts,
\* whatever its neighbours were switched to, lost or left behind.
VerdictsAreOfTheNode ==
  \A n \in ProbedNodes : trial[n] = "passed" => through[n] = <<attempt, n>>
=============================================================================
