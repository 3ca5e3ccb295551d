----------------------------- MODULE FetchPool -----------------------------
(* What build_candidate relies on: the executor's view of the fetches,       *)
(* without sockets, resolvers or clocks. At most Workers fetches run at      *)
(* once, their results are consumed in the declared order, a fatal failure   *)
(* cancels what has not started and waits for what has, and every fetch that *)
(* starts ends.                                                              *)
EXTENDS Naturals, Sequences, FiniteSets

CONSTANTS Order,   \* the enabled sources in ingest order
          Workers, \* _SUBSCRIPTION_FETCH_WORKERS
          Fatal    \* sources whose failure aborts the build

VARIABLES task,     \* source -> queued, running, ok, failed or cancelled
          consumed, \* how many results the build has taken
          build     \* consuming, aborting, aborted or fetched

poolVars == <<task, consumed, build>>

Sources == {Order[i] : i \in DOMAIN Order}
Running == {f \in Sources : task[f] = "running"}

PoolInit ==
  /\ task = [f \in Sources |-> "queued"]
  /\ consumed = 0
  /\ build = "consuming"

\* An idle worker takes the oldest submission.
TaskStarts(f) ==
  /\ task[f] = "queued"
  /\ \A i, j \in DOMAIN Order : i < j /\ Order[j] = f => task[Order[i]] # "queued"
  /\ Cardinality(Running) < Workers
  /\ task' = [task EXCEPT ![f] = "running"]
  /\ UNCHANGED <<consumed, build>>

TaskEnds(f, how) ==
  /\ task[f] = "running"
  /\ task' = [task EXCEPT ![f] = how]
  /\ UNCHANGED <<consumed, build>>

\* The build takes the next result, nothing else can be next, and gives up
\* when a source it needs has nothing usable to offer.
Consume(usable) ==
  /\ build = "consuming" /\ consumed < Len(Order)
  /\ LET f == Order[consumed + 1]
     IN /\ task[f] = "ok" \/ (task[f] = "failed" /\ ~usable)
        /\ consumed' = consumed + 1
        /\ IF ~usable /\ f \in Fatal
           THEN /\ build' = "aborting"
                /\ task' = [g \in Sources |-> IF task[g] = "queued" THEN "cancelled" ELSE task[g]]
           ELSE UNCHANGED <<task, build>>

\* executor.shutdown(wait=True): on the good path too.
ShutDown ==
  /\ Running = {}
  /\ \/ build = "aborting" /\ build' = "aborted"
     \/ build = "consuming" /\ consumed = Len(Order) /\ build' = "fetched"
  /\ UNCHANGED <<task, consumed>>

PoolNext ==
  \/ \E f \in Sources : TaskStarts(f) \/ \E how \in {"ok", "failed"} : TaskEnds(f, how)
  \/ \E usable \in BOOLEAN : Consume(usable)
  \/ ShutDown

PoolFairness ==
  /\ \A f \in Sources : WF_poolVars(TaskStarts(f)) /\ WF_poolVars(\E how \in {"ok", "failed"} : TaskEnds(f, how))
  /\ WF_poolVars(\E usable \in BOOLEAN : Consume(usable))
  /\ WF_poolVars(ShutDown)

PoolSpec == PoolInit /\ [][PoolNext]_poolVars /\ PoolFairness
=============================================================================
