---------------------------- MODULE MCProduction ----------------------------
(* TLC instance of the production run and of the histories it keeps. The two *)
(* models describe the same attempts from two sides and share no variable;   *)
(* a behaviour is a behaviour of the one chosen at its start.                *)
EXTENDS ProductionLifecycle, Sequences

CONSTANTS SloWindow, Nothing, Broken,
          MaxRuns, MaxFailures, TrendWindow, EvidenceRuns, NoMetrics, BrokenMetrics,
          Published, Generated, Horizon

ASSUME MetricsAssumption == {MaxRuns, MaxFailures, TrendWindow, EvidenceRuns} \subseteq Nat \ {0}

VARIABLES side,
          ring, metrics, evidence, clock, opc, tries, traces, raised, truth, events

Observability ==
  INSTANCE ProductionObservability
    WITH Contents <- Published, slo <- ring, pc <- opc, files <- traces, error <- raised

\* An absent key and a broken document are no history; the qualified candidate is
\* not the generated one, since the browsing stage edits a group or fails.
ASSUME SloAssumption ==
  /\ SloWindow \in Nat \ {0}
  /\ Nothing \notin Nat
  /\ {Nothing, Broken} \intersect Seq(Observability!Attempts) = {}
  /\ {NoMetrics, BrokenMetrics} \intersect Observability!Documents = {}
  /\ Generated \notin Published

histories == <<ring, metrics, evidence, clock, opc, tries, traces, raised, truth, events>>

\* What the chosen side does not use has one value.
ProductionInit ==
  /\ side \in {"run", "histories"}
  /\ Init /\ Observability!Init
  /\ IF side = "run" THEN ring = Nothing ELSE live = None

Runs == side = "run" /\ Next /\ UNCHANGED <<side, histories>>
Records == side = "histories" /\ Observability!Next /\ UNCHANGED <<side, vars>>

ProductionSpec == ProductionInit /\ [][Runs \/ Records]_<<side, vars, histories>>

\* operational_slo.py: the ring holds the latest attempts, told as they went.
RingIsTrue == Observability!RingIsTrue

\* production_metrics.py: the failure streak counts since the last success.
StreakIsTrue == Observability!StreakIsTrue
=============================================================================
