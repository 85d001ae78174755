------------------------------ MODULE FirmHealth ------------------------------
(* FirmHealthGrowthMonitor turns what is measured of the firm into a status   *)
(* and reasons; ResearchPriorityPolicy finds words in the reasons and reorders*)
(* the pending research.  The two only meet in those words.  FirmGrowth says  *)
(* where the measures come from.                                              *)
EXTENDS Integers, FiniteSets

CONSTANTS TaskTypes,   \* task types of the queue
          Words,       \* words a hypothesis code may contain
          NormalBase, ElevatedBase, UrgentBase  \* priority bases by status

ASSUME BasesAssumption ==
    /\ {NormalBase, ElevatedBase, UrgentBase} \subseteq 0..100
    /\ NormalBase <= ElevatedBase /\ ElevatedBase <= UrgentBase

Kinds == [type : TaskTypes, words : SUBSET Words]

\* FirmHealthInputs as the conditions of evaluate, each from good (0) to worse;
\* drawdown is 1 from the caution and 2 from the halt threshold.
Firms == [mt5 : 0..1, capital : 0..1, growth : 0..1, drawdown : 0..2, expectancy : 0..1,
          kronos : 0..1, costs : 0..1, archive : 0..1, queue : 0..1]
Measures == {"mt5", "capital", "growth", "drawdown", "expectancy", "kronos", "costs",
             "archive", "queue"}

-----------------------------------------------------------------------------
(* FirmHealthGrowthMonitor.evaluate                                           *)

Halts(f) == f.mt5 = 1 \/ f.capital = 1 \/ f.drawdown = 2
Worries(f) == \E m \in Measures \ {"mt5", "capital"} : f[m] >= 1

StatusByCount(f) ==  \* mutant of Status
    IF Cardinality({m \in Measures : f[m] = 1}) >= 3 THEN "halt"
    ELSE IF \E m \in Measures : f[m] = 1 THEN "caution" ELSE "healthy"
Status(f) == IF Halts(f) THEN "halt" ELSE IF Worries(f) THEN "caution" ELSE "healthy"

\* trading_risk_multiplier, in percent, for the default caution multiplier.
RiskMultiplier(f) ==
    CASE Status(f) = "halt" -> 0 [] Status(f) = "caution" -> 50 [] OTHER -> 100

\* The words of the reasons that the policy looks for.  That capital is growing
\* is the one reason a healthy report gives.
Says(word, condition) == IF condition THEN {word} ELSE {}
Mentions(f) ==
    Says("capital", 1 \in {f.capital, f.growth} \/ Status(f) = "healthy")
    \union Says("drawdown", f.drawdown >= 1)
    \union Says("expectancy", f.expectancy = 1)
    \union Says("kronos", f.kronos = 1)
    \union Says("execution costs", f.costs = 1)
    \union Says("archive", f.archive = 1)
    \union Says("task queue", f.queue = 1)

-----------------------------------------------------------------------------
(* ResearchPriorityPolicy.priority_for                                        *)

When(condition, n) == IF condition THEN n ELSE 0
Clamp(n) == IF n < 0 THEN 0 ELSE IF n > 100 THEN 100 ELSE n
Base(f) ==
    CASE Status(f) = "halt" -> UrgentBase
      [] Status(f) = "caution" -> ElevatedBase
      [] OTHER -> NormalBase

Money == {"capital", "drawdown", "expectancy"}
Economic == {"backtest_campaign", "cost_regime_evaluation", "champion_comparison"}
RiskWords == {"drawdown", "risk", "expectancy", "robust"}
ModelWords == {"kronos", "forecast"}
HealthChecks == {"archive_health_check", "research_queue_health_check"}

Boost(f, k) ==
    LET said == Mentions(f) IN
      When(said \cap Money # {} /\ k.type \in Economic, 8)
    + When(said \cap Money # {} /\ k.words \cap RiskWords # {}, 8)
    + When("execution costs" \in said /\ k.type = "cost_regime_evaluation", 12)
    + When("kronos" \in said /\ k.words \cap ModelWords # {}, 10)
    + When("kronos" \in said /\ k.type = "backtest_campaign", 4)
    + When(said \cap {"archive", "task queue"} # {} /\ k.type \in HealthChecks, 12)
    - When(k.type = "sunday_validation", 5)
PriorityUnclamped(f, k) == Base(f) + Boost(f, k)  \* mutant of PriorityFor
PriorityFor(f, k) == Clamp(Base(f) + Boost(f, k))

Rank(status) == CASE status = "healthy" -> 0 [] status = "caution" -> 1 [] OTHER -> 2
=============================================================================
