----------------------------- MODULE FirmAnalytics -----------------------------
(* FirmPerformanceAnalyzer.summarize and CapitalGrowthObjective.evaluate: two *)
(* passes over the outcomes in closing order.  The equity curve is an estimate*)
(* that compounds a fixed risk budget per trade.                              *)
EXTENDS Integers, Sequences

CONSTANTS RiskPercent,  \* risk_per_trade_pct
          Start,        \* starting_capital, in units that keep equity whole
          MaxDrawdown   \* maximum_drawdown_pct

ASSUME ObjectiveAssumption ==
    /\ RiskPercent \in 1..100
    /\ Start \in Nat \ {0}
    /\ MaxDrawdown \in 1..100

Larger(m, n) == IF m >= n THEN m ELSE n

\* FirmPerformanceSummary, without the metrics nothing decides on.
NoTrades == [trades |-> 0, total |-> 0, peak |-> 0, drawdown |-> 0, forecasts |-> 0,
             correct |-> 0]
AddTrade(p, outcome) ==
    LET total == p.total + outcome.r
        peak == Larger(p.peak, total)
    IN  [trades |-> p.trades + 1, total |-> total, peak |-> peak,
         drawdown |-> Larger(p.drawdown, peak - total),
         forecasts |-> p.forecasts + (IF outcome.direction = "none" THEN 0 ELSE 1),
         correct |-> p.correct + (IF outcome.direction = "right" THEN 1 ELSE 0)]
Performance(ordered) ==
    LET after[n \in 0..Len(ordered)] ==
          IF n = 0 THEN NoTrades ELSE AddTrade(after[n - 1], ordered[n])
    IN  after[Len(ordered)]

\* A drawdown is a fraction of the peak it is measured from.
AtLeast(d, e) == d.lost * e.of >= e.lost * d.of
Deeper(d, e) == IF AtLeast(d, e) THEN d ELSE e
Percent(n) == [lost |-> n, of |-> 100]

\* A trade that risks the whole equity ends the curve, before the drawdown of it is
\* measured.
NoGrowth == [equity |-> Start, peak |-> Start, drawdown |-> [lost |-> 0, of |-> 1]]
Compound(g, outcome) ==
    IF g.equity = 0 THEN g
    ELSE IF outcome.r * RiskPercent <= -100 THEN [g EXCEPT !.equity = 0]
    ELSE LET equity == (g.equity * (100 + outcome.r * RiskPercent)) \div 100
             peak == Larger(g.peak, equity)
         IN  [equity |-> equity, peak |-> peak,
              drawdown |-> Deeper(g.drawdown, [lost |-> peak - equity, of |-> peak])]
Growth(ordered) ==
    LET after[n \in 0..Len(ordered)] ==
          IF n = 0 THEN NoGrowth ELSE Compound(after[n - 1], ordered[n])
    IN  after[Len(ordered)]

\* CapitalGrowthSummary.profitable and capital_preserved.
Profitable(g) == g.equity > Start
PreservedByDrawdown(g) == AtLeast(Percent(MaxDrawdown), g.drawdown)  \* mutant of Preserved
Preserved(g) == AtLeast(Percent(MaxDrawdown), g.drawdown) /\ g.equity > 0
=============================================================================
