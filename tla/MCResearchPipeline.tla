-------------------------- MODULE MCResearchPipeline --------------------------
(* Small instances of the research programme for TLC.                         *)
EXTENDS ResearchPipeline

CONSTANTS f, a, b, c

\* The founder has two challengers to be named after, the first of them one.
Family ==
    [s \in Strategies |-> [i \in Indexes |->
        CASE s = f /\ i = 1 -> a [] s = f /\ i = 2 -> b
          [] s = a /\ i = 1 /\ c \in Strategies -> c [] OTHER -> None]]

PipelineStages ==
    <<"backtest_campaign", "cost_regime_evaluation", "champion_comparison", "sunday_validation">>

ShortChain == <<"backtest_campaign", "cost_regime_evaluation">>

Traded == [trades |-> 20, total |-> 5, forecasts |-> 0, correct |-> 0, drawdown |-> 0]
Passed == [positive |-> 3, total |-> 4]
Failed == [positive |-> 0, total |-> 4]
Generalizing == [cross |-> Passed, prior |-> Passed]

\* A quiet weekend, one with two problems, and one with too few outcomes.
Weekends ==
    {[performance |-> Traded, robustness |-> Generalizing, highVol |-> FALSE],
     [performance |-> [Traded EXCEPT !.drawdown = 6],
      robustness |-> [cross |-> Passed, prior |-> Failed], highVol |-> TRUE],
     [performance |-> [Traded EXCEPT !.trades = 3], robustness |-> Generalizing, highVol |-> TRUE]}
=============================================================================
