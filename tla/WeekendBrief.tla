----------------------------- MODULE WeekendBrief -----------------------------
(* WeekendResearchService turns the realized outcomes and the robustness      *)
(* tests of a weekend into a brief of priority codes, and the challenger      *)
(* worker turns the codes into the hypotheses it will test.                   *)
EXTENDS Integers, Sequences

CONSTANTS MinOutcomes,   \* minimum_outcomes_for_research
          MinForecasts,  \* forecast samples from which accuracy is judged
          DrawdownLimit  \* the drawdown in R that calls for control

ASSUME BriefAssumption ==
    /\ MinOutcomes \in Nat \ {0}
    /\ MinForecasts \in Nat \ {0}
    /\ DrawdownLimit \in Nat \ {0}

\* How many of the walk-forward tests of one kind had a positive mean return.
Untested == [positive |-> 0, total |-> 0]
RateAtLeast(tests, percent) == 100 * tests.positive >= percent * tests.total

\* _robustness.  A brief without a protocol result is like one without tests: it
\* gets no code from here.
Classification(r) ==
    CASE r.cross = Untested \/ r.prior = Untested -> "insufficient_robustness_evidence"
      [] RateAtLeast(r.cross, 60) /\ RateAtLeast(r.prior, 60) -> "generalizing"
      [] ~RateAtLeast(r.cross, 40) /\ ~RateAtLeast(r.prior, 40) -> "overfit_risk"
      [] RateAtLeast(r.cross, 60) /\ ~RateAtLeast(r.prior, 40) -> "time_specific_risk"
      [] ~RateAtLeast(r.cross, 40) /\ RateAtLeast(r.prior, 60) -> "symbol_specific_risk"
      [] OTHER -> "mixed"

\* _priorities, as the set of its codes; p is a FirmPerformanceSummary.
Found(code, condition) == IF condition THEN {code} ELSE {}
Problems(p, r) ==
    Found("INSUFFICIENT_OUTCOMES", p.trades = 0)
    \union Found("NONPOSITIVE_EXPECTANCY", p.trades > 0 /\ p.total <= 0)
    \union Found("KRONOS_DIRECTION_CALIBRATION",
                 p.forecasts >= MinForecasts /\ 2 * p.correct < p.forecasts)
    \union Found("DRAWDOWN_CONTROL", p.drawdown >= DrawdownLimit)
    \union Found("OVERFIT_RISK", Classification(r) = "overfit_risk")
    \union Found("TEMPORAL_ROBUSTNESS", Classification(r) = "time_specific_risk")
    \union Found("CROSS_SYMBOL_GENERALIZATION", Classification(r) = "symbol_specific_risk")
Codes(p, r) ==
    IF Problems(p, r) = {} THEN {"ROBUSTNESS_VALIDATION"} ELSE Problems(p, r)

\* A brief: the performance, the robustness and the regime of the factor snapshot.
Eligible(b) == b.performance.trades >= MinOutcomes

\* ChallengerResearchWorker._hypotheses, in the order in which they are tested.
Test(hypotheses, condition) == IF condition THEN hypotheses ELSE <<>>
IdeasVolFirst(codes, highVol) ==  \* mutant of Ideas
    Test(<<"HIGH_VOL_FILTER">>, highVol)
    \o Test(<<"LOWER_KRONOS_WEIGHT", "SHORTER_KRONOS_HORIZON">>,
            "KRONOS_DIRECTION_CALIBRATION" \in codes)
    \o Test(<<"HIGHER_ABSTENTION_THRESHOLD">>,
            codes \intersect {"OVERFIT_RISK", "TEMPORAL_ROBUSTNESS"} # {})
    \o Test(<<"LOWER_TRADE_RISK">>, "DRAWDOWN_CONTROL" \in codes)
Ideas(codes, highVol) ==
    Test(<<"LOWER_KRONOS_WEIGHT", "SHORTER_KRONOS_HORIZON">>,
         "KRONOS_DIRECTION_CALIBRATION" \in codes)
    \o Test(<<"HIGHER_ABSTENTION_THRESHOLD">>,
            codes \intersect {"OVERFIT_RISK", "TEMPORAL_ROBUSTNESS"} # {})
    \o Test(<<"LOWER_TRADE_RISK">>, "DRAWDOWN_CONTROL" \in codes)
    \o Test(<<"HIGH_VOL_FILTER">>, highVol)
Hypotheses(b) ==
    LET ideas == Ideas(Codes(b.performance, b.robustness), b.highVol)
    IN  IF ideas = <<>> THEN <<"ROBUSTNESS_CONTROL">> ELSE ideas
\* maximum_challengers cuts the list off.
Tested(b, limit) ==
    {Hypotheses(b)[i] : i \in {j \in 1..limit : j <= Len(Hypotheses(b))}}
=============================================================================
