------------------------------ MODULE FirmGrowth ------------------------------
(* The firm measured by its results: outcomes of trades are recorded, in time *)
(* or late, and at any moment the performance, the equity curve, the health   *)
(* report, the priorities of research and the weekend brief are worked out    *)
(* from all of them.  What the other measures of health say comes and goes.   *)
EXTENDS TradeOutcomes, FirmAnalytics, FirmHealth, WeekendBrief

CONSTANTS Caution, Halt,   \* caution_drawdown_pct and halt_drawdown_pct
          Champion,        \* the strategy_version the weekend service looks at
          MaxChallengers   \* ChallengerResearchWorker.maximum_challengers

ASSUME ThresholdsAssumption ==
    /\ {Caution, Halt} \subseteq 1..100 /\ Caution < Halt
    /\ MaxChallengers \in Nat \ {0}

VARIABLES elsewhere,    \* the measures of health that do not come from outcomes
          performance,  \* summarize of all outcomes
          capital,      \* the equity curve evaluate draws through all outcomes
          own           \* summarize of the outcomes of the champion only

summaries == <<performance, capital, own>>
vars == <<outcomes, elsewhere, summaries>>

Elsewhere == {"mt5", "kronos", "costs", "archive", "queue"}

\* The summaries are always worked out from scratch, by whoever asks for them.
Own(rows) == {t \in Recorded(rows) : Reports[t].strategy = Champion}
Summarize(rows) ==
    /\ performance' = Performance(InClosingOrder(rows, Recorded(rows)))
    /\ capital' = Growth(InClosingOrder(rows, Recorded(rows)))
    /\ own' = Performance(InClosingOrder(rows, Own(rows)))

Init ==
    /\ OutcomesInit
    /\ elsewhere = [m \in Elsewhere |-> 0]
    /\ performance = NoTrades /\ capital = NoGrowth /\ own = NoTrades

Close ==
    /\ \E t \in Trades, exit \in Exits, at \in Times :
          Record(t, exit, at) /\ Summarize(With(t, exit, at))
    /\ UNCHANGED elsewhere

\* A terminal disconnects, an archive recovers: one measure changes.
Drift ==
    /\ \E m \in Elsewhere : elsewhere' = [elsewhere EXCEPT ![m] = 1 - @]
    /\ UNCHANGED <<outcomes, summaries>>

Next == Close \/ Drift

Spec == Init /\ [][Next]_vars

-----------------------------------------------------------------------------
(* What is read off the summaries.                                            *)

Bad(condition) == IF condition THEN 1 ELSE 0
Firm ==
    [mt5 |-> elsewhere.mt5, kronos |-> elsewhere.kronos, costs |-> elsewhere.costs,
     archive |-> elsewhere.archive, queue |-> elsewhere.queue,
     capital |-> Bad(~Preserved(capital)), growth |-> Bad(~Profitable(capital)),
     expectancy |-> Bad(performance.total <= 0),
     drawdown |-> Bad(AtLeast(capital.drawdown, Percent(Caution)))
                  + Bad(AtLeast(capital.drawdown, Percent(Halt)))]

\* The brief looks at the outcomes of one strategy only.
BriefWith(robustness, highVol) ==
    [performance |-> own, robustness |-> robustness, highVol |-> highVol]

-----------------------------------------------------------------------------
(* Properties                                                                 *)

\* No task is given a priority that the queue would refuse.
TypeOK ==
    /\ OutcomesTypeOK
    /\ elsewhere \in [Elsewhere -> 0..1]
    /\ LET firm == Firm IN
          firm \in Firms /\ \A k \in Kinds : PriorityFor(firm, k) \in 0..100

\* When nothing measured gets better and something gets worse, no judgement gets
\* milder: the status does not improve, trading is not given more risk, and no kind
\* of research becomes less urgent, even where the words of the reasons change.
WorseIsNeverMilder ==
    [][LET before == Firm
           after == Firm'
       IN  (\A m \in Measures : after[m] >= before[m]) =>
              /\ Rank(Status(after)) >= Rank(Status(before))
              /\ RiskMultiplier(after) <= RiskMultiplier(before)
              /\ \A k \in Kinds : PriorityFor(after, k) >= PriorityFor(before, k)]_vars

\* The trade that is recorded closed after all that were recorded before.
RecordedInTime ==
    \A t \in Recorded(outcomes') \ Recorded(outcomes) : \A u \in Recorded(outcomes) :
        outcomes[u].at < outcomes'[t].at

\* What was lost is never forgotten: an outcome that is recorded in time takes back
\* neither the deepest drawdown in R nor that of the equity curve, nor a breach of
\* the preservation of capital, however large the win.
LossesAreRemembered ==
    [][RecordedInTime =>
          /\ performance'.drawdown >= performance.drawdown
          /\ AtLeast(capital'.drawdown, capital.drawdown)
          /\ ~Preserved(capital) => ~Preserved(capital')]_vars

\* A firm that lost everything is halted from then on, although the trade that took
\* the last of it is never measured as a drawdown.
RuinHalts ==
    [][capital'.equity = 0 \/ (capital.equity = 0 /\ RecordedInTime) =>
          Status(Firm') = "halt"]_vars

\* However many problems a weekend finds at once, a champion whose drawdown calls for
\* control gets a challenger that risks less: the cut after MaxChallengers hypotheses
\* falls on others.
Tests == {Untested} \union [positive : {0, 2, 3}, total : {5}]
DrawdownIsAnswered ==
    \A robustness \in [cross : Tests, prior : Tests], highVol \in BOOLEAN :
        LET b == BriefWith(robustness, highVol) IN
        Eligible(b) /\ b.performance.drawdown >= DrawdownLimit =>
            "LOWER_TRADE_RISK" \in Tested(b, MaxChallengers)

\* A late loss or win may do otherwise: the curve is worked out anew from the middle.
EvenLateOutcomesRemember ==
    [][performance'.drawdown >= performance.drawdown]_vars

\* A healthy firm has no urgent problem to reorder research around.
HealthyFirmReordersNothing ==
    Status(Firm) = "healthy" =>
        \A k \in Kinds : k.type # "sunday_validation" => PriorityFor(Firm, k) = NormalBase
=============================================================================
