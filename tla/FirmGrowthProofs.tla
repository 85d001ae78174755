--------------------------- MODULE FirmGrowthProofs ---------------------------
(* What is decided from the outcomes of trades, for every number of trades,   *)
(* every price and every threshold.                                           *)
EXTENDS FirmGrowth, FiniteSetTheorems, WellFoundedInduction, TLAPS

-----------------------------------------------------------------------------
(* Health and priorities.                                                     *)

LEMMA FirmIsOne == elsewhere \in [Elsewhere -> 0..1] => Firm \in Firms
<1> SUFFICES ASSUME elsewhere \in [Elsewhere -> 0..1] PROVE Firm \in Firms
  OBVIOUS
<1>1. \A m \in Elsewhere : elsewhere[m] \in 0..1
  OBVIOUS
<1>2. \A condition \in BOOLEAN : Bad(condition) \in 0..1
  BY DEF Bad
<1>3. /\ Bad(~Preserved(capital)) \in 0..1 /\ Bad(~Profitable(capital)) \in 0..1
      /\ Bad(performance.total <= 0) \in 0..1
      /\ Bad(AtLeast(capital.drawdown, Percent(Caution)))
         + Bad(AtLeast(capital.drawdown, Percent(Halt))) \in 0..2
  BY DEF Bad
<1>4. {"mt5", "kronos", "costs", "archive", "queue"} = Elsewhere
  BY DEF Elsewhere
<1> QED
  BY <1>1, <1>3, <1>4 DEF Firm, Firms

LEMMA PrioritiesAreLegal ==
    ASSUME NEW f, NEW k PROVE PriorityFor(f, k) \in 0..100
<1>1. Base(f) \in Int
  BY BasesAssumption DEF Base
<1>2. Boost(f, k) \in Int
  BY DEF Boost, When
<1>3. Base(f) + Boost(f, k) \in Int
  BY <1>1, <1>2
<1> QED
  BY <1>3 DEF PriorityFor, Clamp

LEMMA ByStatus ==
    ASSUME NEW f
    PROVE  \/ /\ Status(f) = "halt" /\ Base(f) = UrgentBase
              /\ RiskMultiplier(f) = 0 /\ Rank(Status(f)) = 2
           \/ /\ Status(f) = "caution" /\ Base(f) = ElevatedBase
              /\ RiskMultiplier(f) = 50 /\ Rank(Status(f)) = 1
           \/ /\ Status(f) = "healthy" /\ Base(f) = NormalBase
              /\ RiskMultiplier(f) = 100 /\ Rank(Status(f)) = 0
<1>1. CASE Status(f) = "halt"
  <2>1. Status(f) # "caution" /\ Status(f) # "healthy"
    BY <1>1
  <2> QED
    BY <1>1, <2>1, Zenon DEF Base, RiskMultiplier, Rank
<1>2. CASE Status(f) = "caution"
  <2>1. Status(f) # "halt" /\ Status(f) # "healthy"
    BY <1>2
  <2> QED
    BY <1>2, <2>1, Zenon DEF Base, RiskMultiplier, Rank
<1>3. CASE Status(f) = "healthy"
  <2>1. Status(f) # "halt" /\ Status(f) # "caution"
    BY <1>3
  <2> QED
    BY <1>3, <2>1, Zenon DEF Base, RiskMultiplier, Rank
<1> QED
  BY <1>1, <1>2, <1>3 DEF Status

\* Every measure of one firm is as bad as that of the other, or worse.
Worse(f, g) == \A m \in Measures : g[m] >= f[m]

\* What every step of a deterioration does to the status.
LEMMA StatusWorsens ==
    ASSUME NEW f \in Firms, NEW g \in Firms, Worse(f, g)
    PROVE  /\ Status(f) = "halt" => Status(g) = "halt"
           /\ Status(f) = "caution" => Status(g) # "healthy"
<1>1. /\ \A m \in Measures \ {"drawdown"} : f[m] \in 0..1 /\ g[m] \in 0..1
      /\ f.drawdown \in 0..2 /\ g.drawdown \in 0..2
  BY DEF Firms, Measures
<1>2. \A m \in Measures : g[m] >= f[m] /\ f[m] \in Int /\ g[m] \in Int
  BY <1>1 DEF Worse, Measures
<1>3. Halts(f) => Halts(g)
  BY <1>1, <1>2 DEF Halts, Measures
<1>4. Worries(f) => Worries(g)
  BY <1>2 DEF Worries
<1> QED
  BY <1>3, <1>4 DEF Status

LEMMA WordIsMentioned ==
    ASSUME NEW f, NEW w
    PROVE  w \in Mentions(f) <=>
             \/ w = "capital" /\ (1 \in {f.capital, f.growth} \/ Status(f) = "healthy")
             \/ w = "drawdown" /\ f.drawdown >= 1
             \/ w = "expectancy" /\ f.expectancy = 1
             \/ w = "kronos" /\ f.kronos = 1
             \/ w = "execution costs" /\ f.costs = 1
             \/ w = "archive" /\ f.archive = 1
             \/ w = "task queue" /\ f.queue = 1
<1> DEFINE grows == 1 \in {f.capital, f.growth} \/ Status(f) = "healthy"
<1>1. /\ w \in Says("capital", grows) <=> w = "capital" /\ grows
      /\ w \in Says("drawdown", f.drawdown >= 1) <=> w = "drawdown" /\ f.drawdown >= 1
      /\ w \in Says("expectancy", f.expectancy = 1) <=> w = "expectancy" /\ f.expectancy = 1
      /\ w \in Says("kronos", f.kronos = 1) <=> w = "kronos" /\ f.kronos = 1
      /\ w \in Says("execution costs", f.costs = 1) <=> w = "execution costs" /\ f.costs = 1
      /\ w \in Says("archive", f.archive = 1) <=> w = "archive" /\ f.archive = 1
      /\ w \in Says("task queue", f.queue = 1) <=> w = "task queue" /\ f.queue = 1
  BY DEF Says
<1>2. w \in Mentions(f) <=>
        \/ w \in Says("capital", grows)
        \/ w \in Says("drawdown", f.drawdown >= 1)
        \/ w \in Says("expectancy", f.expectancy = 1)
        \/ w \in Says("kronos", f.kronos = 1)
        \/ w \in Says("execution costs", f.costs = 1)
        \/ w \in Says("archive", f.archive = 1)
        \/ w \in Says("task queue", f.queue = 1)
  BY Zenon DEF Mentions
<1> QED
  BY <1>1, <1>2, Zenon

\* A firm that is not healthy keeps every word when it gets worse.
LEMMA WordsStay ==
    ASSUME NEW f \in Firms, NEW g \in Firms, Worse(f, g), Status(f) # "healthy"
    PROVE  Mentions(f) \subseteq Mentions(g)
<1>1. /\ f.capital \in 0..1 /\ f.growth \in 0..1 /\ f.drawdown \in 0..2
      /\ f.expectancy \in 0..1 /\ f.kronos \in 0..1 /\ f.costs \in 0..1
      /\ f.archive \in 0..1 /\ f.queue \in 0..1
      /\ g.capital \in 0..1 /\ g.growth \in 0..1 /\ g.drawdown \in 0..2
      /\ g.expectancy \in 0..1 /\ g.kronos \in 0..1 /\ g.costs \in 0..1
      /\ g.archive \in 0..1 /\ g.queue \in 0..1
  BY DEF Firms
<1>2. /\ g.capital >= f.capital /\ g.growth >= f.growth /\ g.drawdown >= f.drawdown
      /\ g.expectancy >= f.expectancy /\ g.kronos >= f.kronos /\ g.costs >= f.costs
      /\ g.archive >= f.archive /\ g.queue >= f.queue
  BY DEF Worse, Measures
<1>3. /\ 1 \in {f.capital, f.growth} => 1 \in {g.capital, g.growth}
      /\ f.drawdown >= 1 => g.drawdown >= 1
      /\ f.expectancy = 1 => g.expectancy = 1
      /\ f.kronos = 1 => g.kronos = 1
      /\ f.costs = 1 => g.costs = 1
      /\ f.archive = 1 => g.archive = 1
      /\ f.queue = 1 => g.queue = 1
  BY <1>1, <1>2
<1>4. ASSUME NEW w, w \in Mentions(f) PROVE w \in Mentions(g)
  BY <1>3, <1>4, WordIsMentioned, Zenon
<1> QED
  BY <1>4

\* A healthy firm says that its capital grows and nothing else.
LEMMA HealthyWords ==
    ASSUME NEW f \in Firms, Status(f) = "healthy"
    PROVE  Mentions(f) = {"capital"}
<1>1. \A m \in Measures \ {"mt5", "capital"} : ~(f[m] >= 1)
  BY DEF Status, Worries
<1>2. /\ ~(f.drawdown >= 1) /\ f.expectancy # 1 /\ f.kronos # 1 /\ f.costs # 1
      /\ f.archive # 1 /\ f.queue # 1
  BY <1>1 DEF Measures
<1> QED
  BY <1>2 DEF Mentions, Says

\* The parts of a boost, each for some words and some research.
Trials(said, k) == When(said \cap Money # {} /\ k.type \in Economic, 8)
RiskIdeas(said, k) == When(said \cap Money # {} /\ k.words \cap RiskWords # {}, 8)
CostTrials(said, k) == When("execution costs" \in said /\ k.type = "cost_regime_evaluation", 12)
ModelIdeas(said, k) == When("kronos" \in said /\ k.words \cap ModelWords # {}, 10)
ModelTrials(said, k) == When("kronos" \in said /\ k.type = "backtest_campaign", 4)
Repairs(said, k) ==
    When(said \cap {"archive", "task queue"} # {} /\ k.type \in HealthChecks, 12)
Sunday(k) == When(k.type = "sunday_validation", 5)

LEMMA BoostIs ==
    ASSUME NEW f, NEW k
    PROVE  LET said == Mentions(f) IN
           /\ Boost(f, k) = Trials(said, k) + RiskIdeas(said, k) + CostTrials(said, k)
                            + ModelIdeas(said, k) + ModelTrials(said, k) + Repairs(said, k)
                            - Sunday(k)
           /\ Trials(said, k) \in {0, 8} /\ RiskIdeas(said, k) \in {0, 8}
           /\ CostTrials(said, k) \in {0, 12} /\ ModelIdeas(said, k) \in {0, 10}
           /\ ModelTrials(said, k) \in {0, 4} /\ Repairs(said, k) \in {0, 12}
           /\ Sunday(k) \in {0, 5}
<1> USE DEF Trials, RiskIdeas, CostTrials, ModelIdeas, ModelTrials, Repairs, Sunday
<1> DEFINE said == Mentions(f)
<1>1. Boost(f, k) = Trials(said, k) + RiskIdeas(said, k) + CostTrials(said, k)
                    + ModelIdeas(said, k) + ModelTrials(said, k) + Repairs(said, k) - Sunday(k)
  BY DEF Boost
<1>2. /\ Trials(said, k) \in {0, 8} /\ RiskIdeas(said, k) \in {0, 8}
      /\ CostTrials(said, k) \in {0, 12} /\ ModelIdeas(said, k) \in {0, 10}
      /\ ModelTrials(said, k) \in {0, 4} /\ Repairs(said, k) \in {0, 12}
      /\ Sunday(k) \in {0, 5}
  BY DEF When
<1> QED
  BY <1>1, <1>2

\* More words, no less urgency.
LEMMA BoostGrows ==
    ASSUME NEW f, NEW g, NEW k, Mentions(f) \subseteq Mentions(g)
    PROVE  Boost(g, k) >= Boost(f, k)
<1> DEFINE said == Mentions(f)
           more == Mentions(g)
<1>1. /\ said \cap Money # {} => more \cap Money # {}
      /\ "execution costs" \in said => "execution costs" \in more
      /\ "kronos" \in said => "kronos" \in more
      /\ said \cap {"archive", "task queue"} # {} => more \cap {"archive", "task queue"} # {}
  OBVIOUS
<1> HIDE DEF said, more
<1>2. /\ Trials(said, k) = 8 => Trials(more, k) = 8
      /\ RiskIdeas(said, k) = 8 => RiskIdeas(more, k) = 8
  BY <1>1 DEF When, Trials, RiskIdeas
<1>3. CostTrials(said, k) = 12 => CostTrials(more, k) = 12
  BY <1>1 DEF When, CostTrials
<1>4. /\ ModelIdeas(said, k) = 10 => ModelIdeas(more, k) = 10
      /\ ModelTrials(said, k) = 4 => ModelTrials(more, k) = 4
  BY <1>1 DEF When, ModelIdeas, ModelTrials
<1>5. Repairs(said, k) = 12 => Repairs(more, k) = 12
  BY <1>1 DEF When, Repairs
<1> QED
  BY <1>2, <1>3, <1>4, <1>5, BoostIs DEF said, more

\* A healthy firm's one word is worth at most the step to the next base.
LEMMA HealthyBoost ==
    ASSUME NEW f \in Firms, NEW g, NEW k, Status(f) = "healthy"
    PROVE  Boost(f, k) \in Int /\ Boost(g, k) \in Int /\ Boost(f, k) <= Boost(g, k) + 16
<1> DEFINE said == Mentions(f)
<1>1. said = {"capital"}
  BY HealthyWords
<1>2. CostTrials(said, k) = 0
  BY <1>1 DEF When, CostTrials
<1>3. ModelIdeas(said, k) = 0 /\ ModelTrials(said, k) = 0
  BY <1>1 DEF When, ModelIdeas, ModelTrials
<1>4. Repairs(said, k) = 0
  BY <1>1 DEF When, Repairs
<1> QED
  BY <1>2, <1>3, <1>4, BoostIs

\* What is said to be worse is never treated as better.
LEMMA NeverMilder ==
    ASSUME NEW f \in Firms, NEW g \in Firms, Worse(f, g), NormalBase + 16 <= ElevatedBase
    PROVE  /\ Rank(Status(g)) >= Rank(Status(f))
           /\ RiskMultiplier(g) <= RiskMultiplier(f)
           /\ \A k \in Kinds : PriorityFor(g, k) >= PriorityFor(f, k)
<1>1. /\ Status(f) = "halt" => Status(g) = "halt"
      /\ Status(f) = "caution" => Status(g) # "healthy"
  BY StatusWorsens
<1>2. Rank(Status(g)) >= Rank(Status(f)) /\ RiskMultiplier(g) <= RiskMultiplier(f)
  BY <1>1, ByStatus
<1>3. ASSUME NEW k \in Kinds PROVE Base(g) + Boost(g, k) >= Base(f) + Boost(f, k)
  <2>1. NormalBase \in Int /\ ElevatedBase \in Int /\ UrgentBase \in Int
        /\ NormalBase <= ElevatedBase /\ ElevatedBase <= UrgentBase
    BY BasesAssumption
  <2>2. Boost(f, k) \in Int /\ Boost(g, k) \in Int
    BY DEF Boost, When
  <2>3. CASE Status(f) # "healthy"
    <3>1. Boost(g, k) >= Boost(f, k)
      BY <2>3, WordsStay, BoostGrows
    <3>2. Base(g) \in Int /\ Base(f) \in Int /\ Base(g) >= Base(f)
      BY <1>1, <2>1, <2>3, ByStatus
    <3> QED
      BY <2>2, <3>1, <3>2
  <2>4. CASE Status(f) = "healthy" /\ Status(g) # "healthy"
    <3>1. Boost(f, k) <= Boost(g, k) + 16
      BY <2>4, HealthyBoost
    <3>2. Base(f) = NormalBase /\ Base(g) \in Int /\ Base(g) >= ElevatedBase
      BY <2>1, <2>4, ByStatus
    <3> QED
      BY <2>1, <2>2, <3>1, <3>2
  <2>5. CASE Status(f) = "healthy" /\ Status(g) = "healthy"
    <3>1. Mentions(f) \subseteq Mentions(g)
      BY <2>5, HealthyWords
    <3>2. Boost(g, k) >= Boost(f, k)
      BY <3>1, BoostGrows
    <3>3. Base(f) = NormalBase /\ Base(g) = NormalBase
      BY <2>5, ByStatus
    <3> QED
      BY <2>1, <2>2, <3>2, <3>3
  <2> QED
    BY <2>3, <2>4, <2>5
<1>4. ASSUME NEW k \in Kinds PROVE PriorityFor(g, k) >= PriorityFor(f, k)
  <2>1. Base(f) \in Int /\ Base(g) \in Int
    BY BasesAssumption, ByStatus
  <2>2. Boost(f, k) \in Int /\ Boost(g, k) \in Int
    BY DEF Boost, When
  <2>3. \A m, n \in Int : m >= n => Clamp(m) >= Clamp(n)
    BY DEF Clamp
  <2>4. Base(f) + Boost(f, k) \in Int /\ Base(g) + Boost(g, k) \in Int
    BY <2>1, <2>2
  <2> QED
    BY <1>3, <2>3, <2>4 DEF PriorityFor
<1> QED
  BY <1>2, <1>4

-----------------------------------------------------------------------------
(* The rows.                                                                  *)

Typed ==
    /\ OutcomesTypeOK
    /\ elsewhere \in [Elsewhere -> 0..1]
    /\ Firm \in Firms

LEMMA ReportIs ==
    ASSUME NEW t \in Trades
    PROVE  /\ Reports[t].side \in {-1, 1} /\ Reports[t].entry \in Nat
           /\ Distance(Reports[t]) \in Nat
<1> DEFINE Rows == [accepted : BOOLEAN, side : {-1, 1}, entry : Nat \ {0},
                    stop : Nat \ {0}, forecast : {-1, 0, 1}, strategy : STRING]
<1>1. Reports \in Seq(Rows)
  BY ReportsAssumption
<1> HIDE DEF Rows
<1>2. Reports[t] \in Rows
  BY <1>1 DEF Trades
<1>3. /\ Reports[t].side \in {-1, 1} /\ Reports[t].entry \in Nat /\ Reports[t].stop \in Nat
  BY <1>2 DEF Rows
<1> QED
  BY <1>3 DEF Distance

\* A row is a whole number of R and says what became of the forecast.
LEMMA RowIsOutcome ==
    ASSUME NEW t \in Trades, NEW exit \in Exits, NEW at \in Times,
           Distance(Reports[t]) > 0
    PROVE  OutcomeOf(Reports[t], exit, at) \in Outcome
<1>1. /\ Reports[t].side \in Int /\ Reports[t].entry \in Int /\ exit \in Int
      /\ Distance(Reports[t]) \in Nat \ {0}
  BY ReportIs, ReportsAssumption
<1> DEFINE won == (exit - Reports[t].entry) * Reports[t].side
           by == Distance(Reports[t])
<1>2. won \in Int /\ by \in Nat \ {0}
  BY <1>1
<1> HIDE DEF won, by
<1>3. won \div by \in Int
  BY <1>2
<1>4. ROf(Reports[t], exit) \in Int
  BY <1>3 DEF ROf, won, by
<1>5. DirectionOf(Reports[t], exit) \in {"none", "right", "wrong"}
  BY DEF DirectionOf
<1> QED
  BY <1>4, <1>5 DEF OutcomeOf, Outcome

LEMMA InitTyped == Init => Typed
<1> SUFFICES ASSUME Init PROVE Typed
  OBVIOUS
<1>1. elsewhere \in [Elsewhere -> 0..1]
  BY DEF Init
<1> QED
  BY <1>1, FirmIsOne DEF Init, OutcomesInit, OutcomesTypeOK, Typed

LEMMA NextTyped == Typed /\ [Next]_vars => OutcomesTypeOK' /\ elsewhere' \in [Elsewhere -> 0..1]
<1> SUFFICES ASSUME Typed, [Next]_vars
             PROVE  OutcomesTypeOK' /\ elsewhere' \in [Elsewhere -> 0..1]
  OBVIOUS
<1>1. CASE Close
  <2>1. PICK t \in Trades, exit \in Exits, at \in Times : Record(t, exit, at)
    BY <1>1 DEF Close
  <2>2. OutcomeOf(Reports[t], exit, at) \in Outcome
    BY <2>1, RowIsOutcome DEF Record, MayRecord
  <2>3. OutcomesTypeOK'
    BY <2>1, <2>2 DEF Record, With, Typed, OutcomesTypeOK
  <2> QED
    BY <1>1, <2>3 DEF Close, Typed
<1>2. CASE Drift
  <2>1. PICK m \in Elsewhere : elsewhere' = [elsewhere EXCEPT ![m] = 1 - @]
    BY <1>2 DEF Drift
  <2>2. 1 - elsewhere[m] \in 0..1
    BY DEF Typed
  <2> QED
    BY <1>2, <2>1, <2>2 DEF Drift, Typed, OutcomesTypeOK
<1>3. CASE UNCHANGED vars
  BY <1>3 DEF vars, Typed, OutcomesTypeOK
<1> QED
  BY <1>1, <1>2, <1>3 DEF Next

LEMMA TypedInvariant == Spec => []Typed
<1> DEFINE Shape == OutcomesTypeOK /\ elsewhere \in [Elsewhere -> 0..1]
<1>1. Shape => Typed
  BY FirmIsOne DEF Typed
<1>2. Init => Shape
  BY InitTyped DEF Typed
<1>3. Shape /\ [Next]_vars => Shape'
  BY <1>1, NextTyped
<1> HIDE DEF Shape
<1> QED
  BY <1>1, <1>2, <1>3, PTL DEF Spec

\* Whatever is measured, every kind of research gets a priority the queue accepts
\* (ResearchPriorityPolicy.priority_for).
THEOREM TypeCorrect == Spec => []TypeOK
<1>1. Typed => TypeOK
  BY PrioritiesAreLegal DEF Typed, TypeOK
<1> QED
  BY <1>1, TypedInvariant, PTL

\* When a firm only gets worse, no judgement of it gets milder, although a healthy
\* firm says that its capital grows and the policy finds "capital" in those words: the
\* bonus of 16 that this is worth is not more than the step from the normal base to the
\* elevated one (FirmHealthGrowthMonitor.evaluate, ResearchPriorityPolicy.priority_for).
THEOREM WorseNeverMilder ==
    ASSUME NormalBase + 16 <= ElevatedBase PROVE Spec => WorseIsNeverMilder
<1>1. ASSUME Typed, Typed'
      PROVE  LET before == Firm
                 after == Firm'
             IN  (\A m \in Measures : after[m] >= before[m]) =>
                    /\ Rank(Status(after)) >= Rank(Status(before))
                    /\ RiskMultiplier(after) <= RiskMultiplier(before)
                    /\ \A k \in Kinds : PriorityFor(after, k) >= PriorityFor(before, k)
  <2> DEFINE f == Firm
             g == Firm'
  <2>1. f \in Firms /\ g \in Firms
    BY <1>1 DEF Typed
  <2> HIDE DEF f, g
  <2>2. ASSUME \A m \in Measures : g[m] >= f[m]
        PROVE  /\ Rank(Status(g)) >= Rank(Status(f))
               /\ RiskMultiplier(g) <= RiskMultiplier(f)
               /\ \A k \in Kinds : PriorityFor(g, k) >= PriorityFor(f, k)
    BY <2>1, <2>2, NeverMilder DEF Worse
  <2> QED
    BY <2>2 DEF f, g
<1> QED
  BY <1>1, TypedInvariant, PTL DEF WorseIsNeverMilder

-----------------------------------------------------------------------------
(* The weekend's answer to a drawdown.                                        *)

LEMMA ThirdPart ==
    ASSUME NEW S, NEW a \in Seq(S), NEW b \in Seq(S), NEW x \in S, NEW d \in Seq(S)
    PROVE  LET s == a \o b \o <<x>> \o d IN
           /\ Len(a) + Len(b) + 1 <= Len(s)
           /\ s[Len(a) + Len(b) + 1] = x
<1>1. a \o b \in Seq(S) /\ Len(a \o b) = Len(a) + Len(b)
  OBVIOUS
<1> DEFINE front == a \o b
<1>2. front \o <<x>> \in Seq(S) /\ Len(front \o <<x>>) = Len(front) + 1
      /\ (front \o <<x>>)[Len(front) + 1] = x
  BY <1>1
<1> HIDE DEF front
<1> DEFINE middle == front \o <<x>>
<1>3. middle \in Seq(S) /\ Len(middle) = Len(front) + 1 /\ middle[Len(front) + 1] = x
  BY <1>2
<1> HIDE DEF middle
<1>4. Len(front) \in Nat
  BY <1>1 DEF front
<1>5. /\ Len(front) + 1 <= Len(middle \o d)
      /\ (middle \o d)[Len(front) + 1] = x
  BY <1>3, <1>4
<1> QED
  BY <1>1, <1>5 DEF front, middle

Experiments == {"LOWER_KRONOS_WEIGHT", "SHORTER_KRONOS_HORIZON", "HIGHER_ABSTENTION_THRESHOLD",
                "LOWER_TRADE_RISK", "HIGH_VOL_FILTER"}

\* The challenger that risks less is among the first four, whatever else is found.
LEMMA AmongTheFirst ==
    ASSUME NEW codes, "DRAWDOWN_CONTROL" \in codes, NEW highVol \in BOOLEAN
    PROVE  \E i \in 1..4 : /\ i <= Len(Ideas(codes, highVol))
                           /\ Ideas(codes, highVol)[i] = "LOWER_TRADE_RISK"
<1> DEFINE a == Test(<<"LOWER_KRONOS_WEIGHT", "SHORTER_KRONOS_HORIZON">>,
                     "KRONOS_DIRECTION_CALIBRATION" \in codes)
           b == Test(<<"HIGHER_ABSTENTION_THRESHOLD">>,
                     codes \intersect {"OVERFIT_RISK", "TEMPORAL_ROBUSTNESS"} # {})
           d == Test(<<"HIGH_VOL_FILTER">>, highVol)
<1>0. /\ <<"LOWER_KRONOS_WEIGHT", "SHORTER_KRONOS_HORIZON">> \in Seq(Experiments)
      /\ <<"HIGHER_ABSTENTION_THRESHOLD">> \in Seq(Experiments) /\ <<"HIGH_VOL_FILTER">> \in Seq(Experiments)
      /\ <<>> \in Seq(Experiments)
  <2>1. /\ "LOWER_KRONOS_WEIGHT" \in Experiments /\ "SHORTER_KRONOS_HORIZON" \in Experiments
        /\ "HIGHER_ABSTENTION_THRESHOLD" \in Experiments /\ "HIGH_VOL_FILTER" \in Experiments
    BY DEF Experiments
  <2>2. \A S : \A x, y \in S : <<>> \in Seq(S) /\ <<x>> \in Seq(S) /\ <<x, y>> \in Seq(S)
    OBVIOUS
  <2> QED
    BY <2>1, <2>2
<1>1. a \in Seq(Experiments) /\ Len(a) \in {0, 2}
  <2>1. a = <<"LOWER_KRONOS_WEIGHT", "SHORTER_KRONOS_HORIZON">> \/ a = <<>>
    BY Zenon DEF Test
  <2> HIDE DEF a
  <2> QED
    BY <1>0, <2>1
<1>2. b \in Seq(Experiments) /\ Len(b) \in {0, 1}
  <2>1. b = <<"HIGHER_ABSTENTION_THRESHOLD">> \/ b = <<>>
    BY Zenon DEF Test
  <2> HIDE DEF b
  <2> QED
    BY <1>0, <2>1
<1>3. d \in Seq(Experiments)
  BY <1>0, Zenon DEF Test
<1>4. Ideas(codes, highVol) = a \o b \o <<"LOWER_TRADE_RISK">> \o d
  BY DEF Ideas, Test
<1> HIDE DEF a, b, d
<1> DEFINE i == Len(a) + Len(b) + 1
<1>5. i \in 1..4
  <2>1. \A m \in {0, 2}, n \in {0, 1} : m + n + 1 \in 1..4
    OBVIOUS
  <2> QED
    BY <1>1, <1>2, <2>1
<1>6. LET s == a \o b \o <<"LOWER_TRADE_RISK">> \o d IN i <= Len(s) /\ s[i] = "LOWER_TRADE_RISK"
  <2>1. "LOWER_TRADE_RISK" \in Experiments
    BY DEF Experiments
  <2> QED
    BY <1>1, <1>2, <1>3, <2>1, ThirdPart
<1> HIDE DEF i
<1> QED
  BY <1>4, <1>5, <1>6

\* A champion whose drawdown calls for control gets a challenger that risks less,
\* however many other problems the weekend finds, unless fewer than four challengers
\* are tested at all (ChallengerResearchWorker._hypotheses, maximum_challengers).
THEOREM DrawdownAnswered ==
    ASSUME MaxChallengers >= 4 PROVE Spec => []DrawdownIsAnswered
<1>1. ASSUME NEW robustness, NEW highVol \in BOOLEAN,
             own.drawdown >= DrawdownLimit
      PROVE  "LOWER_TRADE_RISK" \in Tested(BriefWith(robustness, highVol), MaxChallengers)
  <2> DEFINE b == BriefWith(robustness, highVol)
             codes == Codes(own, robustness)
  <2>1. b.performance = own /\ b.robustness = robustness /\ b.highVol = highVol
    BY DEF BriefWith
  <2>2. "DRAWDOWN_CONTROL" \in codes
    <3>1. "DRAWDOWN_CONTROL" \in Found("DRAWDOWN_CONTROL", own.drawdown >= DrawdownLimit)
      BY <1>1 DEF Found
    <3>2. "DRAWDOWN_CONTROL" \in Problems(own, robustness)
      BY <3>1, Zenon DEF Problems
    <3> QED
      BY <3>2 DEF Codes
  <2> HIDE DEF codes
  <2>3. PICK i \in 1..4 : /\ i <= Len(Ideas(codes, highVol))
                          /\ Ideas(codes, highVol)[i] = "LOWER_TRADE_RISK"
    BY <2>2, AmongTheFirst
  <2>4. Hypotheses(b) = Ideas(codes, highVol)
    <3>1. Ideas(codes, highVol) # <<>>
      BY <2>3
    <3> QED
      BY <2>1, <3>1 DEF Hypotheses, codes
  <2> HIDE DEF b
  <2>5. i \in 1..MaxChallengers
    BY ThresholdsAssumption
  <2>6. "LOWER_TRADE_RISK" \in Tested(b, MaxChallengers)
    BY <2>3, <2>4, <2>5 DEF Tested
  <2> QED
    BY <2>6 DEF b
<1>2. DrawdownIsAnswered
  BY <1>1 DEF DrawdownIsAnswered, BriefWith
<1> QED
  BY <1>2, PTL

-----------------------------------------------------------------------------
(* The order of the rows.                                                     *)

RowsOK(rows) == rows \in [Trades -> Outcome \union {None}]

LEMMA TradesAreNumbers == IsFiniteSet(Trades) /\ Trades \subseteq Nat
<1>1. Reports \in Seq([accepted : BOOLEAN, side : {-1, 1}, entry : Nat \ {0},
                       stop : Nat \ {0}, forecast : {-1, 0, 1}, strategy : STRING])
  BY ReportsAssumption
<1>2. Trades = 1..Len(Reports) /\ Len(Reports) \in Nat
  BY <1>1 DEF Trades
<1>3. IsFiniteSet(1..Len(Reports))
  BY <1>2, FS_Interval
<1> QED
  BY <1>2, <1>3

LEMMA RecordedRows ==
    ASSUME NEW rows, RowsOK(rows)
    PROVE  /\ Recorded(rows) \subseteq Trades
           /\ \A t \in Recorded(rows) : rows[t] \in Outcome /\ rows[t].at \in Nat /\ t \in Nat
<1>1. ASSUME NEW t \in Recorded(rows) PROVE rows[t] \in Outcome
  BY DEF RowsOK, Recorded
<1> QED
  BY <1>1, TradesAreNumbers, ReportsAssumption DEF Outcome, Recorded

\* The rows no later than one, itself included.
UpTo(rows, T, t) == {u \in T : u = t \/ Earlier(rows, u, t)}

LEMMA PlaceIs ==
    ASSUME NEW rows, RowsOK(rows), NEW T \in SUBSET Recorded(rows)
    PROVE  /\ IsFiniteSet(T) /\ Cardinality(T) \in Nat
           /\ \A t \in T : /\ IsFiniteSet(UpTo(rows, T, t))
                           /\ Place(rows, T, t) = Cardinality(UpTo(rows, T, t))
                           /\ Place(rows, T, t) \in 1..Cardinality(T)
<1>1. IsFiniteSet(T) /\ Cardinality(T) \in Nat
  BY TradesAreNumbers, RecordedRows, FS_Subset, FS_CardinalityType
<1>2. ASSUME NEW t \in T
      PROVE  /\ IsFiniteSet(UpTo(rows, T, t))
             /\ Cardinality(UpTo(rows, T, t)) \in 1..Cardinality(T)
  <2>1. UpTo(rows, T, t) \subseteq T /\ t \in UpTo(rows, T, t)
    BY DEF UpTo
  <2> DEFINE U == UpTo(rows, T, t)
  <2> HIDE DEF U
  <2>2. U \subseteq T /\ U # {}
    BY <2>1 DEF U
  <2>3. IsFiniteSet(U) /\ Cardinality(U) <= Cardinality(T)
    BY <1>1, <2>2, FS_Subset
  <2>4. Cardinality(U) \in Nat /\ Cardinality(U) # 0
    BY <2>2, <2>3, FS_CardinalityType, FS_EmptySet
  <2> QED
    BY <1>1, <2>3, <2>4 DEF U
<1> QED
  BY <1>1, <1>2 DEF Place, UpTo

\* No two rows have one place: of two rows one is later, and comes after all that the
\* other comes after.
LEMMA PlacesDiffer ==
    ASSUME NEW rows, RowsOK(rows), NEW T \in SUBSET Recorded(rows), NEW t \in T, NEW u \in T,
           Earlier(rows, t, u)
    PROVE  Place(rows, T, t) < Place(rows, T, u)
<1>1. \A v \in T : rows[v].at \in Nat /\ v \in Nat
  BY RecordedRows
<1>2. ASSUME NEW v \in UpTo(rows, T, t) PROVE v \in UpTo(rows, T, u)
  BY <1>1 DEF UpTo, Earlier
<1>3. u \in UpTo(rows, T, u) /\ u \notin UpTo(rows, T, t)
  BY <1>1 DEF UpTo, Earlier
<1> DEFINE A == UpTo(rows, T, t)
           B == UpTo(rows, T, u)
<1>4. IsFiniteSet(B) /\ Place(rows, T, t) = Cardinality(A) /\ Place(rows, T, u) = Cardinality(B)
  BY PlaceIs
<1>5. A \subseteq B /\ A # B
  BY <1>2, <1>3
<1> HIDE DEF A, B
<1> QED
  <2>1. /\ Cardinality(A) \in Nat /\ Cardinality(B) \in Nat
        /\ Cardinality(A) <= Cardinality(B)
        /\ Cardinality(A) = Cardinality(B) => A = B
    BY <1>4, <1>5, FS_Subset, FS_CardinalityType
  <2> QED
    BY <1>4, <1>5, <2>1

\* Every place is taken, so the i-th row is one of them.
LEMMA PlacesAreTaken ==
    ASSUME NEW rows, RowsOK(rows), NEW T \in SUBSET Recorded(rows),
           NEW i \in 1..Cardinality(T)
    PROVE  \E t \in T : Place(rows, T, t) = i
<1> SUFFICES ASSUME \A t \in T : Place(rows, T, t) # i PROVE FALSE
  OBVIOUS
<1> DEFINE n == Cardinality(T)
           others == (1..n) \ {i}
           place == [t \in T |-> Place(rows, T, t)]
<1>1. n \in Nat /\ \A t \in T : Place(rows, T, t) \in 1..n
  BY PlaceIs
<1>2. place \in [T -> others]
  BY <1>1
<1>3. \A t, u \in T : place[t] = place[u] => t = u
  <2>1. ASSUME NEW t \in T, NEW u \in T, t # u
        PROVE  Earlier(rows, t, u) \/ Earlier(rows, u, t)
    <3>1. rows[t].at \in Nat /\ rows[u].at \in Nat /\ t \in Nat /\ u \in Nat
      BY RecordedRows
    <3> QED
      BY <2>1, <3>1 DEF Earlier
  <2>2. ASSUME NEW t \in T, NEW u \in T, t # u
        PROVE  Place(rows, T, t) # Place(rows, T, u)
    <3>1. Place(rows, T, t) \in Nat /\ Place(rows, T, u) \in Nat
      BY <1>1
    <3> QED
      BY <2>1, <2>2, <3>1, PlacesDiffer
  <2> QED
    BY <2>2
<1>4. place \in Injection(T, others)
  BY <1>2, <1>3 DEF Injection, IsInjective
<1>5. IsFiniteSet(1..n) /\ Cardinality(1..n) = n
  BY <1>1, FS_Interval
<1>6. IsFiniteSet(others) /\ Cardinality(others) = n - 1
  BY <1>5, FS_RemoveElement
<1> HIDE DEF place, others
<1>7. Cardinality(T) <= Cardinality(others)
  BY <1>4, <1>6, FS_Injection
<1> QED
  BY <1>1, <1>6, <1>7

LEMMA RowsMakeSequence ==
    ASSUME NEW S, NEW n \in Nat, NEW f \in [1..n -> S]
    PROVE  f \in Seq(S) /\ Len(f) = n
<1> QED
  OBVIOUS

LEMMA OneMoreRow ==
    ASSUME NEW S, NEW s \in Seq(S), NEW o \in S, NEW f \in [1..(Len(s) + 1) -> S],
           \A i \in 1..Len(s) : f[i] = s[i], f[Len(s) + 1] = o
    PROVE  f = Append(s, o)
<1>1. f \in Seq(S) /\ Len(f) = Len(s) + 1
  BY RowsMakeSequence
<1>2. Append(s, o) \in Seq(S) /\ Len(Append(s, o)) = Len(s) + 1
  OBVIOUS
<1>3. \A i \in 1..(Len(s) + 1) : f[i] = Append(s, o)[i]
  OBVIOUS
<1> QED
  BY <1>1, <1>2, <1>3

LEMMA OrderedRows ==
    ASSUME NEW rows, RowsOK(rows), NEW T \in SUBSET Recorded(rows)
    PROVE  /\ InClosingOrder(rows, T) \in Seq(Outcome)
           /\ Len(InClosingOrder(rows, T)) = Cardinality(T)
<1>1. Cardinality(T) \in Nat
  BY PlaceIs
<1>2. ASSUME NEW i \in 1..Cardinality(T)
      PROVE  rows[CHOOSE t \in {u \in T : Place(rows, T, u) = i} : TRUE] \in Outcome
  <2> DEFINE There == {u \in T : Place(rows, T, u) = i}
  <2>1. There # {}
    BY PlacesAreTaken
  <2> HIDE DEF There
  <2>2. (CHOOSE t \in There : TRUE) \in There
    BY <2>1
  <2>3. \A u \in There : rows[u] \in Outcome
    BY RecordedRows DEF There
  <2> QED
    BY <2>2, <2>3 DEF There
<1>3. InClosingOrder(rows, T) \in [1..Cardinality(T) -> Outcome]
  BY <1>2 DEF InClosingOrder
<1> QED
  BY <1>1, <1>3, RowsMakeSequence

\* A row recorded in time comes last and moves no other.
LEMMA InTimeComesLast ==
    ASSUME NEW rows, RowsOK(rows), NEW t \in Trades, rows[t] = None, NEW o \in Outcome,
           \A u \in Recorded(rows) : rows[u].at < o.at
    PROVE  LET new == [rows EXCEPT ![t] = o] IN
           InClosingOrder(new, Recorded(new)) = Append(InClosingOrder(rows, Recorded(rows)), o)
<1> DEFINE new == [rows EXCEPT ![t] = o]
           T == Recorded(rows)
           S == Recorded(new)
           n == Cardinality(T)
<1>1. o # None
  BY DEF Outcome, None
<1>2. /\ new[t] = o /\ \A u \in Trades : u # t => new[u] = rows[u]
      /\ RowsOK(new)
  BY DEF RowsOK
<1>3. t \notin T /\ S = T \union {t}
  BY <1>1, <1>2 DEF Recorded
<1>4. IsFiniteSet(T) /\ n \in Nat /\ Cardinality(S) = n + 1
  BY <1>3, PlaceIs, FS_AddElement
<1>5. \A u \in T : u \in Trades /\ u # t /\ rows[u].at \in Nat
  BY <1>3, RecordedRows
<1>6. o.at \in Nat
  BY ReportsAssumption DEF Outcome
<1> HIDE DEF new, S, T
<1>7. ASSUME NEW u \in T PROVE Place(new, S, u) = Place(rows, T, u)
  <2>1. new[u] = rows[u] /\ new[t] = o /\ rows[u].at < o.at
    BY <1>2, <1>5 DEF T
  <2>2. ~Earlier(new, t, u)
    BY <1>5, <1>6, <2>1 DEF Earlier
  <2>3. \A v \in T : Earlier(new, v, u) <=> Earlier(rows, v, u)
    BY <1>2, <1>5 DEF Earlier
  <2>4. {v \in S : v = u \/ Earlier(new, v, u)} = {v \in T : v = u \/ Earlier(rows, v, u)}
    BY <1>3, <1>5, <2>2, <2>3
  <2> QED
    BY <2>4 DEF Place
<1>8. Place(new, S, t) = n + 1
  <2>1. \A v \in T : Earlier(new, v, t)
    BY <1>2, <1>5 DEF Earlier, T
  <2>2. {v \in S : v = t \/ Earlier(new, v, t)} = S
    BY <1>3, <2>1
  <2> QED
    BY <1>4, <2>2 DEF Place
<1> DEFINE There(i) == {u \in T : Place(rows, T, u) = i}
           ThereNow(i) == {u \in S : Place(new, S, u) = i}
<1>9. ASSUME NEW i \in 1..n
      PROVE  new[CHOOSE u \in ThereNow(i) : TRUE] = rows[CHOOSE u \in There(i) : TRUE]
  <2>1. ThereNow(i) = There(i)
    BY <1>3, <1>4, <1>7, <1>8
  <2>2. There(i) # {}
    BY PlacesAreTaken DEF T
  <2> HIDE DEF There, ThereNow
  <2>3. (CHOOSE u \in There(i) : TRUE) \in There(i)
    BY <2>2
  <2>4. \A u \in There(i) : new[u] = rows[u]
    BY <1>2, <1>5 DEF There
  <2> QED
    BY <2>1, <2>3, <2>4
<1>10. new[CHOOSE u \in ThereNow(n + 1) : TRUE] = o
  <2>1. ThereNow(n + 1) = {t}
    <3>1. \A u \in T : Place(rows, T, u) \in 1..n
      BY PlaceIs DEF T
    <3>2. \A u \in T : Place(new, S, u) # n + 1
      BY <1>4, <1>7, <3>1
    <3> QED
      BY <1>3, <1>8, <3>2
  <2> HIDE DEF ThereNow
  <2>2. (CHOOSE u \in ThereNow(n + 1) : TRUE) = t
    BY <2>1
  <2> QED
    BY <1>2, <2>2
<1>11. InClosingOrder(new, S) = [i \in 1..(n + 1) |-> new[CHOOSE u \in ThereNow(i) : TRUE]]
  BY <1>4 DEF InClosingOrder
<1>12. InClosingOrder(rows, T) = [i \in 1..n |-> rows[CHOOSE u \in There(i) : TRUE]]
  BY DEF InClosingOrder
<1> HIDE DEF There, ThereNow, n
<1>13. InClosingOrder(rows, T) \in Seq(Outcome) /\ Len(InClosingOrder(rows, T)) = n
  BY OrderedRows DEF T, n
<1>14. InClosingOrder(new, S) = Append(InClosingOrder(rows, T), o)
  <2> DEFINE before == InClosingOrder(rows, T)
             after == InClosingOrder(new, S)
  <2>1. ASSUME NEW i \in 1..n PROVE after[i] = before[i]
    <3>1. i \in 1..(n + 1)
      BY <1>4
    <3>2. after[i] = new[CHOOSE u \in ThereNow(i) : TRUE]
      BY <1>11, <3>1
    <3>3. before[i] = rows[CHOOSE u \in There(i) : TRUE]
      BY <1>12
    <3> QED
      BY <1>9, <3>2, <3>3
  <2>2. after[n + 1] = o
    BY <1>4, <1>10, <1>11
  <2>3. S \in SUBSET Recorded(new)
    BY DEF S
  <2>4. after \in [1..(n + 1) -> Outcome]
    <3>1. after \in Seq(Outcome) /\ Len(after) = n + 1
      BY <1>2, <1>4, <2>3, OrderedRows
    <3> QED
      BY <3>1
  <2> HIDE DEF before, after
  <2>5. before \in Seq(Outcome) /\ Len(before) = n
    BY <1>13 DEF before
  <2>6. after = Append(before, o)
    BY <2>1, <2>2, <2>4, <2>5, OneMoreRow
  <2> QED
    BY <2>6 DEF before, after
<1> QED
  BY <1>14 DEF new, S, T

-----------------------------------------------------------------------------
(* The two passes over the rows.                                              *)

LEMMA SmallestNumber ==
    ASSUME NEW S \in SUBSET Nat, S # {}
    PROVE  \E m \in S : \A n \in S : m <= n
<1>1. PICK m \in S : \A n \in S : ~(<<n, m>> \in OpToRel(<, Nat))
  BY WFMin, NatLessThanWellFounded, Zenon
<1>2. \A n \in S : ~(n < m)
  BY <1>1 DEF OpToRel
<1> QED
  BY <1>2

\* What holds at the start and goes on from each number to the next holds to the end.
LEMMA StepByStep ==
    ASSUME NEW n \in Nat, NEW S, 0 \in S, \A i \in 1..n : i - 1 \in S => i \in S
    PROVE  \A i \in 0..n : i \in S
<1> DEFINE Missing == (0..n) \ S
<1> SUFFICES ASSUME Missing # {} PROVE FALSE
  OBVIOUS
<1>1. PICK m \in Missing : \A k \in Missing : m <= k
  <2>1. Missing \in SUBSET Nat
    OBVIOUS
  <2> HIDE DEF Missing
  <2> QED
    BY <2>1, SmallestNumber
<1>2. m # 0 /\ m \in 1..n /\ m \notin S
  OBVIOUS
<1>3. m - 1 \in 0..n /\ m - 1 \notin Missing
  BY <1>1, <1>2
<1> QED
  BY <1>2, <1>3

\* A pass that takes a legal summary to a legal summary exists.
IsPass(g, A, a, n, F) ==
    g \in [0..n -> A] /\ g[0] = a /\ \A i \in 1..n : g[i] = F[i][g[i - 1]]

LEMMA PassExists ==
    ASSUME NEW A, NEW a \in A, NEW n \in Nat, NEW F \in [1..n -> [A -> A]]
    PROVE  \E g : IsPass(g, A, a, n, F)
<1> DEFINE Upto(m, g) == g[0] = a /\ \A i \in 1..m : g[i] = F[i][g[i - 1]]
           S == {m \in 0..n : \E g \in [0..m -> A] : Upto(m, g)}
<1>1. 0 \in S
  <2> DEFINE g == [i \in 0..0 |-> a]
  <2>1. g \in [0..0 -> A] /\ Upto(0, g)
    OBVIOUS
  <2> HIDE DEF g, Upto
  <2>2. \E f \in [0..0 -> A] : Upto(0, f)
    BY <2>1
  <2> QED
    BY <2>2
<1>2. ASSUME NEW m \in 1..n, m - 1 \in S PROVE m \in S
  <2>1. PICK g \in [0..(m - 1) -> A] : Upto(m - 1, g)
    BY <1>2
  <2> DEFINE h == [i \in 0..m |-> IF i = m THEN F[m][g[m - 1]] ELSE g[i]]
  <2>2. F[m][g[m - 1]] \in A
    OBVIOUS
  <2>3. h \in [0..m -> A]
    BY <2>2
  <2>4. \A i \in 0..(m - 1) : h[i] = g[i]
    OBVIOUS
  <2>5. h[m] = F[m][g[m - 1]]
    OBVIOUS
  <2> HIDE DEF h
  <2>6. Upto(m, h)
    <3>1. h[0] = a
      BY <2>1, <2>4
    <3>2. ASSUME NEW i \in 1..m PROVE h[i] = F[i][h[i - 1]]
      <4>1. CASE i = m
        BY <2>4, <2>5, <4>1
      <4>2. CASE i # m
        BY <2>1, <2>4, <4>2
      <4> QED
        BY <4>1, <4>2
    <3> QED
      BY <3>1, <3>2
  <2> HIDE DEF Upto
  <2>7. \E f \in [0..m -> A] : Upto(m, f)
    BY <2>3, <2>6
  <2> QED
    BY <2>7
<1> HIDE DEF S
<1>3. \A m \in 0..n : m \in S
  BY <1>1, <1>2, StepByStep
<1>4. n \in S
  BY <1>3
<1> QED
  BY <1>4 DEF S, IsPass

\* What the summaries hold.
Summaries == [trades : Int, total : Int, peak : Int, drawdown : Int, forecasts : Int,
              correct : Int]
Curves == {g \in [equity : Nat, peak : Nat \ {0},
                  drawdown : [lost : Nat, of : Nat \ {0}]] : g.equity <= g.peak}

LEMMA LargerIs ==
    ASSUME NEW m \in Int, NEW n \in Int
    PROVE  Larger(m, n) \in {m, n} /\ Larger(m, n) >= m /\ Larger(m, n) >= n
<1> QED
  BY DEF Larger

LEMMA TradeAdds ==
    ASSUME NEW p \in Summaries, NEW o \in Outcome
    PROVE  AddTrade(p, o) \in Summaries /\ AddTrade(p, o).drawdown >= p.drawdown
<1> DEFINE total == p.total + o.r
           peak == Larger(p.peak, total)
           drawdown == Larger(p.drawdown, peak - total)
<1>1. /\ p.trades \in Int /\ p.total \in Int /\ p.peak \in Int /\ p.drawdown \in Int
      /\ p.forecasts \in Int /\ p.correct \in Int /\ o.r \in Int
  BY DEF Summaries, Outcome
<1>2. total \in Int
  BY <1>1
<1> HIDE DEF total
<1>3. peak \in Int
  BY <1>1, <1>2, LargerIs
<1> HIDE DEF peak
<1>4. drawdown \in Int /\ drawdown >= p.drawdown
  <2>1. peak - total \in Int
    BY <1>2, <1>3
  <2> QED
    BY <1>1, <2>1, LargerIs
<1> HIDE DEF drawdown
<1>5. AddTrade(p, o) =
        [trades |-> p.trades + 1, total |-> total, peak |-> peak, drawdown |-> drawdown,
         forecasts |-> p.forecasts + (IF o.direction = "none" THEN 0 ELSE 1),
         correct |-> p.correct + (IF o.direction = "right" THEN 1 ELSE 0)]
  BY DEF AddTrade, total, peak, drawdown
<1> QED
  BY <1>1, <1>2, <1>3, <1>4, <1>5 DEF Summaries

\* Summing up rows that one row is added to adds that row to the sum of the others.
IsSummary(g, s) == g = [n \in 0..Len(s) |-> IF n = 0 THEN NoTrades ELSE AddTrade(g[n - 1], s[n])]
SummaryOf(s) == CHOOSE g : IsSummary(g, s)

LEMMA SummaryIs ==
    ASSUME NEW s \in Seq(Outcome)
    PROVE  /\ Performance(s) = SummaryOf(s)[Len(s)]
           /\ SummaryOf(s)[0] = NoTrades
           /\ \A i \in 1..Len(s) : SummaryOf(s)[i] = AddTrade(SummaryOf(s)[i - 1], s[i])
           /\ \A i \in 0..Len(s) : SummaryOf(s)[i] \in Summaries
<1> DEFINE n == Len(s)
           F == [i \in 1..n |-> [p \in Summaries |-> AddTrade(p, s[i])]]
<1>1. n \in Nat /\ NoTrades \in Summaries /\ F \in [1..n -> [Summaries -> Summaries]]
  <2>1. \A i \in 1..n : s[i] \in Outcome
    OBVIOUS
  <2>2. \A i \in 1..n, p \in Summaries : AddTrade(p, s[i]) \in Summaries
    BY <2>1, TradeAdds
  <2>3. F \in [1..n -> [Summaries -> Summaries]]
    BY <2>2
  <2>4. NoTrades \in Summaries
    BY DEF NoTrades, Summaries
  <2> QED
    BY <2>3, <2>4
<1> HIDE DEF F, n
<1>2. \E g : IsPass(g, Summaries, NoTrades, n, F)
  BY <1>1, PassExists
<1> USE DEF n
<1>3. PICK g \in [0..n -> Summaries] : g[0] = NoTrades /\ \A i \in 1..n : g[i] = F[i][g[i - 1]]
  BY <1>2 DEF IsPass
<1>4. ASSUME NEW i \in 1..n PROVE g[i] = AddTrade(g[i - 1], s[i])
  <2>1. i - 1 \in 0..n
    BY <1>1
  <2>2. g[i - 1] \in Summaries
    BY <1>3, <2>1
  <2>3. F[i] = [p \in Summaries |-> AddTrade(p, s[i])]
    BY DEF F
  <2>4. F[i][g[i - 1]] = AddTrade(g[i - 1], s[i])
    BY <2>2, <2>3
  <2> QED
    BY <1>3, <2>4
<1>5. IsSummary(g, s)
  <2>1. g = [i \in 0..n |-> g[i]]
    OBVIOUS
  <2>2. \A i \in 0..n : g[i] = IF i = 0 THEN NoTrades ELSE AddTrade(g[i - 1], s[i])
    BY <1>3, <1>4
  <2>3. g = [i \in 0..n |-> IF i = 0 THEN NoTrades ELSE AddTrade(g[i - 1], s[i])]
    BY <2>1, <2>2
  <2> QED
    BY <2>3 DEF IsSummary
<1> DEFINE h == SummaryOf(s)
<1>6. IsSummary(h, s)
  BY <1>5 DEF SummaryOf
<1> HIDE DEF h
<1>7. \A i \in 0..n : h[i] = IF i = 0 THEN NoTrades ELSE AddTrade(h[i - 1], s[i])
  <2>1. h = [i \in 0..n |-> IF i = 0 THEN NoTrades ELSE AddTrade(h[i - 1], s[i])]
    BY <1>6 DEF IsSummary
  <2> QED
    BY <2>1
<1>8. h[0] = NoTrades /\ \A i \in 1..n : h[i] = AddTrade(h[i - 1], s[i])
  BY <1>1, <1>7
<1> DEFINE Legal == {i \in 0..n : h[i] \in Summaries}
<1>9. 0 \in Legal
  BY <1>1, <1>8
<1>10. \A i \in 1..n : i - 1 \in Legal => i \in Legal
  <2>1. ASSUME NEW i \in 1..n, i - 1 \in Legal PROVE h[i] \in Summaries
    <3>1. h[i - 1] \in Summaries /\ s[i] \in Outcome
      BY <2>1
    <3> QED
      BY <1>8, <3>1, TradeAdds
  <2> QED
    BY <2>1
<1> HIDE DEF Legal
<1>11. \A i \in 0..n : i \in Legal
  BY <1>1, <1>9, <1>10, StepByStep
<1>12. \A i \in 0..n : h[i] \in Summaries
  BY <1>11 DEF Legal
<1>13. Performance(s) = h[n]
  BY DEF Performance, SummaryOf, IsSummary, h
<1> QED
  BY <1>8, <1>12, <1>13 DEF h

LEMMA SummaryOfOneMore ==
    ASSUME NEW s \in Seq(Outcome), NEW o \in Outcome
    PROVE  /\ Performance(s) \in Summaries
           /\ Performance(Append(s, o)) = AddTrade(Performance(s), o)
<1> DEFINE t == Append(s, o)
           g == SummaryOf(s)
           h == SummaryOf(t)
           n == Len(s)
<1>1. /\ t \in Seq(Outcome) /\ Len(t) = n + 1 /\ n \in Nat /\ t[n + 1] = o
      /\ \A i \in 1..n : t[i] = s[i]
  OBVIOUS
<1> HIDE DEF t
<1>2. /\ g[0] = NoTrades /\ \A i \in 1..n : g[i] = AddTrade(g[i - 1], s[i])
      /\ Performance(s) = g[n] /\ \A i \in 0..n : g[i] \in Summaries
  BY SummaryIs
<1>3. /\ h[0] = NoTrades /\ \A i \in 1..(n + 1) : h[i] = AddTrade(h[i - 1], t[i])
      /\ Performance(t) = h[n + 1]
  BY <1>1, SummaryIs
<1> DEFINE Same == {i \in 0..n : h[i] = g[i]}
<1> HIDE DEF g, h
<1>4. 0 \in Same
  BY <1>1, <1>2, <1>3
<1>5. ASSUME NEW i \in 1..n, i - 1 \in Same PROVE i \in Same
  <2>1. h[i - 1] = g[i - 1] /\ t[i] = s[i] /\ i \in 1..(n + 1)
    BY <1>1, <1>5
  <2>2. h[i] = AddTrade(h[i - 1], t[i]) /\ g[i] = AddTrade(g[i - 1], s[i])
    BY <1>2, <1>3, <2>1
  <2> QED
    BY <2>1, <2>2
<1> HIDE DEF Same
<1>6. \A i \in 0..n : i \in Same
  BY <1>1, <1>4, <1>5, StepByStep
<1>7. h[n] = g[n]
  BY <1>1, <1>6 DEF Same
<1>8. h[n + 1] = AddTrade(h[n], o)
  <2>1. n + 1 \in 1..(n + 1) /\ (n + 1) - 1 = n
    BY <1>1
  <2> QED
    BY <1>1, <1>3, <2>1
<1>9. n \in 0..n
  BY <1>1
<1> QED
  BY <1>2, <1>3, <1>7, <1>8, <1>9 DEF t

-----------------------------------------------------------------------------
(* The equity curve.                                                          *)

LEMMA ProductIs ==
    ASSUME NEW m \in Nat, NEW n \in Nat PROVE m * n \in Nat
<1> QED
  OBVIOUS

LEMMA ProductGrows ==
    ASSUME NEW m \in Int, NEW n \in Int, NEW k \in Nat, m <= n PROVE m * k <= n * k
<1>1. n - m \in Nat
  OBVIOUS
<1>2. (n - m) * k \in Nat
  BY <1>1, ProductIs
<1>3. (n - m) * k = n * k - m * k
  OBVIOUS
<1>4. m * k \in Int /\ n * k \in Int
  OBVIOUS
<1> QED
  BY <1>2, <1>3, <1>4

LEMMA FractionsCompare ==
    ASSUME NEW a \in Nat, NEW b \in Nat, NEW c \in Nat,
           NEW x \in Nat \ {0}, NEW y \in Nat \ {0}, NEW z \in Nat \ {0},
           a * y >= b * x, b * z >= c * y
    PROVE  a * z >= c * x
<1> SUFFICES ASSUME a * z < c * x PROVE FALSE
  OBVIOUS
<1>1. a * y \in Int /\ b * x \in Int /\ b * z \in Int /\ c * y \in Int
  OBVIOUS
<1>2. (b * x) * z <= (a * y) * z
  BY <1>1, ProductGrows
<1>3. (c * y) * x <= (b * z) * x
  BY <1>1, ProductGrows
<1>4. (b * x) * z = (b * z) * x /\ (a * y) * z = (a * z) * y /\ (c * y) * x = (c * x) * y
  OBVIOUS
<1>5. a * z + 1 \in Int /\ c * x \in Int /\ a * z + 1 <= c * x
  OBVIOUS
<1>6. (a * z + 1) * y <= (c * x) * y
  BY <1>5, ProductGrows
<1>7. (a * z + 1) * y = (a * z) * y + y
  OBVIOUS
<1>8. (a * z) * y \in Int /\ (c * x) * y \in Int /\ (b * z) * x \in Int
  OBVIOUS
<1> QED
  BY <1>2, <1>3, <1>4, <1>6, <1>7, <1>8

Fractions == [lost : Nat, of : Nat \ {0}]

LEMMA DeeperIs ==
    ASSUME NEW d \in Fractions, NEW e \in Fractions
    PROVE  Deeper(d, e) \in Fractions /\ AtLeast(Deeper(d, e), d)
<1>1. /\ d.lost \in Nat /\ d.of \in Nat /\ e.lost \in Nat /\ e.of \in Nat
  BY DEF Fractions
<1>2. /\ d.lost * e.of \in Int /\ e.lost * d.of \in Int /\ d.lost * d.of \in Int
  BY <1>1
<1>3. CASE AtLeast(d, e)
  BY <1>2, <1>3 DEF Deeper, AtLeast
<1>4. CASE ~AtLeast(d, e)
  <2>1. AtLeast(e, d)
    BY <1>2, <1>4 DEF AtLeast
  <2> QED
    BY <1>4, <2>1 DEF Deeper
<1> QED
  BY <1>3, <1>4

LEMMA AtLeastIsTransitive ==
    ASSUME NEW d \in Fractions, NEW e \in Fractions, NEW f \in Fractions,
           AtLeast(d, e), AtLeast(e, f)
    PROVE  AtLeast(d, f)
<1>1. /\ d.lost \in Nat /\ d.of \in Nat \ {0} /\ e.lost \in Nat /\ e.of \in Nat \ {0}
      /\ f.lost \in Nat /\ f.of \in Nat \ {0}
  BY DEF Fractions
<1>2. d.lost * e.of >= e.lost * d.of /\ e.lost * f.of >= f.lost * e.of
  BY DEF AtLeast
<1>3. d.lost * f.of >= f.lost * d.of
  BY <1>1, <1>2, FractionsCompare
<1> QED
  BY <1>3 DEF AtLeast

LEMMA CurveGoesOn ==
    ASSUME NEW g \in Curves, NEW o \in Outcome
    PROVE  /\ Compound(g, o) \in Curves
           /\ AtLeast(Compound(g, o).drawdown, g.drawdown)
           /\ g.equity = 0 => Compound(g, o) = g
<1> DEFINE left == 100 + o.r * RiskPercent
           equity == (g.equity * left) \div 100
           peak == Larger(g.peak, equity)
           drop == [lost |-> peak - equity, of |-> peak]
<1>1. /\ g.equity \in Nat /\ g.peak \in Nat \ {0} /\ g.equity <= g.peak
      /\ g.drawdown \in Fractions /\ o.r \in Int
  BY DEF Curves, Fractions, Outcome
<1>2. AtLeast(g.drawdown, g.drawdown)
  <2>1. g.drawdown.lost * g.drawdown.of \in Int
    BY <1>1 DEF Fractions
  <2> QED
    BY <2>1 DEF AtLeast
<1>3. CASE g.equity = 0
  BY <1>2, <1>3 DEF Compound
<1>4. CASE g.equity # 0 /\ o.r * RiskPercent <= -100
  <2>1. Compound(g, o) = [g EXCEPT !.equity = 0]
    BY <1>4 DEF Compound
  <2>2. [g EXCEPT !.equity = 0] \in Curves /\ [g EXCEPT !.equity = 0].drawdown = g.drawdown
    BY <1>1 DEF Curves
  <2> QED
    BY <1>2, <1>4, <2>1, <2>2
<1>5. CASE g.equity # 0 /\ ~(o.r * RiskPercent <= -100)
  <2>1. RiskPercent \in Int /\ o.r * RiskPercent \in Int
    BY <1>1, ObjectiveAssumption
  <2>2. left \in Nat
    BY <1>5, <2>1
  <2> HIDE DEF left
  <2>3. g.equity * left \in Nat
    BY <1>1, <2>2, ProductIs
  <2>4. equity \in Nat
    BY <2>3
  <2> HIDE DEF equity
  <2>5. peak \in Nat \ {0} /\ peak >= equity
    BY <1>1, <2>4, LargerIs
  <2> HIDE DEF peak
  <2>6. drop \in Fractions
    BY <2>4, <2>5 DEF Fractions
  <2> HIDE DEF drop
  <2>7. Compound(g, o) = [equity |-> equity, peak |-> peak, drawdown |-> Deeper(g.drawdown, drop)]
    BY <1>5 DEF Compound, left, equity, peak, drop
  <2>8. Deeper(g.drawdown, drop) \in Fractions /\ AtLeast(Deeper(g.drawdown, drop), g.drawdown)
    BY <1>1, <2>6, DeeperIs
  <2>9. Compound(g, o) \in Curves
    BY <2>4, <2>5, <2>7, <2>8 DEF Curves, Fractions
  <2> QED
    BY <1>5, <2>7, <2>8, <2>9
<1> QED
  BY <1>3, <1>4, <1>5

\* A breach of the preservation of capital is never healed.
LEMMA BreachStays ==
    ASSUME NEW g \in Curves, NEW o \in Outcome, ~Preserved(g)
    PROVE  ~Preserved(Compound(g, o))
<1> DEFINE h == Compound(g, o)
<1> SUFFICES ASSUME Preserved(h) PROVE FALSE
  OBVIOUS
<1>1. h \in Curves /\ AtLeast(h.drawdown, g.drawdown) /\ (g.equity = 0 => h = g)
  BY CurveGoesOn
<1> HIDE DEF h
<1>2. AtLeast(Percent(MaxDrawdown), h.drawdown) /\ h.equity > 0
  BY DEF Preserved
<1>3. g.equity > 0
  BY <1>1, <1>2 DEF Curves
<1>4. /\ Percent(MaxDrawdown) \in Fractions
      /\ g.drawdown \in Fractions /\ h.drawdown \in Fractions
  BY <1>1, ObjectiveAssumption DEF Percent, Curves, Fractions
<1>5. AtLeast(Percent(MaxDrawdown), g.drawdown)
  BY <1>1, <1>2, <1>4, AtLeastIsTransitive
<1> QED
  BY <1>3, <1>5 DEF Preserved

\* The curve through rows that one row is added to goes on from the curve of the others.
IsCurve(g, s) == g = [n \in 0..Len(s) |-> IF n = 0 THEN NoGrowth ELSE Compound(g[n - 1], s[n])]
CurveOf(s) == CHOOSE g : IsCurve(g, s)

LEMMA CurveIs ==
    ASSUME NEW s \in Seq(Outcome)
    PROVE  /\ Growth(s) = CurveOf(s)[Len(s)]
           /\ CurveOf(s)[0] = NoGrowth
           /\ \A i \in 1..Len(s) : CurveOf(s)[i] = Compound(CurveOf(s)[i - 1], s[i])
           /\ \A i \in 0..Len(s) : CurveOf(s)[i] \in Curves
<1> DEFINE n == Len(s)
           F == [i \in 1..n |-> [p \in Curves |-> Compound(p, s[i])]]
<1>1. n \in Nat /\ NoGrowth \in Curves /\ F \in [1..n -> [Curves -> Curves]]
  <2>1. \A i \in 1..n : s[i] \in Outcome
    OBVIOUS
  <2>2. \A i \in 1..n, p \in Curves : Compound(p, s[i]) \in Curves
    BY <2>1, CurveGoesOn
  <2>3. F \in [1..n -> [Curves -> Curves]]
    BY <2>2
  <2>4. NoGrowth \in Curves
    BY ObjectiveAssumption DEF NoGrowth, Curves
  <2> QED
    BY <2>3, <2>4
<1> HIDE DEF F, n
<1>2. \E g : IsPass(g, Curves, NoGrowth, n, F)
  BY <1>1, PassExists
<1> USE DEF n
<1>3. PICK g \in [0..n -> Curves] : g[0] = NoGrowth /\ \A i \in 1..n : g[i] = F[i][g[i - 1]]
  BY <1>2 DEF IsPass
<1>4. ASSUME NEW i \in 1..n PROVE g[i] = Compound(g[i - 1], s[i])
  <2>1. i - 1 \in 0..n
    BY <1>1
  <2>2. g[i - 1] \in Curves
    BY <1>3, <2>1
  <2>3. F[i] = [p \in Curves |-> Compound(p, s[i])]
    BY DEF F
  <2>4. F[i][g[i - 1]] = Compound(g[i - 1], s[i])
    BY <2>2, <2>3
  <2> QED
    BY <1>3, <2>4
<1>5. IsCurve(g, s)
  <2>1. g = [i \in 0..n |-> g[i]]
    OBVIOUS
  <2>2. \A i \in 0..n : g[i] = IF i = 0 THEN NoGrowth ELSE Compound(g[i - 1], s[i])
    BY <1>3, <1>4
  <2>3. g = [i \in 0..n |-> IF i = 0 THEN NoGrowth ELSE Compound(g[i - 1], s[i])]
    BY <2>1, <2>2
  <2> QED
    BY <2>3 DEF IsCurve
<1> DEFINE h == CurveOf(s)
<1>6. IsCurve(h, s)
  BY <1>5 DEF CurveOf
<1> HIDE DEF h
<1>7. \A i \in 0..n : h[i] = IF i = 0 THEN NoGrowth ELSE Compound(h[i - 1], s[i])
  <2>1. h = [i \in 0..n |-> IF i = 0 THEN NoGrowth ELSE Compound(h[i - 1], s[i])]
    BY <1>6 DEF IsCurve
  <2> QED
    BY <2>1
<1>8. h[0] = NoGrowth /\ \A i \in 1..n : h[i] = Compound(h[i - 1], s[i])
  BY <1>1, <1>7
<1> DEFINE Legal == {i \in 0..n : h[i] \in Curves}
<1>9. 0 \in Legal
  BY <1>1, <1>8
<1>10. \A i \in 1..n : i - 1 \in Legal => i \in Legal
  <2>1. ASSUME NEW i \in 1..n, i - 1 \in Legal PROVE h[i] \in Curves
    <3>1. h[i - 1] \in Curves /\ s[i] \in Outcome
      BY <2>1
    <3> QED
      BY <1>8, <3>1, CurveGoesOn
  <2> QED
    BY <2>1
<1> HIDE DEF Legal
<1>11. \A i \in 0..n : i \in Legal
  BY <1>1, <1>9, <1>10, StepByStep
<1>12. \A i \in 0..n : h[i] \in Curves
  BY <1>11 DEF Legal
<1>13. Growth(s) = h[n]
  BY DEF Growth, CurveOf, IsCurve, h
<1> QED
  BY <1>8, <1>12, <1>13 DEF h

LEMMA CurveOfOneMore ==
    ASSUME NEW s \in Seq(Outcome), NEW o \in Outcome
    PROVE  /\ Growth(s) \in Curves
           /\ Growth(Append(s, o)) = Compound(Growth(s), o)
<1> DEFINE t == Append(s, o)
           g == CurveOf(s)
           h == CurveOf(t)
           n == Len(s)
<1>1. /\ t \in Seq(Outcome) /\ Len(t) = n + 1 /\ n \in Nat /\ t[n + 1] = o
      /\ \A i \in 1..n : t[i] = s[i]
  OBVIOUS
<1> HIDE DEF t
<1>2. /\ g[0] = NoGrowth /\ \A i \in 1..n : g[i] = Compound(g[i - 1], s[i])
      /\ Growth(s) = g[n] /\ \A i \in 0..n : g[i] \in Curves
  BY CurveIs
<1>3. /\ h[0] = NoGrowth /\ \A i \in 1..(n + 1) : h[i] = Compound(h[i - 1], t[i])
      /\ Growth(t) = h[n + 1]
  BY <1>1, CurveIs
<1> DEFINE Same == {i \in 0..n : h[i] = g[i]}
<1> HIDE DEF g, h
<1>4. 0 \in Same
  BY <1>1, <1>2, <1>3
<1>5. ASSUME NEW i \in 1..n, i - 1 \in Same PROVE i \in Same
  <2>1. h[i - 1] = g[i - 1] /\ t[i] = s[i] /\ i \in 1..(n + 1)
    BY <1>1, <1>5
  <2>2. h[i] = Compound(h[i - 1], t[i]) /\ g[i] = Compound(g[i - 1], s[i])
    BY <1>2, <1>3, <2>1
  <2> QED
    BY <2>1, <2>2
<1> HIDE DEF Same
<1>6. \A i \in 0..n : i \in Same
  BY <1>1, <1>4, <1>5, StepByStep
<1>7. h[n] = g[n]
  BY <1>1, <1>6 DEF Same
<1>8. h[n + 1] = Compound(h[n], o)
  <2>1. n + 1 \in 1..(n + 1) /\ (n + 1) - 1 = n
    BY <1>1
  <2> QED
    BY <1>1, <1>3, <2>1
<1>9. n \in 0..n
  BY <1>1
<1> QED
  BY <1>2, <1>3, <1>7, <1>8, <1>9 DEF t

-----------------------------------------------------------------------------
(* The summaries are always those of all the outcomes.                        *)

RowsInOrder == InClosingOrder(outcomes, Recorded(outcomes))
Drawn ==
    /\ performance = Performance(RowsInOrder)
    /\ capital = Growth(RowsInOrder)

LEMMA RowsAreOrdered ==
    OutcomesTypeOK => RowsOK(outcomes) /\ RowsInOrder \in Seq(Outcome)
                      /\ Len(RowsInOrder) = Cardinality(Recorded(outcomes))
<1> SUFFICES ASSUME OutcomesTypeOK
             PROVE  RowsOK(outcomes) /\ RowsInOrder \in Seq(Outcome)
                    /\ Len(RowsInOrder) = Cardinality(Recorded(outcomes))
  OBVIOUS
<1>1. RowsOK(outcomes)
  BY DEF OutcomesTypeOK, RowsOK
<1>2. Recorded(outcomes) \in SUBSET Recorded(outcomes)
  OBVIOUS
<1> QED
  BY <1>1, <1>2, OrderedRows DEF RowsInOrder

LEMMA InitDrawn == Init => Drawn
<1> SUFFICES ASSUME Init PROVE Drawn
  OBVIOUS
<1>1. OutcomesTypeOK
  BY DEF Init, OutcomesInit, OutcomesTypeOK
<1>2. Recorded(outcomes) = {}
  BY DEF Init, OutcomesInit, Recorded
<1>3. RowsInOrder \in Seq(Outcome) /\ Len(RowsInOrder) = 0
  BY <1>1, <1>2, RowsAreOrdered, FS_EmptySet
<1> HIDE DEF RowsInOrder
<1>4. Performance(RowsInOrder) = NoTrades
  BY <1>3, SummaryIs
<1>5. Growth(RowsInOrder) = NoGrowth
  BY <1>3, CurveIs
<1> QED
  BY <1>4, <1>5 DEF Init, Drawn

LEMMA NextDrawn == Drawn /\ [Next]_vars => Drawn'
<1> SUFFICES ASSUME Drawn, [Next]_vars PROVE Drawn'
  OBVIOUS
<1>1. CASE Close
  BY <1>1 DEF Close, Record, Summarize, Drawn, RowsInOrder
<1>2. CASE Drift
  BY <1>2 DEF Drift, Drawn, RowsInOrder, summaries
<1>3. CASE UNCHANGED vars
  BY <1>3 DEF vars, Drawn, RowsInOrder, summaries
<1> QED
  BY <1>1, <1>2, <1>3 DEF Next

LEMMA DrawnInvariant == Spec => []Drawn
<1> QED
  BY InitDrawn, NextDrawn, PTL DEF Spec

\* An outcome that is recorded in time adds one trade to the summaries as they stand.
LEMMA SummariesGoOn ==
    ASSUME Typed, Drawn, [Next]_vars, RecordedInTime
    PROVE  /\ performance \in Summaries /\ capital \in Curves
           /\ \/ performance' = performance /\ capital' = capital
              \/ \E o \in Outcome : /\ performance' = AddTrade(performance, o)
                                    /\ capital' = Compound(capital, o)
<1>1. RowsOK(outcomes) /\ RowsInOrder \in Seq(Outcome)
  BY RowsAreOrdered DEF Typed
<1>2. performance \in Summaries /\ capital \in Curves
  <2>1. Performance(RowsInOrder) = SummaryOf(RowsInOrder)[Len(RowsInOrder)]
        /\ Growth(RowsInOrder) = CurveOf(RowsInOrder)[Len(RowsInOrder)]
    BY <1>1, SummaryIs, CurveIs
  <2>2. Len(RowsInOrder) \in 0..Len(RowsInOrder)
    BY <1>1
  <2>3. SummaryOf(RowsInOrder)[Len(RowsInOrder)] \in Summaries
    BY <1>1, <2>2, SummaryIs
  <2>4. CurveOf(RowsInOrder)[Len(RowsInOrder)] \in Curves
    BY <1>1, <2>2, CurveIs
  <2> QED
    BY <2>1, <2>3, <2>4 DEF Drawn
<1>3. CASE Close
  <2>1. PICK t \in Trades, exit \in Exits, at \in Times :
          Record(t, exit, at) /\ Summarize(With(t, exit, at))
    BY <1>3 DEF Close
  <2> DEFINE o == OutcomeOf(Reports[t], exit, at)
  <2>2. o \in Outcome
    BY <2>1, RowIsOutcome DEF Record, MayRecord
  <2>3. outcomes[t] = None /\ outcomes' = [outcomes EXCEPT ![t] = o]
    BY <2>1 DEF Record, MayRecord, With
  <2> HIDE DEF o
  <2>4. o # None /\ o.at \in Times
    BY <2>2 DEF Outcome, None
  <2>5. outcomes'[t] = o
    BY <1>1, <2>3 DEF RowsOK
  <2>6. t \in Recorded(outcomes') /\ t \notin Recorded(outcomes)
    BY <2>3, <2>4, <2>5 DEF Recorded
  <2>7. \A u \in Recorded(outcomes) : outcomes[u].at < o.at
    BY <2>5, <2>6 DEF RecordedInTime
  <2>8. InClosingOrder(outcomes', Recorded(outcomes')) = Append(RowsInOrder, o)
    BY <1>1, <2>2, <2>3, <2>7, InTimeComesLast DEF RowsInOrder
  <2>9. performance' = Performance(Append(RowsInOrder, o)) /\ capital' = Growth(Append(RowsInOrder, o))
    BY <2>1, <2>8 DEF Summarize, Record
  <2>10. performance' = AddTrade(performance, o) /\ capital' = Compound(capital, o)
    BY <1>1, <2>2, <2>9, SummaryOfOneMore, CurveOfOneMore DEF Drawn
  <2> QED
    BY <1>2, <2>2, <2>10
<1>4. CASE Drift
  BY <1>2, <1>4 DEF Drift, summaries
<1>5. CASE UNCHANGED vars
  BY <1>2, <1>5 DEF vars, summaries
<1> QED
  BY <1>3, <1>4, <1>5 DEF Next

\* What was lost is never forgotten: as long as outcomes are recorded in the order the
\* trades closed in, neither the deepest drawdown in R nor that of the equity curve gets
\* smaller, and a breach of the preservation of capital stays one
\* (FirmPerformanceAnalyzer.summarize, CapitalGrowthObjective.evaluate).
THEOREM LossesRemembered == Spec => LossesAreRemembered
<1>1. ASSUME Typed, Drawn, [Next]_vars
      PROVE  RecordedInTime =>
                /\ performance'.drawdown >= performance.drawdown
                /\ AtLeast(capital'.drawdown, capital.drawdown)
                /\ ~Preserved(capital) => ~Preserved(capital')
  <2> SUFFICES ASSUME RecordedInTime
               PROVE  /\ performance'.drawdown >= performance.drawdown
                      /\ AtLeast(capital'.drawdown, capital.drawdown)
                      /\ ~Preserved(capital) => ~Preserved(capital')
    OBVIOUS
  <2>1. performance \in Summaries /\ capital \in Curves
    BY <1>1, SummariesGoOn
  <2>2. CASE performance' = performance /\ capital' = capital
    <3>1. performance.drawdown \in Int
      BY <2>1 DEF Summaries
    <3>2. capital.drawdown.lost \in Int /\ capital.drawdown.of \in Int
      BY <2>1 DEF Curves
    <3>3. AtLeast(capital.drawdown, capital.drawdown)
      BY <3>2 DEF AtLeast
    <3>4. Preserved(capital') = Preserved(capital)
      BY <2>2 DEF Preserved
    <3> QED
      BY <2>2, <3>1, <3>3, <3>4
  <2>3. CASE \E o \in Outcome : /\ performance' = AddTrade(performance, o)
                                /\ capital' = Compound(capital, o)
    <3>1. PICK o \in Outcome : /\ performance' = AddTrade(performance, o)
                               /\ capital' = Compound(capital, o)
      BY <2>3
    <3>2. performance'.drawdown >= performance.drawdown
      BY <2>1, <3>1, TradeAdds
    <3>3. AtLeast(capital'.drawdown, capital.drawdown)
      BY <2>1, <3>1, CurveGoesOn
    <3>4. ~Preserved(capital) => ~Preserved(capital')
      BY <2>1, <3>1, BreachStays
    <3> QED
      BY <3>2, <3>3, <3>4
  <2> QED
    BY <1>1, <2>2, <2>3, SummariesGoOn
<1> QED
  BY <1>1, TypedInvariant, DrawnInvariant, PTL DEF Spec, LossesAreRemembered

\* A firm that lost everything is halted from then on: the health monitor halts on
\* capital that is not preserved, and the equity curve stays at zero once it is there
\* (CapitalGrowthObjective.evaluate, FirmHealthGrowthMonitor.evaluate).
THEOREM RuinIsHalted == Spec => RuinHalts
<1>1. ASSUME Typed, Drawn, [Next]_vars
      PROVE  capital'.equity = 0 \/ (capital.equity = 0 /\ RecordedInTime) =>
                Status(Firm') = "halt"
  <2>1. ASSUME capital.equity = 0, RecordedInTime PROVE capital'.equity = 0
    <3>1. capital \in Curves
      BY <1>1, <2>1, SummariesGoOn
    <3>2. CASE capital' = capital
      BY <2>1, <3>2
    <3>3. CASE \E o \in Outcome : capital' = Compound(capital, o)
      BY <2>1, <3>1, <3>3, CurveGoesOn
    <3> QED
      BY <1>1, <2>1, <3>2, <3>3, SummariesGoOn
  <2>2. ASSUME capital'.equity = 0 PROVE Status(Firm') = "halt"
    <3>1. ~Preserved(capital')
      BY <2>2 DEF Preserved
    <3>2. Firm'.capital = 1
      BY <3>1 DEF Firm, Bad
    <3> QED
      BY <3>2 DEF Status, Halts
  <2> QED
    BY <2>1, <2>2
<1> QED
  BY <1>1, TypedInvariant, DrawnInvariant, PTL DEF Spec, RuinHalts
=============================================================================
