------------------------------- MODULE FirmWeek -------------------------------
(* When the two departments may work: FirmWeeklyClock opens the trading       *)
(* window, ResearchClock the research windows, and                            *)
(* TradingPriorityComputeGovernor says how much a research heartbeat may do   *)
(* on the machine that trading is using.  FirmRuntime dispatches by the phase.*)
EXTENDS Integers

CONSTANTS NormalWorkers, HeavyWorkers,  \* worker limits of the governor
          Cutoff,           \* friday_new_trade_cutoff
          Validation,       \* sunday_validation_start
          Opening,          \* sunday_trading_start
          BacktestStart,    \* weekday_backtest_start; it ends at midnight
          HeavyStart, HeavyEnd,  \* the Saturday backtest block
          LabStart, LabEnd  \* the adaptation lab, Saturday to Sunday

ASSUME WorkersAssumption == NormalWorkers \in Nat \ {0} /\ HeavyWorkers \in Nat \ {0}
ASSUME HoursAssumption ==
    {Cutoff, Validation, Opening, BacktestStart, HeavyStart, HeavyEnd, LabStart, LabEnd}
        \subseteq 1..23

VARIABLES now,      \* hour of the week, in America/Chicago, from Monday 0:00
          load,     \* CPU and memory: 0, 1 from throttle_at, 2 from pause_at
          gpuBusy,  \* whether the GPU is at its threshold
          trading,  \* whether a decision cycle is running
          granted,  \* the budget of the last research heartbeat
          manual    \* how the last manual research dispatch ended

machine == <<load, gpuBusy>>
vars == <<now, machine, trading, granted, manual>>

Week == 0..167
Day == now \div 24  \* 0 is Monday, as in datetime.weekday()
Hour == now % 24

Decisions == {"full", "throttled", "paused"}
Modes == {"off", "daily_backtest", "saturday_heavy_backtest", "adaptation_lab"}
Phases == {"trading", "weekend_research", "sunday_validation"}

\* FirmWeeklyClock.phase_at
PhaseCutoffReversed ==  \* mutant of Phase
    IF Day <= 3 \/ (Day = 4 /\ Hour >= Cutoff) \/ (Day = 6 /\ Hour >= Opening) THEN "trading"
    ELSE IF Day = 6 /\ Hour >= Validation THEN "sunday_validation"
    ELSE "weekend_research"
Phase ==
    IF \/ Day <= 3
       \/ Day = 4 /\ Hour < Cutoff
       \/ Day = 6 /\ Hour >= Validation /\ Hour >= Opening
    THEN "trading"
    ELSE IF Day = 6 /\ Hour >= Validation THEN "sunday_validation"
    ELSE "weekend_research"

\* ResearchClock.mode_at, with its default midnight end of a weekday's window.
Mode ==
    CASE Day <= 4 /\ Hour >= BacktestStart -> "daily_backtest"
      [] Day = 5 /\ HeavyStart <= Hour /\ Hour < HeavyEnd -> "saturday_heavy_backtest"
      [] Day = 5 /\ ~(HeavyStart <= Hour /\ Hour < HeavyEnd) /\ Hour >= LabStart -> "adaptation_lab"
      [] Day = 6 /\ Hour < LabEnd -> "adaptation_lab"
      [] OTHER -> "off"

Paused == [decision |-> "paused", workers |-> 0, gpu |-> FALSE]
AtLeastOne(n) == IF n < 1 THEN 1 ELSE n

\* TradingPriorityComputeGovernor.budget
BudgetPausedByTrading ==  \* mutant of Budget
    IF Mode = "off" \/ load = 2 \/ trading THEN Paused
    ELSE [decision |-> "full", workers |-> NormalWorkers, gpu |-> ~gpuBusy]
BudgetRoundedDown ==  \* mutant of Budget
    LET base == IF Mode = "saturday_heavy_backtest" THEN HeavyWorkers ELSE NormalWorkers
    IN  IF Mode = "off" \/ load = 2 THEN Paused
        ELSE IF trading \/ load = 1 \/ gpuBusy
        THEN [decision |-> "throttled", workers |-> base \div 2, gpu |-> ~gpuBusy /\ ~trading]
        ELSE [decision |-> "full", workers |-> base, gpu |-> TRUE]
Budget ==
    LET base == IF Mode = "saturday_heavy_backtest" THEN HeavyWorkers ELSE NormalWorkers
    IN  IF Mode = "off" \/ load = 2 THEN Paused
        ELSE IF trading \/ load = 1 \/ gpuBusy
        THEN [decision |-> "throttled", workers |-> AtLeastOne(base \div 2),
              gpu |-> ~gpuBusy /\ ~trading]
        ELSE [decision |-> "full", workers |-> base, gpu |-> TRUE]

TypeOK ==
    /\ now \in Week
    /\ load \in 0..2 /\ gpuBusy \in BOOLEAN /\ trading \in BOOLEAN
    /\ granted \in [decision : Decisions, workers : Nat, gpu : BOOLEAN]
    /\ granted.workers = 0 <=> granted.decision = "paused"
    /\ manual \in {"none", "ran", "raised"}

Init ==
    /\ now \in Week
    /\ load = 0 /\ gpuBusy = FALSE
    /\ trading = FALSE
    /\ granted = Paused
    /\ manual = "none"

-----------------------------------------------------------------------------

Tick ==
    /\ now' = (now + 1) % 168
    /\ UNCHANGED <<machine, trading, granted, manual>>

MachineChanges ==
    /\ load' \in 0..2 /\ gpuBusy' \in BOOLEAN
    /\ UNCHANGED <<now, trading, granted, manual>>

\* dispatch_trading starts a cycle only in the trading phase.
StartCycle ==
    /\ ~trading /\ Phase = "trading"
    /\ trading' = TRUE
    /\ UNCHANGED <<now, machine, granted, manual>>

\* A cycle may outlast the window it started in.
EndCycle ==
    /\ trading
    /\ trading' = FALSE
    /\ UNCHANGED <<now, machine, granted, manual>>

\* ResearchRuntimeController.heartbeat, up to the budget.
Heartbeat ==
    /\ granted' = Budget
    /\ UNCHANGED <<now, machine, trading, manual>>

\* The phases WeekendResearchService.run accepts: it raises for any other.
WeekendPhases == {"weekend_research", "sunday_validation"}

\* dispatch_research, with that service as its capability.
DispatchResearch ==
    /\ manual' = IF Phase \in WeekendPhases THEN "ran" ELSE "raised"
    /\ UNCHANGED <<now, machine, trading, granted>>

Next ==
    \/ Tick \/ MachineChanges \/ StartCycle \/ EndCycle
    \/ Heartbeat \/ DispatchResearch

Spec == Init /\ [][Next]_vars

\* Time passes, and the scheduler keeps firing heartbeats: one that would learn
\* something new is not put off for ever.
FairSpec == Spec /\ WF_vars(Tick) /\ SF_vars(Heartbeat)

-----------------------------------------------------------------------------
(* Properties                                                                 *)

\* Hour by hour through the week, and from Sunday into Monday, the phases follow
\* each other in the one order the firm knows: trading, weekend research, Sunday
\* validation, trading.
PhasesInOrder ==
    [][Phase' # Phase =>
          <<Phase, Phase'>> \in {<<"trading", "weekend_research">>,
                                 <<"weekend_research", "sunday_validation">>,
                                 <<"sunday_validation", "trading">>}]_vars

\* Unless the machine is for ever under pressure, research is granted capacity
\* again and again, however busy trading is.
ResearchRecurs == <>[](load < 2) => []<>(granted.workers > 0)

\* A manual research dispatch is not refused because trading is open.
ManualResearchRuns == manual # "raised"
=============================================================================
