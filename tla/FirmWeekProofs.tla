---------------------------- MODULE FirmWeekProofs ----------------------------
(* The firm's week, for every setting of its hours and of its worker limits.  *)
EXTENDS FirmWeek, TLAPS

\* What the governor grants is a budget, and one that is not paused grants a worker:
\* halving one worker does not round down to none.
LEMMA BudgetGrants ==
    /\ Budget \in [decision : Decisions, workers : Nat, gpu : BOOLEAN]
    /\ Budget.workers = 0 <=> Budget.decision = "paused"
<1> DEFINE base == IF Mode = "saturday_heavy_backtest" THEN HeavyWorkers ELSE NormalWorkers
           half == AtLeastOne(base \div 2)
           free == ~gpuBusy /\ ~trading
<1>1. base \in Nat \ {0} /\ half \in Nat \ {0}
  BY WorkersAssumption DEF AtLeastOne
<1>2. free \in BOOLEAN
  BY DEF free
<1> HIDE DEF base, half, free
<1>3. CASE Mode = "off" \/ load = 2
  BY <1>3 DEF Budget, Paused, Decisions
<1>4. CASE ~(Mode = "off" \/ load = 2) /\ (trading \/ load = 1 \/ gpuBusy)
  <2>1. Budget = [decision |-> "throttled", workers |-> half, gpu |-> free]
    BY <1>4 DEF Budget, half, base, free
  <2> QED
    BY <1>1, <1>2, <2>1 DEF Decisions
<1>5. CASE ~(Mode = "off" \/ load = 2) /\ ~(trading \/ load = 1 \/ gpuBusy)
  <2>1. Budget = [decision |-> "full", workers |-> base, gpu |-> TRUE]
    BY <1>5 DEF Budget, base
  <2> QED
    BY <1>1, <2>1 DEF Decisions
<1> QED
  BY <1>3, <1>4, <1>5

LEMMA NextTypes == TypeOK /\ [Next]_vars => TypeOK'
<1> SUFFICES ASSUME TypeOK, [Next]_vars PROVE TypeOK'
  OBVIOUS
<1> USE DEF TypeOK, machine
<1>1. CASE Tick
  BY <1>1 DEF Tick, Week
<1>2. CASE MachineChanges
  BY <1>2 DEF MachineChanges
<1>3. CASE StartCycle \/ EndCycle
  BY <1>3 DEF StartCycle, EndCycle
<1>4. CASE Heartbeat
  BY <1>4, BudgetGrants DEF Heartbeat
<1>5. CASE DispatchResearch
  BY <1>5 DEF DispatchResearch
<1>6. CASE UNCHANGED vars
  BY <1>6 DEF vars
<1> QED
  BY <1>1, <1>2, <1>3, <1>4, <1>5, <1>6 DEF Next

\* The hour stays in the week, and a heartbeat is granted workers exactly when it is
\* not paused, for any worker limits (TradingPriorityComputeGovernor.budget).
THEOREM TypeCorrect == Spec => []TypeOK
<1>1. /\ Paused \in [decision : Decisions, workers : Nat, gpu : BOOLEAN]
      /\ Paused.workers = 0 /\ Paused.decision = "paused"
  BY DEF Paused, Decisions
<1>2. Init => load \in 0..2
  BY DEF Init
<1>3. Init => TypeOK
  BY <1>1, <1>2, Zenon DEF Init, TypeOK
<1> QED
  BY <1>3, NextTypes, PTL DEF Spec

\* One hour later it is the same day or the first hour of the next, and the day after
\* Sunday is Monday.
LEMMA NextHour ==
    ASSUME now \in Week, Tick
    PROVE  /\ Day \in 0..6 /\ Hour \in 0..23
           /\ \/ Hour < 23 /\ Day' = Day /\ Hour' = Hour + 1
              \/ Hour = 23 /\ Day < 6 /\ Day' = Day + 1 /\ Hour' = 0
              \/ Hour = 23 /\ Day = 6 /\ Day' = 0 /\ Hour' = 0
<1>1. now' = IF now = 167 THEN 0 ELSE now + 1
  BY DEF Tick, Week
<1> QED
  BY <1>1 DEF Week, Day, Hour

\* If Sunday's validation starts before its trading, as it does by default, no phase
\* is skipped and none comes twice, whatever the hours at which the firm cuts its
\* week; otherwise there is no validation at all (FirmWeeklyClock.phase_at).
THEOREM PhasesFollow ==
    ASSUME Validation < Opening
    PROVE  Spec => PhasesInOrder
<1>1. {Cutoff, Validation, Opening} \subseteq 1..23
  BY HoursAssumption
<1>2. ASSUME TypeOK, [Next]_vars, Phase' # Phase
      PROVE  <<Phase, Phase'>> \in {<<"trading", "weekend_research">>,
                                    <<"weekend_research", "sunday_validation">>,
                                    <<"sunday_validation", "trading">>}
  <2>1. CASE Tick
    <3>1. now \in Week
      BY <1>2 DEF TypeOK
    <3> USE <3>1, <2>1, NextHour
    <3>2. CASE Hour < 23
      BY <1>1, <1>2, <3>2 DEF Phase
    <3>3. CASE Hour = 23
      BY <1>1, <1>2, <3>3 DEF Phase
    <3> QED
      BY <3>2, <3>3
  <2>2. CASE now' = now
    BY <1>2, <2>2 DEF Phase, Day, Hour
  <2> QED
    BY <1>2, <2>1, <2>2 DEF Next, MachineChanges, StartCycle, EndCycle, Heartbeat,
       DispatchResearch, vars
<1> QED
  BY <1>2, TypeCorrect, PTL DEF Spec, PhasesInOrder
=============================================================================
