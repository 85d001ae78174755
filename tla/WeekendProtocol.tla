---------------------------- MODULE WeekendProtocol ----------------------------
(* The experiments of a weekend: WeekendBacktestProtocol picks windows of the *)
(* histories of unused symbols and of earlier weeks, SignalWalkForward-       *)
(* Evaluator walks through each, and CampaignEvaluator charges the costs of   *)
(* the bars of the same window.  A history is the set of the times of its     *)
(* bars; the seeded choices are all taken.                                    *)
EXTENDS Integers, FiniteSets
LOCAL INSTANCE FiniteSetsExt

CONSTANTS Week,        \* the length of a week
          WeeksBack,   \* prior_week_min .. prior_week_max
          MinHistory,  \* minimum_history_bars
          Horizon,     \* horizon_bars
          LastTime     \* bound: histories are sets of times 0..LastTime

ASSUME ProtocolAssumption ==
    /\ Week \in Nat \ {0} /\ LastTime \in Nat
    /\ WeeksBack \subseteq 1..8
    /\ MinHistory \in Nat \ {0} /\ Horizon \in Nat \ {0}

-----------------------------------------------------------------------------
(* SignalWalkForwardEvaluator.evaluate: bars by position, from 0.             *)

Evaluates(bars) == Cardinality(bars) >= MinHistory + Horizon
Origins(n) == (MinHistory - 1)..(n - Horizon - 1)
Seen(origin) == 0..origin
Realized(origin) == origin + Horizon

-----------------------------------------------------------------------------
(* WeekendBacktestProtocol.run.                                               *)

SameWindow(bars, from, to) == {t \in bars : from <= t /\ t <= to}

\* _candidate_window_starts
Starts(bars, duration, fallback) ==
    LET starts == IF bars = {} THEN {} ELSE {t \in bars : t <= Max(bars) - duration}
    IN  IF starts = {} THEN {fallback} ELSE starts

\* The windows of the cross-symbol and of the prior-week experiments.
CrossWindows(bars, first, last) ==
    {[from |-> s, to |-> s + (last - first)] : s \in Starts(bars, last - first, first)}
ReplayWindows(first, last) ==
    {[from |-> first - w * Week, to |-> last - w * Week] : w \in WeeksBack}

\* An experiment without bars is skipped; one with too few raises, and with it the
\* protocol.
Runs(bars, windows) ==
    {w \in windows : SameWindow(bars, w.from, w.to) # {}}
Completes(bars, windows) ==
    \A w \in Runs(bars, windows) : Evaluates(SameWindow(bars, w.from, w.to))

\* CampaignEvaluator._window_bars
Costed(bars, w) == {t \in bars : w.from <= t /\ t <= w.to}

-----------------------------------------------------------------------------
(* Properties                                                                 *)

Histories == SUBSET (0..LastTime)
References == {r \in (0..LastTime) \X (0..LastTime) : r[1] <= r[2]}

\* Whatever gaps the histories have: a forecast is judged by a bar of its window that
\* it has not seen; a replay of earlier weeks never touches the reference weekend, if
\* that is shorter than a week; and costs are charged for the very bars walked over.
ExperimentsAreOutOfSample ==
    \A bars \in Histories, r \in References :
        /\ \A w \in Runs(bars, ReplayWindows(r[1], r[2])) :
              r[2] - r[1] < Week => SameWindow(bars, w.from, w.to) \intersect (r[1]..r[2]) = {}
        /\ \A w \in Runs(bars, ReplayWindows(r[1], r[2]) \union CrossWindows(bars, r[1], r[2])) :
              LET window == SameWindow(bars, w.from, w.to) IN
              /\ Costed(bars, w) = window
              /\ Evaluates(window) =>
                    /\ Origins(Cardinality(window)) # {}
                    /\ \A o \in Origins(Cardinality(window)) :
                          /\ Realized(o) \notin Seen(o)
                          /\ Realized(o) \in 0..(Cardinality(window) - 1)

\* A gap can end the protocol: there is a history for which the reference weekend was
\* evaluated and a window of another symbol, of equal length, has bars but too few, so
\* that run raises where a window without any bar would have been skipped.
GapEndsProtocol ==
    \E bars \in Histories, r \in References :
        /\ Evaluates(r[1]..r[2])
        /\ ~Completes(bars, CrossWindows(bars, r[1], r[2]))
=============================================================================
