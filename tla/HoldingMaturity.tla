--------------------------- MODULE HoldingMaturity ---------------------------
(* HoldingMaturityEngine: the ladder of holding stages (intraday, overnight,  *)
(* multi_day, weekly) a strategy climbs.  Every closed trade is recorded at   *)
(* its stage; it may reset the stage, demote it, or qualify it and so         *)
(* authorize the next one.                                                    *)
EXTENDS Integers, Sequences, FiniteSetsExt, SequencesExt

CONSTANTS Height,         \* number of stages, the lowest is 1
          Target,         \* policy.qualification_target
          AcceptPercent,  \* policy.acceptance_threshold, in percent
          Window,         \* policy.probation_window
          Profits,        \* the pnl values considered
          MaxTrades       \* bound on the trades counted at a stage

ASSUME HeightAssumption == Height \in Nat \ {0}
ASSUME PolicyAssumption ==
    Target \in Nat \ {0} /\ AcceptPercent \in 1..100 /\ Window \in Nat \ {0}
ASSUME ProfitsAssumption == Profits \subseteq Int
ASSUME MaxTradesAssumption == MaxTrades \in Nat

Ladder == 1..Height

\* catastrophic stands for the flag, or a destroyed_gain_fraction at the limit.
Trade == [pnl : Profits, accepted : BOOLEAN, catastrophic : BOOLEAN]

VARIABLES trades,      \* qualification_trades
          good,        \* accepted_trades
          pnl,         \* qualification_pnl
          authorized,  \* whether trades may be held at this stage
          qualified,   \* whether the stage has graduated
          probation,   \* whether it was reset since it last graduated
          recent       \* the last Window trades

counters == <<trades, good, pnl>>
standing == <<authorized, qualified, probation>>
vars == <<counters, standing, recent>>

TypeOK ==
    /\ trades \in [Ladder -> Nat]
    /\ good \in [Ladder -> Nat]
    /\ \A s \in Ladder : good[s] <= trades[s]
    /\ pnl \in [Ladder -> Int]
    /\ authorized \in [Ladder -> BOOLEAN]
    /\ qualified \in [Ladder -> BOOLEAN]
    /\ probation \in [Ladder -> BOOLEAN]
    /\ recent \in [Ladder -> Seq(Trade)]
    /\ \A s \in Ladder : Len(recent[s]) <= Window

Init ==
    /\ trades = [s \in Ladder |-> 0]
    /\ good = [s \in Ladder |-> 0]
    /\ pnl = [s \in Ladder |-> 0]
    /\ authorized = [s \in Ladder |-> s = 1]
    /\ qualified = [s \in Ladder |-> FALSE]
    /\ probation = [s \in Ladder |-> FALSE]
    /\ recent = [s \in Ladder |-> <<>>]

-----------------------------------------------------------------------------
(* The verdict on a window and on a stage.                                    *)

\* deque(maxlen=Window).append
SlideUnbounded(window, t) == Append(window, t)  \* mutant of Slide
Slide(window, t) ==
    Append(IF Len(window) < Window THEN window ELSE Tail(window), t)

Losses(window) == {i \in DOMAIN window : window[i].pnl < 0}
Gains(window) == {i \in DOMAIN window : window[i].pnl > 0}
AcceptedLosses(window) == {i \in Losses(window) : window[i].accepted}
Total(window, I) == MapThenSumSet(LAMBDA i : window[i].pnl, I)

\* Only losses, most of the losses unacceptable, or more lost than gained.
ProbationFailed(window) ==
    /\ Len(window) = Window
    /\ \/ Losses(window) = DOMAIN window
       \/ 2 * Cardinality(AcceptedLosses(window)) < Cardinality(Losses(window))
       \/ Total(window, Gains(window)) + Total(window, Losses(window)) < 0

ReadyWithoutGrowth(n, a, p) == n >= Target /\ 100 * a >= AcceptPercent * n  \* mutant of ReadyToQualify
ReadyToQualify(n, a, p) ==
    /\ n >= Target
    /\ 100 * a >= AcceptPercent * n
    /\ p > 0

-----------------------------------------------------------------------------
(* record: one of four outcomes.                                              *)

\* The stages in S start again from nothing.
ResetStages(S) ==
    /\ trades' = [s \in Ladder |-> IF s \in S THEN 0 ELSE trades[s]]
    /\ good' = [s \in Ladder |-> IF s \in S THEN 0 ELSE good[s]]
    /\ pnl' = [s \in Ladder |-> IF s \in S THEN 0 ELSE pnl[s]]
    /\ probation' = [s \in Ladder |-> s \in S \/ probation[s]]
    /\ recent' = [s \in Ladder |-> IF s \in S THEN <<>> ELSE recent[s]]

CatastropheForgiven(s, t) ==  \* mutant of Catastrophe
    /\ authorized[s] /\ t.catastrophic
    /\ ResetStages({s})
    /\ UNCHANGED <<qualified, authorized>>
Catastrophe(s, t) ==
    /\ authorized[s] /\ t.catastrophic
    /\ ResetStages({s})
    /\ qualified' = [qualified EXCEPT ![s] = FALSE]
    /\ UNCHANGED authorized

\* The lowest stage has nowhere to fall: it keeps its authority, and so do the
\* stages above it; any other demotion takes authority from all that are above.
DemoteAlone(s, t) ==  \* mutant of Demote
    /\ authorized[s] /\ ~t.catastrophic
    /\ ProbationFailed(Slide(recent[s], t))
    /\ ResetStages({s, s - 1})
    /\ qualified' = [r \in Ladder |-> r \notin {s, s - 1} /\ qualified[r]]
    /\ authorized' = [r \in Ladder |-> (r # s \/ s = 1) /\ (r = s - 1 \/ authorized[r])]
Demote(s, t) ==
    /\ authorized[s] /\ ~t.catastrophic
    /\ ProbationFailed(Slide(recent[s], t))
    /\ ResetStages({s, s - 1})
    /\ IF s = 1
       THEN /\ qualified' = [qualified EXCEPT ![1] = FALSE]
            /\ UNCHANGED authorized
       ELSE /\ qualified' = [r \in Ladder |-> r < s - 1 /\ qualified[r]]
            /\ authorized' = [r \in Ladder |-> r = s - 1 \/ (r < s /\ authorized[r])]

Count(s, t) ==
    /\ authorized[s] /\ ~t.catastrophic
    /\ trades[s] < MaxTrades
    /\ ~ProbationFailed(Slide(recent[s], t))
    /\ trades' = [trades EXCEPT ![s] = @ + 1]
    /\ good' = [good EXCEPT ![s] = IF t.accepted THEN @ + 1 ELSE @]
    /\ pnl' = [pnl EXCEPT ![s] = @ + t.pnl]
    /\ recent' = [recent EXCEPT ![s] = Slide(@, t)]

Progress(s, t) ==
    /\ Count(s, t)
    /\ ~ReadyToQualify(trades'[s], good'[s], pnl'[s])
    /\ UNCHANGED standing

Qualify(s, t) ==
    /\ Count(s, t)
    /\ ReadyToQualify(trades'[s], good'[s], pnl'[s])
    /\ qualified' = [qualified EXCEPT ![s] = TRUE]
    /\ probation' = [probation EXCEPT ![s] = FALSE]
    /\ authorized' = [r \in Ladder |-> r = s + 1 \/ authorized[r]]

Next ==
    \E s \in Ladder : \E t \in Trade :
        \/ Catastrophe(s, t)
        \/ Demote(s, t)
        \/ Progress(s, t)
        \/ Qualify(s, t)

Spec == Init /\ [][Next]_vars

-----------------------------------------------------------------------------
(* Properties                                                                 *)

\* The authorized stages are a run from the lowest one up, whatever resets and
\* demotions happened at whichever stages: no strategy holds overnight without
\* the right to hold intraday.
LadderHasNoGaps ==
    /\ authorized[1]
    /\ \A s \in Ladder : s > 1 /\ authorized[s] => authorized[s - 1]

\* Below an authorized stage every stage has graduated, or lost its graduation
\* to a reset and is on probation: authority is never left over from a stage
\* that simply stopped being qualified.  A stage is never both.
RungBelowStands ==
    \A s \in Ladder :
        /\ s > 1 /\ authorized[s] => qualified[s - 1] \/ probation[s - 1]
        /\ ~(qualified[s] /\ probation[s])
        /\ qualified[s] => authorized[s]

\* A stage gains authority only in the step in which the stage below it stands
\* graduated, with Target trades on its books and a profit on them: no demotion
\* hands authority out.
AuthorityIsEarned ==
    [][\A s \in Ladder :
          ~authorized[s] /\ authorized'[s] =>
              /\ s > 1 /\ qualified'[s - 1]
              /\ trades'[s - 1] >= Target
              /\ pnl'[s - 1] > 0]_vars
=============================================================================
