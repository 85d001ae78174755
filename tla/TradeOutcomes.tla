----------------------------- MODULE TradeOutcomes -----------------------------
(* The realized outcomes of the firm's trades: TradeOutcome.from_report works *)
(* one out of a report and an exit price, TradeOutcomeStore keeps one per     *)
(* trade for ever, and the analyzers read all of them in closing order.       *)
EXTENDS Integers, Sequences, FiniteSets

CONSTANTS Reports,  \* the trade reports, numbered in the order of their trade_id
          Exits,    \* exit prices
          Times     \* closing times; an outcome may be recorded at any later one

Trades == DOMAIN Reports
Distance(report) ==
    IF report.entry >= report.stop THEN report.entry - report.stop
    ELSE report.stop - report.entry

\* Prices are in units that make every R a whole number.  A report without a
\* forecast has forecast 0, which counts as none for the direction.
ASSUME ReportsAssumption ==
    /\ Reports \in Seq([accepted : BOOLEAN, side : {-1, 1}, entry : Nat \ {0},
                        stop : Nat \ {0}, forecast : {-1, 0, 1}, strategy : STRING])
    /\ Exits \subseteq Nat \ {0}
    /\ Times \subseteq Nat
    /\ \A t \in Trades, exit \in Exits :
          Distance(Reports[t]) > 0 => (exit - Reports[t].entry) % Distance(Reports[t]) = 0

VARIABLE outcomes  \* outcomes[t]: the row of trade t, None while there is none

None == [recorded |-> FALSE]
Outcome == [recorded : {TRUE}, at : Times, r : Int, direction : {"none", "right", "wrong"}]

OutcomesTypeOK == outcomes \in [Trades -> Outcome \union {None}]
OutcomesInit == outcomes = [t \in Trades |-> None]

\* from_report: the R-multiple, and whether the forecast had the direction right.
Sign(n) == IF n > 0 THEN 1 ELSE IF n < 0 THEN -1 ELSE 0
ROf(report, exit) == ((exit - report.entry) * report.side) \div Distance(report)
DirectionOf(report, exit) ==
    IF report.forecast = 0 \/ exit = report.entry THEN "none"
    ELSE IF report.forecast = Sign(exit - report.entry) THEN "right" ELSE "wrong"
OutcomeOf(report, exit, at) ==
    [recorded |-> TRUE, at |-> at, r |-> ROf(report, exit),
     direction |-> DirectionOf(report, exit)]

\* A trade that was not filled, or has no distance to its stop, has no outcome, and
\* a second outcome of a trade is refused by the primary key.
MayRecordAgain(t) == Reports[t].accepted /\ Distance(Reports[t]) > 0  \* mutant of MayRecord
MayRecord(t) ==
    /\ Reports[t].accepted /\ Distance(Reports[t]) > 0
    /\ outcomes[t] = None
With(t, exit, at) == [outcomes EXCEPT ![t] = OutcomeOf(Reports[t], exit, at)]
Record(t, exit, at) == MayRecord(t) /\ outcomes' = With(t, exit, at)

\* all(): ORDER BY closed_at, trade_id; the analyzers sort by the same key.
Recorded(rows) == {t \in Trades : rows[t] # None}
Earlier(rows, t, u) == \/ rows[t].at < rows[u].at
                       \/ rows[t].at = rows[u].at /\ t < u
Place(rows, T, t) == Cardinality({u \in T : u = t \/ Earlier(rows, u, t)})
InClosingOrder(rows, T) ==
    [i \in 1..Cardinality(T) |-> rows[CHOOSE t \in {u \in T : Place(rows, T, u) = i} : TRUE]]
=============================================================================
