----------------------------- MODULE PaperTrading -----------------------------
(* The decision cycle of the trading department: FirmRuntime lets a cycle     *)
(* start, PaperTradingOrchestrator reads the market, asks the portfolio       *)
(* governor and the order guard, fills on paper, and appends the decision to  *)
(* the hash-chained ledger that all desks share.  Between two steps other     *)
(* desks run and the broker's positions change.                               *)
EXTENDS Integers, Sequences, FiniteSetsExt

CONSTANTS Desks,         \* processes that run decision cycles
          TradeIds,      \* proposal ids, each used once
          Symbols,       \* symbols of proposals and positions
          Currencies,
          Pair,          \* base and quote of a symbol, or Unknown
          Unknown,       \* the pair of a symbol parse_fx_symbol rejects
          Holdings,      \* positions that may be open at the broker
          Requested,     \* requested_volume, in steps of a hundredth of a lot
          VolumeMin, VolumeMax, VolumeStep,  \* the broker's symbol_spec
          Limit,         \* max_abs_currency_net_lots
          Orders,        \* the account and flags a cycle is called with
          Calls,         \* the symbols and orders each desk is called with
          MaxRisk, MaxOpenRisk, DailyHalt, WeeklyHalt,  \* Settings
          Mailing,       \* desks whose mail is off, or has its SMTP credentials
          NoTrade        \* no proposal yet

ASSUME PairAssumption ==
    /\ Pair \in [Symbols -> [base : Currencies, quote : Currencies] \union {Unknown}]
    /\ \A s \in Symbols : Pair[s] # Unknown => Pair[s].base # Pair[s].quote
ASSUME VolumeAssumption ==
    /\ {Requested, VolumeMin, VolumeMax, VolumeStep, Limit} \subseteq Nat \ {0}
    /\ Holdings \subseteq [symbol : Symbols, side : {-1, 1}, volume : Nat \ {0}]
    /\ IsFiniteSet(Holdings)
ASSUME OrdersAssumption ==
    Orders \subseteq [killSwitch : BOOLEAN, fresh : BOOLEAN, allowed : BOOLEAN,
                      risk : Nat \ {0}, openRisk : Nat, daily : Nat, weekly : Nat]
ASSUME CallsAssumption == Calls \in [Desks -> SUBSET (Symbols \X Orders)]
ASSUME MailingAssumption == Mailing \subseteq Desks
ASSUME NoTradeAssumption == NoTrade \notin TradeIds

VARIABLES positions,  \* what broker.positions() returns
          ledger,     \* trade_reports, by sequence
          used,       \* proposal ids handed out
          pc,         \* where the desk is in its cycle
          cycle,      \* what the cycle knows so far
          result      \* what the desk's last cycle returned, or that it raised

world == <<positions, ledger, used>>
vars == <<world, pc, cycle, result>>

Sides == {-1, 1}  \* sell, buy
Stages == {"idle", "signal", "review", "fill", "report", "deliver"}
Idle == [trade |-> NoTrade]

\* volume is 0 until, and unless, the proposal is filled.
Cycle == [order : Orders, symbol : Symbols, side : Sides, trade : TradeIds \union {NoTrade},
          seen : SUBSET Holdings, volume : 0..VolumeMax]
Report(c) == [trade |-> c.trade, symbol |-> c.symbol, side |-> c.side,
              volume |-> c.volume, seen |-> c.seen]
Outcomes == {"none", "closed", "abstain", "denied", "filled", "raised"}

TypeOK ==
    /\ positions \subseteq Holdings
    /\ used \subseteq TradeIds
    /\ pc \in [Desks -> Stages]
    /\ \A d \in Desks : result[d].status \in Outcomes
    /\ \A d \in Desks : cycle[d] \in (IF pc[d] = "idle" THEN {Idle} ELSE Cycle)
    /\ \A i \in DOMAIN ledger : ledger[i].report.trade \in used

Init ==
    /\ positions = {}
    /\ ledger = <<>>
    /\ used = {}
    /\ pc = [d \in Desks |-> "idle"]
    /\ cycle = [d \in Desks |-> Idle]
    /\ result = [d \in Desks |-> [status |-> "none", report |-> Idle]]

-----------------------------------------------------------------------------
(* The gates.                                                                 *)

Parsed(P) == \A p \in P : Pair[p.symbol] # Unknown

\* +1 for the base currency of the symbol, -1 for its quote currency.
Sign(symbol, currency) ==
    IF Pair[symbol].base = currency THEN 1
    ELSE IF Pair[symbol].quote = currency THEN -1 ELSE 0

\* currency_exposure_from_positions
Exposure(P, currency) ==
    MapThenSumSet(LAMBDA p : p.side * p.volume * Sign(p.symbol, currency), P)
After(c, volume, currency) ==
    Exposure(c.seen, currency) + c.side * volume * Sign(c.symbol, currency)

Within(n) == -Limit <= n /\ n <= Limit

\* FirmPortfolioGovernor.evaluate: an exposure that cannot be computed denies.
PortfolioAllowsCurrent(c) ==  \* mutant of PortfolioAllows
    /\ Parsed(c.seen) /\ Pair[c.symbol] # Unknown
    /\ \A currency \in Currencies : Within(Exposure(c.seen, currency))
PortfolioAllowsOmitting(c) ==  \* mutant of PortfolioAllows
    LET known == [c EXCEPT !.seen = {p \in @ : Pair[p.symbol] # Unknown}] IN
    /\ Pair[c.symbol] # Unknown
    /\ \A currency \in Currencies : Within(After(known, Requested, currency))
PortfolioAllows(c) ==
    /\ Parsed(c.seen) /\ Pair[c.symbol] # Unknown
    /\ \A currency \in Currencies : Within(After(c, Requested, currency))

\* OrderGuard.evaluate
GuardAllows(o) ==
    /\ ~o.killSwitch /\ o.fresh /\ o.allowed
    /\ o.risk <= MaxRisk
    /\ o.openRisk + o.risk <= MaxOpenRisk
    /\ o.daily < DailyHalt
    /\ o.weekly < WeeklyHalt

\* normalize_volume_down, for a volume the broker can represent.
NormalizeUp(v) ==  \* mutant of NormalizeDown
    IF v < VolumeMin THEN VolumeMin
    ELSE VolumeMin + ((v - VolumeMin + VolumeStep - 1) \div VolumeStep) * VolumeStep
NormalizeDown(v) ==
    IF v < VolumeMin THEN VolumeMin
    ELSE VolumeMin + ((v - VolumeMin) \div VolumeStep) * VolumeStep

-----------------------------------------------------------------------------
(* One cycle.                                                                 *)

Goto(d, stage) == pc' = [pc EXCEPT ![d] = stage]

\* The call is over: its frame is gone, its caller has the result.
Finish(d, how, report) ==
    /\ Goto(d, "idle")
    /\ cycle' = [cycle EXCEPT ![d] = Idle]
    /\ result' = [result EXCEPT ![d] = [status |-> how, report |-> report]]
Raised(d) == Finish(d, "raised", [trade |-> cycle[d].trade])

\* dispatch_trading outside the trading window.
Closed(d) ==
    /\ pc[d] = "idle"
    /\ Finish(d, "closed", Idle)
    /\ UNCHANGED world

Dispatch(d, symbol, order) ==
    /\ pc[d] = "idle" /\ <<symbol, order>> \in Calls[d]
    /\ Goto(d, "signal")
    /\ \E side \in Sides :
          cycle' = [cycle EXCEPT ![d] =
                      [order |-> order, symbol |-> symbol, side |-> side,
                       trade |-> NoTrade, seen |-> {}, volume |-> 0]]
    /\ UNCHANGED <<world, result>>

\* The forecast and the trend do not agree.
Abstain(d) ==
    /\ pc[d] = "signal"
    /\ Finish(d, "abstain", Idle)
    /\ UNCHANGED world

\* They agree: the signal and a quote make a proposal with an id of its own.
Propose(d, t) ==
    /\ pc[d] = "signal"
    /\ t \notin used
    /\ used' = used \union {t}
    /\ cycle' = [cycle EXCEPT ![d].trade = t]
    /\ Goto(d, "review")
    /\ UNCHANGED <<positions, ledger, result>>

\* The positions are read once, for the portfolio review.
Review(d) ==
    /\ pc[d] = "review"
    /\ cycle' = [cycle EXCEPT ![d].seen = positions]
    /\ Goto(d, IF PortfolioAllows(cycle'[d]) /\ GuardAllows(cycle[d].order)
               THEN "fill" ELSE "report")
    /\ UNCHANGED <<world, result>>

\* PaperExecutionEngine.open
Fill(d) ==
    /\ pc[d] = "fill"
    /\ Requested < VolumeMin \/ Requested <= VolumeMax
    /\ cycle' = [cycle EXCEPT ![d].volume = NormalizeDown(Requested)]
    /\ Goto(d, "report")
    /\ UNCHANGED <<world, result>>

\* A broker call, or the normalization of the volume, raises: nothing has been
\* recorded yet and nothing will be.
Raise(d) ==
    /\ pc[d] \in {"signal", "review", "fill"}
    /\ Raised(d)
    /\ UNCHANGED world

-----------------------------------------------------------------------------
(* The ledger.                                                                *)

\* The hash commits to the previous hash and the report.
Hash(previous, report) == [previous |-> previous, report |-> report]
Genesis == [genesis |-> TRUE]
LastHash == IF ledger = <<>> THEN Genesis ELSE ledger[Len(ledger)].hash
Record(previous, report) ==
    [report |-> report, previous |-> previous, hash |-> Hash(previous, report)]

\* One write transaction reads the last hash and inserts the row.
AppendFromSnapshot(d) ==  \* mutant of AppendReport
    /\ pc[d] = "report"
    /\ \E previous \in {LastHash, Genesis} :
          ledger' = Append(ledger, Record(previous, Report(cycle[d])))
    /\ Goto(d, "deliver")
    /\ UNCHANGED <<positions, used, cycle, result>>
AppendFillsOnly(d) ==  \* mutant of AppendReport
    /\ pc[d] = "report"
    /\ ledger' = IF cycle[d].volume = 0 THEN ledger
                 ELSE Append(ledger, Record(LastHash, Report(cycle[d])))
    /\ Goto(d, "deliver")
    /\ UNCHANGED <<positions, used, cycle, result>>
AppendReport(d) ==
    /\ pc[d] = "report"
    /\ ledger' = Append(ledger, Record(LastHash, Report(cycle[d])))
    /\ Goto(d, "deliver")
    /\ UNCHANGED <<positions, used, cycle, result>>

\* The database refuses: append rolls back and raises.
AppendRaises(d) ==
    /\ pc[d] = "report"
    /\ Raised(d)
    /\ UNCHANGED world

\* verify_chain
VerifyChain ==
    \A i \in DOMAIN ledger :
        /\ ledger[i].previous = IF i = 1 THEN Genesis ELSE ledger[i - 1].hash
        /\ ledger[i].hash = Hash(ledger[i].previous, ledger[i].report)

Outcome(c) == IF c.volume = 0 THEN "denied" ELSE "filled"

\* Sent, or a ReportDeliveryError that _deliver turns into a string.
DeliverUncaught(d) ==  \* mutant of Deliver
    /\ pc[d] = "deliver"
    /\ Finish(d, Outcome(cycle[d]), Report(cycle[d])) \/ Raised(d)
    /\ UNCHANGED world
Deliver(d) ==
    /\ pc[d] = "deliver"
    /\ d \in Mailing
    /\ Finish(d, Outcome(cycle[d]), Report(cycle[d]))
    /\ UNCHANGED world

\* require_report_email_credentials raises a RuntimeError that _deliver lets by.
DeliverRaises(d) ==
    /\ pc[d] = "deliver"
    /\ d \notin Mailing
    /\ Raised(d)
    /\ UNCHANGED world

\* Positions come and go at the broker: the system sends no order.
BrokerMoves ==
    /\ \E p \in Holdings : positions' \in {positions \union {p}, positions \ {p}}
    /\ UNCHANGED <<ledger, used, pc, cycle, result>>

Next ==
    \/ \E d \in Desks :
          \/ Closed(d)
          \/ \E s \in Symbols : \E o \in Orders : Dispatch(d, s, o)
          \/ Abstain(d)
          \/ \E t \in TradeIds : Propose(d, t)
          \/ Review(d) \/ Fill(d) \/ Raise(d)
          \/ AppendReport(d) \/ AppendRaises(d)
          \/ Deliver(d) \/ DeliverRaises(d)
    \/ BrokerMoves

Spec == Init /\ [][Next]_vars

-----------------------------------------------------------------------------
(* Properties                                                                 *)

\* verify_chain holds at every moment, whichever desks append concurrently:
\* each row commits to the row before it, and no row appears twice.
ChainVerifies ==
    /\ VerifyChain
    /\ \A i, j \in DOMAIN ledger : ledger[i].report.trade = ledger[j].report.trade => i = j

\* What a cycle reports to its caller is what the audit trail says: a decision
\* is in the ledger, with the volume that was filled, before it is returned.
DecisionsAreAudited ==
    \A d \in Desks :
        result[d].status \in {"denied", "filled"} =>
            \E i \in DOMAIN ledger :
                /\ ledger[i].report = result[d].report
                /\ result[d].status = Outcome(ledger[i].report)

\* The currency gate holds of what is filled, not only of what was asked for: by
\* the positions the review saw, no fill takes a currency beyond the limit,
\* except to bring back one that was further out.
FillsRespectLimit ==
    \A i \in DOMAIN ledger :
        LET r == ledger[i].report IN
        r.volume > 0 =>
            \A currency \in Currencies :
                LET before == Exposure(r.seen, currency)
                    after == After(r, r.volume, currency)
                IN  \/ Within(after)
                    \/ before <= after /\ after < 0
                    \/ 0 < after /\ after <= before

\* No fill was reviewed blind: every position it was weighed against, and its own
\* symbol, could be parsed.
FillsAreWeighed ==
    \A i \in DOMAIN ledger :
        LET r == ledger[i].report IN
        r.volume > 0 => Parsed(r.seen) /\ Pair[r.symbol] # Unknown

\* A mail outage never fails a cycle: a decision that is in the ledger is returned
\* to the caller. A cycle that raised has recorded nothing.
NotifiedOrRecorded(D) ==
    \A d \in D :
        result[d].status = "raised" =>
            \A i \in DOMAIN ledger : ledger[i].report.trade # result[d].report.trade
OutageNeverFailsCycle == NotifiedOrRecorded(Mailing)

\* The same of every desk, those whose mail is on without credentials included.
NotificationNeverFailsCycle == NotifiedOrRecorded(Desks)
=============================================================================
