-------------------------- MODULE PaperTradingProofs --------------------------
(* What holds of the audit trail for every number of desks and every limit.   *)
EXTENDS PaperTrading, FiniteSetTheorems, WellFoundedInduction, TLAPS

Proposed == {"review", "fill", "report", "deliver"}
Unrecorded == {"review", "fill", "report"}

ShapeOK ==
    /\ \E S : ledger \in Seq(S)
    /\ positions \subseteq Holdings
    /\ pc \in [Desks -> Stages]
    /\ DOMAIN cycle = Desks
    /\ DOMAIN result = Desks
    /\ \A d \in Desks :
          pc[d] # "idle" =>
              cycle[d] \in [order : Orders, symbol : Symbols, side : Sides,
                            trade : TradeIds \union {NoTrade},
                            seen : SUBSET Holdings, volume : Int]

RecordedOnce ==
    \A i, j \in DOMAIN ledger : ledger[i].report.trade = ledger[j].report.trade => i = j

\* Every id in the ledger or in a running cycle was handed out, to one cycle.
IdsAreOwned ==
    /\ \A i \in DOMAIN ledger : ledger[i].report.trade \in used
    /\ \A d \in Desks : pc[d] \in Proposed => cycle[d].trade \in used
    /\ \A d, e \in Desks :
          d # e /\ pc[d] \in Proposed /\ pc[e] \in Proposed => cycle[d].trade # cycle[e].trade

\* A proposal is in the ledger from its append on, and not before.
RecordedInOrder ==
    \A d \in Desks :
        /\ pc[d] \in Unrecorded =>
              \A i \in DOMAIN ledger : ledger[i].report.trade # cycle[d].trade
        /\ pc[d] = "deliver" =>
              \E i \in DOMAIN ledger : ledger[i].report = Report(cycle[d])

\* A cycle has a volume only after a review that could compute the exposure.
ReviewedBeforeFill ==
    \A d \in Desks :
        /\ pc[d] \in {"signal", "review", "fill"} => cycle[d].volume = 0
        /\ (pc[d] = "fill" \/ (pc[d] = "report" /\ cycle[d].volume > 0))
              => Parsed(cycle[d].seen) /\ Pair[cycle[d].symbol] # Unknown

IInv ==
    /\ ShapeOK /\ VerifyChain /\ RecordedOnce /\ IdsAreOwned /\ RecordedInOrder
    /\ ReviewedBeforeFill /\ FillsAreWeighed /\ DecisionsAreAudited

\* A row added to a ledger leaves the rows before it as they were.
LEMMA Appended ==
    ASSUME NEW log, \E S : log \in Seq(S), NEW row
    PROVE  /\ \E S : Append(log, row) \in Seq(S)
           /\ Len(log) \in Nat
           /\ DOMAIN log = 1..Len(log)
           /\ DOMAIN Append(log, row) = 1..(Len(log) + 1)
           /\ \A i \in 1..Len(log) : Append(log, row)[i] = log[i]
           /\ Append(log, row)[Len(log) + 1] = row
<1>1. PICK S : log \in Seq(S)
  OBVIOUS
<1>2. log \in Seq(S \union {row})
  BY <1>1
<1>3. Append(log, row) \in Seq(S \union {row})
  BY <1>2
<1> QED
  BY <1>2, <1>3

\* An empty ledger and idle desks satisfy the inductive invariant.
LEMMA InitInvariant == Init => IInv
<1> SUFFICES ASSUME Init PROVE IInv
  OBVIOUS
<1> USE DEF Init
<1>1. ledger \in Seq({}) /\ DOMAIN ledger = {}
  OBVIOUS
<1>2. ShapeOK
  BY <1>1 DEF ShapeOK, Stages
<1>3. VerifyChain /\ RecordedOnce /\ FillsAreWeighed
  BY <1>1 DEF VerifyChain, RecordedOnce, FillsAreWeighed
<1>4. IdsAreOwned /\ RecordedInOrder
  BY <1>1 DEF IdsAreOwned, RecordedInOrder, Proposed, Unrecorded
<1>5. ReviewedBeforeFill /\ DecisionsAreAudited
  BY DEF ReviewedBeforeFill, DecisionsAreAudited
<1> QED
  BY <1>2, <1>3, <1>4, <1>5 DEF IInv

\* A cycle that ends leaves the ledger alone and forgets what it held; what it
\* returns must be in the ledger if it is a decision.
LEMMA FinishInvariant ==
    ASSUME IInv, NEW d \in Desks, NEW how, NEW report,
           Finish(d, how, report), UNCHANGED world,
           how \in {"denied", "filled"} =>
               \E i \in DOMAIN ledger :
                   ledger[i].report = report /\ how = Outcome(ledger[i].report)
    PROVE  IInv'
<1> USE DEF IInv
<1>1. /\ ledger' = ledger /\ used' = used
      /\ pc' = [pc EXCEPT ![d] = "idle"]
      /\ cycle' = [cycle EXCEPT ![d] = Idle]
      /\ result' = [result EXCEPT ![d] = [status |-> how, report |-> report]]
      /\ positions' = positions
  BY DEF Finish, Goto, world
<1>2. ShapeOK'
  BY <1>1 DEF ShapeOK, Stages
<1>3. VerifyChain' /\ RecordedOnce'
  BY <1>1 DEF VerifyChain, RecordedOnce
<1>4. IdsAreOwned' /\ RecordedInOrder' /\ ReviewedBeforeFill'
  BY <1>1 DEF ShapeOK, IdsAreOwned, RecordedInOrder, ReviewedBeforeFill, Proposed, Unrecorded
<1>5. FillsAreWeighed'
  BY <1>1 DEF FillsAreWeighed
<1>6. DecisionsAreAudited'
  BY <1>1 DEF DecisionsAreAudited, ShapeOK
<1> QED
  BY <1>2, <1>3, <1>4, <1>5, <1>6

\* A step of one cycle that touches neither the ledger nor any result, and keeps
\* what it read consistent, keeps the invariant.
LEMMA StepInvariant ==
    ASSUME IInv, NEW d \in Desks, NEW stage \in {"signal", "review", "fill", "report"},
           NEW c \in [order : Orders, symbol : Symbols, side : Sides,
                      trade : TradeIds \union {NoTrade},
                      seen : SUBSET Holdings, volume : Int],
           pc' = [pc EXCEPT ![d] = stage],
           cycle' = [cycle EXCEPT ![d] = c],
           ledger' = ledger, result' = result, used \subseteq used', positions' = positions,
           stage \in Unrecorded =>
               /\ c.trade \in used'
               /\ \A i \in DOMAIN ledger : ledger[i].report.trade # c.trade
               /\ \A e \in Desks : e # d /\ pc[e] \in Proposed => cycle[e].trade # c.trade,
           stage # "report" => c.volume = 0,
           (stage = "fill" \/ c.volume > 0) => Parsed(c.seen) /\ Pair[c.symbol] # Unknown
    PROVE  IInv'
<1> USE DEF IInv
<1>1. ShapeOK'
  BY DEF ShapeOK, Stages
<1>2. VerifyChain' /\ RecordedOnce'
  BY DEF VerifyChain, RecordedOnce
<1>3. IdsAreOwned'
  BY DEF ShapeOK, IdsAreOwned, Proposed, Unrecorded
<1>4. RecordedInOrder'
  BY DEF ShapeOK, RecordedInOrder, Proposed, Unrecorded
<1>5. ReviewedBeforeFill'
  BY DEF ShapeOK, ReviewedBeforeFill
<1>6. FillsAreWeighed' /\ DecisionsAreAudited'
  BY DEF FillsAreWeighed, DecisionsAreAudited
<1> QED
  BY <1>1, <1>2, <1>3, <1>4, <1>5, <1>6

\* The append: the new row is linked to the last one and is the only one with
\* its id.
LEMMA AppendInvariant ==
    ASSUME IInv, NEW d \in Desks, AppendReport(d)
    PROVE  IInv'
<1> USE DEF IInv
<1> DEFINE row == Record(LastHash, Report(cycle[d]))
<1> DEFINE n == Len(ledger)
<1>1. /\ ledger' = Append(ledger, row) /\ used' = used /\ cycle' = cycle /\ result' = result
      /\ positions' = positions
      /\ pc[d] = "report" /\ pc' = [pc EXCEPT ![d] = "deliver"]
  BY DEF AppendReport, Goto
<1>2. /\ \E S : ledger' \in Seq(S)
      /\ n \in Nat
      /\ DOMAIN ledger = 1..n
      /\ DOMAIN ledger' = 1..(n + 1)
      /\ \A i \in 1..n : ledger'[i] = ledger[i]
      /\ ledger'[n + 1] = row
  <2> HIDE DEF row
  <2>1. \E S : ledger \in Seq(S)
    BY DEF ShapeOK
  <2>2. /\ \E S : Append(ledger, row) \in Seq(S)
        /\ Len(ledger) \in Nat
        /\ DOMAIN ledger = 1..Len(ledger)
        /\ DOMAIN Append(ledger, row) = 1..(Len(ledger) + 1)
        /\ \A i \in 1..Len(ledger) : Append(ledger, row)[i] = ledger[i]
        /\ Append(ledger, row)[Len(ledger) + 1] = row
    BY <2>1, Appended
  <2> QED
    BY <1>1, <2>2
<1> HIDE DEF row, n
<1>3. /\ row.report = Report(cycle[d]) /\ row.previous = LastHash
      /\ row.hash = Hash(row.previous, row.report)
      /\ row.report.trade = cycle[d].trade /\ row.report.volume = cycle[d].volume
      /\ row.report.seen = cycle[d].seen /\ row.report.symbol = cycle[d].symbol
  BY DEF row, Record, Report
<1>4. LastHash = IF n = 0 THEN Genesis ELSE ledger[n].hash
  <2>1. ledger = <<>> <=> n = 0
    BY DEF n, ShapeOK
  <2> QED
    BY <2>1 DEF LastHash, n
<1>5. ShapeOK'
  BY <1>1, <1>2 DEF ShapeOK, Stages
<1>6. VerifyChain'
  BY <1>2, <1>3, <1>4 DEF VerifyChain
<1>7. \A i \in 1..n : ledger[i].report.trade # cycle[d].trade
  BY <1>1, <1>2 DEF RecordedInOrder, Unrecorded
<1>8. RecordedOnce'
  BY <1>2, <1>3, <1>7 DEF RecordedOnce
<1>9. IdsAreOwned'
  BY <1>1, <1>2, <1>3 DEF IdsAreOwned, ShapeOK, Proposed
<1>10. RecordedInOrder'
  <2> SUFFICES ASSUME NEW e \in Desks PROVE
        /\ pc'[e] \in Unrecorded =>
              \A i \in DOMAIN ledger' : ledger'[i].report.trade # cycle[e].trade
        /\ pc'[e] = "deliver" =>
              \E i \in DOMAIN ledger' : ledger'[i].report = Report(cycle[e])
    BY <1>1 DEF RecordedInOrder, Report
  <2>1. CASE e = d
    BY <1>1, <1>2, <1>3, <2>1 DEF ShapeOK, Unrecorded
  <2>2. CASE e # d
    <3>1. pc'[e] = pc[e]
      BY <1>1, <2>2 DEF ShapeOK
    <3>2. ASSUME pc[e] \in Unrecorded PROVE cycle[d].trade # cycle[e].trade
      BY <1>1, <2>2, <3>2 DEF IdsAreOwned, Proposed, Unrecorded
    <3> QED
      BY <1>2, <1>3, <3>1, <3>2 DEF RecordedInOrder
  <2> QED
    BY <2>1, <2>2
<1>11. ReviewedBeforeFill'
  BY <1>1 DEF ReviewedBeforeFill, ShapeOK
<1>12. FillsAreWeighed'
  BY <1>1, <1>2, <1>3 DEF FillsAreWeighed, ReviewedBeforeFill
<1>13. DecisionsAreAudited'
  BY <1>1, <1>2 DEF DecisionsAreAudited
<1> QED
  BY <1>5, <1>6, <1>8, <1>9, <1>10, <1>11, <1>12, <1>13

\* Every step of a desk or of the broker preserves it.
LEMMA NextInvariant == IInv /\ [Next]_vars => IInv'
<1> SUFFICES ASSUME IInv, [Next]_vars PROVE IInv'
  OBVIOUS
<1> USE DEF IInv
<1>1. ASSUME NEW d \in Desks, Closed(d) \/ Abstain(d) PROVE IInv'
  BY <1>1, FinishInvariant DEF Closed, Abstain
<1>2. ASSUME NEW d \in Desks, Raise(d) \/ AppendRaises(d) \/ DeliverRaises(d) PROVE IInv'
  BY <1>2, FinishInvariant DEF Raise, AppendRaises, DeliverRaises, Raised
<1>3. ASSUME NEW d \in Desks, NEW s \in Symbols, NEW o \in Orders, Dispatch(d, s, o) PROVE IInv'
  <2>1. PICK side \in Sides :
          cycle' = [cycle EXCEPT ![d] =
                      [order |-> o, symbol |-> s, side |-> side,
                       trade |-> NoTrade, seen |-> {}, volume |-> 0]]
    BY <1>3 DEF Dispatch
  <2> DEFINE c == [order |-> o, symbol |-> s, side |-> side,
                   trade |-> NoTrade, seen |-> {}, volume |-> 0]
  <2>2. c \in [order : Orders, symbol : Symbols, side : Sides,
                  trade : TradeIds \union {NoTrade},
                  seen : SUBSET Holdings, volume : Int] /\ c.volume = 0
    OBVIOUS
  <2>3. cycle' = [cycle EXCEPT ![d] = c]
    BY <2>1
  <2> HIDE DEF c
  <2>4. /\ pc' = [pc EXCEPT ![d] = "signal"] /\ ledger' = ledger /\ result' = result
        /\ used \subseteq used' /\ positions' = positions
    BY <1>3 DEF Dispatch, Goto, world
  <2>5. "signal" \notin Unrecorded
    BY DEF Unrecorded
  <2>6. ("signal" = "fill" \/ c.volume > 0) => Parsed(c.seen) /\ Pair[c.symbol] # Unknown
    BY <2>2
  <2>7. "signal" \in {"signal", "review", "fill", "report"}
    OBVIOUS
  <2> QED
    BY <2>2, <2>3, <2>4, <2>5, <2>6, <2>7, StepInvariant
<1>4. ASSUME NEW d \in Desks, NEW t \in TradeIds, Propose(d, t) PROVE IInv'
  <2> DEFINE c == [cycle[d] EXCEPT !.trade = t]
  <2>1. /\ c \in [order : Orders, symbol : Symbols, side : Sides,
                  trade : TradeIds \union {NoTrade},
                  seen : SUBSET Holdings, volume : Int]
        /\ c.trade = t /\ c.volume = 0
    BY <1>4 DEF Propose, ShapeOK, ReviewedBeforeFill
  <2>2. cycle' = [cycle EXCEPT ![d] = c]
    BY <1>4 DEF Propose
  <2>3. \A i \in DOMAIN ledger : ledger[i].report.trade # t
    BY <1>4 DEF Propose, IdsAreOwned
  <2>4. \A e \in Desks : pc[e] \in Proposed => cycle[e].trade # t
    BY <1>4 DEF Propose, IdsAreOwned
  <2> HIDE DEF c
  <2>5. /\ pc' = [pc EXCEPT ![d] = "review"] /\ ledger' = ledger /\ result' = result
        /\ used \subseteq used' /\ t \in used' /\ positions' = positions
    BY <1>4 DEF Propose, Goto
  <2>6. ("review" = "fill" \/ c.volume > 0) => Parsed(c.seen) /\ Pair[c.symbol] # Unknown
    BY <2>1
  <2>7. "review" \in {"signal", "review", "fill", "report"}
    OBVIOUS
  <2> QED
    BY <2>1, <2>2, <2>3, <2>4, <2>5, <2>6, <2>7, StepInvariant
<1>5. ASSUME NEW d \in Desks, Review(d) PROVE IInv'
  <2> DEFINE c == [cycle[d] EXCEPT !.seen = positions]
             stage == IF PortfolioAllows(c) /\ GuardAllows(cycle[d].order)
                      THEN "fill" ELSE "report"
  <2>1. /\ c \in [order : Orders, symbol : Symbols, side : Sides,
                  trade : TradeIds \union {NoTrade},
                  seen : SUBSET Holdings, volume : Int]
        /\ c.trade = cycle[d].trade /\ c.volume = 0
    BY <1>5 DEF Review, ShapeOK, ReviewedBeforeFill
  <2>2. cycle' = [cycle EXCEPT ![d] = c]
    BY <1>5 DEF Review
  <2>3. pc' = [pc EXCEPT ![d] = stage]
    BY <1>5, <2>2 DEF Review, Goto, ShapeOK
  <2>4. stage = "fill" => Parsed(c.seen) /\ Pair[c.symbol] # Unknown
    BY DEF PortfolioAllows
  <2>5. stage \in {"fill", "report"}
    OBVIOUS
  <2> HIDE DEF c, stage
  <2>6. /\ cycle[d].trade \in used /\ ledger' = ledger /\ result' = result /\ used' = used
        /\ positions' = positions
    BY <1>5 DEF Review, world, IdsAreOwned, Proposed
  <2>7. \A i \in DOMAIN ledger : ledger[i].report.trade # cycle[d].trade
    BY <1>5 DEF Review, RecordedInOrder, Unrecorded
  <2>8. \A e \in Desks : e # d /\ pc[e] \in Proposed => cycle[e].trade # cycle[d].trade
    BY <1>5 DEF Review, IdsAreOwned, Proposed
  <2>9. (stage = "fill" \/ c.volume > 0) => Parsed(c.seen) /\ Pair[c.symbol] # Unknown
    BY <2>1, <2>4
  <2>10. stage \in {"signal", "review", "fill", "report"}
    BY <2>5
  <2> QED
    BY <2>1, <2>2, <2>3, <2>6, <2>7, <2>8, <2>9, <2>10, StepInvariant
<1>6. ASSUME NEW d \in Desks, Fill(d) PROVE IInv'
  <2> DEFINE c == [cycle[d] EXCEPT !.volume = NormalizeDown(Requested)]
  <2>0. NormalizeDown(Requested) \in Int
    BY VolumeAssumption DEF NormalizeDown
  <2>1. /\ c \in [order : Orders, symbol : Symbols, side : Sides,
                  trade : TradeIds \union {NoTrade},
                  seen : SUBSET Holdings, volume : Int]
        /\ c.trade = cycle[d].trade /\ c.seen = cycle[d].seen /\ c.symbol = cycle[d].symbol
    BY <1>6, <2>0 DEF Fill, ShapeOK
  <2>2. cycle' = [cycle EXCEPT ![d] = c]
    BY <1>6 DEF Fill
  <2>3. pc' = [pc EXCEPT ![d] = "report"]
    BY <1>6 DEF Fill, Goto
  <2> HIDE DEF c
  <2>4. Parsed(c.seen) /\ Pair[c.symbol] # Unknown
    BY <1>6, <2>1 DEF Fill, ReviewedBeforeFill
  <2>6. /\ cycle[d].trade \in used /\ ledger' = ledger /\ result' = result /\ used' = used
        /\ positions' = positions
    BY <1>6 DEF Fill, world, IdsAreOwned, Proposed
  <2>7. \A i \in DOMAIN ledger : ledger[i].report.trade # cycle[d].trade
    BY <1>6 DEF Fill, RecordedInOrder, Unrecorded
  <2>8. \A e \in Desks : e # d /\ pc[e] \in Proposed => cycle[e].trade # cycle[d].trade
    BY <1>6 DEF Fill, IdsAreOwned, Proposed
  <2> QED
    BY <2>1, <2>2, <2>3, <2>4, <2>6, <2>7, <2>8, StepInvariant
<1>7. ASSUME NEW d \in Desks, Deliver(d) PROVE IInv'
  <2>1. PICK i \in DOMAIN ledger : ledger[i].report = Report(cycle[d])
    BY <1>7 DEF Deliver, RecordedInOrder
  <2>2. Outcome(cycle[d]) = Outcome(ledger[i].report)
    BY <2>1 DEF Outcome, Report
  <2> QED
    BY <1>7, <2>1, <2>2, FinishInvariant DEF Deliver
<1>8. ASSUME BrokerMoves PROVE IInv'
  BY <1>8 DEF BrokerMoves, ShapeOK, VerifyChain, RecordedOnce, IdsAreOwned, RecordedInOrder,
     ReviewedBeforeFill, FillsAreWeighed, DecisionsAreAudited, Report
<1>9. CASE UNCHANGED vars
  BY <1>9 DEF vars, world, ShapeOK, VerifyChain, RecordedOnce, IdsAreOwned, RecordedInOrder,
     ReviewedBeforeFill, FillsAreWeighed, DecisionsAreAudited, Report
<1> QED
  BY <1>1, <1>2, <1>3, <1>4, <1>5, <1>6, <1>7, <1>8, <1>9, AppendInvariant DEF Next

\* So every reachable state satisfies it.
LEMMA Invariant == Spec => []IInv
<1> QED
  BY InitInvariant, NextInvariant, PTL DEF Spec

\* verify_chain holds at every moment and no decision is recorded twice, however
\* many desks append (TradeLedger.append).
THEOREM LedgerVerifies == Spec => []ChainVerifies
<1>1. IInv => ChainVerifies
  BY DEF IInv, RecordedOnce, ChainVerifies
<1> QED
  BY Invariant, <1>1, PTL

\* A decision a cycle returns is in the ledger, as it was returned
\* (PaperTradingOrchestrator.run).
THEOREM AuditedDecisions == Spec => []DecisionsAreAudited
<1>1. IInv => DecisionsAreAudited
  BY DEF IInv
<1> QED
  BY Invariant, <1>1, PTL

\* No fill passed the portfolio review with an exposure it could not compute
\* (FirmPortfolioGovernor.evaluate fails closed).
THEOREM WeighedFills == Spec => []FillsAreWeighed
<1>1. IInv => FillsAreWeighed
  BY DEF IInv
<1> QED
  BY Invariant, <1>1, PTL

-----------------------------------------------------------------------------
(* Cycles that raise.                                                         *)

\* A cycle that raised, at a desk whose mail is in order, had a proposal that is
\* not in the ledger and that nobody holds any more: it never will be.
LostFor(t) ==
    /\ t = NoTrade \/ t \in used
    /\ \A i \in DOMAIN ledger : ledger[i].report.trade # t
    /\ \A e \in Desks : pc[e] \in Proposed => cycle[e].trade # t
RaisedIsLost ==
    /\ used \subseteq TradeIds
    /\ \A d \in Desks : pc[d] = "signal" => cycle[d].trade = NoTrade
    /\ \A d \in Mailing : result[d].status = "raised" => LostFor(result[d].report.trade)

LEMMA InitRaised == Init => RaisedIsLost
BY MailingAssumption DEF Init, RaisedIsLost

\* A cycle that ends takes its proposal with it.
LEMMA FinishRaised ==
    ASSUME IInv, RaisedIsLost, NEW d \in Desks, NEW how, NEW report,
           Finish(d, how, report), UNCHANGED world,
           how = "raised" /\ d \in Mailing =>
               /\ pc[d] # "deliver" /\ pc[d] # "idle"
               /\ report.trade = cycle[d].trade
    PROVE  RaisedIsLost'
<1>1. /\ ledger' = ledger /\ used' = used
      /\ pc' = [pc EXCEPT ![d] = "idle"]
      /\ cycle' = [cycle EXCEPT ![d] = Idle]
      /\ result' = [result EXCEPT ![d] = [status |-> how, report |-> report]]
      /\ pc \in [Desks -> Stages] /\ DOMAIN cycle = Desks /\ DOMAIN result = Desks
  BY DEF Finish, Goto, world, IInv, ShapeOK
<1>2. ASSUME NEW t, LostFor(t) PROVE LostFor(t)'
  BY <1>1, <1>2 DEF LostFor, Proposed
<1>3. ASSUME how = "raised", d \in Mailing PROVE LostFor(report.trade)'
  <2>1. report.trade = cycle[d].trade
    BY <1>3
  <2>2. CASE pc[d] = "signal"
    <3>1. report.trade = NoTrade
      BY <2>1, <2>2 DEF RaisedIsLost
    <3>2. LostFor(NoTrade)
      BY NoTradeAssumption DEF RaisedIsLost, IInv, IdsAreOwned, LostFor
    <3> QED
      BY <1>2, <3>1, <3>2
  <2>3. CASE pc[d] \in Unrecorded
    <3>1. pc[d] \in Proposed /\ cycle[d].trade \in used
      BY <2>3 DEF Unrecorded, Proposed, IInv, IdsAreOwned
    <3>2. /\ \A i \in DOMAIN ledger : ledger[i].report.trade # cycle[d].trade
          /\ \A e \in Desks : e # d /\ pc[e] \in Proposed => cycle[e].trade # cycle[d].trade
      BY <2>3, <3>1 DEF IInv, IdsAreOwned, RecordedInOrder
    <3> QED
      BY <1>1, <2>1, <3>1, <3>2 DEF LostFor, Proposed
  <2> QED
    BY <1>1, <1>3, <2>2, <2>3 DEF Stages, Unrecorded
<1>4. ASSUME NEW e \in Mailing, result'[e].status = "raised"
      PROVE  LostFor(result[e].report.trade)'
  <2>1. e \in Desks
    BY MailingAssumption
  <2>2. CASE e = d
    <3>1. result'[e].status = how /\ result'[e].report = report
      BY <1>1, <2>1, <2>2
    <3> QED
      BY <1>3, <1>4, <2>2, <3>1 DEF LostFor
  <2>3. CASE e # d
    <3>1. result'[e] = result[e]
      BY <1>1, <2>1, <2>3
    <3> QED
      BY <1>2, <1>4, <3>1 DEF RaisedIsLost, LostFor
  <2> QED
    BY <2>2, <2>3
<1>5. used' \subseteq TradeIds /\ \A e \in Desks : pc'[e] = "signal" => cycle'[e].trade = NoTrade
  BY <1>1 DEF RaisedIsLost
<1> QED
  BY <1>4, <1>5 DEF RaisedIsLost, LostFor

\* Nobody picks up an id that was lost.
LEMMA NextRaised == IInv /\ RaisedIsLost /\ [Next]_vars => RaisedIsLost'
<1> SUFFICES ASSUME IInv, RaisedIsLost, [Next]_vars PROVE RaisedIsLost'
  OBVIOUS
<1> DEFINE Kept(d, stage) ==
             /\ used' = used /\ ledger' = ledger /\ result' = result
             /\ pc' = [pc EXCEPT ![d] = stage]
             /\ DOMAIN cycle' = Desks /\ cycle'[d].trade = cycle[d].trade
             /\ \A e \in Desks : e # d => cycle'[e] = cycle[e]
<1>0. /\ pc \in [Desks -> Stages] /\ DOMAIN cycle = Desks /\ DOMAIN result = Desks
      /\ Mailing \subseteq Desks
  BY MailingAssumption DEF IInv, ShapeOK
<1>1. ASSUME NEW d \in Desks, Closed(d) \/ Abstain(d) PROVE RaisedIsLost'
  BY <1>1, FinishRaised DEF Closed, Abstain
<1>2. ASSUME NEW d \in Desks, Raise(d) \/ AppendRaises(d) PROVE RaisedIsLost'
  <2>1. pc[d] # "deliver" /\ pc[d] # "idle" /\ UNCHANGED world
    BY <1>2 DEF Raise, AppendRaises
  <2>2. Finish(d, "raised", [trade |-> cycle[d].trade])
    BY <1>2 DEF Raise, AppendRaises, Raised
  <2> QED
    BY <2>1, <2>2, FinishRaised
<1>3. ASSUME NEW d \in Desks, Deliver(d) PROVE RaisedIsLost'
  BY <1>3, FinishRaised DEF Deliver, Outcome
<1>4. ASSUME NEW d \in Desks, DeliverRaises(d) PROVE RaisedIsLost'
  BY <1>4, FinishRaised DEF DeliverRaises, Raised
<1>5. ASSUME NEW d \in Desks, NEW s \in Symbols, NEW o \in Orders, Dispatch(d, s, o)
      PROVE  RaisedIsLost'
  <2>1. /\ used' = used /\ ledger' = ledger /\ result' = result
        /\ pc' = [pc EXCEPT ![d] = "signal"]
        /\ cycle'[d].trade = NoTrade
        /\ \A e \in Desks : e # d => cycle'[e] = cycle[e]
    BY <1>0, <1>5 DEF Dispatch, Goto, world
  <2> QED
    BY <1>0, <2>1 DEF RaisedIsLost, LostFor, Proposed
<1>6. ASSUME NEW d \in Desks, NEW t \in TradeIds, Propose(d, t) PROVE RaisedIsLost'
  <2>1. /\ t \notin used /\ used' = used \union {t} /\ t # NoTrade
        /\ ledger' = ledger /\ result' = result
        /\ pc' = [pc EXCEPT ![d] = "review"] /\ cycle' = [cycle EXCEPT ![d].trade = t]
    BY <1>6, NoTradeAssumption DEF Propose, Goto
  <2>2. cycle[d] \in [order : Orders, symbol : Symbols, side : Sides,
                      trade : TradeIds \union {NoTrade}, seen : SUBSET Holdings, volume : Int]
    BY <1>6 DEF Propose, IInv, ShapeOK
  <2>3. cycle'[d].trade = t /\ \A e \in Desks : e # d => cycle'[e] = cycle[e]
    BY <1>0, <2>1, <2>2
  <2>4. ASSUME NEW u, LostFor(u) PROVE LostFor(u)'
    <3>1. u # t
      BY <2>1, <2>4 DEF LostFor
    <3> QED
      BY <1>0, <2>1, <2>3, <2>4, <3>1 DEF LostFor
  <2>5. used' \subseteq TradeIds
    BY <2>1 DEF RaisedIsLost
  <2>6. \A e \in Desks : pc'[e] = "signal" => cycle'[e].trade = NoTrade
    BY <1>0, <2>1, <2>3 DEF RaisedIsLost
  <2>7. \A e \in Mailing : result'[e].status = "raised" => LostFor(result[e].report.trade)'
    BY <2>1, <2>4 DEF RaisedIsLost, LostFor
  <2> QED
    BY <2>5, <2>6, <2>7 DEF RaisedIsLost, LostFor
<1>7. ASSUME NEW d \in Desks, NEW stage \in Proposed, pc[d] \in Proposed, Kept(d, stage)
      PROVE  RaisedIsLost'
  <2>1. ASSUME NEW u, LostFor(u) PROVE LostFor(u)'
    BY <1>0, <1>7, <2>1 DEF LostFor
  <2>2. \A e \in Desks : pc'[e] = "signal" => cycle'[e].trade = NoTrade
    BY <1>0, <1>7 DEF RaisedIsLost, Proposed
  <2>3. \A e \in Mailing : result'[e].status = "raised" => LostFor(result[e].report.trade)'
    BY <1>7, <2>1 DEF RaisedIsLost, LostFor
  <2> QED
    BY <1>7, <2>2, <2>3 DEF RaisedIsLost, LostFor
<1>8. ASSUME NEW d \in Desks, Review(d) \/ Fill(d) PROVE RaisedIsLost'
  <2>1. pc[d] \in Proposed /\ \E stage \in Proposed : pc' = [pc EXCEPT ![d] = stage]
    BY <1>8 DEF Review, Fill, Goto, Proposed
  <2>2. /\ used' = used /\ ledger' = ledger /\ result' = result /\ DOMAIN cycle' = Desks
        /\ \A e \in Desks : e # d => cycle'[e] = cycle[e]
    BY <1>0, <1>8 DEF Review, Fill, world
  <2>3. cycle[d] \in [order : Orders, symbol : Symbols, side : Sides,
                      trade : TradeIds \union {NoTrade}, seen : SUBSET Holdings, volume : Int]
    BY <2>1 DEF IInv, ShapeOK, Proposed
  <2>4. cycle'[d].trade = cycle[d].trade
    BY <1>0, <1>8, <2>3 DEF Review, Fill
  <2> QED
    BY <1>7, <2>1, <2>2, <2>4
<1>9. ASSUME NEW d \in Desks, AppendReport(d) PROVE RaisedIsLost'
  <2> DEFINE row == Record(LastHash, Report(cycle[d]))
  <2>1. /\ ledger' = Append(ledger, row) /\ used' = used /\ cycle' = cycle /\ result' = result
        /\ pc[d] = "report" /\ pc' = [pc EXCEPT ![d] = "deliver"]
        /\ row.report.trade = cycle[d].trade
    BY <1>9 DEF AppendReport, Goto, Record, Report
  <2> HIDE DEF row
  <2>2. \A i \in DOMAIN ledger' : ledger'[i] = row \/ (i \in DOMAIN ledger /\ ledger'[i] = ledger[i])
    <3>1. /\ \E S : ledger \in Seq(S)
      BY DEF IInv, ShapeOK
    <3>2. /\ DOMAIN ledger = 1..Len(ledger) /\ Len(ledger) \in Nat
          /\ DOMAIN ledger' = 1..(Len(ledger) + 1)
          /\ \A i \in 1..Len(ledger) : ledger'[i] = ledger[i]
          /\ ledger'[Len(ledger) + 1] = row
      BY <2>1, <3>1, Appended
    <3> QED
      BY <3>2
  <2>3. ASSUME NEW u, LostFor(u) PROVE LostFor(u)'
    <3>1. cycle[d].trade # u
      BY <2>1, <2>3 DEF LostFor, Proposed
    <3> QED
      BY <1>0, <2>1, <2>2, <2>3, <3>1 DEF LostFor, Proposed
  <2>4. \A e \in Desks : pc'[e] = "signal" => cycle'[e].trade = NoTrade
    BY <1>0, <2>1 DEF RaisedIsLost
  <2>5. \A e \in Mailing : result'[e].status = "raised" => LostFor(result[e].report.trade)'
    BY <2>1, <2>3 DEF RaisedIsLost, LostFor
  <2> QED
    BY <2>1, <2>4, <2>5 DEF RaisedIsLost, LostFor
<1>10. CASE BrokerMoves \/ UNCHANGED vars
  BY <1>10 DEF BrokerMoves, vars, world, RaisedIsLost, LostFor
<1> QED
  BY <1>1, <1>2, <1>3, <1>4, <1>5, <1>6, <1>8, <1>9, <1>10 DEF Next

\* With the mail in order, or off, a cycle that raises has left nothing in the
\* ledger and never will (PaperTradingOrchestrator._deliver).
THEOREM RaisedCyclesLeaveNothing == Spec => []OutageNeverFailsCycle
<1>1. RaisedIsLost => OutageNeverFailsCycle
  BY DEF RaisedIsLost, LostFor, OutageNeverFailsCycle, NotifiedOrRecorded
<1> QED
  BY <1>1, InitInvariant, NextInvariant, InitRaised, NextRaised, PTL DEF Spec

-----------------------------------------------------------------------------
(* Exposures.                                                                 *)

LEMMA SmallestNumber ==
    ASSUME NEW S \in SUBSET Nat, S # {}
    PROVE  \E m \in S : \A n \in S : m <= n
<1>1. PICK m \in S : \A n \in S : ~(<<n, m>> \in OpToRel(<, Nat))
  BY WFMin, NatLessThanWellFounded, Zenon
<1>2. \A n \in S : ~(n < m)
  BY <1>1 DEF OpToRel
<1> QED
  BY <1>2

\* The sums that MapThenSumSet takes, of the sets of at most n of the positions P.
First(s) == CHOOSE p \in s : TRUE
NextSum(g, lots, s) == IF s = {} THEN 0 ELSE lots[First(s)] + g[s \ {First(s)}]
SetsUpTo(P, n) == {s \in SUBSET P : Cardinality(s) <= n}
AreSums(g, lots, P, n) == g = [s \in SetsUpTo(P, n) |-> NextSum(g, lots, s)]

\* Without its first position a set is one smaller.
LEMMA WithoutFirst ==
    ASSUME NEW P, IsFiniteSet(P), NEW s \in SUBSET P
    PROVE  /\ Cardinality(s) \in Nat
           /\ s # {} => /\ Cardinality(s) > 0
                        /\ First(s) \in s /\ First(s) \in P
                        /\ s \ {First(s)} \in SUBSET P
                        /\ Cardinality(s \ {First(s)}) = Cardinality(s) - 1
<1>1. IsFiniteSet(s) /\ Cardinality(s) \in Nat
  BY FS_Subset, FS_CardinalityType
<1>2. ASSUME s # {} PROVE First(s) \in s
  BY <1>2 DEF First
<1>3. s # {} => Cardinality(s) > 0
  BY <1>1, FS_EmptySet
<1> QED
  BY <1>1, <1>2, <1>3, FS_RemoveElement

\* There are such sums: each takes one of a smaller set.
LEMMA SumsExist ==
    ASSUME NEW P, IsFiniteSet(P), NEW lots, NEW n \in Nat
    PROVE  \E g : AreSums(g, lots, P, n)
<1> DEFINE Without == {m \in 0..n : ~\E g : AreSums(g, lots, P, m)}
<1> SUFFICES ASSUME Without # {} PROVE FALSE
  OBVIOUS
<1>1. PICK m \in Without : \A k \in Without : m <= k
  <2>1. Without \in SUBSET Nat
    OBVIOUS
  <2> HIDE DEF Without
  <2> QED
    BY <2>1, SmallestNumber
<1>2. m # 0
  <2> DEFINE g == [s \in SetsUpTo(P, 0) |-> 0]
  <2>1. ASSUME NEW s \in SetsUpTo(P, 0) PROVE NextSum(g, lots, s) = 0
    <3>1. s \in SUBSET P /\ Cardinality(s) <= 0
      BY DEF SetsUpTo
    <3>2. s = {}
      <4>1. Cardinality(s) \in Nat /\ (s # {} => Cardinality(s) > 0)
        BY <3>1, WithoutFirst
      <4> QED
        BY <3>1, <4>1
    <3> QED
      BY <3>2 DEF NextSum
  <2>2. g = [s \in SetsUpTo(P, 0) |-> NextSum(g, lots, s)]
    BY <2>1
  <2>3. AreSums(g, lots, P, 0)
    BY <2>2 DEF AreSums
  <2> QED
    BY <2>3
<1>3. PICK g : AreSums(g, lots, P, m - 1)
  BY <1>1, <1>2
<1> DEFINE h == [s \in SetsUpTo(P, m) |-> NextSum(g, lots, s)]
<1>4. ASSUME NEW s \in SetsUpTo(P, m - 1) PROVE h[s] = g[s]
  <2>1. g = [t \in SetsUpTo(P, m - 1) |-> NextSum(g, lots, t)]
    BY <1>3 DEF AreSums
  <2>2. g[s] = NextSum(g, lots, s)
    BY <2>1
  <2>3. s \in SetsUpTo(P, m)
    <3>1. s \in SUBSET P /\ Cardinality(s) <= m - 1 /\ m \in Nat
      BY <1>1 DEF SetsUpTo
    <3>2. Cardinality(s) <= m
      <4>1. Cardinality(s) \in Nat
        BY <3>1, WithoutFirst
      <4> QED
        BY <3>1, <4>1
    <3> QED
      BY <3>1, <3>2 DEF SetsUpTo
  <2> QED
    BY <2>2, <2>3
<1>5. h = [s \in SetsUpTo(P, m) |-> NextSum(g, lots, s)]
  OBVIOUS
<1> HIDE DEF h
<1>6. ASSUME NEW s \in SetsUpTo(P, m) PROVE NextSum(g, lots, s) = NextSum(h, lots, s)
  <2>1. s # {} => s \ {First(s)} \in SetsUpTo(P, m - 1)
    BY WithoutFirst DEF SetsUpTo
  <2> QED
    BY <1>4, <2>1 DEF NextSum
<1>7. AreSums(h, lots, P, m)
  <2>1. h = [s \in SetsUpTo(P, m) |-> NextSum(h, lots, s)]
    BY <1>5, <1>6
  <2> QED
    BY <2>1 DEF AreSums
<1> QED
  BY <1>7

\* A sum of integers is one.
LEMMA SumsAreIntegers ==
    ASSUME NEW P, IsFiniteSet(P), NEW lots, \A p \in P : lots[p] \in Int,
           NEW g, \A s \in SUBSET P : g[s] = NextSum(g, lots, s)
    PROVE  g[P] \in Int
<1> DEFINE Bad(s) == g[s] \notin Int
<1> DEFINE Sizes == {n \in Nat : \E s \in SUBSET P : Cardinality(s) = n /\ Bad(s)}
<1> SUFFICES ASSUME g[P] \notin Int PROVE FALSE
  OBVIOUS
<1>1. Sizes # {}
  <2>1. Cardinality(P) \in Nat
    BY FS_CardinalityType
  <2> QED
    BY <2>1
<1>2. PICK n \in Sizes : \A k \in Sizes : n <= k
  <2>1. Sizes \in SUBSET Nat
    OBVIOUS
  <2> HIDE DEF Sizes
  <2> QED
    BY <1>1, <2>1, SmallestNumber
<1>3. PICK s \in SUBSET P : Cardinality(s) = n /\ Bad(s)
  OBVIOUS
<1>4. s # {}
  <2>1. g[{}] = 0
    BY DEF NextSum
  <2>2. ~Bad({})
    BY <2>1
  <2> HIDE DEF Bad
  <2> QED
    BY <1>3, <2>2
<1>5. /\ First(s) \in P /\ s \ {First(s)} \in SUBSET P
      /\ Cardinality(s \ {First(s)}) = n - 1 /\ n - 1 \in Nat
  <2> DEFINE rest == s \ {First(s)}
  <2>1. rest \in SUBSET P
    OBVIOUS
  <2> HIDE DEF rest
  <2>2. Cardinality(rest) \in Nat
    BY <2>1, WithoutFirst
  <2>3. Cardinality(s \ {First(s)}) \in Nat
    BY <2>2 DEF rest
  <2> QED
    BY <1>3, <1>4, <2>3, WithoutFirst
<1>6. g[s \ {First(s)}] \in Int
  BY <1>2, <1>5
<1>7. g[s] = lots[First(s)] + g[s \ {First(s)}]
  BY <1>4 DEF NextSum
<1> QED
  BY <1>3, <1>5, <1>6, <1>7

\* currency_exposure_from_positions adds up to a whole number of lots.
LEMMA ExposureIsInteger ==
    ASSUME NEW P \in SUBSET Holdings, NEW currency
    PROVE  Exposure(P, currency) \in Int
<1> DEFINE Lot(p) == p.side * p.volume * Sign(p.symbol, currency)
<1> DEFINE lots == [p \in P |-> Lot(p)]
<1> DEFINE Equation(g) ==
             g = [s \in SUBSET P |->
                    IF s = {} THEN 0
                    ELSE LET x == CHOOSE x \in s : TRUE IN Lot(x) + g[s \ {x}]]
<1>1. IsFiniteSet(P)
  BY VolumeAssumption, FS_Subset
<1>2. \A p \in P : lots[p] \in Int
  <2>1. ASSUME NEW p \in P PROVE p.side \in Int /\ p.volume \in Int
    BY VolumeAssumption
  <2>2. \A p \in P : Sign(p.symbol, currency) \in Int
    BY DEF Sign
  <2> QED
    BY <2>1, <2>2
<1>3. Exposure(P, currency) = (CHOOSE g : Equation(g))[P]
  BY DEF Exposure, MapThenSumSet, MapThenFoldSet
<1>4. ASSUME NEW g
      PROVE  Equation(g) <=> g = [s \in SUBSET P |-> NextSum(g, lots, s)]
  <2>1. ASSUME NEW s \in SUBSET P, s # {}
        PROVE  lots[First(s)] = Lot(First(s))
    BY <1>1, <2>1, WithoutFirst
  <2>2. ASSUME NEW s \in SUBSET P
        PROVE  NextSum(g, lots, s) = IF s = {} THEN 0
                                     ELSE LET x == CHOOSE x \in s : TRUE IN Lot(x) + g[s \ {x}]
    <3> HIDE DEF lots, Lot
    <3> QED
      BY <2>1 DEF NextSum, First
  <2> HIDE DEF lots, Lot
  <2> QED
    BY <2>2
<1> HIDE DEF Equation, lots, Lot
<1>5. PICK g : AreSums(g, lots, P, Cardinality(P))
  BY <1>1, SumsExist, FS_CardinalityType
<1>6. SetsUpTo(P, Cardinality(P)) = SUBSET P
  BY <1>1, FS_Subset DEF SetsUpTo
<1>7. Equation(g)
  BY <1>4, <1>5, <1>6 DEF AreSums
<1> DEFINE sums == CHOOSE f : Equation(f)
<1>8. Equation(sums)
  BY <1>7
<1> HIDE DEF sums
<1>9. \A s \in SUBSET P : sums[s] = NextSum(sums, lots, s)
  <2>1. sums = [s \in SUBSET P |-> NextSum(sums, lots, s)]
    BY <1>4, <1>8
  <2> QED
    BY <2>1
<1>10. sums[P] \in Int
  BY <1>1, <1>2, <1>9, SumsAreIntegers
<1> QED
  BY <1>3, <1>10 DEF sums

-----------------------------------------------------------------------------
(* What is filled.                                                            *)

Filled == NormalizeDown(Requested)
Fillable == Requested < VolumeMin \/ Requested <= VolumeMax

\* The gate on the whole volume that was asked for.
Gated(r) == \A currency \in Currencies : Within(After(r, Requested, currency))

\* What a cycle at a stage, and a row, was filled with: nothing, or the volume that
\* was asked for, rounded, after the gate let all of it pass.
FilledInOrder(r, stage) ==
    /\ r.volume = 0 \/ (r.volume = Filled /\ Fillable)
    /\ stage = "fill" \/ r.volume # 0 => Gated(r)

FillInv ==
    /\ \A d \in Desks :
          /\ IF pc[d] = "idle" THEN cycle[d] = Idle ELSE FilledInOrder(cycle[d], pc[d])
          /\ result[d].status \in Outcomes
    /\ \A i \in DOMAIN ledger :
          /\ FilledInOrder(ledger[i].report, "report")
          /\ ledger[i].report.seen \in SUBSET Holdings
          /\ ledger[i].report.side \in Sides
          /\ ledger[i].report.symbol \in Symbols

LEMMA InitFill == Init => FillInv
BY DEF Init, FillInv, Outcomes

\* One cycle moves, or ends.
LEMMA MoveFill ==
    ASSUME IInv, FillInv, NEW d \in Desks, NEW stage \in Stages, NEW c,
           pc' = [pc EXCEPT ![d] = stage], cycle' = [cycle EXCEPT ![d] = c],
           ledger' = ledger, result'[d].status \in Outcomes,
           \A e \in Desks : e # d => result'[e] = result[e],
           IF stage = "idle" THEN c = Idle ELSE FilledInOrder(c, stage)
    PROVE  FillInv'
<1>1. pc \in [Desks -> Stages] /\ DOMAIN cycle = Desks /\ DOMAIN result = Desks
  BY DEF IInv, ShapeOK
<1>2. ASSUME NEW e \in Desks
      PROVE  /\ IF pc'[e] = "idle" THEN cycle'[e] = Idle ELSE FilledInOrder(cycle'[e], pc'[e])
             /\ result'[e].status \in Outcomes
  <2>1. CASE e = d
    <3>1. pc'[e] = stage /\ cycle'[e] = c
      BY <1>1, <2>1
    <3> QED
      BY <2>1, <3>1
  <2>2. CASE e # d
    <3>1. pc'[e] = pc[e] /\ cycle'[e] = cycle[e] /\ result'[e] = result[e]
      BY <1>1, <2>2
    <3> QED
      BY <3>1 DEF FillInv
  <2> QED
    BY <2>1, <2>2
<1>3. \A i \in DOMAIN ledger' :
          /\ FilledInOrder(ledger'[i].report, "report")
          /\ ledger'[i].report.seen \in SUBSET Holdings
          /\ ledger'[i].report.side \in Sides
          /\ ledger'[i].report.symbol \in Symbols
  BY DEF FillInv
<1>4. FillInv' <=>
        /\ \A e \in Desks :
              /\ IF pc'[e] = "idle" THEN cycle'[e] = Idle ELSE FilledInOrder(cycle'[e], pc'[e])
              /\ result'[e].status \in Outcomes
        /\ \A i \in DOMAIN ledger' :
              /\ FilledInOrder(ledger'[i].report, "report")
              /\ ledger'[i].report.seen \in SUBSET Holdings
              /\ ledger'[i].report.side \in Sides
              /\ ledger'[i].report.symbol \in Symbols
  BY DEF FillInv, FilledInOrder, Gated, After, Outcomes, Idle
<1> QED
  BY <1>2, <1>3, <1>4

LEMMA FinishFill ==
    ASSUME IInv, FillInv, NEW d \in Desks, NEW how \in Outcomes, NEW report,
           Finish(d, how, report), ledger' = ledger
    PROVE  FillInv'
<1> DEFINE r == [status |-> how, report |-> report]
<1>1. /\ pc' = [pc EXCEPT ![d] = "idle"] /\ cycle' = [cycle EXCEPT ![d] = Idle]
      /\ result' = [result EXCEPT ![d] = r] /\ r.status = how
  BY DEF Finish, Goto
<1>2. DOMAIN result = Desks
  BY DEF IInv, ShapeOK
<1>3. "idle" \in Stages
  BY DEF Stages
<1> HIDE DEF r
<1> QED
  BY <1>1, <1>2, <1>3, MoveFill

LEMMA NextFill == IInv /\ FillInv /\ [Next]_vars => FillInv'
<1> SUFFICES ASSUME IInv, FillInv, [Next]_vars PROVE FillInv'
  OBVIOUS
<1>0. /\ pc \in [Desks -> Stages] /\ DOMAIN cycle = Desks /\ DOMAIN result = Desks
      /\ \A d \in Desks :
            pc[d] # "idle" =>
              /\ cycle[d] \in [order : Orders, symbol : Symbols, side : Sides,
                               trade : TradeIds \union {NoTrade},
                               seen : SUBSET Holdings, volume : Int]
              /\ FilledInOrder(cycle[d], pc[d])
      /\ \A d \in Desks : result[d].status \in Outcomes
  BY DEF IInv, ShapeOK, FillInv
<1>1. ASSUME NEW d \in Desks, Closed(d) \/ Abstain(d) PROVE FillInv'
  BY <1>1, FinishFill DEF Closed, Abstain, world, Outcomes
<1>2. ASSUME NEW d \in Desks, Raise(d) \/ AppendRaises(d) \/ DeliverRaises(d) PROVE FillInv'
  BY <1>2, FinishFill DEF Raise, AppendRaises, DeliverRaises, Raised, world, Outcomes
<1>3. ASSUME NEW d \in Desks, Deliver(d) PROVE FillInv'
  <2>1. Outcome(cycle[d]) \in Outcomes
    BY DEF Outcome, Outcomes
  <2> QED
    BY <1>3, <2>1, FinishFill DEF Deliver, world
\* One cycle goes on and the results stay.
<1>4. ASSUME NEW d \in Desks, NEW stage \in Stages \ {"idle"}, NEW c,
             pc' = [pc EXCEPT ![d] = stage], cycle' = [cycle EXCEPT ![d] = c],
             ledger' = ledger, result' = result, FilledInOrder(c, stage)
      PROVE  FillInv'
  BY <1>0, <1>4, MoveFill
<1>5. ASSUME NEW d \in Desks, NEW s \in Symbols, NEW o \in Orders, Dispatch(d, s, o)
      PROVE  FillInv'
  <2>1. PICK side \in Sides :
          cycle' = [cycle EXCEPT ![d] =
                      [order |-> o, symbol |-> s, side |-> side,
                       trade |-> NoTrade, seen |-> {}, volume |-> 0]]
    BY <1>5 DEF Dispatch
  <2> DEFINE c == [order |-> o, symbol |-> s, side |-> side,
                   trade |-> NoTrade, seen |-> {}, volume |-> 0]
  <2>2. FilledInOrder(c, "signal")
    BY DEF FilledInOrder
  <2>3. /\ pc' = [pc EXCEPT ![d] = "signal"] /\ ledger' = ledger /\ result' = result
        /\ "signal" \in Stages \ {"idle"}
    BY <1>5 DEF Dispatch, Goto, world, Stages
  <2> HIDE DEF c
  <2>4. cycle' = [cycle EXCEPT ![d] = c]
    BY <2>1 DEF c
  <2> QED
    BY <1>4, <2>2, <2>3, <2>4
<1>6. ASSUME NEW d \in Desks, NEW t \in TradeIds, Propose(d, t) PROVE FillInv'
  <2> DEFINE c == [cycle[d] EXCEPT !.trade = t]
  <2>1. /\ pc[d] = "signal" /\ pc' = [pc EXCEPT ![d] = "review"] /\ ledger' = ledger
        /\ result' = result /\ cycle' = [cycle EXCEPT ![d] = c]
        /\ "review" \in Stages \ {"idle"}
    BY <1>6 DEF Propose, Goto, Stages
  <2>2. c.volume = cycle[d].volume /\ cycle[d].volume = 0
    BY <1>0, <2>1 DEF IInv, ReviewedBeforeFill
  <2> HIDE DEF c
  <2>3. FilledInOrder(c, "review")
    BY <2>2 DEF FilledInOrder
  <2> QED
    BY <1>4, <2>1, <2>3
<1>7. ASSUME NEW d \in Desks, Review(d) PROVE FillInv'
  <2> DEFINE c == [cycle[d] EXCEPT !.seen = positions]
  <2>1. /\ pc[d] = "review" /\ ledger' = ledger /\ result' = result
        /\ cycle' = [cycle EXCEPT ![d] = c]
    BY <1>7 DEF Review, world
  <2>2. c.volume = 0
    BY <1>0, <2>1 DEF IInv, ReviewedBeforeFill
  <2>3. cycle'[d] = c
    BY <1>0, <2>1
  <2> HIDE DEF c
  <2>4. PICK stage \in {"fill", "report"} :
          /\ pc' = [pc EXCEPT ![d] = stage]
          /\ stage = "fill" => PortfolioAllows(c)
    BY <1>7, <2>3 DEF Review, Goto
  <2>5. FilledInOrder(c, stage) /\ stage \in Stages \ {"idle"}
    BY <2>2, <2>4 DEF FilledInOrder, PortfolioAllows, Gated, Stages
  <2> QED
    BY <1>4, <2>1, <2>4, <2>5
<1>8. ASSUME NEW d \in Desks, Fill(d) PROVE FillInv'
  <2> DEFINE c == [cycle[d] EXCEPT !.volume = Filled]
  <2>1. /\ pc[d] = "fill" /\ ledger' = ledger /\ result' = result
        /\ cycle' = [cycle EXCEPT ![d] = c] /\ Fillable
        /\ pc' = [pc EXCEPT ![d] = "report"] /\ "report" \in Stages \ {"idle"}
    BY <1>8 DEF Fill, world, Goto, Stages, Filled, Fillable
  <2>2. c.volume = Filled /\ c.seen = cycle[d].seen /\ c.side = cycle[d].side
        /\ c.symbol = cycle[d].symbol
    BY <1>0, <2>1
  <2> HIDE DEF c
  <2>3. Gated(cycle[d])
    BY <1>0, <2>1 DEF FilledInOrder
  <2>4. FilledInOrder(c, "report")
    BY <2>1, <2>2, <2>3 DEF FilledInOrder, Gated, After
  <2> QED
    BY <1>4, <2>1, <2>4
<1>9. ASSUME NEW d \in Desks, AppendReport(d) PROVE FillInv'
  <2> DEFINE row == Record(LastHash, Report(cycle[d]))
  <2>1. /\ ledger' = Append(ledger, row) /\ cycle' = cycle /\ result' = result
        /\ pc[d] = "report" /\ pc' = [pc EXCEPT ![d] = "deliver"]
    BY <1>9 DEF AppendReport, Goto
  <2>2. /\ row.report.seen = cycle[d].seen /\ row.report.side = cycle[d].side
        /\ row.report.symbol = cycle[d].symbol /\ row.report.volume = cycle[d].volume
    BY DEF Record, Report
  <2> HIDE DEF row
  <2>3. /\ FilledInOrder(row.report, "report")
        /\ row.report.seen \in SUBSET Holdings /\ row.report.side \in Sides
        /\ row.report.symbol \in Symbols
    BY <1>0, <2>1, <2>2 DEF FilledInOrder, Gated, After
  <2>4. \A i \in DOMAIN ledger' : ledger'[i] = row \/ (i \in DOMAIN ledger /\ ledger'[i] = ledger[i])
    <3>1. \E S : ledger \in Seq(S)
      BY DEF IInv, ShapeOK
    <3>2. /\ DOMAIN ledger = 1..Len(ledger) /\ Len(ledger) \in Nat
          /\ DOMAIN ledger' = 1..(Len(ledger) + 1)
          /\ \A i \in 1..Len(ledger) : ledger'[i] = ledger[i]
          /\ ledger'[Len(ledger) + 1] = row
      BY <2>1, <3>1, Appended
    <3> QED
      BY <3>2
  <2>5. FilledInOrder(cycle[d], "deliver")
    BY <1>0, <2>1 DEF FilledInOrder
  <2>6. ASSUME NEW e \in Desks
        PROVE  /\ IF pc'[e] = "idle" THEN cycle[e] = Idle ELSE FilledInOrder(cycle[e], pc'[e])
               /\ result[e].status \in Outcomes
    BY <1>0, <2>1, <2>5 DEF FillInv
  <2>7. ASSUME NEW i \in DOMAIN ledger'
        PROVE  /\ FilledInOrder(ledger'[i].report, "report")
               /\ ledger'[i].report.seen \in SUBSET Holdings
               /\ ledger'[i].report.side \in Sides
               /\ ledger'[i].report.symbol \in Symbols
    BY <2>3, <2>4 DEF FillInv
  <2> QED
    BY <2>1, <2>6, <2>7 DEF FillInv, FilledInOrder, Gated, After, Idle
<1>10. CASE BrokerMoves \/ UNCHANGED vars
  <2>1. UNCHANGED <<ledger, pc, cycle, result>>
    BY <1>10 DEF BrokerMoves, vars, world
  <2> QED
    BY <2>1 DEF FillInv, FilledInOrder, Gated, After, Idle
<1> QED
  BY <1>1, <1>2, <1>3, <1>5, <1>6, <1>7, <1>8, <1>9, <1>10 DEF Next

LEMMA FillInvariant == Spec => []FillInv
<1> QED
  BY InitInvariant, NextInvariant, InitFill, NextFill, PTL DEF Spec

\* Rounding down takes a volume that is large enough to one no larger.
LEMMA RoundedDown ==
    /\ Filled \in Nat \ {0}
    /\ Requested >= VolumeMin => Filled <= Requested
    /\ Requested < VolumeMin => Filled = VolumeMin
<1> DEFINE over == Requested - VolumeMin
<1>1. /\ Requested \in Nat \ {0} /\ VolumeMin \in Nat \ {0} /\ VolumeStep \in Nat \ {0}
  BY VolumeAssumption
<1>2. CASE Requested >= VolumeMin
  <2>1. over \in Nat
    BY <1>1, <1>2
  <2> HIDE DEF over
  <2>2. over \div VolumeStep \in Nat /\ (over \div VolumeStep) * VolumeStep <= over
    BY <1>1, <2>1
  <2>3. (over \div VolumeStep) * VolumeStep \in Nat
    BY <1>1, <2>2
  <2>4. Filled = VolumeMin + (over \div VolumeStep) * VolumeStep
    BY <1>1, <1>2 DEF Filled, NormalizeDown, over
  <2>5. VolumeMin + over = Requested
    BY <1>1 DEF over
  <2> DEFINE rounded == (over \div VolumeStep) * VolumeStep
  <2>6. rounded \in Nat /\ rounded <= over /\ Filled = VolumeMin + rounded
    BY <2>2, <2>3, <2>4
  <2> HIDE DEF rounded
  <2> QED
    BY <1>1, <1>2, <2>1, <2>5, <2>6
<1>3. CASE Requested < VolumeMin
  BY <1>1, <1>3 DEF Filled, NormalizeDown
<1> QED
  BY <1>1, <1>2, <1>3

\* A fill of no more than was asked for cannot carry a currency beyond the limit that
\* all of it stayed within, except on the way back to it.
LEMMA PartialFill ==
    ASSUME NEW before \in Int, NEW side \in Sides, NEW sign \in {-1, 0, 1},
           NEW volume \in Nat, NEW asked \in Nat, volume <= asked,
           Within(before + side * asked * sign)
    PROVE  \/ Within(before + side * volume * sign)
           \/ before <= before + side * volume * sign /\ before + side * volume * sign < 0
           \/ 0 < before + side * volume * sign /\ before + side * volume * sign <= before
<1>1. Limit \in Nat \ {0}
  BY VolumeAssumption
<1>2. CASE side * sign = 0
  <2>1. sign = 0
    BY <1>2 DEF Sides
  <2> QED
    BY <1>1, <2>1 DEF Within, Sides
<1>3. CASE side * sign = 1
  <2>1. side * volume * sign = volume /\ side * asked * sign = asked
    BY <1>3 DEF Sides
  <2> QED
    BY <1>1, <2>1 DEF Within
<1>4. CASE side * sign = -1
  <2>1. side * volume * sign = -volume /\ side * asked * sign = -asked
    BY <1>4 DEF Sides
  <2> QED
    BY <1>1, <2>1 DEF Within
<1> QED
  BY <1>2, <1>3, <1>4 DEF Sides

\* With a volume the broker accepts, no fill takes a currency beyond the limit, by the
\* positions the review saw (FirmPortfolioGovernor.evaluate, normalize_volume_down);
\* a volume below the broker's least is lifted to it after the gate.
THEOREM FilledWithinLimit ==
    ASSUME Requested >= VolumeMin PROVE Spec => []FillsRespectLimit
<1>1. ASSUME FillInv, NEW i \in DOMAIN ledger, ledger[i].report.volume > 0,
             NEW currency \in Currencies
      PROVE  LET r == ledger[i].report
                 before == Exposure(r.seen, currency)
                 after == After(r, r.volume, currency)
             IN  \/ Within(after)
                 \/ before <= after /\ after < 0
                 \/ 0 < after /\ after <= before
  <2> DEFINE r == ledger[i].report
             before == Exposure(r.seen, currency)
             sign == Sign(r.symbol, currency)
  <2>1. /\ r.seen \in SUBSET Holdings /\ r.side \in Sides /\ r.volume = Filled /\ r.volume # 0
        /\ Gated(r)
    BY <1>1 DEF FillInv, FilledInOrder
  <2>2. before \in Int /\ sign \in {-1, 0, 1}
    BY <2>1, ExposureIsInteger DEF Sign
  <2>3. Within(before + r.side * Requested * sign)
    BY <2>1 DEF Gated, After
  <2>4. Requested \in Nat /\ Filled \in Nat /\ Filled <= Requested
    BY RoundedDown, VolumeAssumption
  <2>5. After(r, r.volume, currency) = before + r.side * Filled * sign
    BY <2>1 DEF After
  <2> HIDE DEF r, before, sign
  <2>6. \/ Within(before + r.side * Filled * sign)
        \/ before <= before + r.side * Filled * sign /\ before + r.side * Filled * sign < 0
        \/ 0 < before + r.side * Filled * sign /\ before + r.side * Filled * sign <= before
    BY <2>1, <2>2, <2>3, <2>4, PartialFill
  <2> QED
    BY <2>5, <2>6 DEF r, before
<1>2. FillInv => FillsRespectLimit
  BY <1>1 DEF FillsRespectLimit
<1> QED
  BY <1>2, FillInvariant, PTL

\* Every cycle and every report holds a volume the broker takes, if it takes any.
THEOREM TypeCorrect == ASSUME VolumeMin <= VolumeMax PROVE Spec => []TypeOK
<1>1. ASSUME IInv, FillInv, RaisedIsLost PROVE TypeOK
  <2>1. {VolumeMin, VolumeMax, Requested} \subseteq Nat \ {0}
    BY VolumeAssumption
  <2>2. 0 \in 0..VolumeMax /\ (Fillable => Filled \in 0..VolumeMax)
    BY <2>1, RoundedDown DEF Fillable
  <2>3. ASSUME NEW d \in Desks PROVE cycle[d] \in (IF pc[d] = "idle" THEN {Idle} ELSE Cycle)
    <3>1. CASE pc[d] = "idle"
      BY <1>1, <3>1 DEF FillInv
    <3>2. CASE pc[d] # "idle"
      <4>1. cycle[d].volume = 0 \/ (cycle[d].volume = Filled /\ Fillable)
        BY <1>1, <3>2 DEF FillInv, FilledInOrder
      <4>2. cycle[d].volume \in 0..VolumeMax
        BY <2>2, <4>1
      <4>3. cycle[d] \in [order : Orders, symbol : Symbols, side : Sides,
                          trade : TradeIds \union {NoTrade},
                          seen : SUBSET Holdings, volume : Int]
        BY <1>1, <3>2 DEF IInv, ShapeOK
      <4> QED
        BY <3>2, <4>2, <4>3 DEF Cycle
    <3> QED
      BY <3>1, <3>2
  <2> QED
    BY <1>1, <2>3 DEF TypeOK, IInv, ShapeOK, IdsAreOwned, FillInv, RaisedIsLost
<1> QED
  BY <1>1, FillInvariant, InitInvariant, NextInvariant, InitRaised, NextRaised, PTL DEF Spec
=============================================================================
