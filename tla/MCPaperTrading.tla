---------------------------- MODULE MCPaperTrading ----------------------------
(* Two desks.  The first trades a pair and a symbol that cannot be parsed;    *)
(* the second trades the pair, and is now and then stopped by the kill switch.*)
EXTENDS PaperTrading, TLC

CONSTANTS EUR, USD, eurusd, gold, d1, d2

Pairs == eurusd :> [base |-> EUR, quote |-> USD] @@ gold :> Unknown
Calm == [killSwitch |-> FALSE, fresh |-> TRUE, allowed |-> TRUE,
         risk |-> 1, openRisk |-> 1, daily |-> 0, weekly |-> 0]
Killed == [Calm EXCEPT !.killSwitch = TRUE]
CalmOrKilled == {Calm, Killed}
DeskCalls == d1 :> {<<eurusd, Calm>>, <<gold, Calm>>}
             @@ d2 :> {<<eurusd, Calm>>, <<eurusd, Killed>>}

\* A position near the limit, one beyond it, and one that cannot be parsed.
Held(s, side, lots) == [symbol |-> s, side |-> side, volume |-> lots]
LongOrGold == {Held(eurusd, 1, 3), Held(gold, 1, 1)}
LongShortOrGold == LongOrGold \union {Held(eurusd, -1, 6)}

TradeSymmetry == Permutations(TradeIds)
=============================================================================
