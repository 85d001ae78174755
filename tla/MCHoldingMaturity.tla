-------------------------- MODULE MCHoldingMaturity --------------------------
(* Three stages, a window of two trades, wins and losses of one unit.         *)
EXTENDS HoldingMaturity

WinOrLose == {-1, 1}
=============================================================================
