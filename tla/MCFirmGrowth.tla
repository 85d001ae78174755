----------------------------- MODULE MCFirmGrowth -----------------------------
(* A small instance of FirmGrowth for TLC: a risk of 20 % per trade makes R-   *)
(* multiples from -6 to 6 reach every threshold, ruin included, in few trades. *)
EXTENDS FirmGrowth, ExpansionRoadmap, WeekendProtocol

\* Two styles, a sector with a symbol and one without, and two slots to a node.
TwoStyles == <<"scalping", "swing">>
TwoSectors == <<"metals", "energy">>
GoldOnly == [s \in {"metals", "energy"} |-> IF s = "metals" THEN <<"XAUUSD">> ELSE <<>>]

Report(side, stop, forecast, strategy) ==
    [accepted |-> TRUE, side |-> side, entry |-> 20, stop |-> stop, forecast |-> forecast,
     strategy |-> strategy]

\* A purchase, a sale, a purchase with a wider stop by another strategy, one without
\* a distance to its stop and one that was not filled.
FiveReports ==
    <<Report(1, 19, 1, "generalist-v1"), Report(-1, 21, 1, "generalist-v1"),
      Report(1, 18, 0, "generalist-v0"), Report(1, 20, 1, "generalist-v1"),
      [Report(1, 19, 1, "generalist-v1") EXCEPT !.accepted = FALSE]>>

\* The pure parts have no behaviour: TLC checks them for every small input before it
\* starts.
ASSUME RoadmapChecked == BreadthBeforeDepth
ASSUME ProtocolChecked == ExperimentsAreOutOfSample
ASSUME GapChecked == GapEndsProtocol
=============================================================================
