------------------------- MODULE MCHistoricalArchive -------------------------
(* Two chunks, of one partition or of two that have a folder of one name      *)
(* below different ones; a file that goes bad holds one kind of rubbish.      *)
EXTENDS HistoricalArchive, TLC

CONSTANTS c1, c2, eurusd, usdjpy, august, rot

TwoChunks == {c1, c2}
TwoPartitions == {<<eurusd, august>>, <<usdjpy, august>>}
OneRubbish == {rot}
AnyChunkAnyPair == Permutations({c1, c2}) \union Permutations({eurusd, usdjpy})
=============================================================================
