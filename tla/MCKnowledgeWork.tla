--------------------------- MODULE MCKnowledgeWork ---------------------------
(* One finding of the desk home, planned for rosters that name home, repeat a *)
(* desk, or are too short, and answered by desks and replications.            *)
EXTENDS KnowledgeWork

CONSTANTS f1, home, d2, d3, r1, r2

OneFinding == {f1}
Identifiers == {home, d2, d3, r1, r2}
FromHome == [f \in Findings |-> home]
TwoReplications == [f \in Findings |-> {r1, r2}]
EveryRoster == {<<>>, <<home, d2>>, <<d2, d2>>, <<home, d2, d2, d3>>}
Once == {1}
=============================================================================
