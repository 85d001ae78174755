--------------------------- MODULE MCKnowledgeStore ---------------------------
(* One finding, answered by its own desk and two others.                     *)
EXTENDS KnowledgeStore

CONSTANTS f1, home, d2, d3

OneFinding == {f1}
HomeAndTwo == {home, d2, d3}
FromHome == [f \in Findings |-> home]
Once == {1}
=============================================================================
