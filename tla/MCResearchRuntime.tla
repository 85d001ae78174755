-------------------------- MODULE MCResearchRuntime --------------------------
(* Small instances of ResearchRuntime for TLC.                                *)
EXTENDS ResearchRuntime, TLC

CONSTANTS a, b, c   \* three research tasks

\* One task that consumes two others.
JoinDependsOn == a :> {} @@ b :> {} @@ c :> {a, b}
\* The pipeline's shape: each stage consumes the one before.
ChainDependsOn == a :> {} @@ b :> {a} @@ c :> {b}

TwoOneOne == a :> 2 @@ b :> 1 @@ c :> 1
InOrder == a :> 1 @@ b :> 2 @@ c :> 3
=============================================================================
