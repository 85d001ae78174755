--------------------------- MODULE ExpansionRoadmap ---------------------------
(* CorporateExpansionRoadmap.next_recommendation: the firm grows by nodes of  *)
(* six desks, and the roadmap names the node and the slot that come next, for *)
(* a human to set up.                                                         *)
EXTENDS Integers, Sequences
LOCAL INSTANCE SequencesExt
LOCAL INSTANCE FiniteSetsExt

CONSTANTS Styles,          \* common_styles
          Sectors,         \* sectors
          SymbolsOf,       \* symbols_by_sector
          Slots            \* the slots of a node, six in the code

ASSUME RoadmapAssumption ==
    /\ Styles \in Seq(STRING) /\ Styles # <<>>
    /\ Sectors \in Seq(STRING)
    /\ SymbolsOf \in [{Sectors[i] : i \in DOMAIN Sectors} -> Seq(STRING)]
    /\ Slots \in Nat \ {0}

\* A node by its labels; the tier is how many it has.
Generalist == <<>>
Tier(node) == Len(node)

\* The nodes in the order of the code's loops.
Across(prefix) == [i \in DOMAIN Styles |-> <<Styles[i]>> \o prefix]
SectorNodes(s) == Across(<<Sectors[s]>>)
SymbolNodes(s) ==
    FlattenSeq([y \in DOMAIN SymbolsOf[Sectors[s]] |->
                  Across(<<Sectors[s], SymbolsOf[Sectors[s]][y]>>)])
Order ==
    <<Generalist>> \o Across(<<>>)
    \o FlattenSeq([s \in DOMAIN Sectors |-> SectorNodes(s)])
    \o FlattenSeq([s \in DOMAIN Sectors |-> SymbolNodes(s)])
Nodes == {Order[i] : i \in DOMAIN Order}

\* qualified[node] are the slots of its qualified desks; a node that does not exist
\* yet has none.  A slot with a desk that does not qualify is named again.
Full(qualified, node) == qualified[node] = 1..Slots
Recommendation(qualified) ==
    LET waiting == {i \in DOMAIN Order : ~Full(qualified, Order[i])} IN
    IF waiting = {} THEN [eligible |-> FALSE]
    ELSE LET node == Order[Min(waiting)] IN
         [eligible |-> TRUE, node |-> node, slot |-> Min((1..Slots) \ qualified[node])]

\* Whatever desks qualify or lose their qualification, breadth comes before depth:
\* the firm is sent to a deeper specialization only when every node of the layers
\* above is full, never to a slot whose desk qualifies, and to nothing only when all
\* is populated.
BreadthBeforeDepth ==
    \A qualified \in [Nodes -> SUBSET (1..Slots)] :
        LET next == Recommendation(qualified) IN
        IF next.eligible
        THEN /\ next.slot \notin qualified[next.node]
             /\ \A node \in Nodes : Tier(node) < Tier(next.node) => Full(qualified, node)
        ELSE \A node \in Nodes : Full(qualified, node)
=============================================================================
