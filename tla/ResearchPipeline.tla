--------------------------- MODULE ResearchPipeline ---------------------------
(* The research programme: a weekend brief about the champion becomes         *)
(* challengers in the strategy registry and, for each, a chain of dependent   *)
(* research tasks.  DurableChallengerResearchPipeline.plan makes one insert   *)
(* per challenger and then one per task, each a transaction of its own; the   *)
(* clients of the registry found, compare, promote and reject meanwhile.  A   *)
(* process that dies in between is started again and calls plan again;        *)
(* nothing else looks at what the first call left behind.                     *)
EXTENDS StrategyRegistry, WeekendBrief

CONSTANTS MaxChallengers,  \* ChallengerResearchWorker.maximum_challengers
          Stages,       \* the task types of a chain, in order
          Briefs,       \* the briefs a weekend may end with
          Version       \* Version[s][i]: the strategy s's i-th challenger is named after

Indexes == 1..MaxChallengers

\* f"{champion.version}-c{champion.generation + 1}.{index}": the version of the
\* champion is unique, so no two challengers are named alike.  Version is None
\* where the instance has no strategy left.
Named(s, i) == Version[s][i] # None
Planned == {v \in Strategies : \E s \in Strategies, i \in Indexes : Version[s][i] = v}

ASSUME MaxChallengersAssumption == MaxChallengers \in Nat \ {0}
ASSUME StagesAssumption == Stages \in Seq(STRING) /\ Stages # <<>>
ASSUME VersionAssumption ==
    /\ Version \in [Strategies -> [Indexes -> Strategies \union {None}]]
    /\ \A s, t \in Strategies : \A i, j \in Indexes :
          Named(s, i) /\ Version[s][i] = Version[t][j] => s = t /\ i = j

VARIABLES chain,        \* chain[v]: how many tasks of v's chain are in the queue
          pc,           \* where plan is, "down" while its process is dead
          base,         \* the champion plan was called with
          size,         \* challengers this call makes
          index,        \* the challenger being made or enqueued
          killed        \* the champions a plan of which was cut short (history)

callVars == <<pc, base, size, index>>
planVars == <<chain, callVars, killed>>
allVars == <<vars, planVars>>

\* The base is None before the first call.
PlanTypeOK ==
    /\ TypeOK
    /\ chain \in [Strategies -> 0..Len(Stages)]
    /\ pc \in {"idle", "creating", "enqueueing", "down"}
    /\ base \in Strategies \union {None}
    /\ size \in 0..MaxChallengers
    /\ index \in 0..MaxChallengers
    /\ killed \subseteq Strategies

PlanInit ==
    /\ Init
    /\ chain = [v \in Strategies |-> 0]
    /\ pc = "idle" /\ base = None /\ size = 0 /\ index = 0
    /\ killed = {}

-----------------------------------------------------------------------------
(* DurableChallengerResearchPipeline.plan.                                    *)

\* hypotheses[: maximum_challengers]
SizeOf(b) ==
    IF Len(Hypotheses(b)) <= MaxChallengers THEN Len(Hypotheses(b)) ELSE MaxChallengers

\* Called with the champion of the moment; without enough outcomes nothing happens.
Plan(s, b) ==
    /\ pc = "idle"
    /\ status[s] = "champion" /\ Eligible(b)
    /\ \A i \in 1..SizeOf(b) : Named(s, i)
    /\ pc' = "creating" /\ base' = s /\ size' = SizeOf(b) /\ index' = 1
    /\ UNCHANGED <<vars, chain, killed>>

Stop == pc' = "idle" /\ size' = 0 /\ index' = 0 /\ UNCHANGED base

\* The loop over the challengers of this call: on to the next, or to the next phase.
Advance(after) ==
    IF index < size
    THEN index' = index + 1 /\ UNCHANGED <<pc, base, size>>
    ELSE after

StartWithTheLast ==  \* mutant of StartEnqueueing
    pc' = "enqueueing" /\ index' = size /\ UNCHANGED <<base, size>>
StartEnqueueing == pc' = "enqueueing" /\ index' = 1 /\ UNCHANGED <<base, size>>

\* create_challenger of a version that is not taken ...
Create ==
    /\ pc = "creating"
    /\ CreateChallenger(base, Version[base][index])
    /\ Advance(StartEnqueueing)
    /\ UNCHANGED <<chain, killed>>

\* ... and of one that is: it raises, and plan with it.
CollideAndGoOn ==  \* mutant of Collide
    /\ pc = "creating"
    /\ status[Version[base][index]] # "absent"
    /\ Advance(StartEnqueueing)
    /\ UNCHANGED <<vars, chain, killed>>
Collide ==
    /\ pc = "creating"
    /\ status[Version[base][index]] # "absent"
    /\ Stop
    /\ UNCHANGED <<vars, chain, killed>>

\* _enqueue_chain adds the next stage, depending on the one before it.
EnqueueOneShort ==  \* mutant of Enqueue
    /\ pc = "enqueueing"
    /\ LET v == Version[base][index] IN
          /\ chain' = [chain EXCEPT ![v] = @ + 1]
          /\ IF chain'[v] < Len(Stages) - 1 THEN UNCHANGED callVars ELSE Advance(Stop)
    /\ UNCHANGED <<vars, killed>>
Enqueue ==
    /\ pc = "enqueueing"
    /\ LET v == Version[base][index] IN
          /\ chain' = [chain EXCEPT ![v] = @ + 1]
          /\ IF chain'[v] < Len(Stages) THEN UNCHANGED callVars ELSE Advance(Stop)
    /\ UNCHANGED <<vars, killed>>

Crash ==
    /\ pc \in {"creating", "enqueueing"}
    /\ pc' = "down" /\ size' = 0 /\ index' = 0 /\ killed' = killed \union {base}
    /\ UNCHANGED <<vars, chain, base>>

Restart ==
    /\ pc = "down"
    /\ pc' = "idle"
    /\ UNCHANGED <<vars, chain, base, size, index, killed>>

\* What the clients of the registry do: they found the firm, under a version the
\* worker does not make up, and compare, promote and reject.  Nobody but the worker
\* creates challengers.
ClientStep ==
    \/ \E s, v \in Strategies : Compare(v, s)
    \/ \E p \in Clients :
          \/ \E v \in Strategies \ Planned : FoundCheck(p, v)
          \/ \E v \in Strategies : RejectCheck(p, v)
          \/ \E v \in Strategies, forward \in SUBSET ForwardGates : PromoteCheck(p, v, forward)
          \/ FoundInsert(p) \/ PromoteTxn(p) \/ RejectWrite(p) \/ Abandon(p)

PlanStep == Create \/ Collide \/ Enqueue

PlanNext ==
    \/ ClientStep /\ UNCHANGED planVars
    \/ \E s \in Strategies, b \in Briefs : Plan(s, b)
    \/ PlanStep
    \/ Crash \/ Restart

PlanSpec == PlanInit /\ [][PlanNext]_allVars

\* A call of plan that is under way goes on, or its process dies.
FairPlanSpec == PlanSpec /\ WF_allVars(PlanStep)

\* The scheduled weekend job keeps calling plan, too, and is restarted when it died.
SurvivalSpec ==
    /\ FairPlanSpec /\ WF_allVars(Restart)
    /\ \A s \in Strategies : WF_allVars(\E b \in Briefs : Plan(s, b))

-----------------------------------------------------------------------------
(* What must hold.                                                            *)

Researched(v) == chain[v] = Len(Stages)

\* Whatever plan is called with, however often, and whoever takes the title in the
\* meantime: between two calls no challenger is in the registry without its whole
\* chain of research tasks, but for those of a champion whose plan was killed.
NoOrphanChallenger ==
    pc = "idle" =>
        \A v \in Planned \intersect Registered : Researched(v) \/ parent[v] \in killed

\* A call of plan that finds a name taken finds it taken at once, before it has made
\* a challenger itself, whatever earlier calls for the same champion made, were killed
\* in or would have made with more or fewer hypotheses, and whatever became of the
\* title and of the challengers since: the exception that create_challenger then
\* raises, which nothing undoes, leaves no challenger of this call behind.
CollidingPlanMadeNothing ==
    pc = "creating" /\ status[Version[base][index]] # "absent" => index = 1

\* Every challenger plan creates is researched in the end, unless it is killed.
CreatedIsResearched ==
    \A v \in Planned : status[v] # "absent" ~> Researched(v) \/ parent[v] \in killed

\* A promotion and a rejection of one strategy are under way at the same time.
Rivals ==
    \E p, q \in Clients :
        call[p] = "promote" /\ call[q] = "reject" /\ target[p] = target[q]

\* A firm that was founded is led, at every moment, if nobody rejects a strategy
\* while somebody else is promoting it.
FirmIsLed == []~Rivals => [](Registered # {} => Champions # {})

\* The research DAG survives restarts: once the process stops dying, a challenger
\* that was created before it died is researched, too.
ResearchSurvivesRestarts ==
    <>[](pc # "down") => \A v \in Planned : status[v] # "absent" ~> Researched(v)
=============================================================================
