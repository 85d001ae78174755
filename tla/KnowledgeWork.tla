---------------------------- MODULE KnowledgeWork ----------------------------
(* KnowledgeVerificationTaskPlanner over the knowledge store: a finding is    *)
(* turned into durable verification tasks, one graph.add each, for peer desks *)
(* when there are enough of them and for research replications otherwise; the *)
(* tasks are run by clients of the store.  The planner may die between two    *)
(* tasks, and is then called again: the tasks of its first call stay.         *)
EXTENDS KnowledgeStore, Sequences

CONSTANTS Rosters,       \* values of available_peer_desk_ids
          Replications,  \* Replications[f]: the identities of f's replications
          MaxPlans       \* bound on the calls of plan

\* required_verifications is the number of replications a finding has.
ASSUME RostersAssumption == \A r \in Rosters : r \in Seq(Desks)
ASSUME ReplicationsAssumption ==
    /\ Replications \in [Findings -> SUBSET Desks]
    /\ \A f \in Findings :
          /\ SourceOf[f] \notin Replications[f]
          /\ \A r \in Rosters : \A i \in DOMAIN r : r[i] \notin Replications[f]
ASSUME MaxPlansAssumption == MaxPlans \in Nat

VARIABLES planning,   \* the call of plan under way and the identities it has left
          plans,      \* how often plan was called
          returned,   \* the calls that came to their end
          work,       \* the tasks that were added
          answered,   \* those whose verification was recorded
          doing       \* the task a client is running

workVars == <<planning, plans, returned, work, answered, doing>>
allVars == <<vars, workVars>>

Item == [plan : 1..MaxPlans, finding : Findings, desk : Desks, peer : BOOLEAN]
Planning == [finding : Findings, peer : BOOLEAN, todo : SUBSET Desks]
Nothing == [nothing |-> TRUE]  \* neither a call of plan nor a task

\* A task never asks the desk a finding comes from to vote for it as a peer, and
\* a client that runs a task verifies what the task says.
WorkTypeOK ==
    /\ TypeOK
    /\ planning \in Planning \union {Nothing}
    /\ plans \in 0..MaxPlans
    /\ returned \subseteq 1..plans
    /\ work \subseteq Item
    /\ answered \subseteq work
    /\ doing \in [Clients -> work \union {Nothing}]
    /\ \A i \in work : i.peer => i.desk # SourceOf[i.finding]
    /\ \A c \in Clients :
          IF pc[c] \in {"idle", "dead"} THEN doing[c] = Nothing
          ELSE /\ doing[c].finding = request[c].finding
               /\ doing[c].desk = request[c].desk
               /\ doing[c].peer = request[c].entry.peer

WorkInit ==
    /\ Init
    /\ planning = Nothing
    /\ plans = 0
    /\ returned = {}
    /\ work = {}
    /\ answered = {}
    /\ doing = [c \in Clients |-> Nothing]

-----------------------------------------------------------------------------
(* plan                                                                       *)

Required(f) == Cardinality(Replications[f])

\* Where the roster names another desk than the source for the first time.
FirstsOfAnybody(f, roster) ==  \* mutant of Firsts
    {i \in DOMAIN roster : \A j \in DOMAIN roster : j < i => roster[j] # roster[i]}
FirstsAndRepeats(f, roster) ==  \* mutant of Firsts
    {i \in DOMAIN roster : roster[i] # SourceOf[f]}
Firsts(f, roster) ==
    {i \in DOMAIN roster :
        /\ roster[i] # SourceOf[f]
        /\ \A j \in DOMAIN roster : j < i => roster[j] # roster[i]}
EnoughPeers(f, roster) == Cardinality(Firsts(f, roster)) >= Required(f)
Chosen(f, roster) ==
    LET first == Firsts(f, roster)
    IN  {roster[i] : i \in {k \in first : Cardinality({j \in first : j <= k}) <= Required(f)}}
Identities(f, roster) ==
    IF EnoughPeers(f, roster) THEN Chosen(f, roster) ELSE Replications[f]

Plan(f, roster) ==
    /\ planning = Nothing
    /\ plans < MaxPlans
    /\ status[f] # "absent"
    /\ plans' = plans + 1
    /\ planning' = [finding |-> f, peer |-> EnoughPeers(f, roster),
                    todo |-> Identities(f, roster)]
    /\ UNCHANGED <<vars, returned, work, answered, doing>>

\* graph.add: the order only decides which tasks a crash leaves out.  After the
\* last one plan returns.
Enqueue(d) ==
    /\ planning # Nothing
    /\ d \in planning.todo
    /\ work' = work \union {[plan |-> plans, finding |-> planning.finding,
                             desk |-> d, peer |-> planning.peer]}
    /\ IF planning.todo = {d}
       THEN planning' = Nothing /\ returned' = returned \union {plans}
       ELSE planning' = [planning EXCEPT !.todo = @ \ {d}] /\ UNCHANGED returned
    /\ UNCHANGED <<vars, plans, answered, doing>>

PlannerDies ==
    /\ Dies /\ planning # Nothing
    /\ planning' = Nothing
    /\ UNCHANGED <<vars, plans, returned, work, answered, doing>>

-----------------------------------------------------------------------------
(* The tasks are run: each calls verify under the identity in its payload.    *)

Run(c, i, e) ==
    /\ i \in work \ answered
    /\ \A b \in Clients : doing[b] # i
    /\ e.peer = i.peer
    /\ VerifyGet(c, i.finding, i.desk, e)
    /\ doing' = [doing EXCEPT ![c] = i]
    /\ UNCHANGED <<planning, plans, returned, work, answered>>

\* The call returns; a task whose call died is run again.
Answer(c) ==
    /\ Replace(c)
    /\ answered' = answered \union {doing[c]}
    /\ doing' = [doing EXCEPT ![c] = Nothing]
    /\ UNCHANGED <<planning, plans, returned, work>>

GiveUp(c) ==
    /\ Die(c)
    /\ doing' = [doing EXCEPT ![c] = Nothing]
    /\ UNCHANGED <<planning, plans, returned, work, answered>>

PlannerStep == (\E d \in Desks : Enqueue(d)) \/ PlannerDies

StoreStep(c) == Upsert(c) \/ Reassess(c) \/ Restart(c)

WorkNext ==
    \/ \E f \in Findings : Publish(f) /\ UNCHANGED workVars
    \/ \E f \in Findings : \E roster \in Rosters : Plan(f, roster)
    \/ PlannerStep
    \/ \E c \in Clients :
          \/ \E i \in work : \E e \in Entry : Run(c, i, e)
          \/ StoreStep(c) /\ UNCHANGED workVars
          \/ Answer(c)
          \/ GiveUp(c)

WorkSpec == WorkInit /\ [][WorkNext]_allVars

-----------------------------------------------------------------------------
(* Properties                                                                 *)

Replicas(f) == Replications[f]
PeersOf(f) == {d \in Outsiders(f) : d \notin Replicas(f)}

\* Replications are not fake peers: a finding is handed to desks only if MinPeers
\* other desks answered it, however often its verification was planned, with
\* whatever roster, and wherever the planner and the clients died.
PeersValidate ==
    \A f \in Findings : Usable(f) => Cardinality(PeersOf(f)) >= MinPeers

Items(n) == {i \in work : i.plan = n}

\* The work of one plan for peers is enough: once the plan has returned and all
\* its tasks are answered, the finding is validated or rejected, as long as no
\* call dies and no two calls verify it at once, and the planner asks for no
\* fewer verifications than the policy of the store: both default to 2.
PlannedWorkSuffices ==
    []Undisturbed =>
        [](\A n \in returned :
              Items(n) \subseteq answered =>
                  \A i \in Items(n) :
                      /\ i.peer
                      /\ Required(i.finding) >= MinPeers
                      /\ (\A c \in Clients : ~Verifying(c, i.finding))
                      => status[i.finding] \in {"validated", "rejected"})
=============================================================================
