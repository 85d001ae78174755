--------------------------- MODULE StrategyRegistry ---------------------------
(* The champion/challenger lineage: the tables strategies and promotions of   *)
(* StrategyRegistry, and the clients (people or jobs) that call it.  A check  *)
(* made in one connection and the write that follows in another are two steps *)
(* of the client, so calls of different clients interleave between them.      *)
EXTENDS Naturals, FiniteSets

CONSTANTS Strategies,   \* strategies; id and version are both unique
          Clients,      \* callers of the registry
          Founders,     \* the clients among them that may register a founder
          None          \* no strategy

ASSUME NoneAssumption == None \notin Strategies
ASSUME FoundersAssumption == Founders \subseteq Clients

VARIABLES status,       \* strategies.status, "absent" while there is no row
          parent,       \* strategies.parent_id
          generation,   \* strategies.generation
          promotion,    \* promotions: the gates in the row of s, {} for no row
          comparison,   \* the champion a passing comparison of s was made with
          call,         \* the write each client is about to make
          target,       \* the strategy it is about to write
          evidence      \* the gates in the PromotionEvidence it was given

registryVars == <<status, parent, generation, promotion>>
clientVars == <<call, target, evidence>>
vars == <<registryVars, comparison, clientVars>>

CampaignGates == {"backtest", "compared_to_champion"}
ForwardGates == {"walk_forward", "paper", "capital_growth"}
Gates == CampaignGates \union ForwardGates
Status == {"absent", "champion", "challenger", "rejected", "retired"}

TypeOK ==
    /\ status \in [Strategies -> Status]
    /\ parent \in [Strategies -> Strategies \union {None}]
    /\ generation \in [Strategies -> Nat]
    /\ promotion \in [Strategies -> SUBSET Gates]
    /\ comparison \in [Strategies -> Strategies \union {None}]
    /\ call \in [Clients -> {"none", "found", "promote", "reject"}]
    /\ target \in [Clients -> Strategies \union {None}]
    /\ evidence \in [Clients -> SUBSET Gates]

Champions == {s \in Strategies : status[s] = "champion"}
Registered == {s \in Strategies : status[s] # "absent"}

Init ==
    /\ status = [s \in Strategies |-> "absent"]
    /\ parent = [s \in Strategies |-> None]
    /\ generation = [s \in Strategies |-> 0]
    /\ promotion = [s \in Strategies |-> {}]
    /\ comparison = [s \in Strategies |-> None]
    /\ call = [p \in Clients |-> "none"]
    /\ target = [p \in Clients |-> None]
    /\ evidence = [p \in Clients |-> {}]

\* The registry is set up by one client; what two may do is another matter.
OneFounder == \A p, q \in Founders : p = q

\* The client goes on to write s.
Proceed(p, what, s) ==
    /\ call' = [call EXCEPT ![p] = what]
    /\ target' = [target EXCEPT ![p] = s]

\* The call returns, raises, or its process dies before the write.
Return(p) ==
    /\ call' = [call EXCEPT ![p] = "none"]
    /\ target' = [target EXCEPT ![p] = None]
    /\ evidence' = [evidence EXCEPT ![p] = {}]

-----------------------------------------------------------------------------
(* register_founder: all() must be empty, then the row is inserted.           *)

FoundCheck(p, v) ==
    /\ call[p] = "none" /\ p \in Founders
    /\ Registered = {}
    /\ Proceed(p, "found", v)
    /\ UNCHANGED <<registryVars, comparison, evidence>>

FoundInsert(p) ==
    /\ call[p] = "found"
    /\ status' = IF status[target[p]] = "absent"      \* UNIQUE, else ValueError
                 THEN [status EXCEPT ![target[p]] = "champion"] ELSE status
    /\ Return(p)
    /\ UNCHANGED <<parent, generation, promotion, comparison>>

-----------------------------------------------------------------------------
(* create_challenger: any registered strategy may be the parent, a version    *)
(* that exists raises.  The parent's row is immutable where it is read.       *)

CreateChallenger(s, v) ==
    /\ status[s] # "absent"
    /\ status[v] = "absent"
    /\ status' = [status EXCEPT ![v] = "challenger"]
    /\ parent' = [parent EXCEPT ![v] = s]
    /\ generation' = [generation EXCEPT ![v] = generation[s] + 1]
    /\ UNCHANGED <<promotion, comparison, clientVars>>

\* ChallengerEvaluator passes a challenger against the champion of the moment.
Compare(v, s) ==
    /\ status[v] = "challenger" /\ status[s] = "champion"
    /\ comparison' = [comparison EXCEPT ![v] = s]
    /\ UNCHANGED <<registryVars, clientVars>>

-----------------------------------------------------------------------------
(* promote.                                                                   *)

\* CampaignPromotionGate.evidence: a passing comparison opens two gates.
EvidenceOf(v, forward) ==
    forward \union (IF comparison[v] # None THEN CampaignGates ELSE {})

CompleteWithoutPaper(gates) == Gates \ {"paper"} \subseteq gates  \* mutant of Complete
Complete(gates) == Gates \subseteq gates

PromoteCheck(p, v, forward) ==
    /\ call[p] = "none"
    /\ status[v] = "challenger"
    /\ Complete(EvidenceOf(v, forward))
    /\ Proceed(p, "promote", v)
    /\ evidence' = [evidence EXCEPT ![p] = EvidenceOf(v, forward)]
    /\ UNCHANGED <<registryVars, comparison>>

\* UPDATE ... SET status = 'retired' WHERE status = 'champion'
NobodyRetires == status  \* mutant of RetireChampions
RetireChampions == [s \in Strategies |-> IF s \in Champions THEN "retired" ELSE status[s]]

\* The transaction; its UPDATE is by id alone, and a second promotions row for
\* the same strategy is an IntegrityError that rolls everything back.
PromoteReplacing(p) ==  \* mutant of PromoteTxn
    /\ call[p] = "promote"
    /\ status' = [RetireChampions EXCEPT ![target[p]] = "champion"]
    /\ promotion' = [promotion EXCEPT ![target[p]] = evidence[p]]
    /\ Return(p)
    /\ UNCHANGED <<parent, generation, comparison>>
PromoteTxn(p) ==
    /\ call[p] = "promote"
    /\ IF promotion[target[p]] = {}
       THEN /\ status' = [RetireChampions EXCEPT ![target[p]] = "champion"]
            /\ promotion' = [promotion EXCEPT ![target[p]] = evidence[p]]
       ELSE UNCHANGED <<status, promotion>>
    /\ Return(p)
    /\ UNCHANGED <<parent, generation, comparison>>

-----------------------------------------------------------------------------
(* reject.                                                                    *)

RejectAny(p, v) ==  \* mutant of RejectCheck
    /\ call[p] = "none"
    /\ status[v] # "absent"
    /\ Proceed(p, "reject", v)
    /\ UNCHANGED <<registryVars, comparison, evidence>>
RejectCheck(p, v) ==
    /\ call[p] = "none"
    /\ status[v] = "challenger"
    /\ Proceed(p, "reject", v)
    /\ UNCHANGED <<registryVars, comparison, evidence>>

RejectWrite(p) ==
    /\ call[p] = "reject"
    /\ status' = [status EXCEPT ![target[p]] = "rejected"]
    /\ Return(p)
    /\ UNCHANGED <<parent, generation, promotion, comparison>>

\* The client's process dies between its check and its write.
Abandon(p) ==
    /\ call[p] # "none"
    /\ Return(p)
    /\ UNCHANGED <<registryVars, comparison>>

-----------------------------------------------------------------------------

Next ==
    \/ \E s, v \in Strategies : CreateChallenger(s, v) \/ Compare(v, s)
    \/ \E p \in Clients :
          \/ \E v \in Strategies :
                \/ FoundCheck(p, v) \/ RejectCheck(p, v)
                \/ \E forward \in SUBSET ForwardGates : PromoteCheck(p, v, forward)
          \/ FoundInsert(p) \/ PromoteTxn(p) \/ RejectWrite(p) \/ Abandon(p)

Spec == Init /\ [][Next]_vars

-----------------------------------------------------------------------------
(* What must hold.                                                            *)

\* However many clients promote and reject at once, the firm never trades two
\* champions, if only one of them ever founds it.
AtMostOneChampion == \A s, t \in Champions : s = t

\* Whoever became champion by promotion left a complete evidence row, and nobody
\* was promoted without one: only founders hold the title for free.
TitleIsEarned ==
    \A s \in Strategies :
        /\ status[s] \in {"champion", "retired"} =>
               promotion[s] = Gates \/ parent[s] = None
        /\ promotion[s] # {} => promotion[s] = Gates /\ parent[s] # None

\* Every strategy descends, generation by generation, from a registered parent.
LineageGrounded ==
    \A s \in Registered :
        parent[s] # None => /\ parent[s] \in Registered
                            /\ generation[s] = generation[parent[s]] + 1

\* A firm that has a champion never loses it.
ChampionKept == [][Champions # {} => Champions' # {}]_vars

\* Nobody reigns twice: a promotion that was checked long ago, and is carried out
\* after its strategy has been promoted, retired or even rejected by others, does
\* not bring back a former champion.
NobodyReignsTwice ==
    [][\A s \in Strategies : s \notin Champions /\ s \in Champions' =>
          promotion[s] = {} /\ status[s] # "retired"]_vars

\* A challenger is promoted over the champion it was compared with.
ComparedWithPredecessor ==
    [][\A s \in Strategies : promotion[s] # promotion'[s] =>
          status[comparison[s]] = "champion"]_vars
=============================================================================
