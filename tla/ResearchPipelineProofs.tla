----------------------- MODULE ResearchPipelineProofs ------------------------
(* The lineage of a firm that one client founds, for any number of strategies *)
(* and of clients whose calls interleave between check and write; then what a *)
(* plan leaves in the registry and in the queue, for any number of challengers*)
(* and stages, wherever its process is killed.                                *)
EXTENDS ResearchPipeline, SequenceTheorems, TLAPS

-----------------------------------------------------------------------------
(* The registry: the inductive invariant.                                     *)

(* A founder is inserted into a registry that is still empty.                 *)
Founded ==
    \A p \in Clients :
        call[p] = "found" => p \in Founders /\ target[p] # None /\ Registered = {}

(* Only founders have no parent, and founders are never candidates.           *)
CandidatesHaveParents ==
    \A s \in Strategies :
        /\ status[s] \in {"challenger", "rejected"} => parent[s] # None
        /\ status[s] = "absent" => promotion[s] = {} /\ parent[s] = None

(* What a client carries from its check to its write.                         *)
CallStands ==
    \A p \in Clients : call[p] \in {"promote", "reject"} =>
        /\ target[p] \in Registered
        /\ parent[target[p]] # None
        /\ call[p] = "promote" => evidence[p] = Gates

IInv == /\ TypeOK
        /\ Founded
        /\ CandidatesHaveParents
        /\ CallStands
        /\ AtMostOneChampion
        /\ TitleIsEarned
        /\ LineageGrounded

\* An empty registry, with nobody calling it.
LEMMA InitInvariant == Init => IInv
BY NoneAssumption
DEF Init, IInv, TypeOK, Founded, CandidatesHaveParents, CallStands, AtMostOneChampion,
    Champions, TitleIsEarned, LineageGrounded, Registered, Status, Gates, CampaignGates,
    ForwardGates

\* A new row descends from a registered parent and holds no title.
LEMMA CreateChallengerKeeps ==
    ASSUME IInv, NEW s \in Strategies, NEW v \in Strategies, CreateChallenger(s, v)
    PROVE  IInv'
<1> USE NoneAssumption
    DEF CreateChallenger, IInv, TypeOK, registryVars, clientVars, Proceed, Return, Registered, Champions,
        RetireChampions
<1>1. TypeOK'
  BY DEF Status, CallStands, EvidenceOf, Gates, CampaignGates, ForwardGates
<1>2. Founded'
  BY DEF Founded, CallStands
<1>3. CandidatesHaveParents'
  BY DEF CandidatesHaveParents, CallStands, Founded
<1>4. CallStands'
  BY DEF CallStands, CandidatesHaveParents, Complete
<1>5. AtMostOneChampion'
  BY DEF AtMostOneChampion, Founded
<1>6. TitleIsEarned'
  BY DEF TitleIsEarned, CallStands, CandidatesHaveParents, Founded
<1>7. LineageGrounded'
  BY DEF LineageGrounded, CallStands, Founded
<1> QED
  BY <1>1, <1>2, <1>3, <1>4, <1>5, <1>6, <1>7

\* A comparison touches no table.
LEMMA CompareKeeps ==
    ASSUME IInv, NEW v \in Strategies, NEW s \in Strategies, Compare(v, s)
    PROVE  IInv'
<1> USE NoneAssumption
    DEF Compare, IInv, TypeOK, registryVars, clientVars, Proceed, Return, Registered, Champions,
        RetireChampions
<1>1. TypeOK'
  BY DEF Status, CallStands, EvidenceOf, Gates, CampaignGates, ForwardGates
<1>2. Founded'
  BY DEF Founded, CallStands
<1>3. CandidatesHaveParents'
  BY DEF CandidatesHaveParents, CallStands, Founded
<1>4. CallStands'
  BY DEF CallStands, CandidatesHaveParents, Complete
<1>5. AtMostOneChampion'
  BY DEF AtMostOneChampion, Founded
<1>6. TitleIsEarned'
  BY DEF TitleIsEarned, CallStands, CandidatesHaveParents, Founded
<1>7. LineageGrounded'
  BY DEF LineageGrounded, CallStands, Founded
<1> QED
  BY <1>1, <1>2, <1>3, <1>4, <1>5, <1>6, <1>7

\* A client that finds the registry empty is the founder.
LEMMA FoundCheckKeeps ==
    ASSUME IInv, NEW p \in Clients, NEW v \in Strategies, FoundCheck(p, v)
    PROVE  IInv'
<1> USE NoneAssumption
    DEF FoundCheck, IInv, TypeOK, registryVars, clientVars, Proceed, Return, Registered, Champions,
        RetireChampions
<1>1. TypeOK'
  BY DEF Status, CallStands, EvidenceOf, Gates, CampaignGates, ForwardGates
<1>2. Founded'
  BY DEF Founded, CallStands
<1>3. CandidatesHaveParents'
  BY DEF CandidatesHaveParents, CallStands, Founded
<1>4. CallStands'
  BY DEF CallStands, CandidatesHaveParents, Complete
<1>5. AtMostOneChampion'
  BY DEF AtMostOneChampion, Founded
<1>6. TitleIsEarned'
  BY DEF TitleIsEarned, CallStands, CandidatesHaveParents, Founded
<1>7. LineageGrounded'
  BY DEF LineageGrounded, CallStands, Founded
<1> QED
  BY <1>1, <1>2, <1>3, <1>4, <1>5, <1>6, <1>7

\* The only founder there can be is inserted into a registry that stayed empty.
LEMMA FoundInsertKeeps ==
    ASSUME OneFounder, IInv, NEW p \in Clients, FoundInsert(p)
    PROVE  IInv'
<1> USE NoneAssumption
    DEF FoundInsert, IInv, TypeOK, registryVars, clientVars, Proceed, Return, Registered, Champions,
        RetireChampions
<1>a. /\ p \in Founders /\ target[p] \in Strategies
      /\ Registered = {}
  BY DEF Founded
<1>1. TypeOK'
  BY <1>a DEF Status, CallStands, EvidenceOf, Gates, CampaignGates, ForwardGates
<1>2. Founded'
  BY <1>a DEF Founded, OneFounder
<1>3. CandidatesHaveParents'
  BY <1>a DEF CandidatesHaveParents, CallStands, Founded
<1>4. CallStands'
  BY <1>a DEF CallStands, CandidatesHaveParents, Complete
<1>5. AtMostOneChampion'
  BY <1>a DEF AtMostOneChampion, Founded
<1>6. TitleIsEarned'
  BY <1>a DEF TitleIsEarned, CallStands, CandidatesHaveParents, Founded
<1>7. LineageGrounded'
  BY <1>a DEF LineageGrounded, CandidatesHaveParents
<1> QED
  BY <1>1, <1>2, <1>3, <1>4, <1>5, <1>6, <1>7

\* The evidence handed to promote is complete and the strategy has a parent.
LEMMA PromoteCheckKeeps ==
    ASSUME IInv, NEW p \in Clients, NEW v \in Strategies,
           NEW forward \in SUBSET ForwardGates, PromoteCheck(p, v, forward)
    PROVE  IInv'
<1> USE NoneAssumption
    DEF PromoteCheck, IInv, TypeOK, registryVars, clientVars, Proceed, Return, Registered, Champions,
        RetireChampions
<1>1. TypeOK'
  BY DEF Status, CallStands, EvidenceOf, Gates, CampaignGates, ForwardGates
<1>2. Founded'
  BY DEF Founded, CallStands
<1>3. CandidatesHaveParents'
  BY DEF CandidatesHaveParents, CallStands, Founded
<1>4. CallStands'
  <2>1. EvidenceOf(v, forward) = Gates
    BY DEF EvidenceOf, Complete, Gates, CampaignGates, ForwardGates
  <2> QED
    BY <2>1 DEF CallStands, CandidatesHaveParents
<1>5. AtMostOneChampion'
  BY DEF AtMostOneChampion, Founded
<1>6. TitleIsEarned'
  BY DEF TitleIsEarned, CallStands, CandidatesHaveParents, Founded
<1>7. LineageGrounded'
  BY DEF LineageGrounded, CallStands, Founded
<1> QED
  BY <1>1, <1>2, <1>3, <1>4, <1>5, <1>6, <1>7

\* One transaction retires every champion before it crowns the new one.
LEMMA PromoteTxnKeeps ==
    ASSUME IInv, NEW p \in Clients, PromoteTxn(p)
    PROVE  IInv'
<1> USE NoneAssumption
    DEF PromoteTxn, IInv, TypeOK, registryVars, clientVars, Proceed, Return, Registered, Champions,
        RetireChampions
<1>0. /\ target[p] \in Strategies
      /\ evidence[p] = Gates
      /\ \/ UNCHANGED <<status, promotion>>
         \/ /\ status' = [s \in Strategies |->
                            IF s = target[p] THEN "champion"
                            ELSE IF status[s] = "champion" THEN "retired" ELSE status[s]]
            /\ promotion' = [promotion EXCEPT ![target[p]] = Gates]
  BY DEF CallStands
<1>1. TypeOK'
  BY <1>0 DEF Status
<1>2. Founded'
  BY DEF Founded, CallStands
<1>3. CandidatesHaveParents'
  BY DEF CandidatesHaveParents, CallStands, Founded
<1>4. CallStands'
  BY DEF CallStands, CandidatesHaveParents, Complete
<1>5. AtMostOneChampion'
  BY <1>0 DEF AtMostOneChampion
<1>6. TitleIsEarned'
  BY DEF TitleIsEarned, CallStands, CandidatesHaveParents, Founded
<1>7. LineageGrounded'
  BY DEF LineageGrounded, CallStands, Founded
<1> QED
  BY <1>1, <1>2, <1>3, <1>4, <1>5, <1>6, <1>7

\* reject has read a challenger.
LEMMA RejectCheckKeeps ==
    ASSUME IInv, NEW p \in Clients, NEW v \in Strategies, RejectCheck(p, v)
    PROVE  IInv'
<1> USE NoneAssumption
    DEF RejectCheck, IInv, TypeOK, registryVars, clientVars, Proceed, Return, Registered, Champions,
        RetireChampions
<1>1. TypeOK'
  BY DEF Status, CallStands, EvidenceOf, Gates, CampaignGates, ForwardGates
<1>2. Founded'
  BY DEF Founded, CallStands
<1>3. CandidatesHaveParents'
  BY DEF CandidatesHaveParents, CallStands, Founded
<1>4. CallStands'
  BY DEF CallStands, CandidatesHaveParents, Complete
<1>5. AtMostOneChampion'
  BY DEF AtMostOneChampion, Founded
<1>6. TitleIsEarned'
  BY DEF TitleIsEarned, CallStands, CandidatesHaveParents, Founded
<1>7. LineageGrounded'
  BY DEF LineageGrounded, CallStands, Founded
<1> QED
  BY <1>1, <1>2, <1>3, <1>4, <1>5, <1>6, <1>7

\* A rejection takes a title away at most.
LEMMA RejectWriteKeeps ==
    ASSUME IInv, NEW p \in Clients, RejectWrite(p)
    PROVE  IInv'
<1> USE NoneAssumption
    DEF RejectWrite, IInv, TypeOK, registryVars, clientVars, Proceed, Return, Registered, Champions,
        RetireChampions
<1>1. TypeOK'
  BY DEF Status, CallStands, EvidenceOf, Gates, CampaignGates, ForwardGates
<1>2. Founded'
  BY DEF Founded, CallStands
<1>3. CandidatesHaveParents'
  BY DEF CandidatesHaveParents, CallStands, Founded
<1>4. CallStands'
  BY DEF CallStands, CandidatesHaveParents, Complete
<1>5. AtMostOneChampion'
  BY DEF AtMostOneChampion, Founded
<1>6. TitleIsEarned'
  BY DEF TitleIsEarned, CallStands, CandidatesHaveParents, Founded
<1>7. LineageGrounded'
  BY DEF LineageGrounded, CallStands, Founded
<1> QED
  BY <1>1, <1>2, <1>3, <1>4, <1>5, <1>6, <1>7

\* A dying client writes nothing.
LEMMA AbandonKeeps ==
    ASSUME IInv, NEW p \in Clients, Abandon(p)
    PROVE  IInv'
<1> USE NoneAssumption
    DEF Abandon, IInv, TypeOK, registryVars, clientVars, Proceed, Return, Registered, Champions,
        RetireChampions
<1>1. TypeOK'
  BY DEF Status, CallStands, EvidenceOf, Gates, CampaignGates, ForwardGates
<1>2. Founded'
  BY DEF Founded, CallStands
<1>3. CandidatesHaveParents'
  BY DEF CandidatesHaveParents, CallStands, Founded
<1>4. CallStands'
  BY DEF CallStands, CandidatesHaveParents, Complete
<1>5. AtMostOneChampion'
  BY DEF AtMostOneChampion, Founded
<1>6. TitleIsEarned'
  BY DEF TitleIsEarned, CallStands, CandidatesHaveParents, Founded
<1>7. LineageGrounded'
  BY DEF LineageGrounded, CallStands, Founded
<1> QED
  BY <1>1, <1>2, <1>3, <1>4, <1>5, <1>6, <1>7

-----------------------------------------------------------------------------
(* The invariant and what follows from it.                                    *)

\* Every step keeps the invariant.
LEMMA NextInvariant ==
    ASSUME OneFounder
    PROVE  IInv /\ [Next]_vars => IInv'
<1> SUFFICES ASSUME IInv, [Next]_vars PROVE IInv'
  OBVIOUS
<1>1. CASE Next
  BY <1>1, CreateChallengerKeeps, CompareKeeps, FoundCheckKeeps, FoundInsertKeeps, PromoteCheckKeeps,
     PromoteTxnKeeps, RejectCheckKeeps, RejectWriteKeeps, AbandonKeeps
  DEF Next
<1>2. CASE UNCHANGED vars
  BY <1>2 DEF vars, registryVars, clientVars, IInv, TypeOK, Founded, CandidatesHaveParents,
     CallStands, AtMostOneChampion, Champions, TitleIsEarned, LineageGrounded, Registered
<1> QED
  BY <1>1, <1>2

\* Generations stay numbers and evidence rows stay sets of gates, whatever the
\* clients interleave.
THEOREM TypeCorrect ==
    ASSUME OneFounder
    PROVE  Spec => []TypeOK
<1>1. IInv => TypeOK
  BY DEF IInv
<1> QED
  BY <1>1, InitInvariant, NextInvariant, PTL DEF Spec

\* Two clients that promote at the same time never leave two champions.
THEOREM OneChampion ==
    ASSUME OneFounder
    PROVE  Spec => []AtMostOneChampion
<1>1. IInv => AtMostOneChampion
  BY DEF IInv
<1> QED
  BY <1>1, InitInvariant, NextInvariant, PTL DEF Spec

\* Every title beyond the founding one rests on a complete evidence row.
THEOREM EarnedTitle ==
    ASSUME OneFounder
    PROVE  Spec => []TitleIsEarned
<1>1. IInv => TitleIsEarned
  BY DEF IInv
<1> QED
  BY <1>1, InitInvariant, NextInvariant, PTL DEF Spec

\* The lineage is a forest whose depths are the generations.
THEOREM GroundedLineage ==
    ASSUME OneFounder
    PROVE  Spec => []LineageGrounded
<1>1. IInv => LineageGrounded
  BY DEF IInv
<1> QED
  BY <1>1, InitInvariant, NextInvariant, PTL DEF Spec

\* A stale promotion never restores a former champion.
THEOREM OneReignOnly ==
    ASSUME OneFounder
    PROVE  Spec => NobodyReignsTwice
<1> DEFINE Step == \A s \in Strategies : s \notin Champions /\ s \in Champions' =>
                       promotion[s] = {} /\ status[s] # "retired"
<1>1. ASSUME IInv, Next PROVE Step
  <2> SUFFICES ASSUME NEW s \in Strategies, status[s] # "champion", status'[s] = "champion"
               PROVE  promotion[s] = {} /\ status[s] # "retired"
    BY DEF Champions
  <2> USE DEF IInv, TypeOK, registryVars
  <2>1. ASSUME NEW r \in Strategies, NEW v \in Strategies, CreateChallenger(r, v) \/ Compare(v, r)
        PROVE  FALSE
    BY <1>1, <2>1 DEF CreateChallenger, Compare
  <2>2. ASSUME NEW p \in Clients, FoundInsert(p)
        PROVE  promotion[s] = {} /\ status[s] # "retired"
    BY <1>1, <2>2 DEF FoundInsert, CandidatesHaveParents
  <2>3. ASSUME NEW p \in Clients, PromoteTxn(p)
        PROVE  promotion[s] = {} /\ status[s] # "retired"
    <3>1. s = target[p] /\ promotion[s] = {}
      BY <1>1, <2>3 DEF PromoteTxn, RetireChampions, Champions
    <3>2. parent[s] # None
      BY <1>1, <2>3, <3>1 DEF PromoteTxn, CallStands
    <3> QED
      BY <1>1, <3>1, <3>2 DEF TitleIsEarned, Gates, CampaignGates
  <2>4. ASSUME NEW p \in Clients, RejectWrite(p)
        PROVE  FALSE
    BY <1>1, <2>4 DEF RejectWrite
  <2>5. ASSUME NEW p \in Clients, NEW v \in Strategies, NEW forward \in SUBSET ForwardGates,
               \/ FoundCheck(p, v) \/ RejectCheck(p, v) \/ PromoteCheck(p, v, forward)
               \/ Abandon(p)
        PROVE  FALSE
    BY <1>1, <2>5 DEF FoundCheck, RejectCheck, PromoteCheck, Abandon
  <2>6. {} \in SUBSET ForwardGates
    OBVIOUS
  <2> QED
    BY <1>1, <2>1, <2>2, <2>3, <2>4, <2>5, <2>6 DEF Next
<1>2. IInv /\ [Next]_vars => [Step]_vars
  BY <1>1
<1> QED
  BY <1>2, InitInvariant, NextInvariant, PTL DEF Spec, NobodyReignsTwice

\* A strategy that is about to be rejected is no champion, and whoever is about to be
\* written is a strategy.
Led ==
    /\ status \in [Strategies -> Status]
    /\ call \in [Clients -> {"none", "found", "promote", "reject"}]
    /\ DOMAIN target = Clients
    /\ \A p \in Clients :
          /\ call[p] # "none" => target[p] \in Strategies
          /\ call[p] = "reject" => status[target[p]] \notin {"absent", "champion"}
    /\ Registered # {} => Champions # {}

LEMMA InitLed == Init => Led
<1> QED
  BY DEF Init, Led, Registered, Champions, Status

LEMMA NextLed ==
    ASSUME Led, ~Rivals, [Next]_vars PROVE Led'
<1> USE DEF Led
<1>1. ASSUME NEW s \in Strategies, NEW v \in Strategies, CreateChallenger(s, v) PROVE Led'
  <2>1. /\ status' = [status EXCEPT ![v] = "challenger"] /\ status[v] = "absent"
        /\ s \in Registered /\ call' = call /\ target' = target
    BY <1>1 DEF CreateChallenger, clientVars, Registered
  <2>2. PICK c \in Strategies : status[c] = "champion"
    BY <2>1 DEF Champions
  <2>3. status'[c] = "champion"
    BY <2>1, <2>2
  <2> QED
    BY <2>1, <2>3 DEF Champions, Registered, Status
<1>2. ASSUME NEW s \in Strategies, NEW v \in Strategies, Compare(v, s) PROVE Led'
  BY <1>2 DEF Compare, registryVars, clientVars, Champions, Registered
<1>3. ASSUME NEW p \in Clients, NEW v \in Strategies, NEW forward \in SUBSET ForwardGates,
             FoundCheck(p, v) \/ RejectCheck(p, v) \/ PromoteCheck(p, v, forward)
      PROVE  Led'
  <2>1. /\ \/ call' = [call EXCEPT ![p] = "found"] \/ call' = [call EXCEPT ![p] = "promote"]
           \/ call' = [call EXCEPT ![p] = "reject"] /\ status[v] = "challenger"
        /\ target' = [target EXCEPT ![p] = v] /\ status' = status
    BY <1>3 DEF FoundCheck, RejectCheck, PromoteCheck, Proceed, registryVars
  <2> QED
    BY <2>1 DEF Champions, Registered
<1>4. ASSUME NEW p \in Clients, FoundInsert(p) PROVE Led'
  <2>1. /\ target[p] \in Strategies
        /\ call' = [call EXCEPT ![p] = "none"] /\ target' = [target EXCEPT ![p] = None]
        /\ \/ status' = status
           \/ /\ status' = [status EXCEPT ![target[p]] = "champion"]
              /\ status[target[p]] = "absent"
    BY <1>4 DEF FoundInsert, Return
  <2>2. CASE status' = status
    BY <2>1, <2>2 DEF Champions, Registered
  <2>3. CASE status' = [status EXCEPT ![target[p]] = "champion"] /\ status[target[p]] = "absent"
    <3>1. status'[target[p]] = "champion"
      BY <2>1, <2>3
    <3> QED
      BY <2>1, <2>3, <3>1 DEF Champions, Registered, Status
  <2> QED
    BY <2>1, <2>2, <2>3
<1>5. ASSUME NEW p \in Clients, PromoteTxn(p) PROVE Led'
  <2>1. /\ target[p] \in Strategies /\ call[p] = "promote"
        /\ call' = [call EXCEPT ![p] = "none"] /\ target' = [target EXCEPT ![p] = None]
        /\ \/ status' = status
           \/ status' = [s \in Strategies |->
                            IF s = target[p] THEN "champion"
                            ELSE IF status[s] = "champion" THEN "retired" ELSE status[s]]
    BY <1>5 DEF PromoteTxn, Return, RetireChampions, Champions
  <2>2. CASE status' = status
    BY <2>1, <2>2 DEF Champions, Registered
  <2>3. CASE status' = [s \in Strategies |->
                            IF s = target[p] THEN "champion"
                            ELSE IF status[s] = "champion" THEN "retired" ELSE status[s]]
    <3>1. \A q \in Clients : call[q] = "reject" => target[q] # target[p]
      BY <2>1 DEF Rivals
    <3>2. status'[target[p]] = "champion"
      BY <2>1, <2>3
    <3>3. status' \in [Strategies -> Status]
      BY <2>3 DEF Status
    <3>4. \A q \in Clients : call'[q] = "reject" =>
              call[q] = "reject" /\ target'[q] = target[q] /\ status'[target[q]] = status[target[q]]
      BY <2>1, <2>3, <3>1
    <3> QED
      BY <2>1, <3>2, <3>3, <3>4 DEF Champions, Registered
  <2> QED
    BY <2>1, <2>2, <2>3
<1>6. ASSUME NEW p \in Clients, RejectWrite(p) PROVE Led'
  <2>1. /\ target[p] \in Strategies /\ status[target[p]] \notin {"absent", "champion"}
        /\ call' = [call EXCEPT ![p] = "none"] /\ target' = [target EXCEPT ![p] = None]
        /\ status' = [status EXCEPT ![target[p]] = "rejected"]
    BY <1>6 DEF RejectWrite, Return
  <2>2. PICK c \in Strategies : status[c] = "champion"
    BY <2>1 DEF Champions, Registered
  <2>3. status'[c] = "champion"
    BY <2>1, <2>2
  <2> QED
    BY <2>1, <2>3 DEF Champions, Registered, Status
<1>7. ASSUME NEW p \in Clients, Abandon(p) PROVE Led'
  BY <1>7 DEF Abandon, Return, registryVars, Champions, Registered
<1>8. CASE UNCHANGED vars
  BY <1>8 DEF vars, registryVars, clientVars, Champions, Registered
<1>9. {} \in SUBSET ForwardGates
  OBVIOUS
<1> QED
  BY <1>1, <1>2, <1>3, <1>4, <1>5, <1>6, <1>7, <1>8, <1>9 DEF Next

\* A firm that was founded always has a champion, whoever promotes, rejects or dies, as
\* long as nobody rejects a strategy while somebody else promotes it: reject writes by id
\* alone (StrategyRegistry.promote, reject).
THEOREM FirmStaysLed == Spec => FirmIsLed
<1>1. Led => (Registered # {} => Champions # {})
  BY DEF Led
<1>2. Led /\ ~Rivals /\ [Next]_vars => Led'
  BY NextLed
<1> QED
  BY <1>1, <1>2, InitLed, PTL DEF Spec, FirmIsLed

-----------------------------------------------------------------------------
(* The programme: the inductive invariant.                                    *)

AtWork == pc \in {"creating", "enqueueing"}

Shape ==
    /\ chain \in [Strategies -> 0..Len(Stages)]
    /\ pc \in {"idle", "creating", "enqueueing", "down"}
    /\ base \in Strategies \union {None}
    /\ size \in 0..MaxChallengers
    /\ index \in 0..MaxChallengers
    /\ killed \subseteq Strategies
    /\ AtWork => /\ base \in Strategies
                 /\ index \in 1..size
                 /\ \A j \in 1..size : Named(base, j)

Absent(v) == status[v] = "absent"

\* The queue knows nothing of a challenger that is not in the registry.
NothingBefore == \A v \in Strategies : Absent(v) => chain[v] = 0

\* No founder takes a name the worker makes up.
FoundersAreOthers ==
    \A p \in Clients : call[p] = "found" => target[p] \notin Planned

\* The challengers of one strategy are made in order, whichever calls made them.
MadeInOrder ==
    \A s \in Strategies : \A i \in Indexes :
        Named(s, i) /\ ~Absent(Version[s][i]) =>
            /\ parent[Version[s][i]] = s
            /\ \A j \in 1..i : Named(s, j) /\ ~Absent(Version[s][j])

\* The challengers of this call: those behind index are made, then enqueued; and
\* once the first is made none of the others can be taken.
Creating ==
    pc = "creating" =>
        \A j \in 1..size :
            /\ j < index => ~Absent(Version[base][j]) /\ chain[Version[base][j]] = 0
            /\ index > 1 /\ j >= index => Absent(Version[base][j])
Enqueueing ==
    pc = "enqueueing" =>
        \A j \in 1..size :
            /\ ~Absent(Version[base][j])
            /\ j < index => Researched(Version[base][j])
            /\ j = index => chain[Version[base][j]] < Len(Stages)
            /\ j > index => chain[Version[base][j]] = 0

\* Challengers of this call that wait for their tasks.
Waiting(v) ==
    \E j \in 1..size :
        /\ v = Version[base][j]
        /\ \/ pc = "creating" /\ j < index
           \/ pc = "enqueueing" /\ j >= index
AccountedFor ==
    \A v \in Planned : ~Absent(v) => Researched(v) \/ parent[v] \in killed \/ Waiting(v)

PInv ==
    /\ Shape /\ NothingBefore /\ FoundersAreOthers /\ MadeInOrder
    /\ Creating /\ Enqueueing /\ AccountedFor

-----------------------------------------------------------------------------
(* What the steps rest on.                                                    *)

LEMMA NamesAreDistinct ==
    ASSUME NEW s \in Strategies, NEW t \in Strategies, NEW i \in Indexes, NEW j \in Indexes,
           Named(s, i), Version[s][i] = Version[t][j]
    PROVE  s = t /\ i = j
<1> QED
  BY VersionAssumption

LEMMA NamesAreStrategies ==
    ASSUME NEW s \in Strategies, NEW i \in Indexes, Named(s, i)
    PROVE  Version[s][i] \in Strategies /\ Version[s][i] \in Planned
<1> QED
  BY VersionAssumption DEF Named, Planned

\* A brief yields at least one hypothesis.
LEMMA SomethingToTest ==
    ASSUME NEW b PROVE SizeOf(b) \in 1..MaxChallengers
<1> DEFINE Hypothesis == {"LOWER_KRONOS_WEIGHT", "SHORTER_KRONOS_HORIZON",
                          "HIGHER_ABSTENTION_THRESHOLD", "LOWER_TRADE_RISK",
                          "HIGH_VOL_FILTER", "ROBUSTNESS_CONTROL"}
<1>1. <<>> \in Seq(Hypothesis)
  OBVIOUS
<1>2. ASSUME NEW h \in Seq(Hypothesis), NEW p PROVE Test(h, p) \in Seq(Hypothesis)
  BY <1>1, <1>2 DEF Test
<1>3. /\ <<"LOWER_KRONOS_WEIGHT", "SHORTER_KRONOS_HORIZON">> \in Seq(Hypothesis)
      /\ <<"HIGHER_ABSTENTION_THRESHOLD">> \in Seq(Hypothesis)
      /\ <<"LOWER_TRADE_RISK">> \in Seq(Hypothesis)
      /\ <<"HIGH_VOL_FILTER">> \in Seq(Hypothesis)
      /\ <<"ROBUSTNESS_CONTROL">> \in Seq(Hypothesis)
  <2>1. ASSUME NEW S, NEW x \in S PROVE <<x>> \in Seq(S)
    OBVIOUS
  <2>2. ASSUME NEW S, NEW x \in S, NEW y \in S PROVE <<x, y>> \in Seq(S)
    OBVIOUS
  <2> QED
    BY <2>1, <2>2
<1>3a. <<"ROBUSTNESS_CONTROL">> # <<>>
  <2>1. Len(<<"ROBUSTNESS_CONTROL">>) = 1
    OBVIOUS
  <2> QED
    BY <2>1, EmptySeq
<1>4. ASSUME NEW codes, NEW highVol PROVE Ideas(codes, highVol) \in Seq(Hypothesis)
  BY <1>2, <1>3, ConcatProperties DEF Ideas
<1>5. Hypotheses(b) \in Seq(Hypothesis) /\ Hypotheses(b) # <<>>
  BY <1>3, <1>3a, <1>4 DEF Hypotheses
<1>6. Len(Hypotheses(b)) \in Nat \ {0}
  BY <1>5, EmptySeq
<1> QED
  BY <1>6, MaxChallengersAssumption DEF SizeOf

\* The other clients never take a name of the worker's, remove a strategy or
\* give it another parent.
LEMMA ClientsKeepAway ==
    ASSUME IInv, FoundersAreOthers, ClientStep
    PROVE  /\ \A v \in Strategies : Absent(v)' => Absent(v)
           /\ \A v \in Planned : Absent(v) => Absent(v)'
           /\ parent' = parent
           /\ FoundersAreOthers'
<1> USE NoneAssumption DEF IInv, TypeOK, Absent, registryVars, clientVars
<1>1. ASSUME NEW s \in Strategies, NEW v \in Strategies, Compare(v, s)
      PROVE  /\ UNCHANGED status /\ parent' = parent /\ FoundersAreOthers'
  BY <1>1 DEF Compare, FoundersAreOthers
<1>2. ASSUME NEW p \in Clients,
             \/ \E v \in Strategies \ Planned : FoundCheck(p, v)
             \/ \E v \in Strategies : RejectCheck(p, v)
             \/ \E v \in Strategies, forward \in SUBSET ForwardGates : PromoteCheck(p, v, forward)
             \/ Abandon(p)
      PROVE  UNCHANGED status /\ parent' = parent /\ FoundersAreOthers'
  BY <1>2 DEF FoundCheck, RejectCheck, PromoteCheck, Abandon, Proceed, Return, FoundersAreOthers
<1>3. ASSUME NEW p \in Clients, FoundInsert(p)
      PROVE  /\ \A v \in Strategies : Absent(v)' => Absent(v)
             /\ \A v \in Planned : Absent(v) => Absent(v)'
             /\ parent' = parent /\ FoundersAreOthers'
  BY <1>3 DEF FoundInsert, Return, FoundersAreOthers, Planned
<1>4. ASSUME NEW p \in Clients, PromoteTxn(p) \/ RejectWrite(p)
      PROVE  /\ \A v \in Strategies : Absent(v)' <=> Absent(v)
             /\ parent' = parent /\ FoundersAreOthers'
  <2>1. ~Absent(target[p]) /\ target[p] \in Strategies
    BY <1>4 DEF PromoteTxn, RejectWrite, CallStands, Registered
  <2> QED
    BY <1>4, <2>1 DEF PromoteTxn, RejectWrite, RetireChampions, Champions, Return, FoundersAreOthers
<1>5. \A v \in Planned : v \in Strategies
  BY DEF Planned
<1> QED
  BY <1>1, <1>2, <1>3, <1>4, <1>5 DEF ClientStep

-----------------------------------------------------------------------------
(* The steps.                                                                 *)

LEMMA ClientKeeps ==
    ASSUME IInv, PInv, ClientStep, UNCHANGED planVars PROVE PInv'
<1>1. /\ \A v \in Strategies : Absent(v)' => Absent(v)
      /\ \A v \in Planned : Absent(v) => Absent(v)'
      /\ parent' = parent /\ FoundersAreOthers'
  BY ClientsKeepAway DEF PInv
<1>2. /\ chain' = chain /\ pc' = pc /\ base' = base /\ size' = size /\ index' = index
      /\ killed' = killed
  BY DEF planVars, callVars
<1>3. Shape' /\ NothingBefore'
  BY <1>1, <1>2 DEF PInv, Shape, AtWork, NothingBefore
<1>4. \A s \in Strategies : \A i \in Indexes :
          Named(s, i) => (Absent(Version[s][i])' <=> Absent(Version[s][i]))
  BY <1>1, NamesAreStrategies
<1>5. \A i \in Indexes : \A j \in 1..i : j \in Indexes
  BY MaxChallengersAssumption DEF Indexes
<1>6. MadeInOrder'
  BY <1>1, <1>4, <1>5 DEF PInv, MadeInOrder
<1>7. AtWork => \A j \in 1..size : j \in Indexes /\ Named(base, j) /\ base \in Strategies
  BY MaxChallengersAssumption DEF PInv, Shape, Indexes
<1>8. AtWork => \A j \in 1..size : Absent(Version[base][j])' <=> Absent(Version[base][j])
  <2> SUFFICES ASSUME AtWork, NEW j \in 1..size
               PROVE  status'[Version[base][j]] = "absent" <=> status[Version[base][j]] = "absent"
    BY <1>2 DEF Absent
  <2> QED
    BY <1>4, <1>7 DEF Absent
<1>9. Creating' /\ Enqueueing'
  BY <1>2, <1>8 DEF PInv, Creating, Enqueueing, Researched, Absent, AtWork
<1>10. AccountedFor'
  BY <1>1, <1>2 DEF PInv, AccountedFor, Researched, Waiting, Planned
<1> QED
  BY <1>1, <1>3, <1>6, <1>9, <1>10 DEF PInv

\* A call of plan starts with the champion of the moment.
LEMMA PlanKeeps ==
    ASSUME PInv, NEW s \in Strategies, NEW b \in Briefs, Plan(s, b) PROVE PInv'
<1> USE DEF vars, registryVars, clientVars
<1>1. size' \in 1..MaxChallengers /\ MaxChallengers \in Nat
  BY SomethingToTest, MaxChallengersAssumption DEF Plan
<1>2. Shape'
  BY <1>1 DEF Plan, PInv, Shape, AtWork
<1>3. NothingBefore' /\ FoundersAreOthers' /\ MadeInOrder'
  BY DEF Plan, PInv, NothingBefore, FoundersAreOthers, MadeInOrder, Absent
<1>4. Creating' /\ Enqueueing'
  BY <1>1 DEF Plan, Creating, Enqueueing
<1>5. AccountedFor'
  BY DEF Plan, PInv, AccountedFor, Absent, Researched, Waiting
<1> QED
  BY <1>2, <1>3, <1>4, <1>5 DEF PInv

\* A process that dies answers for the champion its plan was about.
LEMMA CrashKeeps ==
    ASSUME PInv, Crash PROVE PInv'
<1> USE DEF vars, registryVars, clientVars
<1>1. Shape'
  BY MaxChallengersAssumption DEF Crash, PInv, Shape, AtWork
<1>2. NothingBefore' /\ FoundersAreOthers' /\ MadeInOrder'
  BY DEF Crash, PInv, NothingBefore, FoundersAreOthers, MadeInOrder, Absent
<1>3. Creating' /\ Enqueueing'
  BY DEF Crash, Creating, Enqueueing
<1>4. AccountedFor'
  <2> SUFFICES ASSUME NEW v \in Planned, ~Absent(v), ~Researched(v), parent[v] \notin killed
               PROVE  parent[v] = base
    BY DEF Crash, AccountedFor, Absent, Researched
  <2>1. PICK j \in 1..size : v = Version[base][j]
    BY DEF PInv, AccountedFor, Waiting
  <2>2. base \in Strategies /\ j \in Indexes /\ Named(base, j)
    BY MaxChallengersAssumption DEF Crash, PInv, Shape, AtWork, Indexes
  <2> QED
    BY <2>1, <2>2 DEF PInv, MadeInOrder
<1> QED
  BY <1>1, <1>2, <1>3, <1>4 DEF PInv

LEMMA RestartKeeps ==
    ASSUME PInv, Restart PROVE PInv'
<1> USE DEF vars, registryVars, clientVars
<1>1. Shape'
  BY DEF Restart, PInv, Shape, AtWork
<1>2. NothingBefore' /\ FoundersAreOthers' /\ MadeInOrder' /\ Creating' /\ Enqueueing'
  BY DEF Restart, PInv, NothingBefore, FoundersAreOthers, MadeInOrder, Absent, Creating, Enqueueing
<1>3. AccountedFor'
  BY DEF Restart, PInv, AccountedFor, Absent, Researched, Waiting
<1> QED
  BY <1>1, <1>2, <1>3 DEF PInv

\* A name is taken only at the start of a call: then the call has made nothing.
LEMMA TakenAtOnce ==
    PInv => CollidingPlanMadeNothing
<1> SUFFICES ASSUME PInv, pc = "creating", ~Absent(Version[base][index]) PROVE index = 1
  BY DEF CollidingPlanMadeNothing, Absent
<1>1. index \in 1..size /\ size \in Nat
  BY MaxChallengersAssumption DEF PInv, Shape, AtWork
<1> QED
  BY <1>1 DEF PInv, Creating, Absent

LEMMA CollideKeeps ==
    ASSUME PInv, Collide PROVE PInv'
<1> USE DEF vars, registryVars, clientVars
<1>1. index = 1
  BY TakenAtOnce DEF Collide, CollidingPlanMadeNothing
<1>2. Shape'
  BY MaxChallengersAssumption DEF Collide, Stop, PInv, Shape, AtWork
<1>3. NothingBefore' /\ FoundersAreOthers' /\ MadeInOrder'
  BY DEF Collide, Stop, PInv, NothingBefore, FoundersAreOthers, MadeInOrder, Absent
<1>4. Creating' /\ Enqueueing'
  BY DEF Collide, Stop, Creating, Enqueueing
<1>5. AccountedFor'
  BY <1>1, MaxChallengersAssumption
  DEF Collide, Stop, PInv, Shape, AccountedFor, Absent, Researched, Waiting
<1> QED
  BY <1>2, <1>3, <1>4, <1>5 DEF PInv

\* What Create and Enqueue find at their index.
LEMMA AtIndex ==
    ASSUME PInv, AtWork
    PROVE  /\ base \in Strategies /\ size \in 1..MaxChallengers /\ index \in 1..size
           /\ \A j \in 1..size : /\ j \in Indexes /\ Named(base, j)
                                /\ Version[base][j] \in Strategies
                                /\ Version[base][j] \in Planned
           /\ \A j, k \in 1..size : Version[base][j] = Version[base][k] => j = k
<1>1. /\ base \in Strategies /\ size \in 1..MaxChallengers /\ index \in 1..size
      /\ \A j \in 1..size : j \in Indexes /\ Named(base, j)
  BY MaxChallengersAssumption DEF PInv, Shape, Indexes
<1> QED
  BY <1>1, NamesAreStrategies, NamesAreDistinct

\* The next challenger joins those this call has made before it.
LEMMA CreateKeeps ==
    ASSUME IInv, PInv, Create PROVE PInv'
<1> DEFINE v == Version[base][index]
<1>1. /\ AtWork /\ pc = "creating" /\ v \in Strategies /\ v \in Planned
      /\ base \in Strategies /\ index \in 1..size /\ size \in 1..MaxChallengers
      /\ MaxChallengers \in Nat /\ Len(Stages) \in Nat \ {0}
      /\ base # v
  BY AtIndex, MaxChallengersAssumption, StagesAssumption, EmptySeq
  DEF Create, CreateChallenger, AtWork
<1>2. /\ Absent(v)
      /\ status' = [status EXCEPT ![v] = "challenger"]
      /\ parent' = [parent EXCEPT ![v] = base]
      /\ UNCHANGED <<clientVars, chain, killed, base, size>>
      /\ \/ index < size /\ index' = index + 1 /\ pc' = pc
         \/ index = size /\ index' = 1 /\ pc' = "enqueueing"
  BY <1>1 DEF Create, CreateChallenger, Advance, StartEnqueueing, Absent
<1>3. \A w \in Strategies : /\ Absent(w)' <=> Absent(w) /\ w # v
                            /\ parent'[w] = IF w = v THEN base ELSE parent[w]
  BY <1>1, <1>2 DEF Absent, IInv, TypeOK
<1>4. /\ \A j \in 1..size : j < index => ~Absent(Version[base][j])
      /\ \A j \in 1..size : j > index => Absent(Version[base][j])
  <2>1. CASE index > 1
    BY <1>1, <2>1 DEF PInv, Creating
  <2>2. CASE index = 1
    <3>1. ASSUME NEW j \in 1..size, ~Absent(Version[base][j]) PROVE FALSE
      <4>1. j \in Indexes /\ Named(base, j) /\ 1 \in 1..j
        BY <1>1, <3>1, AtIndex
      <4> QED
        BY <1>1, <1>2, <2>2, <3>1, <4>1 DEF PInv, MadeInOrder
    <3> QED
      BY <1>1, <2>2, <3>1
  <2> QED
    BY <1>1, <2>1, <2>2
<1>5. Shape' /\ FoundersAreOthers'
  BY <1>1, <1>2 DEF PInv, Shape, AtWork, FoundersAreOthers, clientVars
<1>6. NothingBefore'
  BY <1>2, <1>3 DEF PInv, NothingBefore
<1>7. MadeInOrder'
  <2> SUFFICES ASSUME NEW s \in Strategies, NEW i \in Indexes, Named(s, i),
                      ~(Absent(Version[s][i])')
               PROVE  /\ parent'[Version[s][i]] = s
                      /\ \A j \in 1..i : Named(s, j) /\ ~(Absent(Version[s][j])')
    BY DEF MadeInOrder, Absent
  <2>1. \A j \in 1..i : j \in Indexes
    BY <1>1 DEF Indexes
  <2>2. CASE Version[s][i] = v
    <3>1. s = base /\ i = index
      BY <1>1, <2>2, AtIndex, NamesAreDistinct
    <3>2. \A j \in 1..i : j \in 1..size /\ (j < index \/ j = index)
      BY <1>1, <3>1
    <3> QED
      BY <1>1, <1>3, <1>4, <2>2, <3>1, <3>2, AtIndex
  <2>3. CASE Version[s][i] # v
    <3>1. ~Absent(Version[s][i]) /\ Version[s][i] \in Strategies
      BY <1>3, <2>3, NamesAreStrategies
    <3>2. /\ parent[Version[s][i]] = s
          /\ \A j \in 1..i : Named(s, j) /\ ~Absent(Version[s][j])
      BY <3>1 DEF PInv, MadeInOrder
    <3> QED
      BY <1>3, <2>1, <2>3, <3>1, <3>2, NamesAreStrategies
  <2> QED
    BY <2>2, <2>3
<1>8. \A j \in 1..size : Absent(Version[base][j])' <=> Absent(Version[base][j]) /\ j # index
  <2> SUFFICES ASSUME NEW j \in 1..size
               PROVE  Absent(Version[base][j])' <=> Absent(Version[base][j]) /\ j # index
    OBVIOUS
  <2>1. Version[base][j] \in Strategies /\ (Version[base][j] = v <=> j = index)
    BY <1>1, AtIndex
  <2>2. Absent(Version[base][j])' <=> Absent(Version[base][j]) /\ Version[base][j] # v
    BY <1>2, <1>3, <2>1 DEF Absent
  <2> QED
    BY <2>1, <2>2
<1>9. \A j \in 1..size : j <= index => chain[Version[base][j]] = 0
  BY <1>1, <1>2, AtIndex DEF PInv, Creating, NothingBefore
<1>10. Creating'
  <2> SUFFICES ASSUME index < size, index' = index + 1, NEW j \in 1..size
               PROVE  /\ j < index + 1 => /\ ~(Absent(Version[base][j])')
                                         /\ chain[Version[base][j]] = 0
                      /\ j >= index + 1 => Absent(Version[base][j])'
    BY <1>1, <1>2 DEF Creating, Absent
  <2> QED
    BY <1>1, <1>4, <1>8, <1>9
<1>11. Enqueueing'
  <2> SUFFICES ASSUME index = size, index' = 1, NEW j \in 1..size
               PROVE  ~(Absent(Version[base][j])') /\ chain[Version[base][j]] = 0
    BY <1>1, <1>2 DEF Enqueueing, Absent, Researched
  <2> QED
    BY <1>1, <1>4, <1>8, <1>9
<1>12. AccountedFor'
  <2> SUFFICES ASSUME NEW w \in Planned, ~(Absent(w)'), ~Researched(w), parent'[w] \notin killed
               PROVE  Waiting(w)'
    BY <1>2 DEF AccountedFor, Researched
  <2>1. w \in Strategies
    BY DEF Planned
  <2>2. PICK j \in 1..size : w = Version[base][j] /\ j <= index
    <3>1. CASE w = v
      BY <1>1, <3>1
    <3>2. CASE w # v
      <4>1. Waiting(w)
        BY <1>3, <2>1, <3>2 DEF PInv, AccountedFor
      <4> QED
        BY <1>1, <4>1 DEF Waiting
    <3> QED
      BY <3>1, <3>2
  <2> QED
    BY <1>1, <1>2, <2>2 DEF Waiting
<1> QED
  BY <1>5, <1>6, <1>7, <1>10, <1>11, <1>12 DEF PInv

\* The challenger at index gets one more task; the ones before it have them all.
LEMMA EnqueueKeeps ==
    ASSUME PInv, Enqueue PROVE PInv'
<1> DEFINE v == Version[base][index]
<1> USE DEF vars, registryVars, clientVars
<1>1. /\ AtWork /\ pc = "enqueueing" /\ v \in Strategies /\ v \in Planned
      /\ base \in Strategies /\ index \in 1..size /\ size \in 1..MaxChallengers
      /\ MaxChallengers \in Nat /\ Len(Stages) \in Nat \ {0}
  BY AtIndex, MaxChallengersAssumption, StagesAssumption, EmptySeq DEF Enqueue, AtWork
<1>2. /\ ~Absent(v) /\ chain[v] < Len(Stages) /\ chain[v] \in Nat
      /\ \A j \in 1..size : /\ ~Absent(Version[base][j])
                            /\ j < index => Researched(Version[base][j])
                            /\ j > index => chain[Version[base][j]] = 0
  BY <1>1 DEF PInv, Enqueueing, Shape
<1>3. /\ chain' = [w \in Strategies |-> IF w = v THEN chain[v] + 1 ELSE chain[w]]
      /\ UNCHANGED <<vars, killed, base>>
      /\ \/ chain[v] + 1 < Len(Stages) /\ UNCHANGED callVars
         \/ /\ chain[v] + 1 = Len(Stages) /\ index < size
            /\ index' = index + 1 /\ pc' = pc /\ size' = size
         \/ /\ chain[v] + 1 = Len(Stages) /\ index = size
            /\ index' = 0 /\ pc' = "idle" /\ size' = 0
  <2>1. chain \in [Strategies -> 0..Len(Stages)]
    BY DEF PInv, Shape
  <2>2. chain' = [chain EXCEPT ![v] = @ + 1] /\ chain'[v] = chain[v] + 1
    BY <1>1, <2>1 DEF Enqueue
  <2>3. chain' = [w \in Strategies |-> IF w = v THEN chain[v] + 1 ELSE chain[w]]
    BY <1>1, <2>1, <2>2
  <2>4. CASE chain'[v] < Len(Stages)
    BY <2>2, <2>3, <2>4 DEF Enqueue, callVars
  <2>5. CASE ~(chain'[v] < Len(Stages)) /\ index < size
    <3>1. chain[v] + 1 = Len(Stages)
      BY <1>1, <1>2, <2>2, <2>5
    <3> QED
      BY <2>3, <2>5, <3>1 DEF Enqueue, Advance
  <2>6. CASE ~(chain'[v] < Len(Stages)) /\ ~(index < size)
    <3>1. chain[v] + 1 = Len(Stages) /\ index = size
      BY <1>1, <1>2, <2>2, <2>6
    <3> QED
      BY <2>3, <2>6, <3>1 DEF Enqueue, Advance, Stop
  <2> QED
    BY <2>4, <2>5, <2>6
<1>4. Shape'
  BY <1>1, <1>2, <1>3 DEF PInv, Shape, AtWork, callVars
<1>5. NothingBefore' /\ FoundersAreOthers' /\ MadeInOrder'
  BY <1>1, <1>2, <1>3 DEF PInv, NothingBefore, FoundersAreOthers, MadeInOrder, Absent
<1>6. Creating'
  BY <1>1, <1>3 DEF Creating, callVars
<1>7. \A j \in 1..size : chain'[Version[base][j]] =
          IF j = index THEN chain[v] + 1 ELSE chain[Version[base][j]]
  BY <1>1, <1>3, AtIndex
<1>8. Enqueueing'
  <2> SUFFICES ASSUME pc' = pc, size' = size, NEW j \in 1..size
               PROVE  /\ ~Absent(Version[base][j])
                      /\ j < index' => chain'[Version[base][j]] = Len(Stages)
                      /\ j = index' => chain'[Version[base][j]] < Len(Stages)
                      /\ j > index' => chain'[Version[base][j]] = 0
    BY <1>1, <1>3 DEF Enqueueing, Absent, Researched, callVars
  <2>1. index' = index \/ (index' = index + 1 /\ chain[v] + 1 = Len(Stages))
    BY <1>1, <1>3 DEF callVars
  <2>2. index' = index => chain[v] + 1 < Len(Stages)
    BY <1>1, <1>3 DEF callVars
  <2>3. /\ ~Absent(Version[base][j])
        /\ j < index => chain'[Version[base][j]] = Len(Stages)
        /\ j = index => chain'[Version[base][j]] = chain[v] + 1
        /\ j > index => chain'[Version[base][j]] = 0
    <3>1. chain'[Version[base][j]] = IF j = index THEN chain[v] + 1 ELSE chain[Version[base][j]]
      BY <1>7
    <3>2. /\ ~Absent(Version[base][j])
          /\ j < index => chain[Version[base][j]] = Len(Stages)
          /\ j > index => chain[Version[base][j]] = 0
      <4>1. /\ ~Absent(Version[base][j])
            /\ j < index => Researched(Version[base][j])
            /\ j > index => chain[Version[base][j]] = 0
        BY <1>1 DEF PInv, Enqueueing
      <4> QED
        BY <4>1 DEF Researched
    <3>3. j \in Int /\ index \in Int
      BY <1>1
    <3> HIDE DEF v
    <3> QED
      BY <3>1, <3>2, <3>3
  <2> QED
    BY <1>1, <2>1, <2>2, <2>3
<1>9. AccountedFor'
  <2> SUFFICES ASSUME NEW w \in Planned, ~Absent(w), chain'[w] # Len(Stages),
                      parent[w] \notin killed
               PROVE  Waiting(w)'
    BY <1>3 DEF AccountedFor, Absent, Researched
  <2>1. ~Researched(w)
    BY <1>1, <1>2, <1>3 DEF Researched, Planned
  <2>2. PICK j \in 1..size : w = Version[base][j] /\ j >= index
    BY <1>1, <2>1 DEF PInv, AccountedFor, Waiting
  <2>3. /\ j = index => chain[v] + 1 # Len(Stages)
    BY <1>7, <2>2
  <2> QED
    BY <1>1, <1>3, <2>2, <2>3 DEF Waiting, callVars
<1> QED
  BY <1>4, <1>5, <1>6, <1>8, <1>9 DEF PInv

-----------------------------------------------------------------------------
(* The programme.                                                             *)

LEMMA PlanInitInvariant == PlanInit => IInv /\ PInv
<1> SUFFICES ASSUME PlanInit PROVE IInv /\ PInv
  OBVIOUS
<1>1. IInv
  BY InitInvariant DEF PlanInit
<1>2. Shape
  BY MaxChallengersAssumption, StagesAssumption, EmptySeq DEF PlanInit, Shape, AtWork
<1>3. NothingBefore /\ FoundersAreOthers /\ Creating /\ Enqueueing
  BY DEF PlanInit, Init, NothingBefore, FoundersAreOthers, Creating, Enqueueing
<1>4. MadeInOrder /\ AccountedFor
  BY NamesAreStrategies DEF PlanInit, Init, MadeInOrder, AccountedFor, Absent, Planned
<1> QED
  BY <1>1, <1>2, <1>3, <1>4 DEF PInv

\* Whatever the programme does to the registry is a step of the registry's.
LEMMA PlanStepsAreRegistrySteps ==
    ASSUME PInv, [PlanNext]_allVars PROVE [Next]_vars
<1>1. CASE ClientStep
  BY <1>1 DEF ClientStep, Next
<1>2. CASE Create
  BY <1>2, AtIndex DEF Create, Next, AtWork
<1>3. CASE Collide \/ Enqueue \/ Crash \/ Restart \/ UNCHANGED allVars
  BY <1>3 DEF Collide, Enqueue, Crash, Restart, allVars
<1>4. ASSUME NEW s \in Strategies, NEW b \in Briefs, Plan(s, b) PROVE UNCHANGED vars
  BY <1>4 DEF Plan
<1> QED
  BY <1>1, <1>2, <1>3, <1>4 DEF PlanNext, PlanStep

LEMMA PlanNextInvariant ==
    ASSUME OneFounder
    PROVE  IInv /\ PInv /\ [PlanNext]_allVars => (IInv /\ PInv)'
<1> SUFFICES ASSUME IInv, PInv, [PlanNext]_allVars PROVE IInv' /\ PInv'
  OBVIOUS
<1>1. IInv'
  BY PlanStepsAreRegistrySteps, NextInvariant
<1> SUFFICES PInv'
  BY <1>1
<1>2. CASE UNCHANGED allVars
  <2> USE <1>2 DEF allVars, planVars, callVars, vars, registryVars, clientVars, Absent, Researched
  <2>1. Shape' /\ NothingBefore' /\ FoundersAreOthers'
    BY DEF PInv, Shape, AtWork, NothingBefore, FoundersAreOthers
  <2>2. MadeInOrder' /\ Creating' /\ Enqueueing'
    BY DEF PInv, MadeInOrder, Creating, Enqueueing
  <2>3. AccountedFor'
    BY DEF PInv, AccountedFor, Waiting
  <2> QED
    BY <2>1, <2>2, <2>3 DEF PInv
<1>3. CASE ClientStep /\ UNCHANGED planVars
  BY <1>3, ClientKeeps
<1>4. ASSUME NEW s \in Strategies, NEW b \in Briefs, Plan(s, b) PROVE PInv'
  BY <1>4, PlanKeeps
<1>5. CASE Create
  BY <1>5, CreateKeeps
<1>6. CASE Collide \/ Enqueue
  BY <1>6, CollideKeeps, EnqueueKeeps
<1>7. CASE Crash \/ Restart
  BY <1>7, CrashKeeps, RestartKeeps
<1> QED
  BY <1>2, <1>3, <1>4, <1>5, <1>6, <1>7 DEF PlanNext, PlanStep

\* The programme uses the registry only through its operations, so that what is proved
\* of the registry above holds in the programme, too.
LEMMA ProgrammeUsesTheRegistry ==
    ASSUME OneFounder
    PROVE  PlanSpec => Spec
<1>1. PlanInit => Init
  BY DEF PlanInit
<1>2. PInv /\ [PlanNext]_allVars => [Next]_vars
  BY PlanStepsAreRegistrySteps
<1> QED
  BY <1>1, <1>2, PlanInitInvariant, PlanNextInvariant, PTL DEF PlanSpec, Spec

\* Positions, sizes and chains stay in their ranges.
THEOREM ProgrammeTypes ==
    ASSUME OneFounder
    PROVE  PlanSpec => []PlanTypeOK
<1>1. IInv /\ PInv => PlanTypeOK
  BY DEF IInv, PInv, Shape, PlanTypeOK
<1> QED
  BY <1>1, PlanInitInvariant, PlanNextInvariant, PTL DEF PlanSpec

\* Between two calls only a killed plan has left challengers without their tasks.
THEOREM OrphansOfTheKilledOnly ==
    ASSUME OneFounder
    PROVE  PlanSpec => []NoOrphanChallenger
<1>1. IInv /\ PInv => NoOrphanChallenger
  BY DEF PInv, AccountedFor, Waiting, Absent, NoOrphanChallenger, Registered
<1> QED
  BY <1>1, PlanInitInvariant, PlanNextInvariant, PTL DEF PlanSpec

\* However many calls for a champion were made, cut short or given other briefs, the
\* call that finds a name taken has made no challenger yet
\* (DurableChallengerResearchPipeline.plan, StrategyRegistry.create_challenger).
THEOREM CollisionsLeaveNothing ==
    ASSUME OneFounder
    PROVE  PlanSpec => []CollidingPlanMadeNothing
<1> QED
  BY TakenAtOnce, PlanInitInvariant, PlanNextInvariant, PTL DEF PlanSpec
=============================================================================
