------------------------ MODULE HoldingMaturityProofs ------------------------
(* What holds of the ladder for every height, target, threshold and window.   *)
EXTENDS HoldingMaturity, TLAPS

\* The ladder's shape is inductive: a demotion is only possible at an
\* authorized stage, so by LadderHasNoGaps the stage below is authorized too,
\* and by RungBelowStands whatever loses its graduation is left on probation.
IInv == TypeOK /\ LadderHasNoGaps /\ RungBelowStands

\* deque(maxlen).append keeps a window of trades a window of trades.
LEMMA SlideKeepsWindow ==
    ASSUME NEW window \in Seq(Trade), Len(window) <= Window, NEW t \in Trade
    PROVE  /\ Slide(window, t) \in Seq(Trade)
           /\ Len(Slide(window, t)) <= Window
<1> USE PolicyAssumption
<1>1. CASE Len(window) < Window
  BY <1>1 DEF Slide
<1>2. CASE ~(Len(window) < Window)
  <2>1. Len(window) \in Nat /\ Len(window) > 0
    BY <1>2
  <2>2. Tail(window) \in Seq(Trade) /\ Len(Tail(window)) = Len(window) - 1
    BY <2>1
  <2>3. Slide(window, t) = Append(Tail(window), t)
    BY <1>2 DEF Slide
  <2>4. /\ Append(Tail(window), t) \in Seq(Trade)
        /\ Len(Append(Tail(window), t)) = Len(Tail(window)) + 1
    BY <2>2
  <2> QED
    BY <2>1, <2>2, <2>3, <2>4
<1> QED
  BY <1>1, <1>2

\* Resetting any set of stages keeps the counters and windows well formed.
LEMMA ResetKeepsTypes ==
    ASSUME TypeOK, NEW S, ResetStages(S)
    PROVE  /\ trades' \in [Ladder -> Nat]
           /\ good' \in [Ladder -> Nat]
           /\ \A s \in Ladder : good'[s] <= trades'[s]
           /\ pnl' \in [Ladder -> Int]
           /\ probation' \in [Ladder -> BOOLEAN]
           /\ recent' \in [Ladder -> Seq(Trade)]
           /\ \A s \in Ladder : Len(recent'[s]) <= Window
<1> USE DEF TypeOK, ResetStages
<1>1. trades' \in [Ladder -> Nat] /\ good' \in [Ladder -> Nat] /\ pnl' \in [Ladder -> Int]
  OBVIOUS
<1>2. \A s \in Ladder : good'[s] <= trades'[s]
  OBVIOUS
<1>3. probation' \in [Ladder -> BOOLEAN]
  OBVIOUS
<1>4. <<>> \in Seq(Trade) /\ Len(<<>>) = 0
  OBVIOUS
<1>5. recent' \in [Ladder -> Seq(Trade)]
  BY <1>4
<1>6. \A s \in Ladder : Len(recent'[s]) <= Window
  BY <1>4, PolicyAssumption
<1> QED
  BY <1>1, <1>2, <1>3, <1>5, <1>6

\* Counting a trade keeps them well formed.
LEMMA CountKeepsTypes ==
    ASSUME TypeOK, NEW s \in Ladder, NEW t \in Trade, Count(s, t)
    PROVE  /\ trades' \in [Ladder -> Nat]
           /\ good' \in [Ladder -> Nat]
           /\ \A r \in Ladder : good'[r] <= trades'[r]
           /\ pnl' \in [Ladder -> Int]
           /\ recent' \in [Ladder -> Seq(Trade)]
           /\ \A r \in Ladder : Len(recent'[r]) <= Window
<1>1. t.pnl \in Int
  BY ProfitsAssumption DEF Trade
<1>2. trades' \in [Ladder -> Nat] /\ good' \in [Ladder -> Nat] /\ pnl' \in [Ladder -> Int]
  BY <1>1 DEF TypeOK, Count
<1>3. \A r \in Ladder : good'[r] <= trades'[r]
  BY DEF TypeOK, Count
<1>4. recent' = [recent EXCEPT ![s] = Slide(recent[s], t)]
  BY DEF Count
<1>5. Slide(recent[s], t) \in Seq(Trade) /\ Len(Slide(recent[s], t)) <= Window
  BY SlideKeepsWindow DEF TypeOK
<1>6. recent' \in [Ladder -> Seq(Trade)] /\ \A r \in Ladder : Len(recent'[r]) <= Window
  BY <1>4, <1>5 DEF TypeOK
<1> QED
  BY <1>2, <1>3, <1>6

\* The engine starts with the lowest stage authorized and nothing recorded.
LEMMA InitInvariant == Init => IInv
<1> SUFFICES ASSUME Init PROVE IInv
  OBVIOUS
<1>1. <<>> \in Seq(Trade) /\ Len(<<>>) = 0
  OBVIOUS
<1>2. TypeOK
  BY <1>1, PolicyAssumption DEF Init, TypeOK
<1>0. 1 \in Ladder /\ \A s \in Ladder : s > 1 => s # 1
  BY HeightAssumption DEF Ladder
<1>a. \A s \in Ladder : authorized[s] <=> s = 1
  BY DEF Init
<1>q. \A s \in Ladder : ~qualified[s]
  BY DEF Init
<1>3. LadderHasNoGaps
  BY <1>0, <1>a DEF LadderHasNoGaps
<1>4. RungBelowStands
  BY <1>0, <1>a, <1>q DEF RungBelowStands
<1> QED
  BY <1>2, <1>3, <1>4 DEF IInv

\* No recorded trade, whatever its outcome, breaks the ladder.
LEMMA NextInvariant == IInv /\ [Next]_vars => IInv'
<1> SUFFICES ASSUME IInv, [Next]_vars PROVE IInv'
  OBVIOUS
<1> USE DEF IInv
<1>0. Ladder \subseteq Int /\ 1 \in Ladder /\ \A s \in Ladder : s > 1 => s - 1 \in Ladder
  BY HeightAssumption DEF Ladder
<1>1. ASSUME NEW s \in Ladder, NEW t \in Trade, Catastrophe(s, t) PROVE IInv'
  <2>1. TypeOK'
    BY <1>1, ResetKeepsTypes DEF Catastrophe, TypeOK
  <2>2. LadderHasNoGaps'
    BY <1>1 DEF Catastrophe, LadderHasNoGaps
  <2>3. RungBelowStands'
    <3>1. /\ authorized' = authorized
          /\ authorized[s]
          /\ \A r \in Ladder : qualified'[r] <=> r # s /\ qualified[r]
      BY <1>1 DEF Catastrophe, TypeOK
    <3>2. \A r \in Ladder : probation'[r] <=> r = s \/ probation[r]
      BY <1>1 DEF Catastrophe, ResetStages
    <3> QED
      BY <1>0, <3>1, <3>2 DEF RungBelowStands
  <2> QED
    BY <2>1, <2>2, <2>3
<1>2. ASSUME NEW s \in Ladder, NEW t \in Trade, Demote(s, t) PROVE IInv'
  <2>1. TypeOK'
    <3>1. authorized' \in [Ladder -> BOOLEAN] /\ qualified' \in [Ladder -> BOOLEAN]
      BY <1>2 DEF Demote, TypeOK
    <3> QED
      BY <1>2, <3>1, ResetKeepsTypes DEF Demote, TypeOK
  <2>2. CASE s = 1
    <3>1. LadderHasNoGaps'
      BY <1>2, <2>2 DEF Demote, LadderHasNoGaps
    <3>2. /\ qualified' = [qualified EXCEPT ![1] = FALSE]
          /\ authorized' = authorized
      BY <1>2, <2>2 DEF Demote
    <3>3. \A r \in Ladder : probation'[r] <=> r \in {s, s - 1} \/ probation[r]
      BY <1>2 DEF Demote, ResetStages
    <3>a. /\ \A r \in Ladder : r # 1 => qualified'[r] = qualified[r]
          /\ ~qualified'[1]
          /\ probation'[1]
      BY <1>0, <2>2, <3>2, <3>3 DEF TypeOK
    <3>b. \A r \in Ladder : r # 1 => (probation'[r] <=> probation[r])
      BY <1>0, <2>2, <3>3, HeightAssumption DEF Ladder
    <3>4. RungBelowStands'
      BY <1>0, <3>2, <3>a, <3>b DEF RungBelowStands
    <3> QED
      BY <2>1, <3>1, <3>4
  <2>3. CASE s # 1
    <3>1. s > 1 /\ s - 1 \in Ladder
      BY <1>0, <2>3, HeightAssumption DEF Ladder
    <3>2. \A r \in Ladder : qualified'[r] <=> r < s - 1 /\ qualified[r]
      BY <1>2, <2>3 DEF Demote
    <3>3. \A r \in Ladder : authorized'[r] <=> r = s - 1 \/ (r < s /\ authorized[r])
      BY <1>2, <2>3 DEF Demote
    <3>4. authorized[s] /\ authorized[s - 1]
      BY <1>2, <3>1 DEF Demote, LadderHasNoGaps
    <3>5. \A r \in Ladder : authorized'[r] <=> r < s /\ authorized[r]
      BY <1>0, <3>1, <3>3, <3>4
    <3>6. \A r \in Ladder : probation'[r] <=> r \in {s, s - 1} \/ probation[r]
      BY <1>2 DEF Demote, ResetStages
    <3>7. LadderHasNoGaps'
      BY <1>0, <3>1, <3>5 DEF LadderHasNoGaps
    <3>8. \A r \in Ladder : r > 1 /\ authorized'[r] => qualified'[r - 1] \/ probation'[r - 1]
      BY <1>0, <3>1, <3>2, <3>5, <3>6 DEF RungBelowStands
    <3>9. \A r \in Ladder : ~(qualified'[r] /\ probation'[r])
      BY <1>0, <3>1, <3>2, <3>6 DEF RungBelowStands
    <3>10. \A r \in Ladder : qualified'[r] => authorized'[r]
      BY <1>0, <3>1, <3>2, <3>5 DEF RungBelowStands
    <3> QED
      BY <2>1, <3>7, <3>8, <3>9, <3>10 DEF RungBelowStands
  <2> QED
    BY <2>2, <2>3
<1>3. ASSUME NEW s \in Ladder, NEW t \in Trade, Progress(s, t) PROVE IInv'
  <2>1. TypeOK'
    BY <1>3, CountKeepsTypes DEF Progress, TypeOK, standing
  <2> QED
    BY <1>3, <2>1 DEF Progress, standing, LadderHasNoGaps, RungBelowStands
<1>4. ASSUME NEW s \in Ladder, NEW t \in Trade, Qualify(s, t) PROVE IInv'
  <2>1. TypeOK'
    BY <1>4, CountKeepsTypes DEF Qualify, TypeOK
  <2>2. LadderHasNoGaps'
    <3>1. authorized[s]
      BY <1>4 DEF Qualify, Count
    <3>2. \A r \in Ladder : authorized'[r] <=> r = s + 1 \/ authorized[r]
      BY <1>4 DEF Qualify
    <3>3. authorized'[1]
      BY <1>0, <3>2 DEF LadderHasNoGaps
    <3>4. ASSUME NEW r \in Ladder, r > 1, authorized'[r] PROVE authorized'[r - 1]
      <4>1. r - 1 \in Ladder /\ (r = s + 1 => r - 1 = s)
        BY <1>0, <3>4
      <4>2. r = s + 1 \/ authorized[r]
        BY <3>2, <3>4
      <4>3. authorized[r - 1]
        BY <3>1, <3>4, <4>1, <4>2 DEF LadderHasNoGaps
      <4> QED
        BY <3>2, <4>1, <4>3
    <3> QED
      BY <3>3, <3>4 DEF LadderHasNoGaps
  <2>3. RungBelowStands'
    <3>1. authorized[s]
      BY <1>4 DEF Qualify, Count
    <3>2. \A r \in Ladder : authorized'[r] <=> r = s + 1 \/ authorized[r]
      BY <1>4 DEF Qualify
    <3>3. \A r \in Ladder : qualified'[r] <=> r = s \/ qualified[r]
      BY <1>4 DEF Qualify, TypeOK
    <3>4. \A r \in Ladder : probation'[r] <=> r # s /\ probation[r]
      BY <1>4 DEF Qualify, TypeOK
    <3>5. \A r \in Ladder : r = s + 1 => r - 1 = s
      BY <1>0
    <3> QED
      BY <1>0, <3>1, <3>2, <3>3, <3>4, <3>5 DEF RungBelowStands
  <2> QED
    BY <2>1, <2>2, <2>3
<1>5. CASE UNCHANGED vars
  BY <1>5 DEF vars, counters, standing, TypeOK, LadderHasNoGaps, RungBelowStands
<1> QED
  BY <1>1, <1>2, <1>3, <1>4, <1>5 DEF Next

\* Every reachable ladder satisfies the inductive invariant.
LEMMA Invariant == Spec => []IInv
<1> QED
  BY InitInvariant, NextInvariant, PTL DEF Spec

\* The window never outgrows its bound and every counter stays a number.
THEOREM TypeCorrect == Spec => []TypeOK
<1>1. IInv => TypeOK
  BY DEF IInv
<1> QED
  BY Invariant, <1>1, PTL

\* However often stages are reset and demoted, the authorized stages are always
\* a run from the lowest one up (record and _demote).
THEOREM NoGaps == Spec => []LadderHasNoGaps
<1>1. IInv => LadderHasNoGaps
  BY DEF IInv
<1> QED
  BY Invariant, <1>1, PTL

\* An authorized stage always stands on one that has graduated, or that a reset
\* has put on probation (_reset_stage and _demote).
THEOREM RungsStand == Spec => []RungBelowStands
<1>1. IInv => RungBelowStands
  BY DEF IInv
<1> QED
  BY Invariant, <1>1, PTL

\* Authority is only gained from a profitable, complete qualification of the
\* stage below: the authority a demotion restores was never missing.
THEOREM EarnedAuthority == Spec => AuthorityIsEarned
<1> DEFINE A == \A s \in Ladder :
                   ~authorized[s] /\ authorized'[s] =>
                       /\ s > 1 /\ qualified'[s - 1]
                       /\ trades'[s - 1] >= Target
                       /\ pnl'[s - 1] > 0
<1>1. IInv /\ [Next]_vars => [A]_vars
  <2> SUFFICES ASSUME IInv, Next, NEW r \in Ladder, ~authorized[r], authorized'[r]
               PROVE  /\ r > 1 /\ qualified'[r - 1]
                      /\ trades'[r - 1] >= Target
                      /\ pnl'[r - 1] > 0
    OBVIOUS
  <2> USE DEF IInv
  <2>0. Ladder \subseteq Int /\ 1 \in Ladder /\ \A s \in Ladder : s >= 1
    BY HeightAssumption DEF Ladder
  <2>1. ASSUME NEW s \in Ladder, NEW t \in Trade, Demote(s, t) PROVE FALSE
    <3>1. CASE s = 1
      BY <2>1, <3>1 DEF Demote
    <3>2. CASE s # 1
      <4>1. authorized[s] /\ s > 1
        BY <2>0, <2>1, <3>2 DEF Demote
      <4>2. authorized[s - 1]
        BY <4>1 DEF LadderHasNoGaps
      <4> QED
        BY <2>1, <3>2, <4>2 DEF Demote
    <3> QED
      BY <3>1, <3>2
  <2>2. ASSUME NEW s \in Ladder, NEW t \in Trade, Qualify(s, t)
        PROVE  /\ r > 1 /\ qualified'[r - 1]
               /\ trades'[r - 1] >= Target
               /\ pnl'[r - 1] > 0
    <3>1. r = s + 1
      BY <2>2 DEF Qualify
    <3>2. r - 1 = s /\ r > 1
      BY <2>0, <3>1
    <3> QED
      BY <2>2, <3>2 DEF Qualify, ReadyToQualify, TypeOK
  <2> QED
    BY <2>1, <2>2 DEF Next, Catastrophe, Progress, standing
<1> QED
  BY Invariant, <1>1, PTL DEF Spec, AuthorityIsEarned
=============================================================================
