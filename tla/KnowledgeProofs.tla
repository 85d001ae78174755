--------------------------- MODULE KnowledgeProofs ---------------------------
(* What interleaved and interrupted verifications cannot do, for every number *)
(* of desks, findings and clients; then what planned verification cannot do,  *)
(* for every roster, wherever the planner and the clients die.                *)
EXTENDS KnowledgeWork, FiniteSetTheorems, WellFoundedInduction, TLAPS

USE DEF Usable

\* The part of the typing that the argument rests on.
ShapeOK ==
    /\ status \in [Findings -> Status \union {"absent"}]
    /\ rows \in [Findings -> [Desks -> Entry \union {NoEntry}]]
    /\ pc \in [Clients -> {"idle", "upsert", "reassess", "replace", "dead"}]
    /\ request \in [Clients -> Request \union {Idle}]
    /\ \A c \in Clients : pc[c] \in {"upsert", "reassess", "replace"} => request[c] \in Request
    /\ DOMAIN update = Clients
    /\ \A c \in Clients : pc[c] = "replace" => update[c].status \in Status

\* The rows an update was computed from are still there when it is written: a
\* row may be overwritten by its desk, it is never removed.
UpdateEarned ==
    \A c \in Clients :
        pc[c] = "replace" /\ update[c].status = "validated" =>
            Cardinality(Outsiders(request[c].finding)) >= MinPeers

IInv == ShapeOK /\ ValidatedByOthers /\ UpdateEarned

\* status_for says VALIDATED only of enough rows of other desks, since a peer row
\* of the finding's own desk is not eligible.
LEMMA ValidationNeedsOutsiders ==
    ASSUME NEW f \in Findings, ShapeOK, StatusFor(f, rows[f]) = "validated"
    PROVE  Cardinality(Outsiders(f)) >= MinPeers
<1> DEFINE peers == {d \in Eligible(f, rows[f]) : rows[f][d].peer}
<1>1. ~(Cardinality(peers) < MinPeers)
  BY DEF StatusFor
<1>2. peers \subseteq Outsiders(f)
  BY DEF Eligible, Outsiders
<1>3. IsFiniteSet(Outsiders(f))
  BY DesksAssumption, FS_Subset DEF Outsiders
<1>4. Cardinality(peers) <= Cardinality(Outsiders(f)) /\ IsFiniteSet(peers)
  BY <1>2, <1>3, FS_Subset
<1>5. Cardinality(peers) \in Nat /\ Cardinality(Outsiders(f)) \in Nat
  BY <1>3, <1>4, FS_CardinalityType
<1> QED
  BY <1>1, <1>4, <1>5, PolicyAssumption

\* A step that keeps every row keeps every count of outsiders.
LEMMA OutsidersGrow ==
    ASSUME ShapeOK, NEW f \in Findings,
           \A d \in Desks : rows[f][d].present => rows'[f][d].present,
           Cardinality(Outsiders(f)) >= MinPeers
    PROVE  Cardinality(Outsiders(f)') >= MinPeers
<1>1. Outsiders(f) \subseteq Outsiders(f)'
  BY DEF Outsiders
<1>2. IsFiniteSet(Outsiders(f)')
  BY DesksAssumption, FS_Subset DEF Outsiders
<1>3. Cardinality(Outsiders(f)) <= Cardinality(Outsiders(f)') /\ IsFiniteSet(Outsiders(f))
  BY <1>1, <1>2, FS_Subset
<1>4. Cardinality(Outsiders(f)) \in Nat /\ Cardinality(Outsiders(f)') \in Nat
  BY <1>2, <1>3, FS_CardinalityType
<1> QED
  BY <1>3, <1>4, PolicyAssumption

\* Before anything is published nothing is validated.
LEMMA InitInvariant == Init => IInv
<1> SUFFICES ASSUME Init PROVE IInv
  OBVIOUS
<1>1. ShapeOK
  BY DEF Init, ShapeOK
<1>2. ValidatedByOthers
  BY DEF Init, ValidatedByOthers
<1>3. UpdateEarned
  BY DEF Init, UpdateEarned
<1> QED
  BY <1>1, <1>2, <1>3 DEF IInv

\* No step of any call, nor its death, breaks it.
LEMMA NextInvariant == IInv /\ [Next]_vars => IInv'
<1> SUFFICES ASSUME IInv, [Next]_vars PROVE IInv'
  OBVIOUS
<1> USE DEF IInv
<1>1. ASSUME NEW f \in Findings, Publish(f) PROVE IInv'
  <2>1. ShapeOK'
    BY <1>1 DEF Publish, ShapeOK, Status
  <2>2. ValidatedByOthers' /\ UpdateEarned'
    BY <1>1 DEF Publish, ShapeOK, ValidatedByOthers, UpdateEarned, Outsiders
  <2> QED
    BY <2>1, <2>2
<1>2. ASSUME NEW c \in Clients, NEW f \in Findings, NEW d \in Desks, NEW e \in Entry,
             VerifyGet(c, f, d, e)
      PROVE  IInv'
  <2>1. ShapeOK'
    BY <1>2 DEF VerifyGet, ShapeOK, tables, Request
  <2>2. ValidatedByOthers'
    BY <1>2 DEF VerifyGet, tables, ValidatedByOthers, Outsiders
  <2>3. UpdateEarned'
    BY <1>2 DEF VerifyGet, tables, UpdateEarned, Outsiders, ShapeOK
  <2> QED
    BY <2>1, <2>2, <2>3
<1>3. ASSUME NEW c \in Clients, Upsert(c) PROVE IInv'
  <2> DEFINE g == request[c].finding  b == request[c].desk
  <2>1. request[c] \in Request
    BY <1>3 DEF Upsert, ShapeOK
  <2>2. g \in Findings /\ b \in Desks /\ request[c].entry \in Entry
    BY <2>1 DEF Request
  <2>3. rows' = [rows EXCEPT ![g] = [rows[g] EXCEPT ![b] = request[c].entry]]
    BY <1>3 DEF Upsert
  <2>4. ShapeOK'
    BY <1>3, <2>2, <2>3 DEF Upsert, ShapeOK
  <2>5. \A f \in Findings : \A d \in Desks : rows[f][d].present => rows'[f][d].present
    BY <2>2, <2>3 DEF ShapeOK, Entry
  <2>6. ValidatedByOthers'
    <3> SUFFICES ASSUME NEW f \in Findings, status'[f] = "validated"
                 PROVE  Cardinality(Outsiders(f)') >= MinPeers
      BY DEF ValidatedByOthers
    <3>1. Cardinality(Outsiders(f)) >= MinPeers
      BY <1>3 DEF Upsert, ValidatedByOthers
    <3> QED
      BY <2>5, <3>1, OutsidersGrow
  <2>7. UpdateEarned'
    <3>0. request' = request
      BY <1>3 DEF Upsert
    <3> SUFFICES ASSUME NEW x \in Clients, pc'[x] = "replace",
                        update'[x].status = "validated"
                 PROVE  Cardinality(Outsiders(request[x].finding)') >= MinPeers
      BY <3>0 DEF UpdateEarned, Outsiders
    <3>1. pc[x] = "replace" /\ update[x].status = "validated"
      BY <1>3 DEF Upsert, ShapeOK
    <3>2. request[x].finding \in Findings
      BY <3>1 DEF ShapeOK, Request
    <3>3. Cardinality(Outsiders(request[x].finding)) >= MinPeers
      BY <3>1 DEF UpdateEarned
    <3>4. ASSUME NEW f \in Findings, f = request[x].finding
          PROVE  Cardinality(Outsiders(f)') >= MinPeers
      BY <2>5, <3>3, <3>4, OutsidersGrow
    <3> QED
      BY <3>0, <3>2, <3>4 DEF Outsiders
  <2> QED
    BY <2>4, <2>6, <2>7
<1>4. ASSUME NEW c \in Clients, Reassess(c) PROVE IInv'
  <2>1. ShapeOK'
    <3>1. \A f \in Findings : StatusFor(f, rows[f]) \in Status
      BY DEF StatusFor, Status
    <3> QED
      BY <1>4, <3>1 DEF Reassess, ShapeOK, tables, Request
  <2>2. ValidatedByOthers'
    BY <1>4 DEF Reassess, tables, ValidatedByOthers, Outsiders
  <2>3. request[c].finding \in Findings
    BY <1>4 DEF Reassess, ShapeOK, Request
  <2>4. /\ update'[c].status = StatusFor(request[c].finding, rows[request[c].finding])
        /\ \A x \in Clients : x # c => update'[x] = update[x] /\ pc'[x] = pc[x]
        /\ request' = request /\ rows' = rows
    BY <1>4 DEF Reassess, ShapeOK, tables
  <2>5. UpdateEarned'
    <3> SUFFICES ASSUME NEW x \in Clients, pc'[x] = "replace",
                        update'[x].status = "validated"
                 PROVE  Cardinality(Outsiders(request[x].finding)) >= MinPeers
      BY <2>4 DEF UpdateEarned, Outsiders
    <3>1. CASE x = c
      BY <2>3, <2>4, <3>1, ValidationNeedsOutsiders
    <3>2. CASE x # c
      BY <2>4, <3>2 DEF UpdateEarned
    <3> QED
      BY <3>1, <3>2
  <2> QED
    BY <2>1, <2>2, <2>5
<1>5. ASSUME NEW c \in Clients, Replace(c) PROVE IInv'
  <2>1. request[c].finding \in Findings
    BY <1>5 DEF Replace, ShapeOK, Request
  <2>2. /\ pc' = [pc EXCEPT ![c] = "idle"] /\ rows' = rows
        /\ request' = [request EXCEPT ![c] = Idle]
        /\ update' = [update EXCEPT ![c] = Idle]
        /\ status' = [status EXCEPT ![request[c].finding] = update[c].status]
    BY <1>5 DEF Replace, LeaveTo
  <2>3. ShapeOK'
    BY <1>5, <2>1, <2>2 DEF Replace, ShapeOK
  <2>4. ValidatedByOthers'
    <3> SUFFICES ASSUME NEW f \in Findings, status'[f] = "validated"
                 PROVE  Cardinality(Outsiders(f)) >= MinPeers
      BY <2>2 DEF ValidatedByOthers, Outsiders
    <3>1. CASE f = request[c].finding
      BY <1>5, <2>2, <3>1 DEF Replace, UpdateEarned, ShapeOK
    <3>2. CASE f # request[c].finding
      BY <2>2, <3>2 DEF ValidatedByOthers, ShapeOK
    <3> QED
      BY <3>1, <3>2
  <2>5. UpdateEarned'
    BY <2>2 DEF UpdateEarned, Outsiders, ShapeOK
  <2> QED
    BY <2>3, <2>4, <2>5
<1>6. ASSUME NEW c \in Clients, Die(c) PROVE IInv'
  <2>1. ShapeOK'
    BY <1>6 DEF Die, LeaveTo, tables, ShapeOK
  <2>2. ValidatedByOthers'
    BY <1>6 DEF Die, tables, ValidatedByOthers, Outsiders
  <2>3. UpdateEarned'
    BY <1>6 DEF Die, LeaveTo, tables, UpdateEarned, Outsiders, ShapeOK
  <2> QED
    BY <2>1, <2>2, <2>3
<1>7. ASSUME NEW c \in Clients, Restart(c) PROVE IInv'
  BY <1>7 DEF Restart, tables, ShapeOK, ValidatedByOthers, UpdateEarned, Outsiders
<1>8. CASE UNCHANGED vars
  BY <1>8 DEF vars, tables, ShapeOK, ValidatedByOthers, UpdateEarned, Outsiders
<1> QED
  BY <1>1, <1>2, <1>3, <1>4, <1>5, <1>6, <1>7, <1>8 DEF Next

\* However verifications interleave, are lost or are applied late, no finding is
\* VALIDATED without answers of enough identities other than its own desk
\* (InstitutionalKnowledgeStore.verify, KnowledgeValidationPolicy.status_for).
THEOREM OthersValidate == Spec => []ValidatedByOthers
<1>1. IInv => ValidatedByOthers
  BY DEF IInv
<1> QED
  BY InitInvariant, NextInvariant, <1>1, PTL DEF Spec

-----------------------------------------------------------------------------
(* What the tables and the calls hold.                                        *)

LEMMA SmallestNumber ==
    ASSUME NEW S \in SUBSET Nat, S # {}
    PROVE  \E m \in S : \A n \in S : m <= n
<1>1. PICK m \in S : \A n \in S : ~(<<n, m>> \in OpToRel(<, Nat))
  BY WFMin, NatLessThanWellFounded, Zenon
<1>2. \A n \in S : ~(n < m)
  BY <1>1 DEF OpToRel
<1> QED
  BY <1>2

\* A smallest set without a largest number has one when a number is taken from it.
LEMMA LargestNumber ==
    ASSUME NEW S \in SUBSET Nat, IsFiniteSet(S), S # {}
    PROVE  \E m \in S : \A n \in S : m >= n
<1> DEFINE Bounded(A) == \E m \in A : \A n \in A : m >= n
           Sizes == {k \in Nat : \E A \in SUBSET S : A # {} /\ ~Bounded(A) /\ Cardinality(A) = k}
<1> SUFFICES ASSUME ~Bounded(S) PROVE FALSE
  OBVIOUS
<1>1. \A A \in SUBSET S : IsFiniteSet(A) /\ Cardinality(A) \in Nat
  BY FS_Subset, FS_CardinalityType
<1>2. PICK k \in Sizes : \A j \in Sizes : k <= j
  <2>1. Cardinality(S) \in Sizes
    BY <1>1
  <2>2. Sizes \in SUBSET Nat /\ Sizes # {}
    BY <2>1
  <2> HIDE DEF Sizes
  <2> QED
    BY <2>2, SmallestNumber
<1>3. PICK A \in SUBSET S : A # {} /\ ~Bounded(A) /\ Cardinality(A) = k
  BY <1>2
<1>4. PICK a \in A : TRUE
  BY <1>3
<1> DEFINE B == A \ {a}
<1>5. Cardinality(B) = k - 1 /\ B \in SUBSET S /\ k \in Nat /\ k - 1 < k
  <2>1. IsFiniteSet(A) /\ a \in A
    BY <1>1, <1>4
  <2>2. Cardinality(B) = Cardinality(A) - 1
    BY <2>1, FS_RemoveElement
  <2>3. k \in Nat
    BY <1>2
  <2> QED
    BY <1>3, <2>2, <2>3
<1>6. B = {} \/ Bounded(B)
  <2>1. Cardinality(B) \in Nat
    BY <1>1, <1>5
  <2>2. k - 1 \notin Sizes
    BY <1>2, <1>5
  <2> QED
    BY <1>5, <2>1, <2>2
<1>7. CASE B = {}
  <2>1. \A n \in A : n = a
    BY <1>7
  <2> QED
    BY <1>3, <2>1
<1>8. CASE Bounded(B)
  <2>1. PICK m \in B : \A n \in B : m >= n
    BY <1>8
  <2>2. m \in A /\ a \in Nat /\ m \in Nat
    OBVIOUS
  <2>3. CASE m >= a
    <3>1. \A n \in A : m >= n
      BY <2>1, <2>3
    <3> QED
      BY <1>3, <2>2, <3>1
  <2>4. CASE a >= m
    <3>1. \A n \in A : a >= n
      <4>1. ASSUME NEW n \in A PROVE a >= n
        <5>1. n \in Nat
          OBVIOUS
        <5>2. n = a \/ m >= n
          BY <2>1
        <5> QED
          BY <2>2, <2>4, <5>1, <5>2
      <4> QED
        BY <4>1
    <3> QED
      BY <1>3, <3>1
  <2> QED
    BY <2>2, <2>3, <2>4
<1> QED
  BY <1>6, <1>7, <1>8

\* The time a finding is confirmed at is that of an answer once there is one, although
\* rows that are not there count as time 0.
LEMMA LatestIsATime ==
    ASSUME NEW R \in [Desks -> Entry \union {NoEntry}], NEW d \in Desks, R[d].present
    PROVE  LatestOf(R) \in Times
<1> DEFINE ats == {R[x].at : x \in Desks}
<1>1. ASSUME NEW x \in Desks
      PROVE  R[x].at \in Times \union {0} /\ (R[x].present => R[x].at \in Times)
  <2>1. CASE R[x] \in Entry
    BY <2>1 DEF Entry
  <2>2. CASE R[x] = NoEntry
    BY <2>2 DEF NoEntry
  <2> QED
    BY <2>1, <2>2
<1>2. ats \in SUBSET Nat /\ ats # {} /\ ats \subseteq Times \union {0}
  <2>1. ats \subseteq Times \union {0}
    BY <1>1
  <2>2. R[d].at \in ats
    OBVIOUS
  <2>3. Times \subseteq Nat \ {0}
    BY TimesAssumption
  <2> HIDE DEF ats
  <2> QED
    BY <2>1, <2>2, <2>3
<1>3. IsFiniteSet(ats)
  <2> DEFINE f == [x \in Desks |-> R[x].at]
  <2>1. f \in Surjection(Desks, ats)
    BY DEF Surjection
  <2> HIDE DEF ats, f
  <2> QED
    BY <2>1, DesksAssumption, FS_Surjection
<1>4. R[d].at \in ats /\ R[d].at \in Times
  BY <1>1
<1> HIDE DEF ats
<1>5. \E m \in ats : \A n \in ats : m >= n
  BY <1>2, <1>3, LargestNumber
<1>6. Max(ats) \in ats /\ \A n \in ats : Max(ats) >= n
  BY <1>5 DEF Max
<1>7. LatestOf(R) = Max(ats)
  BY DEF LatestOf, ats
<1>8. Max(ats) # 0
  <2>1. Max(ats) >= R[d].at
    BY <1>4, <1>6
  <2>2. R[d].at \in Nat \ {0} /\ Max(ats) \in Nat
    BY <1>2, <1>4, <1>6, TimesAssumption
  <2> QED
    BY <2>1, <2>2
<1> QED
  BY <1>2, <1>6, <1>7, <1>8

\* A call that has stored its answer finds it there when it reads the rows back.
Stored ==
    \A c \in Clients :
        pc[c] = "reassess" => rows[request[c].finding][request[c].desk].present

TypedInv == TypeOK /\ Stored

LEMMA RequestIsNotIdle == Idle \notin Request
<1>1. \A r \in Request : DOMAIN r = {"finding", "desk", "entry"}
  BY DEF Request
<1>2. DOMAIN Idle = {"idle"}
  BY DEF Idle
<1> QED
  BY <1>1, <1>2

LEMMA UpdateIsNotIdle == Idle \notin Update
<1>1. \A u \in Update : DOMAIN u = {"status", "at"}
  BY DEF Update
<1>2. DOMAIN Idle = {"idle"}
  BY DEF Idle
<1> QED
  BY <1>1, <1>2

LEMMA InitTypes == Init => TypedInv
<1> QED
  BY DEF Init, TypedInv, TypeOK, Stored, Status

LEMMA NextTypes == TypedInv /\ [Next]_vars => TypedInv'
<1> SUFFICES ASSUME TypedInv, [Next]_vars PROVE TypedInv'
  OBVIOUS
<1> USE DEF TypedInv
<1>0. \A c \in Clients : pc[c] \in {"upsert", "reassess", "replace"} =>
          /\ request[c] \in Request /\ request[c] # Idle
          /\ request[c].finding \in Findings /\ request[c].desk \in Desks
          /\ request[c].entry \in Entry
  BY RequestIsNotIdle DEF TypeOK, Request
<1>1. ASSUME NEW f \in Findings, Publish(f) PROVE TypedInv'
  BY <1>1 DEF Publish, TypeOK, Stored, Status
<1>2. ASSUME NEW c \in Clients, NEW f \in Findings, NEW d \in Desks, NEW e \in Entry,
             VerifyGet(c, f, d, e)
      PROVE  TypedInv'
  <2> DEFINE r == [finding |-> f, desk |-> d, entry |-> e]
  <2>1. r \in Request /\ r # Idle
    BY RequestIsNotIdle DEF Request
  <2> HIDE DEF r
  <2>2. request' = [request EXCEPT ![c] = r] /\ pc' = [pc EXCEPT ![c] = "upsert"]
        /\ UNCHANGED <<status, verified, rows, update>> /\ pc[c] = "idle"
    BY <1>2 DEF VerifyGet, tables, r
  <2> QED
    BY <2>1, <2>2 DEF TypeOK, Stored
<1>3. ASSUME NEW c \in Clients, Upsert(c) PROVE TypedInv'
  <2> DEFINE g == request[c].finding  b == request[c].desk
  <2>1. g \in Findings /\ b \in Desks /\ request[c].entry \in Entry
    BY <1>0, <1>3 DEF Upsert
  <2>2. /\ rows' = [rows EXCEPT ![g] = [rows[g] EXCEPT ![b] = request[c].entry]]
        /\ pc' = [pc EXCEPT ![c] = "reassess"] /\ pc[c] = "upsert"
        /\ UNCHANGED <<status, verified, request, update>>
    BY <1>3 DEF Upsert
  <2>3. rows' \in [Findings -> [Desks -> Entry \union {NoEntry}]]
    BY <2>1, <2>2 DEF TypeOK
  <2>4. TypeOK'
    BY <2>2, <2>3 DEF TypeOK
  <2>5. \A f \in Findings : \A d \in Desks : rows[f][d].present => rows'[f][d].present
    BY <2>1, <2>2 DEF TypeOK, Entry
  <2>6. rows'[g][b].present
    BY <2>1, <2>2 DEF TypeOK, Entry
  <2>7. Stored'
    <3> SUFFICES ASSUME NEW x \in Clients, pc'[x] = "reassess"
                 PROVE  rows'[request[x].finding][request[x].desk].present
      BY <2>2 DEF Stored
    <3>1. CASE x = c
      BY <2>6, <3>1
    <3>2. CASE x # c
      <4>1. pc[x] = "reassess"
        BY <2>2, <3>2 DEF TypeOK
      <4> QED
        BY <1>0, <2>5, <4>1 DEF Stored
    <3> QED
      BY <3>1, <3>2
  <2> QED
    BY <2>4, <2>7
<1>4. ASSUME NEW c \in Clients, Reassess(c) PROVE TypedInv'
  <2> DEFINE g == request[c].finding
             u == [status |-> StatusFor(g, rows[g]), at |-> LatestOf(rows[g])]
  <2>1. g \in Findings /\ request[c].desk \in Desks /\ rows[g][request[c].desk].present
    BY <1>0, <1>4 DEF Reassess, Stored
  <2>2. LatestOf(rows[g]) \in Times
    BY <2>1, LatestIsATime DEF TypeOK
  <2>3. StatusFor(g, rows[g]) \in Status
    BY DEF StatusFor, Status
  <2>4. u \in Update /\ u # Idle
    BY <2>2, <2>3, UpdateIsNotIdle DEF Update
  <2>5. /\ update' = [update EXCEPT ![c] = u] /\ pc' = [pc EXCEPT ![c] = "replace"]
        /\ UNCHANGED <<status, verified, rows, request>> /\ pc[c] = "reassess"
    BY <1>4 DEF Reassess, tables
  <2> HIDE DEF u, g
  <2> QED
    BY <2>4, <2>5 DEF TypeOK, Stored
<1>5. ASSUME NEW c \in Clients, Replace(c) PROVE TypedInv'
  <2>1. request[c].finding \in Findings
    BY <1>0, <1>5 DEF Replace
  <2>2. update[c] \in Update
    BY <1>5 DEF Replace, TypeOK
  <2>3. update[c].status \in Status /\ update[c].at \in Times
    BY <2>2 DEF Update
  <2>4. /\ status' = [status EXCEPT ![request[c].finding] = update[c].status]
        /\ verified' = [verified EXCEPT ![request[c].finding] = update[c].at]
        /\ pc' = [pc EXCEPT ![c] = "idle"] /\ request' = [request EXCEPT ![c] = Idle]
        /\ update' = [update EXCEPT ![c] = Idle] /\ rows' = rows
    BY <1>5 DEF Replace, LeaveTo
  <2> QED
    BY <2>1, <2>3, <2>4 DEF TypeOK, Stored
<1>6. ASSUME NEW c \in Clients, Die(c) PROVE TypedInv'
  BY <1>6 DEF Die, LeaveTo, tables, TypeOK, Stored
<1>7. ASSUME NEW c \in Clients, Restart(c) PROVE TypedInv'
  BY <1>7 DEF Restart, tables, TypeOK, Stored
<1>8. CASE UNCHANGED vars
  BY <1>8 DEF vars, tables, TypeOK, Stored
<1> QED
  BY <1>1, <1>2, <1>3, <1>4, <1>5, <1>6, <1>7, <1>8 DEF Next

\* The rows a call reads back hold at least its own answer, so that it always finds a
\* time the finding was confirmed at; no step of a call, nor its death, leaves a request
\* or an update without the call it belongs to (InstitutionalKnowledgeStore.verify).
THEOREM StoreTypeCorrect == Spec => []TypeOK
<1> QED
  BY InitTypes, NextTypes, PTL DEF Spec, TypedInv

-----------------------------------------------------------------------------
(* While no call dies and no two calls verify one finding.                    *)

\* Nothing is known of a finding that is not published, an update that waits to
\* be written is what the rows earn, and so is what a finding shows while nobody
\* verifies it.
UnknownBefore ==
    \A f \in Findings : status[f] = "absent" =>
        /\ verified[f] = 0
        /\ \A d \in Desks : rows[f][d] = NoEntry
        /\ \A c \in Clients : ~Verifying(c, f)
UpdateReflects ==
    \A c \in Clients : pc[c] = "replace" =>
        LET f == request[c].finding IN
        update[c] = [status |-> StatusFor(f, rows[f]), at |-> LatestOf(rows[f])]
QuietReflects ==
    \A f \in Findings :
        status[f] # "absent" /\ (\A c \in Clients : ~Verifying(c, f)) => Reflects(f)

Calm == DOMAIN verified = Findings /\ UnknownBefore /\ UpdateReflects /\ QuietReflects

\* A finding without rows earns what it is published with.
LEMMA NothingEarned ==
    ASSUME NEW f \in Findings, NEW R, \A d \in Desks : R[d] = NoEntry
    PROVE  StatusFor(f, R) = "observed" /\ LatestOf(R) = 0
<1>1. Eligible(f, R) = {}
  BY DEF Eligible, NoEntry
<1>2. SourceOf[f] \in Desks
  BY SourceAssumption
<1>3. {R[d].at : d \in Desks} = {0}
  BY <1>2 DEF NoEntry
<1>4. Max({0}) = 0
  BY DEF Max
<1> QED
  BY <1>1, <1>3, <1>4 DEF StatusFor, LatestOf

LEMMA NextCalm ==
    ASSUME IInv, Calm, Undisturbed, Undisturbed', [Next]_vars PROVE Calm'
<1> USE DEF IInv, Calm
<1>1. ASSUME NEW f \in Findings, Publish(f) PROVE Calm'
  <2>1. /\ status' = [status EXCEPT ![f] = "observed"]
        /\ UNCHANGED <<verified, rows, pc, request, update>>
        /\ status[f] = "absent"
    BY <1>1 DEF Publish
  <2>2. UnknownBefore' /\ UpdateReflects'
    BY <2>1 DEF UnknownBefore, UpdateReflects, Verifying, ShapeOK
  <2>3. StatusFor(f, rows[f]) = "observed" /\ LatestOf(rows[f]) = 0
    BY <2>1, NothingEarned DEF UnknownBefore
  <2> QED
    BY <2>1, <2>2, <2>3 DEF QuietReflects, UnknownBefore, Reflects, Verifying, ShapeOK
<1>2. ASSUME NEW c \in Clients, NEW f \in Findings, NEW d \in Desks, NEW e \in Entry,
             VerifyGet(c, f, d, e)
      PROVE  Calm'
  <2>1. /\ UNCHANGED tables /\ update' = update /\ status[f] # "absent"
        /\ pc' = [pc EXCEPT ![c] = "upsert"] /\ pc[c] = "idle"
        /\ request' = [request EXCEPT ![c] = [finding |-> f, desk |-> d, entry |-> e]]
    BY <1>2 DEF VerifyGet
  <2>2. UnknownBefore' /\ DOMAIN verified' = Findings
    BY <2>1 DEF tables, UnknownBefore, Verifying, ShapeOK
  <2>3. UpdateReflects'
    BY <2>1 DEF tables, UpdateReflects, ShapeOK
  <2>4. QuietReflects'
    BY <2>1 DEF tables, QuietReflects, Reflects, Verifying, ShapeOK
  <2> QED
    BY <2>2, <2>3, <2>4
<1>3. ASSUME NEW c \in Clients, Upsert(c) PROVE Calm'
  <2> DEFINE g == request[c].finding
  <2>1. /\ UNCHANGED <<status, verified, request, update>>
        /\ pc' = [pc EXCEPT ![c] = "reassess"] /\ pc[c] = "upsert"
        /\ \A f \in Findings : f # g => rows'[f] = rows[f]
    BY <1>3 DEF Upsert, ShapeOK
  <2>2. Verifying(c, g) /\ Verifying(c, g)' /\ g \in Findings
    BY <2>1 DEF Verifying, ShapeOK, Request
  <2>3. \A x \in Clients : pc'[x] = "replace" => pc[x] = "replace" /\ request[x].finding # g
    BY <2>1, <2>2 DEF Undisturbed, Verifying, ShapeOK
  <2>4. UpdateReflects'
    BY <2>1, <2>3 DEF UpdateReflects, ShapeOK, Request
  <2>5. UnknownBefore' /\ DOMAIN verified' = Findings
    BY <2>1, <2>2 DEF UnknownBefore, Verifying, ShapeOK
  <2>6. QuietReflects'
    BY <2>1, <2>2 DEF QuietReflects, Reflects, Verifying, ShapeOK
  <2> QED
    BY <2>4, <2>5, <2>6
<1>4. ASSUME NEW c \in Clients, Reassess(c) PROVE Calm'
  <2> DEFINE g == request[c].finding
  <2>1. /\ UNCHANGED tables /\ request' = request
        /\ pc' = [pc EXCEPT ![c] = "replace"] /\ pc[c] = "reassess"
        /\ update' = [update EXCEPT ![c] =
                        [status |-> StatusFor(g, rows[g]), at |-> LatestOf(rows[g])]]
    BY <1>4 DEF Reassess
  <2>2. UpdateReflects'
    BY <2>1 DEF tables, UpdateReflects, ShapeOK
  <2>3. UnknownBefore' /\ DOMAIN verified' = Findings
    BY <2>1 DEF tables, UnknownBefore, Verifying, ShapeOK
  <2>4. QuietReflects'
    BY <2>1 DEF tables, QuietReflects, Reflects, Verifying, ShapeOK
  <2> QED
    BY <2>2, <2>3, <2>4
<1>5. ASSUME NEW c \in Clients, Replace(c) PROVE Calm'
  <2> DEFINE g == request[c].finding
  <2>1. /\ rows' = rows /\ pc[c] = "replace"
        /\ pc' = [pc EXCEPT ![c] = "idle"]
        /\ request' = [request EXCEPT ![c] = Idle]
        /\ update' = [update EXCEPT ![c] = Idle]
        /\ status' = [status EXCEPT ![g] = update[c].status]
        /\ verified' = [verified EXCEPT ![g] = update[c].at]
    BY <1>5 DEF Replace, LeaveTo
  <2>2. Verifying(c, g) /\ g \in Findings
    BY <2>1 DEF Verifying, ShapeOK, Request
  <2>3. update[c] = [status |-> StatusFor(g, rows[g]), at |-> LatestOf(rows[g])]
    BY <2>1 DEF UpdateReflects
  <2>4. update[c].status # "absent"
    BY <2>1 DEF ShapeOK, Status
  <2>5. UpdateReflects'
    BY <2>1 DEF UpdateReflects, ShapeOK
  <2>6. UnknownBefore' /\ DOMAIN verified' = Findings
    BY <2>1, <2>2, <2>4 DEF UnknownBefore, Verifying, ShapeOK
  <2>7. status'[g] = StatusFor(g, rows'[g]) /\ verified'[g] = LatestOf(rows'[g])
    BY <2>1, <2>2, <2>3 DEF ShapeOK
  <2>8. ASSUME NEW f \in Findings, f # g, status'[f] # "absent",
               \A x \in Clients : ~Verifying(x, f)'
        PROVE  Reflects(f)'
    <3>1. \A x \in Clients : ~Verifying(x, f)
      BY <2>1, <2>2, <2>8 DEF Verifying, ShapeOK
    <3> QED
      BY <2>1, <2>8, <3>1 DEF QuietReflects, Reflects, ShapeOK
  <2>9. QuietReflects'
    BY <2>7, <2>8 DEF QuietReflects, Reflects
  <2> QED
    BY <2>5, <2>6, <2>9
<1>6. ASSUME NEW c \in Clients, Die(c) PROVE FALSE
  <2>1. pc'[c] = "dead"
    BY <1>6 DEF Die, LeaveTo, ShapeOK
  <2> QED
    BY <2>1 DEF Undisturbed
<1>7. ASSUME NEW c \in Clients, Restart(c) PROVE FALSE
  BY <1>7 DEF Restart, Undisturbed
<1>8. CASE UNCHANGED vars
  BY <1>8 DEF vars, tables, UnknownBefore, UpdateReflects, QuietReflects, Reflects, Verifying
<1> QED
  BY <1>1, <1>2, <1>3, <1>4, <1>5, <1>6, <1>7, <1>8 DEF Next

\* While no call dies and no two of them verify one finding, a finding that nobody
\* is verifying shows what its rows earn and when they were last confirmed
\* (InstitutionalKnowledgeStore.verify).
THEOREM UndisturbedShowsEvidence == Spec => UndisturbedReflectsEvidence
<1>1. Init => Calm
  BY DEF Init, Calm, UnknownBefore, UpdateReflects, QuietReflects, Verifying
<1>2. IInv /\ Calm /\ Undisturbed /\ Undisturbed' /\ [Next]_vars => Calm'
  BY NextCalm
<1>3. Calm => QuietReflects
  BY DEF Calm
<1>4. Spec => []IInv
  BY InitInvariant, NextInvariant, PTL DEF Spec
<1>5. Spec => ([]Undisturbed => []QuietReflects)
  BY <1>1, <1>2, <1>3, <1>4, PTL DEF Spec
<1> QED
  BY <1>5 DEF UndisturbedReflectsEvidence, QuietReflects

-----------------------------------------------------------------------------
(* Planned verification.                                                      *)

USE DEF Replicas

\* A peer is neither the desk a finding comes from nor one of its replications.
IsPeer(f, d) == d \in Desks /\ d # SourceOf[f] /\ d \notin Replications[f]

\* Whoever is asked, calls or has answered as a peer is one.
PlannedPeers ==
    planning # Nothing =>
        /\ planning \in Planning
        /\ planning.peer => \A d \in planning.todo : IsPeer(planning.finding, d)
AskedPeers ==
    \A i \in work : /\ i.finding \in Findings /\ i.desk \in Desks
                    /\ i.peer => IsPeer(i.finding, i.desk)
CallingPeers ==
    \A c \in Clients :
        pc[c] = "upsert" /\ request[c].entry.peer => IsPeer(request[c].finding, request[c].desk)
AnsweredPeers ==
    \A f \in Findings : \A d \in Desks :
        rows[f][d].present /\ rows[f][d].peer => IsPeer(f, d)

\* An update that validates was computed from enough answers of peers.
UpdateByPeers ==
    \A c \in Clients :
        pc[c] = "replace" /\ update[c].status = "validated" =>
            Cardinality(PeersOf(request[c].finding)) >= MinPeers

PInv == CallingPeers /\ AnsweredPeers /\ PeersValidate /\ UpdateByPeers

-----------------------------------------------------------------------------
(* The planner and its tasks only use the store, they never touch its tables. *)

LEMMA IdentitiesArePeers ==
    ASSUME NEW f \in Findings, NEW roster \in Rosters
    PROVE  /\ Identities(f, roster) \subseteq Desks
           /\ EnoughPeers(f, roster) => \A d \in Identities(f, roster) : IsPeer(f, d)
<1>1. roster \in Seq(Desks) /\ \A i \in DOMAIN roster : roster[i] \notin Replications[f]
  BY RostersAssumption, ReplicationsAssumption
<1>2. \A i \in DOMAIN roster : roster[i] \in Desks
  BY <1>1
<1>3. Replications[f] \subseteq Desks
  BY ReplicationsAssumption
<1>4. \A d \in Chosen(f, roster) :
          \E i \in DOMAIN roster : d = roster[i] /\ roster[i] # SourceOf[f]
  BY DEF Chosen, Firsts
<1> QED
  BY <1>1, <1>2, <1>3, <1>4 DEF Identities, IsPeer

\* The roster decides who is asked, whatever the store holds.
LEMMA WorkIsForPeers == WorkSpec => [](PlannedPeers /\ AskedPeers)
<1>1. WorkInit => PlannedPeers /\ AskedPeers
  BY DEF WorkInit, PlannedPeers, AskedPeers
<1>2. PlannedPeers /\ AskedPeers /\ [WorkNext]_allVars => PlannedPeers' /\ AskedPeers'
  <2> SUFFICES ASSUME PlannedPeers, AskedPeers, [WorkNext]_allVars
               PROVE  PlannedPeers' /\ AskedPeers'
    OBVIOUS
  <2>1. ASSUME NEW f \in Findings, NEW roster \in Rosters, Plan(f, roster)
        PROVE  PlannedPeers' /\ AskedPeers'
    <3>1. planning' = [finding |-> f, peer |-> EnoughPeers(f, roster),
                       todo |-> Identities(f, roster)]
      BY <2>1 DEF Plan
    <3>2. EnoughPeers(f, roster) \in BOOLEAN
      BY DEF EnoughPeers
    <3>3. PlannedPeers'
      BY <3>1, <3>2, IdentitiesArePeers DEF PlannedPeers, Planning
    <3> QED
      BY <2>1, <3>3 DEF Plan, AskedPeers
  <2>2. ASSUME NEW d \in Desks, Enqueue(d) PROVE PlannedPeers' /\ AskedPeers'
    <3>1. planning.finding \in Findings /\ (planning.peer => IsPeer(planning.finding, d))
      BY <2>2 DEF Enqueue, PlannedPeers, Planning
    <3>2. AskedPeers'
      BY <2>2, <3>1 DEF Enqueue, AskedPeers
    <3>3. PlannedPeers'
      BY <2>2 DEF Enqueue, PlannedPeers, Planning
    <3> QED
      BY <3>2, <3>3
  <2>3. CASE PlannerDies
    BY <2>3 DEF PlannerDies, PlannedPeers, AskedPeers
  <2>4. ASSUME NEW c \in Clients,
               \/ \E i \in work : \E e \in Entry : Run(c, i, e)
               \/ StoreStep(c) /\ UNCHANGED workVars
               \/ Answer(c) \/ GiveUp(c)
        PROVE  PlannedPeers' /\ AskedPeers'
    BY <2>4 DEF Run, Answer, GiveUp, workVars, PlannedPeers, AskedPeers
  <2>5. CASE UNCHANGED workVars
    BY <2>5 DEF workVars, PlannedPeers, AskedPeers
  <2> QED
    BY <2>1, <2>2, <2>3, <2>4, <2>5 DEF WorkNext, PlannerStep, allVars
<1> QED
  BY <1>1, <1>2, PTL DEF WorkSpec

LEMMA WorkStepsUseTheStore ==
    ASSUME AskedPeers, [WorkNext]_allVars PROVE [Next]_vars
<1>1. ASSUME NEW f \in Findings, Publish(f) PROVE Next
  BY <1>1 DEF Next
<1>2. ASSUME NEW f \in Findings, NEW roster \in Rosters, Plan(f, roster) PROVE UNCHANGED vars
  BY <1>2 DEF Plan
<1>3. ASSUME PlannerStep PROVE UNCHANGED vars
  BY <1>3 DEF PlannerStep, Enqueue, PlannerDies
<1>4. ASSUME NEW c \in Clients, NEW i \in work, NEW e \in Entry, Run(c, i, e) PROVE Next
  <2>1. VerifyGet(c, i.finding, i.desk, e) /\ i.finding \in Findings /\ i.desk \in Desks
    BY <1>4 DEF Run, AskedPeers
  <2> QED
    BY <2>1 DEF Next
<1>5. ASSUME NEW c \in Clients, StoreStep(c) \/ Answer(c) \/ GiveUp(c) PROVE Next
  BY <1>5 DEF StoreStep, Answer, GiveUp, Next
<1> QED
  BY <1>1, <1>2, <1>3, <1>4, <1>5 DEF WorkNext, allVars

\* Planning and running the work is using the store: whatever holds of every use
\* of it holds here.
LEMMA WorkUsesTheStore == WorkSpec => Spec
<1>1. WorkInit => Init
  BY DEF WorkInit
<1>2. AskedPeers /\ [WorkNext]_allVars => [Next]_vars
  BY WorkStepsUseTheStore
<1> QED
  BY <1>1, <1>2, WorkIsForPeers, PTL DEF WorkSpec, Spec

LEMMA StoreInvariant == WorkSpec => []IInv
<1> QED
  BY WorkUsesTheStore, InitInvariant, NextInvariant, PTL DEF Spec
-----------------------------------------------------------------------------
(* The answers.                                                               *)

\* status_for says VALIDATED only of enough rows that count as peers.
LEMMA ValidationNeedsPeers ==
    ASSUME NEW f \in Findings, ShapeOK, AnsweredPeers, StatusFor(f, rows[f]) = "validated"
    PROVE  Cardinality(PeersOf(f)) >= MinPeers
<1> DEFINE peers == {d \in Eligible(f, rows[f]) : rows[f][d].peer}
<1>1. ~(Cardinality(peers) < MinPeers)
  BY DEF StatusFor
<1>2. peers \subseteq PeersOf(f)
  BY DEF Eligible, PeersOf, Outsiders, AnsweredPeers, IsPeer
<1>3. IsFiniteSet(PeersOf(f))
  BY DesksAssumption, FS_Subset DEF PeersOf, Outsiders
<1>4. Cardinality(peers) <= Cardinality(PeersOf(f)) /\ IsFiniteSet(peers)
  BY <1>2, <1>3, FS_Subset
<1>5. Cardinality(peers) \in Nat /\ Cardinality(PeersOf(f)) \in Nat
  BY <1>3, <1>4, FS_CardinalityType
<1> QED
  BY <1>1, <1>4, <1>5, PolicyAssumption

\* A step that keeps every row keeps every count of peers.
LEMMA PeersGrow ==
    ASSUME NEW f \in Findings,
           \A d \in Desks : rows[f][d].present => rows'[f][d].present,
           Cardinality(PeersOf(f)) >= MinPeers
    PROVE  Cardinality(PeersOf(f)') >= MinPeers
<1>1. PeersOf(f) \subseteq PeersOf(f)'
  BY DEF PeersOf, Outsiders
<1>2. IsFiniteSet(PeersOf(f)')
  BY DesksAssumption, FS_Subset DEF PeersOf, Outsiders
<1>3. Cardinality(PeersOf(f)) <= Cardinality(PeersOf(f)') /\ IsFiniteSet(PeersOf(f))
  BY <1>1, <1>2, FS_Subset
<1>4. Cardinality(PeersOf(f)) \in Nat /\ Cardinality(PeersOf(f)') \in Nat
  BY <1>2, <1>3, FS_CardinalityType
<1> QED
  BY <1>3, <1>4, PolicyAssumption

LEMMA InitPeers == WorkInit => PInv
<1> SUFFICES ASSUME WorkInit PROVE PInv
  OBVIOUS
<1>1. PeersValidate /\ UpdateByPeers /\ CallingPeers
  BY DEF WorkInit, Init, PeersValidate, UpdateByPeers, CallingPeers
<1>2. AnsweredPeers
  BY DEF WorkInit, Init, AnsweredPeers, NoEntry
<1> QED
  BY <1>1, <1>2 DEF PInv

LEMMA NextPeers ==
    ASSUME IInv, PInv, AskedPeers, [WorkNext]_allVars PROVE PInv'
<1> USE DEF PInv, IInv
<1>1. ASSUME NEW f \in Findings, Publish(f) PROVE PInv'
  BY <1>1 DEF Publish, ShapeOK, CallingPeers, AnsweredPeers, PeersValidate, UpdateByPeers,
     PeersOf, Outsiders
<1>2. ASSUME UNCHANGED vars PROVE PInv'
  BY <1>2 DEF vars, tables, CallingPeers, AnsweredPeers, PeersValidate, UpdateByPeers,
     PeersOf, Outsiders
<1>3. ASSUME NEW c \in Clients, NEW i \in work, NEW e \in Entry, Run(c, i, e) PROVE PInv'
  <2>1. VerifyGet(c, i.finding, i.desk, e) /\ (e.peer => IsPeer(i.finding, i.desk))
    BY <1>3 DEF Run, AskedPeers
  <2>2. UNCHANGED tables /\ update' = update
    BY <2>1 DEF VerifyGet
  <2>3. CallingPeers'
    BY <2>1 DEF VerifyGet, CallingPeers, ShapeOK
  <2>4. UpdateByPeers'
    BY <2>1, <2>2 DEF VerifyGet, tables, UpdateByPeers, PeersOf, Outsiders, ShapeOK
  <2>5. PeersValidate' /\ AnsweredPeers'
    BY <2>2 DEF tables, PeersValidate, AnsweredPeers, PeersOf, Outsiders
  <2> QED
    BY <2>3, <2>4, <2>5
<1>4. ASSUME NEW c \in Clients, Upsert(c) PROVE PInv'
  <2> DEFINE g == request[c].finding  b == request[c].desk
  <2>1. request[c] \in Request
    BY <1>4 DEF Upsert, ShapeOK
  <2>2. g \in Findings /\ b \in Desks /\ request[c].entry \in Entry
    BY <2>1 DEF Request
  <2>3. rows' = [rows EXCEPT ![g] = [rows[g] EXCEPT ![b] = request[c].entry]]
    BY <1>4 DEF Upsert
  <2>4. \A f \in Findings : \A d \in Desks : rows[f][d].present => rows'[f][d].present
    BY <2>2, <2>3 DEF ShapeOK, Entry
  <2>5. AnsweredPeers'
    BY <1>4, <2>2, <2>3 DEF Upsert, AnsweredPeers, CallingPeers, ShapeOK
  <2>6. CallingPeers'
    BY <1>4 DEF Upsert, CallingPeers, ShapeOK
  <2>7. PeersValidate'
    <3> SUFFICES ASSUME NEW f \in Findings, status'[f] = "validated"
                 PROVE  Cardinality(PeersOf(f)') >= MinPeers
      BY DEF PeersValidate
    <3>1. Cardinality(PeersOf(f)) >= MinPeers
      BY <1>4 DEF Upsert, PeersValidate
    <3> QED
      BY <2>4, <3>1, PeersGrow
  <2>8. UpdateByPeers'
    <3>0. request' = request
      BY <1>4 DEF Upsert
    <3> SUFFICES ASSUME NEW x \in Clients, pc'[x] = "replace",
                        update'[x].status = "validated"
                 PROVE  Cardinality(PeersOf(request[x].finding)') >= MinPeers
      BY <3>0 DEF UpdateByPeers, PeersOf, Outsiders
    <3>1. pc[x] = "replace" /\ update[x].status = "validated"
      BY <1>4 DEF Upsert, ShapeOK
    <3>2. request[x].finding \in Findings
      BY <3>1 DEF ShapeOK, Request
    <3>3. Cardinality(PeersOf(request[x].finding)) >= MinPeers
      BY <3>1 DEF UpdateByPeers
    <3>4. ASSUME NEW f \in Findings, f = request[x].finding
          PROVE  Cardinality(PeersOf(f)') >= MinPeers
      BY <2>4, <3>3, <3>4, PeersGrow
    <3> QED
      BY <3>0, <3>2, <3>4 DEF PeersOf, Outsiders
  <2> QED
    BY <2>5, <2>6, <2>7, <2>8
<1>5. ASSUME NEW c \in Clients, Reassess(c) PROVE PInv'
  <2>1. request[c].finding \in Findings
    BY <1>5 DEF Reassess, ShapeOK, Request
  <2>2. /\ update'[c].status = StatusFor(request[c].finding, rows[request[c].finding])
        /\ \A x \in Clients : x # c => update'[x] = update[x] /\ pc'[x] = pc[x]
        /\ pc'[c] = "replace"
        /\ request' = request /\ rows' = rows /\ status' = status
    BY <1>5 DEF Reassess, ShapeOK, tables
  <2>3. AnsweredPeers' /\ PeersValidate' /\ CallingPeers'
    BY <2>2 DEF AnsweredPeers, PeersValidate, PeersOf, Outsiders, CallingPeers
  <2>4. UpdateByPeers'
    <3> SUFFICES ASSUME NEW x \in Clients, pc'[x] = "replace",
                        update'[x].status = "validated"
                 PROVE  Cardinality(PeersOf(request[x].finding)) >= MinPeers
      BY <2>2 DEF UpdateByPeers, PeersOf, Outsiders
    <3>1. CASE x = c
      BY <2>1, <2>2, <3>1, ValidationNeedsPeers
    <3>2. CASE x # c
      BY <2>2, <3>2 DEF UpdateByPeers
    <3> QED
      BY <3>1, <3>2
  <2> QED
    BY <2>3, <2>4
<1>6. ASSUME NEW c \in Clients, Replace(c) PROVE PInv'
  <2>1. request[c].finding \in Findings
    BY <1>6 DEF Replace, ShapeOK, Request
  <2>2. /\ pc' = [pc EXCEPT ![c] = "idle"] /\ rows' = rows
        /\ request' = [request EXCEPT ![c] = Idle]
        /\ update' = [update EXCEPT ![c] = Idle]
        /\ status' = [status EXCEPT ![request[c].finding] = update[c].status]
    BY <1>6 DEF Replace, LeaveTo
  <2>3. PeersValidate'
    <3> SUFFICES ASSUME NEW f \in Findings, status'[f] = "validated"
                 PROVE  Cardinality(PeersOf(f)) >= MinPeers
      BY <2>2 DEF PeersValidate, PeersOf, Outsiders
    <3>1. CASE f = request[c].finding
      BY <1>6, <2>2, <3>1 DEF Replace, UpdateByPeers, ShapeOK
    <3>2. CASE f # request[c].finding
      BY <2>2, <3>2 DEF PeersValidate, ShapeOK
    <3> QED
      BY <3>1, <3>2
  <2>4. UpdateByPeers' /\ CallingPeers' /\ AnsweredPeers'
    BY <2>2 DEF UpdateByPeers, CallingPeers, AnsweredPeers, PeersOf, Outsiders, ShapeOK
  <2> QED
    BY <2>3, <2>4
<1>7. ASSUME NEW c \in Clients, Die(c) PROVE PInv'
  <2>1. /\ UNCHANGED tables
        /\ pc' = [pc EXCEPT ![c] = "dead"]
        /\ request' = [request EXCEPT ![c] = Idle]
        /\ update' = [update EXCEPT ![c] = Idle]
    BY <1>7 DEF Die, LeaveTo
  <2> QED
    BY <2>1 DEF tables, UpdateByPeers, CallingPeers, AnsweredPeers, PeersValidate, PeersOf,
       Outsiders, ShapeOK
<1>8. ASSUME NEW c \in Clients, Restart(c) PROVE PInv'
  BY <1>8 DEF Restart, tables, UpdateByPeers, CallingPeers, AnsweredPeers, PeersValidate,
     PeersOf, Outsiders, ShapeOK
<1>9. ASSUME \/ \E f \in Findings : \E roster \in Rosters : Plan(f, roster)
             \/ PlannerStep
      PROVE  UNCHANGED vars
  BY <1>9 DEF Plan, PlannerStep, Enqueue, PlannerDies
<1> QED
  BY <1>1, <1>2, <1>3, <1>4, <1>5, <1>6, <1>7, <1>8, <1>9
  DEF WorkNext, StoreStep, Answer, GiveUp, allVars

\* Replications are not fake peers: however often a finding is planned, with
\* whatever rosters, and whoever dies, it is usable only when MinPeers desks other
\* than its own answered it (KnowledgeVerificationTaskPlanner.plan,
\* InstitutionalKnowledgeStore.verify).
THEOREM OnlyPeersValidate == WorkSpec => []PeersValidate
<1>1. IInv /\ PInv /\ AskedPeers /\ [WorkNext]_allVars => PInv'
  BY NextPeers
<1>2. PInv => PeersValidate
  BY DEF PInv
<1> QED
  BY InitPeers, <1>1, <1>2, StoreInvariant, WorkIsForPeers, PTL DEF WorkSpec

-----------------------------------------------------------------------------
(* What the planner and its tasks hold.                                       *)

\* A planner is at work on a plan that was counted, and a call under way runs a task.
Busy ==
    /\ planning # Nothing => plans # 0
    /\ \A c \in Clients : pc[c] \notin {"idle", "dead"} => doing[c] \in work

WorkShape ==
    /\ planning \in Planning \union {Nothing}
    /\ plans \in 0..MaxPlans
    /\ returned \subseteq 1..plans
    /\ work \subseteq Item
    /\ answered \subseteq work
    /\ doing \in [Clients -> work \union {Nothing}]

\* A client that runs a task verifies what the task says.
Assigned ==
    \A c \in Clients :
        IF pc[c] \in {"idle", "dead"} THEN doing[c] = Nothing
        ELSE /\ doing[c].finding = request[c].finding
             /\ doing[c].desk = request[c].desk
             /\ doing[c].peer = request[c].entry.peer

WInv == WorkShape /\ Assigned /\ Busy

LEMMA InitWork == WorkInit => WInv
<1> QED
  BY MaxPlansAssumption DEF WorkInit, Init, WInv, WorkShape, Assigned, Busy

\* Only steps that leave a client's call alone, or end it, are left to the planner and
\* to the store.
LEMMA NextWork ==
    TypeOK /\ WInv /\ [WorkNext]_allVars => WInv'
<1> SUFFICES ASSUME TypeOK, WInv, [WorkNext]_allVars PROVE WInv'
  OBVIOUS
<1> USE DEF WInv
<1>0. MaxPlans \in Nat /\ plans \in Nat
  BY MaxPlansAssumption DEF WorkShape
<1>1. ASSUME NEW f \in Findings, Publish(f), UNCHANGED workVars PROVE WInv'
  BY <1>1 DEF Publish, workVars, WorkShape, Assigned, Busy
<1>2. ASSUME NEW f \in Findings, NEW roster \in Rosters, Plan(f, roster) PROVE WInv'
  <2> DEFINE p == [finding |-> f, peer |-> EnoughPeers(f, roster), todo |-> Identities(f, roster)]
  <2>1. p \in Planning
    <3>1. EnoughPeers(f, roster) \in BOOLEAN
      BY DEF EnoughPeers
    <3> QED
      BY <3>1, IdentitiesArePeers DEF Planning
  <2> HIDE DEF p
  <2>2. planning' = p /\ plans' = plans + 1 /\ plans < MaxPlans
        /\ UNCHANGED <<vars, returned, work, answered, doing>>
    BY <1>2 DEF Plan, p
  <2>3. WorkShape'
    BY <1>0, <2>1, <2>2 DEF WorkShape
  <2> QED
    BY <1>0, <2>2, <2>3 DEF Assigned, Busy, vars
<1>3. ASSUME NEW d \in Desks, Enqueue(d) PROVE WInv'
  <2> DEFINE i == [plan |-> plans, finding |-> planning.finding,
                   desk |-> d, peer |-> planning.peer]
  <2>1. planning \in Planning /\ plans \in 1..MaxPlans
    BY <1>0, <1>3 DEF Enqueue, WorkShape, Busy
  <2>2. i \in Item
    BY <2>1 DEF Item, Planning
  <2> HIDE DEF i
  <2>3. work' = work \union {i} /\ UNCHANGED <<vars, plans, answered, doing>>
    BY <1>3 DEF Enqueue, i
  <2>4. planning' \in Planning \union {Nothing}
    BY <1>3, <2>1 DEF Enqueue, Planning
  <2>5. returned' \subseteq 1..plans
    BY <1>3, <2>1 DEF Enqueue, WorkShape
  <2>6. WorkShape'
    BY <2>2, <2>3, <2>4, <2>5 DEF WorkShape
  <2> QED
    BY <2>1, <2>3, <2>6 DEF Assigned, Busy, vars
<1>4. CASE PlannerDies
  BY <1>4 DEF PlannerDies, vars, WorkShape, Assigned, Busy
<1>5. ASSUME NEW c \in Clients, NEW i \in work, NEW e \in Entry, Run(c, i, e) PROVE WInv'
  <2> DEFINE r == [finding |-> i.finding, desk |-> i.desk, entry |-> e]
  <2>1. r.finding = i.finding /\ r.desk = i.desk /\ r.entry.peer = i.peer
    BY <1>5 DEF Run
  <2> HIDE DEF r
  <2>2. /\ request' = [request EXCEPT ![c] = r] /\ pc' = [pc EXCEPT ![c] = "upsert"]
        /\ doing' = [doing EXCEPT ![c] = i]
        /\ UNCHANGED <<planning, plans, returned, work, answered>>
    BY <1>5 DEF Run, VerifyGet, r
  <2>3. WorkShape'
    BY <2>2 DEF WorkShape
  <2>4. Busy'
    BY <2>2 DEF Busy, WorkShape, TypeOK
  <2>5. Assigned'
    <3> SUFFICES ASSUME NEW x \in Clients
                 PROVE  IF pc'[x] \in {"idle", "dead"} THEN doing'[x] = Nothing
                        ELSE /\ doing'[x].finding = request'[x].finding
                             /\ doing'[x].desk = request'[x].desk
                             /\ doing'[x].peer = request'[x].entry.peer
      BY DEF Assigned
    <3>1. CASE x = c
      BY <2>1, <2>2, <3>1 DEF WorkShape, TypeOK
    <3>2. CASE x # c
      BY <2>2, <3>2 DEF WorkShape, TypeOK, Assigned
    <3> QED
      BY <3>1, <3>2
  <2> QED
    BY <2>3, <2>4, <2>5
<1>6. ASSUME NEW c \in Clients, StoreStep(c), UNCHANGED workVars PROVE WInv'
  <2>1. WorkShape'
    BY <1>6 DEF workVars, WorkShape
  <2>2. request' = request /\ doing' = doing /\ work' = work /\ planning' = planning /\ plans' = plans
    BY <1>6 DEF StoreStep, Upsert, Reassess, Restart, workVars
  <2>3. \A x \in Clients : (pc[x] \in {"idle", "dead"} <=> pc'[x] \in {"idle", "dead"})
    BY <1>6 DEF StoreStep, Upsert, Reassess, Restart, TypeOK
  <2> QED
    BY <2>1, <2>2, <2>3 DEF Assigned, Busy
<1>7. ASSUME NEW c \in Clients, Answer(c) PROVE WInv'
  <2>1. pc[c] = "replace" /\ doing[c] \in work
    BY <1>7 DEF Answer, Replace, Busy
  <2>2. /\ pc' = [pc EXCEPT ![c] = "idle"] /\ request' = [request EXCEPT ![c] = Idle]
        /\ doing' = [doing EXCEPT ![c] = Nothing] /\ answered' = answered \union {doing[c]}
        /\ UNCHANGED <<planning, plans, returned, work>>
    BY <1>7 DEF Answer, Replace, LeaveTo
  <2>3. WorkShape'
    BY <2>1, <2>2 DEF WorkShape
  <2>4. Assigned'
    BY <2>2 DEF Assigned, WorkShape, TypeOK
  <2> QED
    BY <2>2, <2>3, <2>4 DEF Busy, WorkShape, TypeOK
<1>8. ASSUME NEW c \in Clients, GiveUp(c) PROVE WInv'
  <2>1. /\ pc' = [pc EXCEPT ![c] = "dead"] /\ request' = [request EXCEPT ![c] = Idle]
        /\ doing' = [doing EXCEPT ![c] = Nothing]
        /\ UNCHANGED <<planning, plans, returned, work, answered>>
    BY <1>8 DEF GiveUp, Die, LeaveTo
  <2>2. WorkShape'
    BY <2>1 DEF WorkShape
  <2>3. Assigned'
    BY <2>1 DEF Assigned, WorkShape, TypeOK
  <2> QED
    BY <2>1, <2>2, <2>3 DEF Busy, WorkShape, TypeOK
<1>9. CASE UNCHANGED allVars
  BY <1>9 DEF allVars, vars, workVars, WorkShape, Assigned, Busy
<1> QED
  BY <1>1, <1>2, <1>3, <1>4, <1>5, <1>6, <1>7, <1>8, <1>9 DEF WorkNext, PlannerStep

\* Every task is one that a plan asked for, an answer is one to a task, and a client that
\* verifies does so for the task it took, wherever the planner and the clients die
\* (KnowledgeVerificationTaskPlanner.plan, InstitutionalKnowledgeStore.verify).
THEOREM WorkTypeCorrect == WorkSpec => []WorkTypeOK
<1>1. WorkSpec => []TypeOK
  BY WorkUsesTheStore, StoreTypeCorrect, PTL
<1>2. TypeOK /\ WInv /\ AskedPeers => WorkTypeOK
  <2> SUFFICES ASSUME TypeOK, WInv, AskedPeers PROVE WorkTypeOK
    OBVIOUS
  <2>1. \A i \in work : i.peer => i.desk # SourceOf[i.finding]
    BY DEF AskedPeers, IsPeer
  <2> QED
    BY <2>1 DEF WInv, WorkShape, Assigned, WorkTypeOK
<1> QED
  BY <1>1, <1>2, InitWork, NextWork, WorkIsForPeers, PTL DEF WorkSpec

-----------------------------------------------------------------------------
(* A plan for peers asks as many of them as it was required to.               *)

\* How many of the first namings come no later than the one at k.
Rank(first, k) == Cardinality({j \in first : j <= k})

LEMMA RanksDiffer ==
    ASSUME NEW first \in SUBSET Nat, IsFiniteSet(first)
    PROVE  /\ \A k \in first : Rank(first, k) \in 1..Cardinality(first)
           /\ \A k, l \in first : Rank(first, k) = Rank(first, l) => k = l
<1> DEFINE upTo(k) == {j \in first : j <= k}
<1>1. \A k \in first : /\ upTo(k) \subseteq first /\ IsFiniteSet(upTo(k))
                       /\ Cardinality(upTo(k)) \in Nat /\ Cardinality(upTo(k)) <= Cardinality(first)
                       /\ Cardinality(upTo(k)) # 0
  <2>1. ASSUME NEW k \in first
        PROVE  /\ upTo(k) \subseteq first /\ IsFiniteSet(upTo(k))
               /\ Cardinality(upTo(k)) \in Nat /\ Cardinality(upTo(k)) <= Cardinality(first)
               /\ Cardinality(upTo(k)) # 0
    <3>1. upTo(k) \subseteq first /\ k \in upTo(k)
      OBVIOUS
    <3> HIDE DEF upTo
    <3>2. IsFiniteSet(upTo(k)) /\ Cardinality(upTo(k)) <= Cardinality(first)
      BY <3>1, FS_Subset
    <3>3. Cardinality(upTo(k)) \in Nat /\ Cardinality(upTo(k)) # 0
      BY <3>1, <3>2, FS_CardinalityType, FS_EmptySet
    <3> QED
      BY <3>1, <3>2, <3>3
  <2> QED
    BY <2>1
<1>2. ASSUME NEW k \in first, NEW l \in first, k < l PROVE Rank(first, k) # Rank(first, l)
  <2>1. upTo(k) \subseteq upTo(l) /\ l \in upTo(l) /\ l \notin upTo(k)
    <3>1. k \in Nat /\ l \in Nat
      OBVIOUS
    <3>2. ASSUME NEW j \in upTo(k) PROVE j \in upTo(l)
      <4>1. j \in first /\ j \in Nat /\ j <= k
        OBVIOUS
      <4> QED
        BY <1>2, <3>1, <4>1
    <3>3. l \in upTo(l) /\ l \notin upTo(k)
      BY <1>2, <3>1
    <3> QED
      BY <3>2, <3>3
  <2>2. IsFiniteSet(upTo(l))
    BY <1>1
  <2>3. upTo(k) # upTo(l)
    BY <2>1
  <2>4. Cardinality(upTo(k)) # Cardinality(upTo(l))
    <3> HIDE DEF upTo
    <3> QED
      BY <2>1, <2>2, <2>3, FS_Subset
  <2> QED
    BY <2>4 DEF Rank
<1>3. Cardinality(first) \in Nat
  BY FS_CardinalityType
<1>4. \A k \in first : Rank(first, k) = Cardinality(upTo(k))
  BY DEF Rank
<1> HIDE DEF upTo
<1>5. \A k \in first : Rank(first, k) \in 1..Cardinality(first)
  BY <1>1, <1>3, <1>4
<1>6. ASSUME NEW k \in first, NEW l \in first, Rank(first, k) = Rank(first, l) PROVE k = l
  <2>1. k \in Nat /\ l \in Nat
    OBVIOUS
  <2> QED
    BY <1>2, <1>6, <2>1
<1> QED
  BY <1>5, <1>6

LEMMA RanksAreTaken ==
    ASSUME NEW first \in SUBSET Nat, IsFiniteSet(first), NEW r \in 1..Cardinality(first)
    PROVE  \E k \in first : Rank(first, k) = r
<1> SUFFICES ASSUME \A k \in first : Rank(first, k) # r PROVE FALSE
  OBVIOUS
<1> DEFINE n == Cardinality(first)
           others == (1..n) \ {r}
           rank == [k \in first |-> Rank(first, k)]
<1>1. n \in Nat /\ \A k \in first : Rank(first, k) \in 1..n
  BY RanksDiffer, FS_CardinalityType
<1>2. rank \in [first -> others]
  BY <1>1
<1>3. rank \in Injection(first, others)
  BY <1>2, RanksDiffer DEF Injection, IsInjective
<1>4. IsFiniteSet(1..n) /\ Cardinality(1..n) = n
  BY <1>1, FS_Interval
<1>5. IsFiniteSet(others) /\ Cardinality(others) = n - 1
  BY <1>4, FS_RemoveElement
<1> HIDE DEF rank, others
<1>6. Cardinality(first) <= Cardinality(others)
  BY <1>3, <1>5, FS_Injection
<1> QED
  BY <1>1, <1>5, <1>6

LEMMA RequiredIsNumber == ASSUME NEW f \in Findings PROVE Required(f) \in Nat
<1>1. IsFiniteSet(Replications[f])
  BY ReplicationsAssumption, DesksAssumption, FS_Subset
<1> QED
  BY <1>1, FS_CardinalityType DEF Required

LEMMA EnoughAreChosen ==
    ASSUME NEW f \in Findings, NEW roster \in Rosters, EnoughPeers(f, roster)
    PROVE  Cardinality(Identities(f, roster)) >= Required(f)
<1> DEFINE first == Firsts(f, roster)
           R == Required(f)
           K == {k \in first : Rank(first, k) <= R}
           chosen == Identities(f, roster)
           name == [k \in K |-> roster[k]]
           rank == [k \in K |-> Rank(first, k)]
<1>1. roster \in Seq(Desks) /\ R \in Nat
  BY RostersAssumption, RequiredIsNumber
<1>2. first \in SUBSET Nat /\ IsFiniteSet(first)
  <2>1. DOMAIN roster = 1..Len(roster) /\ Len(roster) \in Nat
    BY <1>1
  <2>2. first \subseteq 1..Len(roster)
    BY <2>1 DEF Firsts
  <2>3. IsFiniteSet(1..Len(roster))
    BY <2>1, FS_Interval
  <2> HIDE DEF first
  <2>4. first \subseteq Nat
    BY <2>1, <2>2
  <2>5. IsFiniteSet(first)
    BY <2>2, <2>3, FS_Subset
  <2> QED
    BY <2>4, <2>5
<1>3. \A k, l \in first : roster[k] = roster[l] => k = l
  <2>1. ASSUME NEW k \in first, NEW l \in first, k < l PROVE roster[k] # roster[l]
    BY <2>1 DEF Firsts
  <2>2. \A k \in first : k \in Nat
    BY <1>2
  <2> HIDE DEF first
  <2> QED
    BY <2>1, <2>2
<1>4. chosen = {roster[k] : k \in K}
  BY DEF Identities, Chosen, Rank
<1>5. Cardinality(first) >= R
  BY DEF EnoughPeers
<1> HIDE DEF first, R
<1>6. K \subseteq first /\ IsFiniteSet(K)
  BY <1>2, FS_Subset
<1>7. name \in Injection(K, chosen)
  BY <1>3, <1>4, <1>6 DEF Injection, IsInjective
<1>8. rank \in Surjection(K, 1..R)
  <2>1. \A k \in K : Rank(first, k) \in 1..R
    BY <1>1, <1>2, RanksDiffer
  <2>2. \A r \in 1..R : \E k \in K : Rank(first, k) = r
    <3> SUFFICES ASSUME NEW r \in 1..R PROVE \E k \in K : Rank(first, k) = r
      OBVIOUS
    <3>1. Cardinality(first) \in Nat
      BY <1>2, FS_CardinalityType
    <3>2. r \in 1..Cardinality(first) /\ r <= R
      BY <1>1, <1>5, <3>1
    <3>3. PICK k \in first : Rank(first, k) = r
      BY <1>2, <3>2, RanksAreTaken
    <3> QED
      BY <3>2, <3>3
  <2> QED
    BY <2>1, <2>2 DEF Surjection
<1>9. chosen \subseteq Desks /\ IsFiniteSet(chosen)
  <2>1. chosen \subseteq Desks
    BY IdentitiesArePeers
  <2> QED
    BY <2>1, DesksAssumption, FS_Subset
<1>10. Cardinality(1..R) = R
  BY <1>1, FS_Interval
<1> HIDE DEF K, chosen, name, rank
<1>11. Cardinality(1..R) <= Cardinality(K)
  BY <1>6, <1>8, FS_Surjection
<1>12. Cardinality(K) <= Cardinality(chosen)
  BY <1>7, <1>9, FS_Injection
<1>13. Cardinality(K) \in Nat /\ Cardinality(chosen) \in Nat
  BY <1>6, <1>9, FS_CardinalityType
<1> QED
  BY <1>1, <1>10, <1>11, <1>12, <1>13 DEF chosen, R

-----------------------------------------------------------------------------
(* What is planned, asked and answered.                                       *)

\* Who does not answer as a peer answers as one of the finding's replications.
SidesKept ==
    /\ planning # Nothing /\ ~planning.peer =>
           planning.todo \subseteq Replications[planning.finding]
    /\ \A i \in work : ~i.peer => i.desk \in Replications[i.finding]
    /\ \A f \in Findings : \A d \in Desks :
           rows[f][d].present /\ ~rows[f][d].peer => d \in Replications[f]

\* What a task or a call has stored is never taken back.
AnswersStand ==
    /\ \A i \in answered : rows[i.finding][i.desk].present
    /\ \A c \in Clients :
           pc[c] \in {"reassess", "replace"} => rows[request[c].finding][request[c].desk].present

AnswerInv == SidesKept /\ AnswersStand

LEMMA NextAnswers ==
    ASSUME TypeOK, WInv, AskedPeers, AnswerInv, [WorkNext]_allVars PROVE AnswerInv'
<1> USE DEF AnswerInv, WInv
<1>0. \A i \in work : i \in Item /\ i.finding \in Findings /\ i.desk \in Desks
  BY DEF WorkShape, AskedPeers
<1>1. ASSUME NEW f \in Findings, Publish(f), UNCHANGED workVars PROVE AnswerInv'
  BY <1>1 DEF Publish, workVars, SidesKept, AnswersStand
<1>2. ASSUME NEW f \in Findings, NEW roster \in Rosters, Plan(f, roster) PROVE AnswerInv'
  <2> DEFINE p == [finding |-> f, peer |-> EnoughPeers(f, roster), todo |-> Identities(f, roster)]
  <2>1. p.finding = f /\ (~p.peer => p.todo \subseteq Replications[f])
    BY DEF Identities
  <2> HIDE DEF p
  <2>2. planning' = p /\ UNCHANGED <<rows, pc, request, work, answered>>
    BY <1>2 DEF Plan, vars, tables, p
  <2> QED
    BY <2>1, <2>2 DEF SidesKept, AnswersStand
<1>3. ASSUME NEW d \in Desks, Enqueue(d) PROVE AnswerInv'
  <2> DEFINE i == [plan |-> plans, finding |-> planning.finding,
                   desk |-> d, peer |-> planning.peer]
  <2>1. ~i.peer => i.desk \in Replications[i.finding]
    BY <1>3 DEF Enqueue, SidesKept
  <2> HIDE DEF i
  <2>2. work' = work \union {i} /\ UNCHANGED <<rows, pc, request, answered>>
    BY <1>3 DEF Enqueue, vars, tables, i
  <2>3. planning' = Nothing \/ planning' = [planning EXCEPT !.todo = @ \ {d}]
    BY <1>3 DEF Enqueue
  <2>4. planning' # Nothing /\ ~planning'.peer =>
            planning'.todo \subseteq Replications[planning'.finding]
    <3>1. planning \in Planning
      BY <1>3 DEF Enqueue, WorkShape
    <3>2. CASE planning' = [planning EXCEPT !.todo = @ \ {d}]
      BY <1>3, <3>1, <3>2 DEF Enqueue, Planning, SidesKept
    <3> QED
      BY <2>3, <3>2
  <2> QED
    BY <2>1, <2>2, <2>4 DEF SidesKept, AnswersStand
<1>4. CASE PlannerDies
  BY <1>4 DEF PlannerDies, vars, tables, SidesKept, AnswersStand
<1>5. ASSUME NEW c \in Clients, NEW i \in work, NEW e \in Entry, Run(c, i, e) PROVE AnswerInv'
  <2>1. /\ pc' = [pc EXCEPT ![c] = "upsert"] /\ pc[c] = "idle"
        /\ \A x \in Clients : x # c => request'[x] = request[x]
        /\ UNCHANGED <<rows, planning, work, answered>>
    BY <1>5 DEF Run, VerifyGet, tables, TypeOK
  <2> QED
    BY <2>1 DEF SidesKept, AnswersStand, TypeOK
<1>6. ASSUME NEW c \in Clients, Upsert(c), UNCHANGED workVars PROVE AnswerInv'
  <2> DEFINE g == request[c].finding  b == request[c].desk  e == request[c].entry
  <2>1. g \in Findings /\ b \in Desks /\ e \in Entry
    BY <1>6, RequestIsNotIdle DEF Upsert, TypeOK, Request
  <2>2. doing[c] \in work /\ doing[c].finding = g /\ doing[c].desk = b /\ doing[c].peer = e.peer
    BY <1>6 DEF Upsert, Busy, Assigned
  <2>3. ~e.peer => b \in Replications[g]
    BY <2>2 DEF SidesKept
  <2>4. /\ rows' = [rows EXCEPT ![g] = [rows[g] EXCEPT ![b] = e]]
        /\ pc' = [pc EXCEPT ![c] = "reassess"] /\ request' = request
        /\ UNCHANGED <<planning, work, answered>>
    BY <1>6 DEF Upsert, workVars
  <2> HIDE DEF g, b, e
  <2>5. \A f \in Findings : \A d \in Desks :
            /\ rows[f][d].present => rows'[f][d].present
            /\ rows'[f][d] = rows[f][d] \/ (f = g /\ d = b /\ rows'[f][d] = e)
    BY <2>1, <2>4 DEF TypeOK, Entry
  <2>6. rows'[g][b].present
    BY <2>1, <2>4 DEF TypeOK, Entry
  <2>7. SidesKept'
    BY <2>3, <2>4, <2>5 DEF SidesKept
  <2>8. \A i \in answered : rows'[i.finding][i.desk].present
    <3>1. answered \subseteq work
      BY DEF WorkShape
    <3> QED
      BY <1>0, <2>5, <3>1 DEF AnswersStand
  <2>9. ASSUME NEW x \in Clients, pc'[x] \in {"reassess", "replace"}
        PROVE  rows'[request[x].finding][request[x].desk].present
    <3>1. CASE x = c
      BY <2>6, <3>1 DEF g, b
    <3>2. CASE x # c
      <4>1. pc[x] \in {"reassess", "replace"}
        BY <2>4, <2>9, <3>2 DEF TypeOK
      <4>2. request[x] \in Request
        BY <4>1 DEF TypeOK
      <4>3. request[x].finding \in Findings /\ request[x].desk \in Desks
        BY <4>2 DEF Request
      <4> QED
        BY <2>5, <4>1, <4>3 DEF AnswersStand
    <3> QED
      BY <3>1, <3>2
  <2> QED
    BY <2>4, <2>7, <2>8, <2>9 DEF AnswersStand
<1>7. ASSUME NEW c \in Clients, Reassess(c) \/ Restart(c), UNCHANGED workVars PROVE AnswerInv'
  <2>1. /\ \/ pc' = [pc EXCEPT ![c] = "replace"] /\ pc[c] = "reassess"
           \/ pc' = [pc EXCEPT ![c] = "idle"]
        /\ UNCHANGED <<rows, request, planning, work, answered>>
    BY <1>7 DEF Reassess, Restart, workVars, tables
  <2> QED
    BY <2>1 DEF SidesKept, AnswersStand, TypeOK
<1>8. ASSUME NEW c \in Clients, Answer(c) PROVE AnswerInv'
  <2>1. /\ pc[c] = "replace" /\ doing[c].finding = request[c].finding
        /\ doing[c].desk = request[c].desk
    BY <1>8 DEF Answer, Replace, Assigned
  <2>2. rows[doing[c].finding][doing[c].desk].present
    BY <2>1 DEF AnswersStand
  <2>3. /\ answered' = answered \union {doing[c]} /\ rows' = rows
        /\ pc' = [pc EXCEPT ![c] = "idle"]
        /\ request' = [request EXCEPT ![c] = Idle]
        /\ UNCHANGED <<planning, work>>
    BY <1>8 DEF Answer, Replace, LeaveTo
  <2> QED
    BY <2>2, <2>3 DEF SidesKept, AnswersStand, TypeOK
<1>9. ASSUME NEW c \in Clients, GiveUp(c) PROVE AnswerInv'
  <2>1. /\ pc' = [pc EXCEPT ![c] = "dead"] /\ rows' = rows
        /\ request' = [request EXCEPT ![c] = Idle]
        /\ UNCHANGED <<planning, work, answered>>
    BY <1>9 DEF GiveUp, Die, LeaveTo, tables
  <2> QED
    BY <2>1 DEF SidesKept, AnswersStand, TypeOK
<1>10. CASE UNCHANGED allVars
  BY <1>10 DEF allVars, vars, tables, workVars, SidesKept, AnswersStand
<1> QED
  BY <1>1, <1>2, <1>3, <1>4, <1>5, <1>6, <1>7, <1>8, <1>9, <1>10
  DEF WorkNext, PlannerStep, StoreStep

\* The desks plan n has asked so far.
AskedBy(n) == {d \in Desks : \E i \in work : i.plan = n /\ i.desk = d}

\* The tasks of a plan are for one finding and of one kind; those of a plan under way
\* and what it has left, and those of a plan that returned, are as many as required.
PlansCount ==
    /\ \A i \in work : i.plan \in 1..plans
    /\ \A i, j \in work : i.plan = j.plan => i.finding = j.finding /\ i.peer = j.peer
    /\ planning # Nothing =>
          /\ plans \notin returned
          /\ \A i \in work : i.plan = plans =>
                i.finding = planning.finding /\ i.peer = planning.peer
          /\ planning.peer =>
                Cardinality(AskedBy(plans) \union planning.todo) >= Required(planning.finding)
    /\ \A i \in work : i.plan \in returned /\ i.peer =>
          Cardinality(AskedBy(i.plan)) >= Required(i.finding)

LEMMA NextPlans ==
    ASSUME TypeOK, WInv, AskedPeers, PlansCount, [WorkNext]_allVars PROVE PlansCount'
<1> USE DEF WInv, PlansCount
<1>0. /\ plans \in Nat /\ returned \subseteq 1..plans /\ planning \in Planning \union {Nothing}
      /\ \A i \in work : i.plan \in 1..plans
  BY MaxPlansAssumption DEF WorkShape
<1>1. ASSUME UNCHANGED <<planning, plans, returned, work>> PROVE PlansCount'
  BY <1>1 DEF AskedBy
<1>2. ASSUME NEW f \in Findings, NEW roster \in Rosters, Plan(f, roster) PROVE PlansCount'
  <2> DEFINE p == [finding |-> f, peer |-> EnoughPeers(f, roster), todo |-> Identities(f, roster)]
  <2>1. p.finding = f /\ p.todo \subseteq Desks /\ (p.peer => Cardinality(p.todo) >= Required(f))
    BY EnoughAreChosen, IdentitiesArePeers
  <2> HIDE DEF p
  <2>2. planning' = p /\ plans' = plans + 1 /\ returned' = returned /\ work' = work
    BY <1>2 DEF Plan, p
  <2>3. \A i \in work : i.plan # plans + 1
    BY <1>0
  <2>4. (AskedBy(plans))' \union p.todo = p.todo
    BY <2>2, <2>3 DEF AskedBy
  <2>5. /\ \A i \in work' : i.plan \in 1..plans'
        /\ plans' \notin returned'
        /\ \A i \in work' : i.plan # plans'
    BY <1>0, <2>2
  <2>6. planning'.peer =>
            Cardinality((AskedBy(plans))' \union planning'.todo) >= Required(planning'.finding)
    BY <2>1, <2>2, <2>4
  <2>7. \A i \in work' : i.plan \in returned' /\ i.peer =>
            Cardinality((AskedBy(i.plan))') >= Required(i.finding)
    BY <2>2 DEF AskedBy
  <2> QED
    BY <2>2, <2>5, <2>6, <2>7
<1>3. ASSUME NEW d \in Desks, Enqueue(d) PROVE PlansCount'
  <2> DEFINE t == [plan |-> plans, finding |-> planning.finding,
                   desk |-> d, peer |-> planning.peer]
  <2>1. t.plan = plans /\ t.finding = planning.finding /\ t.peer = planning.peer /\ t.desk = d
    OBVIOUS
  <2> HIDE DEF t
  <2>2. /\ work' = work \union {t} /\ plans' = plans
        /\ planning \in Planning /\ planning # Nothing /\ d \in planning.todo
    BY <1>0, <1>3 DEF Enqueue, t
  <2>3. plans \in 1..plans /\ plans \notin returned
    BY <1>0, <2>2 DEF Busy
  <2>4. \A n : AskedBy(n)' = IF n = plans THEN AskedBy(n) \union {d} ELSE AskedBy(n)
    <3> SUFFICES ASSUME NEW n
                 PROVE  AskedBy(n)' = IF n = plans THEN AskedBy(n) \union {d} ELSE AskedBy(n)
      OBVIOUS
    <3>1. AskedBy(n)' = {x \in Desks : \E i \in work \union {t} : i.plan = n /\ i.desk = x}
      BY <2>2 DEF AskedBy
    <3> QED
      BY <2>1, <3>1 DEF AskedBy
  <2>5. /\ \A i \in work' : i.plan \in 1..plans'
        /\ \A i, j \in work' : i.plan = j.plan => i.finding = j.finding /\ i.peer = j.peer
        /\ \A i \in work' : i.plan = plans => i.finding = planning.finding /\ i.peer = planning.peer
    BY <1>0, <2>1, <2>2, <2>3
  <2>6. CASE planning.todo = {d}
    <3>1. planning' = Nothing /\ returned' = returned \union {plans}
      BY <1>3, <2>6 DEF Enqueue
    <3>2. ASSUME NEW i \in work', i.plan \in returned', i.peer
          PROVE  Cardinality(AskedBy(i.plan)') >= Required(i.finding)
      <4>1. CASE i.plan = plans
        <5>1. i.finding = planning.finding /\ planning.peer
          BY <2>5, <3>2, <4>1
        <5>2. AskedBy(i.plan)' = AskedBy(plans) \union planning.todo
          BY <2>4, <2>6, <4>1
        <5> QED
          BY <2>2, <5>1, <5>2
      <4>2. CASE i.plan # plans
        <5>1. i \in work /\ i.plan \in returned
          BY <2>1, <2>2, <3>1, <3>2, <4>2
        <5>2. AskedBy(i.plan)' = AskedBy(i.plan)
          BY <2>4, <4>2
        <5> QED
          BY <3>2, <5>1, <5>2
      <4> QED
        BY <4>1, <4>2
    <3>3. \A i \in work' : i.plan \in returned' /\ i.peer =>
              Cardinality(AskedBy(i.plan)') >= Required(i.finding)
      BY <3>2
    <3> QED
      BY <2>5, <3>1, <3>3
  <2>7. CASE planning.todo # {d}
    <3>1. planning' = [planning EXCEPT !.todo = @ \ {d}] /\ returned' = returned
      BY <1>3, <2>7 DEF Enqueue
    <3>2. /\ planning'.finding = planning.finding /\ planning'.peer = planning.peer
          /\ planning'.todo = planning.todo \ {d}
      BY <2>2, <3>1 DEF Planning
    <3>3. AskedBy(plans)' \union planning'.todo = AskedBy(plans) \union planning.todo
      BY <2>2, <2>4, <3>2
    <3>4. planning'.peer => Cardinality(AskedBy(plans)' \union planning'.todo) >= Required(planning'.finding)
      BY <2>2, <3>2, <3>3
    <3>5. ASSUME NEW i \in work', i.plan \in returned', i.peer
          PROVE  Cardinality(AskedBy(i.plan)') >= Required(i.finding)
      <4>1. i.plan # plans /\ i \in work /\ i.plan \in returned
        BY <2>1, <2>2, <2>3, <3>1, <3>5
      <4>2. AskedBy(i.plan)' = AskedBy(i.plan)
        BY <2>4, <4>1
      <4> QED
        BY <3>5, <4>1, <4>2
    <3>6. \A i \in work' : i.plan \in returned' /\ i.peer =>
              Cardinality(AskedBy(i.plan)') >= Required(i.finding)
      BY <3>5
    <3>7. plans' = plans /\ plans' \notin returned'
      BY <2>2, <2>3, <3>1
    <3> QED
      BY <2>2, <2>5, <3>2, <3>4, <3>6, <3>7
  <2> QED
    BY <2>6, <2>7
<1>4. CASE PlannerDies
  BY <1>4 DEF PlannerDies, AskedBy
<1>5. ASSUME \/ \E f \in Findings : Publish(f) /\ UNCHANGED workVars
             \/ \E c \in Clients : \/ \E i \in work : \E e \in Entry : Run(c, i, e)
                                   \/ StoreStep(c) /\ UNCHANGED workVars
                                   \/ Answer(c) \/ GiveUp(c)
             \/ UNCHANGED allVars
      PROVE  UNCHANGED <<planning, plans, returned, work>>
  BY <1>5 DEF Run, Answer, GiveUp, workVars, allVars
<1> QED
  BY <1>1, <1>2, <1>3, <1>4, <1>5 DEF WorkNext, PlannerStep

\* When every task of a plan for peers is answered, the rows hold enough peers.
LEMMA PeersSuffice ==
    ASSUME TypeOK, WInv, AskedPeers, AnswerInv, PlansCount,
           NEW n \in returned, Items(n) \subseteq answered,
           NEW i \in Items(n), i.peer, Required(i.finding) >= MinPeers
    PROVE  /\ StatusFor(i.finding, rows[i.finding]) \in {"validated", "rejected"}
           /\ rows[i.finding][i.desk].present /\ i.finding \in Findings /\ i.desk \in Desks
<1> DEFINE f == i.finding
           peers == {d \in Eligible(f, rows[f]) : rows[f][d].peer}
<1>1. i \in work /\ i.plan = n /\ f \in Findings /\ i.desk \in Desks
  BY DEF Items, AskedPeers
<1>2. ASSUME NEW d \in AskedBy(n) PROVE d \in peers
  <2>1. PICK j \in work : j.plan = n /\ j.desk = d
    BY DEF AskedBy
  <2>2. j.finding = f /\ j.peer /\ j \in answered
    BY <1>1, <2>1 DEF PlansCount, Items
  <2>3. rows[f][d].present /\ IsPeer(f, d)
    BY <2>1, <2>2 DEF AnswerInv, AnswersStand, AskedPeers
  <2>4. d \in Desks /\ d # SourceOf[f] /\ d \notin Replications[f]
    BY <2>3 DEF IsPeer
  <2>5. rows[f][d].peer
    BY <1>1, <2>3, <2>4 DEF AnswerInv, SidesKept
  <2> QED
    BY <2>3, <2>4, <2>5 DEF Eligible
<1>3. AskedBy(n) \subseteq peers /\ peers \subseteq Eligible(f, rows[f]) /\ peers \subseteq Desks
  BY <1>2 DEF Eligible
<1>4. Cardinality(AskedBy(n)) >= Required(f)
  BY <1>1 DEF PlansCount
<1>5. StatusFor(f, rows[f]) =
        IF Eligible(f, rows[f]) = {} THEN "observed"
        ELSE IF /\ Cardinality(Eligible(f, rows[f])) >= MinPeers
                /\ ~RateReached(Eligible(f, rows[f]), rows[f])
        THEN "rejected"
        ELSE IF Cardinality(peers) < MinPeers THEN "peer_testing"
        ELSE IF RateReached(peers, rows[f]) THEN "validated" ELSE "rejected"
  BY DEF StatusFor
<1> HIDE DEF peers, f
<1>6. IsFiniteSet(peers) /\ IsFiniteSet(AskedBy(n))
  BY <1>3, DesksAssumption, FS_Subset
<1>7. Cardinality(AskedBy(n)) <= Cardinality(peers)
  BY <1>3, <1>6, FS_Subset
<1>8. Cardinality(peers) \in Nat /\ Cardinality(AskedBy(n)) \in Nat /\ Required(f) \in Nat
  BY <1>1, <1>6, FS_CardinalityType, RequiredIsNumber DEF f
<1>9. Cardinality(peers) >= MinPeers /\ MinPeers \in Nat /\ MinPeers > 0
  BY <1>4, <1>7, <1>8, PolicyAssumption DEF f
<1>10. peers # {}
  BY <1>9, FS_EmptySet
<1>11. Eligible(f, rows[f]) # {} /\ ~(Cardinality(peers) < MinPeers)
  BY <1>3, <1>8, <1>9, <1>10
<1>12. StatusFor(f, rows[f]) \in {"validated", "rejected"}
  BY <1>5, <1>11
<1>13. rows[f][i.desk].present
  BY <1>1 DEF AnswerInv, AnswersStand, Items, f
<1> QED
  BY <1>1, <1>12, <1>13 DEF f

\* The work of one plan for peers is enough, however often and for whatever rosters
\* plans were made: once it returned and its tasks are answered, the finding is settled,
\* as long as no call dies, no two verify it at once, and the planner asks for no fewer
\* verifications than the policy of the store does
\* (KnowledgeVerificationTaskPlanner.plan, KnowledgeValidationPolicy.status_for).
THEOREM OnePlanSuffices == WorkSpec => PlannedWorkSuffices
<1> DEFINE Settled ==
      \A n \in returned :
          Items(n) \subseteq answered =>
              \A i \in Items(n) :
                  /\ i.peer
                  /\ Required(i.finding) >= MinPeers
                  /\ (\A c \in Clients : ~Verifying(c, i.finding))
                  => status[i.finding] \in {"validated", "rejected"}
<1>1. WorkInit => AnswerInv /\ PlansCount /\ Calm
  <2>1. WorkInit => AnswerInv
    BY DEF WorkInit, Init, NoEntry, AnswerInv, SidesKept, AnswersStand
  <2>2. WorkInit => PlansCount
    BY DEF WorkInit, PlansCount
  <2>3. WorkInit => Calm
    BY DEF WorkInit, Init, Calm, UnknownBefore, UpdateReflects, QuietReflects, Verifying
  <2> QED
    BY <2>1, <2>2, <2>3
<1>2. TypeOK /\ WInv /\ AskedPeers /\ AnswerInv /\ [WorkNext]_allVars => AnswerInv'
  BY NextAnswers
<1>3. TypeOK /\ WInv /\ AskedPeers /\ PlansCount /\ [WorkNext]_allVars => PlansCount'
  BY NextPlans
<1>4. IInv /\ AskedPeers /\ Calm /\ Undisturbed /\ Undisturbed' /\ [WorkNext]_allVars => Calm'
  BY NextCalm, WorkStepsUseTheStore
<1>5. TypeOK /\ WInv /\ AskedPeers /\ AnswerInv /\ PlansCount /\ Calm => Settled
  <2> SUFFICES ASSUME TypeOK, WInv, AskedPeers, AnswerInv, PlansCount, Calm,
                      NEW n \in returned, Items(n) \subseteq answered, NEW i \in Items(n),
                      i.peer, Required(i.finding) >= MinPeers,
                      \A c \in Clients : ~Verifying(c, i.finding)
               PROVE  status[i.finding] \in {"validated", "rejected"}
    OBVIOUS
  <2>1. /\ StatusFor(i.finding, rows[i.finding]) \in {"validated", "rejected"}
        /\ rows[i.finding][i.desk].present /\ i.finding \in Findings /\ i.desk \in Desks
    BY PeersSuffice
  <2>2. status[i.finding] # "absent"
    BY <2>1 DEF Calm, UnknownBefore, NoEntry
  <2>3. status[i.finding] = StatusFor(i.finding, rows[i.finding])
    BY <2>1, <2>2 DEF Calm, QuietReflects, Reflects
  <2> QED
    BY <2>1, <2>3
<1>6. WorkSpec => [](TypeOK /\ IInv /\ AskedPeers)
  BY WorkUsesTheStore, StoreTypeCorrect, StoreInvariant, WorkIsForPeers, PTL
<1>7. WorkSpec => []WInv
  BY <1>6, InitWork, NextWork, PTL DEF WorkSpec
<1> HIDE DEF Settled
<1>8. WorkSpec => ([]Undisturbed => []Settled)
  BY <1>1, <1>2, <1>3, <1>4, <1>5, <1>6, <1>7, PTL DEF WorkSpec
<1> QED
  BY <1>8 DEF PlannedWorkSuffices, Settled
=============================================================================
