---------------------------- MODULE KnowledgeStore ----------------------------
(* InstitutionalKnowledgeStore: findings of one trading desk, the rows in     *)
(* which other desks and research replications say whether they reproduced    *)
(* them, and the status the rows earn.  verify is not one transaction: it     *)
(* reads the finding, upserts the row, reads all rows and replaces the        *)
(* finding, each in a connection of its own, so calls of several clients      *)
(* interleave and a client may die in between.                                *)
EXTENDS Integers, FiniteSetsExt

CONSTANTS Findings,     \* findings that may be published
          Desks,        \* identities that verify: desks and replications
          SourceOf,     \* the desk a finding comes from
          Clients,      \* processes that call the store
          MinPeers,     \* policy.min_peer_verifications
          MinPercent,   \* policy.min_reproduction_rate, in percent
          Times,        \* values of verified_at; 0 is the finding's created_at
          Dies          \* whether a call may end between two of its steps

ASSUME DesksAssumption == IsFiniteSet(Desks)
ASSUME SourceAssumption == SourceOf \in [Findings -> Desks]
ASSUME PolicyAssumption == MinPeers \in Nat \ {0} /\ MinPercent \in 1..100
ASSUME TimesAssumption == Times \subseteq Nat \ {0} /\ Times # {}
ASSUME DiesAssumption == Dies \in BOOLEAN

VARIABLES status,    \* of each finding; "absent" before it is published
          verified,  \* last_verified_at
          rows,      \* knowledge_verifications, keyed by finding and desk
          pc,        \* where the client is in verify
          request,   \* the KnowledgeVerification it passes, and for which row
          update     \* the status and time it is about to write

tables == <<status, verified, rows>>
vars == <<tables, pc, request, update>>

Status == {"observed", "peer_testing", "validated", "rejected"}
Entry == [present : {TRUE}, reproduced : BOOLEAN, peer : BOOLEAN, at : Times]
NoEntry == [present |-> FALSE, reproduced |-> FALSE, peer |-> FALSE, at |-> 0]
Request == [finding : Findings, desk : Desks, entry : Entry]
Idle == [idle |-> TRUE]  \* neither a request nor an update
Update == [status : Status, at : Times]

TypeOK ==
    /\ status \in [Findings -> Status \union {"absent"}]
    /\ verified \in [Findings -> Times \union {0}]
    /\ rows \in [Findings -> [Desks -> Entry \union {NoEntry}]]
    /\ pc \in [Clients -> {"idle", "upsert", "reassess", "replace", "dead"}]
    /\ request \in [Clients -> Request \union {Idle}]
    /\ update \in [Clients -> Update \union {Idle}]
    /\ \A c \in Clients :
          /\ request[c] = Idle <=> pc[c] \in {"idle", "dead"}
          /\ update[c] = Idle <=> pc[c] # "replace"

Init ==
    /\ status = [f \in Findings |-> "absent"]
    /\ verified = [f \in Findings |-> 0]
    /\ rows = [f \in Findings |-> [d \in Desks |-> NoEntry]]
    /\ pc = [c \in Clients |-> "idle"]
    /\ request = [c \in Clients |-> Idle]
    /\ update = [c \in Clients |-> Idle]

-----------------------------------------------------------------------------
(* KnowledgeValidationPolicy.status_for                                       *)

\* A desk's own verification of its finding counts only as a replication.
Eligible(f, R) ==
    {d \in Desks : R[d].present /\ (R[d].peer => d # SourceOf[f])}
Reproduced(D, R) == {d \in D : R[d].reproduced}
RateReached(D, R) ==
    100 * Cardinality(Reproduced(D, R)) >= MinPercent * Cardinality(D)

StatusCountingAll(f, R) ==  \* mutant of StatusFor
    LET eligible == Eligible(f, R) IN
    IF eligible = {} THEN "observed"
    ELSE IF Cardinality(eligible) < MinPeers THEN "peer_testing"
    ELSE IF RateReached(eligible, R) THEN "validated" ELSE "rejected"
StatusFor(f, R) ==
    LET eligible == Eligible(f, R)
        peers == {d \in eligible : R[d].peer}
    IN  IF eligible = {} THEN "observed"
        ELSE IF Cardinality(eligible) >= MinPeers /\ ~RateReached(eligible, R)
        THEN "rejected"
        ELSE IF Cardinality(peers) < MinPeers THEN "peer_testing"
        ELSE IF RateReached(peers, R) THEN "validated" ELSE "rejected"

-----------------------------------------------------------------------------
(* The operations.                                                            *)

\* With the default status, as the one producer of findings publishes them.
Publish(f) ==
    /\ status[f] = "absent"
    /\ status' = [status EXCEPT ![f] = "observed"]
    /\ UNCHANGED <<verified, rows, pc, request, update>>

\* verify reads the finding; it raises for the source desk's own peer vote.
VerifyGet(c, f, d, e) ==
    /\ pc[c] = "idle"
    /\ status[f] # "absent"
    /\ ~(e.peer /\ d = SourceOf[f])
    /\ pc' = [pc EXCEPT ![c] = "upsert"]
    /\ request' = [request EXCEPT ![c] = [finding |-> f, desk |-> d, entry |-> e]]
    /\ UNCHANGED <<tables, update>>

Upsert(c) ==
    /\ pc[c] = "upsert"
    /\ LET r == request[c] IN
          rows' = [rows EXCEPT ![r.finding][r.desk] = r.entry]
    /\ pc' = [pc EXCEPT ![c] = "reassess"]
    /\ UNCHANGED <<status, verified, request, update>>

EarliestOf(R) == Min({R[d].at : d \in Desks})  \* mutant of LatestOf
LatestOf(R) == Max({R[d].at : d \in Desks})

\* It reads the rows back and works out what they earn.
ReassessOthers(c) ==  \* mutant of Reassess
    /\ pc[c] = "reassess"
    /\ LET f == request[c].finding
           others == [rows[f] EXCEPT ![request[c].desk] = NoEntry]
       IN  update' = [update EXCEPT ![c] = [status |-> StatusFor(f, others), at |-> LatestOf(rows[f])]]
    /\ pc' = [pc EXCEPT ![c] = "replace"]
    /\ UNCHANGED <<tables, request>>
Reassess(c) ==
    /\ pc[c] = "reassess"
    /\ LET f == request[c].finding IN
          update' = [update EXCEPT ![c] =
                       [status |-> StatusFor(f, rows[f]), at |-> LatestOf(rows[f])]]
    /\ pc' = [pc EXCEPT ![c] = "replace"]
    /\ UNCHANGED <<tables, request>>

LeaveTo(c, stage) ==
    /\ pc' = [pc EXCEPT ![c] = stage]
    /\ request' = [request EXCEPT ![c] = Idle]
    /\ update' = [update EXCEPT ![c] = Idle]

\* _replace writes the finding whatever was written to it meanwhile.
Replace(c) ==
    /\ pc[c] = "replace"
    /\ LET f == request[c].finding IN
          /\ status' = [status EXCEPT ![f] = update[c].status]
          /\ verified' = [verified EXCEPT ![f] = update[c].at]
    /\ LeaveTo(c, "idle")
    /\ UNCHANGED rows

\* The process dies, or a database call raises, between two steps.
Die(c) ==
    /\ Dies /\ pc[c] \notin {"idle", "dead"}
    /\ LeaveTo(c, "dead")
    /\ UNCHANGED tables

Restart(c) ==
    /\ pc[c] = "dead"
    /\ pc' = [pc EXCEPT ![c] = "idle"]
    /\ UNCHANGED <<tables, request, update>>

Next ==
    \/ \E f \in Findings : Publish(f)
    \/ \E c \in Clients :
          \/ \E f \in Findings : \E d \in Desks : \E e \in Entry : VerifyGet(c, f, d, e)
          \/ Upsert(c) \/ Reassess(c) \/ Replace(c) \/ Die(c) \/ Restart(c)

Spec == Init /\ [][Next]_vars

-----------------------------------------------------------------------------
(* Properties                                                                 *)

\* usable_for: the scope of a finding and its age only leave more findings out.
Usable(f) == status[f] = "validated"

Outsiders(f) == {d \in Desks \ {SourceOf[f]} : rows[f][d].present}

\* However calls interleave and die, a finding is handed to desks only if at
\* least MinPeers identities other than the desk it comes from have answered it.
ValidatedByOthers ==
    \A f \in Findings :
        Usable(f) => Cardinality(Outsiders(f)) >= MinPeers

Verifying(c, f) == pc[c] \in {"upsert", "reassess", "replace"} /\ request[c].finding = f
Undisturbed ==
    /\ \A c \in Clients : pc[c] # "dead"
    /\ \A f \in Findings : \A c, e \in Clients : Verifying(c, f) /\ Verifying(e, f) => c = e
Reflects(f) == status[f] = StatusFor(f, rows[f]) /\ verified[f] = LatestOf(rows[f])

\* As long as no call dies and no two of them verify the same finding at once, a
\* finding shows what its rows earn and when they were last confirmed, whenever
\* nobody is verifying it.
UndisturbedReflectsEvidence ==
    []Undisturbed =>
        [](\A f \in Findings :
              status[f] # "absent" /\ (\A c \in Clients : ~Verifying(c, f)) => Reflects(f))

\* Knowledge is evidence-gated: with no call in flight, a finding that desks
\* may use is one its recorded answers validate.
EvidenceGated ==
    \A f \in Findings :
        Usable(f) /\ (\A c \in Clients : pc[c] = "idle")
        => StatusFor(f, rows[f]) = "validated"
=============================================================================
