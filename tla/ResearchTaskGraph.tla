-------------------------- MODULE ResearchTaskGraph --------------------------
(* The durable research queue: research_tasks, one row per task, and the      *)
(* transactions ResearchTaskGraph runs on it.  SQLite serialises writers, so  *)
(* one transaction is one step; a method that reads in one connection and     *)
(* writes in another is two steps of its caller (see ResearchRuntime).        *)
EXTENDS Naturals, FiniteSets

CONSTANTS Tasks,        \* research task ids
          DependsOn,    \* ResearchTask.depends_on
          MaxAttempts,  \* ResearchTask.max_attempts
          Rank,         \* position of a task in the order (created_at, id)
          Priorities    \* the priorities in use, out of 0..100

ASSUME DependsOnAssumption == DependsOn \in [Tasks -> SUBSET Tasks]
ASSUME MaxAttemptsAssumption == MaxAttempts \in [Tasks -> Nat \ {0}]
ASSUME RankAssumption ==
    /\ Rank \in [Tasks -> Nat]
    /\ \A s, t \in Tasks : Rank[s] = Rank[t] => s = t
ASSUME PrioritiesAssumption == Priorities \subseteq 0..100 /\ Priorities # {}

VARIABLES status,       \* column status; "absent" while there is no row
          attempts,     \* column attempts
          priority      \* column priority

graphVars == <<status, attempts, priority>>

Terminal == {"succeeded", "failed", "blocked"}
Status == {"absent", "pending", "running"} \union Terminal

GraphTypeOK ==
    /\ status \in [Tasks -> Status]
    /\ attempts \in [Tasks -> Nat]
    /\ \A t \in Tasks : attempts[t] <= MaxAttempts[t]
    /\ priority \in [Tasks -> Priorities]

GraphInit ==
    /\ status = [t \in Tasks |-> "absent"]
    /\ attempts = [t \in Tasks |-> 0]
    /\ priority \in [Tasks -> Priorities]    \* chosen by whoever adds the task

-----------------------------------------------------------------------------
(* The scan of claim_next.                                                    *)

PendingAndRunning == {t \in Tasks : status[t] \in {"pending", "running"}}  \* mutant of Pending
Pending == {t \in Tasks : status[t] = "pending"}

\* ORDER BY priority DESC, created_at, id
Before(s, t) ==
    \/ priority[s] > priority[t]
    \/ priority[s] = priority[t] /\ Rank[s] < Rank[t]

RunnableAfterAny(t) ==  \* mutant of Runnable
    DependsOn[t] = {} \/ \E d \in DependsOn[t] : status[d] = "succeeded"
Runnable(t) == \A d \in DependsOn[t] : status[d] = "succeeded"

LostIfFailed == {"failed"}  \* mutant of Lost
LostIfUnfinished == {"failed", "blocked", "pending"}  \* mutant of Lost
Lost == {"failed", "blocked"}

(* B is what the scan of the rows P marks BLOCKED: a row goes when one of its *)
(* dependencies is lost, or was marked by this same scan on an earlier row.   *)
ScanBlocks(P, B) ==
    \A t \in P : t \in B <=> \E d \in DependsOn[t] :
                                 status[d] \in Lost \/ (d \in B /\ Before(d, t))

\* The first runnable row is claimed; the scan has seen the rows before it.
ClaimTxn(t, B) ==
    LET scanned == {s \in Pending : Before(s, t)} IN
    /\ t \in Pending /\ Runnable(t)
    /\ \A s \in scanned : ~Runnable(s)
    /\ B \subseteq scanned /\ ScanBlocks(scanned, B)
    /\ status' = [s \in Tasks |-> IF s = t THEN "running"
                                  ELSE IF s \in B THEN "blocked" ELSE status[s]]
    /\ attempts' = [attempts EXCEPT ![t] = @ + 1]
    /\ UNCHANGED priority

\* No row is runnable: the whole scan is committed and None is returned.
NoClaimTxn(B) ==
    /\ \A t \in Pending : ~Runnable(t)
    /\ B \subseteq Pending /\ ScanBlocks(Pending, B)
    /\ status' = [s \in Tasks |-> IF s \in B THEN "blocked" ELSE status[s]]
    /\ UNCHANGED <<attempts, priority>>

-----------------------------------------------------------------------------
(* The other transactions.                                                    *)

Add(t) ==
    /\ status[t] = "absent"
    /\ t \notin DependsOn[t]
    /\ \A d \in DependsOn[t] : status[d] # "absent"
    /\ status' = [status EXCEPT ![t] = "pending"]
    /\ UNCHANGED <<attempts, priority>>

\* The UPDATE of set_priority: by id alone, whatever the row has become.
PriorityTxn(t, p) ==
    /\ priority' = [priority EXCEPT ![t] = p]
    /\ UNCHANGED <<status, attempts>>

\* The UPDATE of _finish: by id alone, whatever the row has become.
FinishTxn(t, s) ==
    /\ status' = [status EXCEPT ![t] = s]
    /\ UNCHANGED <<attempts, priority>>

\* next_status in fail()
VerdictOneTooMany(t) == IF attempts[t] > MaxAttempts[t] THEN "failed" ELSE "pending"  \* mutant of Verdict
VerdictNoRetry(t) == IF attempts[t] >= 1 THEN "failed" ELSE "pending"
Verdict(t) == IF attempts[t] >= MaxAttempts[t] THEN "failed" ELSE "pending"
=============================================================================
