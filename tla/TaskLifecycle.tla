---------------------------- MODULE TaskLifecycle ----------------------------
(* What the research queue promises to the rest of the firm, with no workers, *)
(* no priorities and no database: the life of a research task from the moment *)
(* it is added until it settles, and the evidence it leaves.  ResearchRuntime *)
(* is shown to implement this module.                                         *)
EXTENDS Naturals

CONSTANTS Tasks,        \* research task ids
          DependsOn,    \* DependsOn[t]: the tasks whose outputs t consumes
          MaxAttempts   \* MaxAttempts[t]: how often t may be started

VARIABLES status,       \* status[t], "absent" until the task is added
          attempts,     \* attempts[t]: how often t was started
          evidence      \* evidence[t]: the attempt whose output is stored, or 0

vars == <<status, attempts, evidence>>

Init ==
    /\ status = [t \in Tasks |-> "absent"]
    /\ attempts = [t \in Tasks |-> 0]
    /\ evidence = [t \in Tasks |-> 0]

\* A task is added only on top of tasks that are already there.
Create(t) ==
    /\ status[t] = "absent"
    /\ \A d \in DependsOn[t] : d # t /\ status[d] # "absent"
    /\ status' = [status EXCEPT ![t] = "pending"]
    /\ UNCHANGED <<attempts, evidence>>

\* The tasks of B are given up, each because of a dependency that is lost.
GivesUp(B) ==
    \A b \in B : /\ status[b] = "pending"
                 /\ \E d \in DependsOn[b] : status'[d] \in {"failed", "blocked"}

\* A task starts only when everything it consumes has succeeded.
Start(t, B) ==
    /\ status[t] = "pending"
    /\ t \notin B
    /\ \A d \in DependsOn[t] : status[d] = "succeeded"
    /\ status' = [s \in Tasks |-> IF s = t THEN "running"
                                  ELSE IF s \in B THEN "blocked" ELSE status[s]]
    /\ GivesUp(B)
    /\ attempts' = [attempts EXCEPT ![t] = @ + 1]
    /\ UNCHANGED evidence

GiveUp(B) ==
    /\ status' = [s \in Tasks |-> IF s \in B THEN "blocked" ELSE status[s]]
    /\ GivesUp(B)
    /\ UNCHANGED <<attempts, evidence>>

Record(t) ==
    /\ status[t] = "running"
    /\ evidence' = [evidence EXCEPT ![t] = attempts[t]]
    /\ UNCHANGED <<status, attempts>>

\* Success is declared only for the attempt whose output is stored.
Succeed(t) ==
    /\ status[t] = "running"
    /\ evidence[t] = attempts[t]
    /\ status' = [status EXCEPT ![t] = "succeeded"]
    /\ UNCHANGED <<attempts, evidence>>

\* A failed attempt leads to another one exactly while attempts are left.
Fail(t) ==
    /\ status[t] = "running"
    /\ status' = [status EXCEPT ![t] =
                     IF attempts[t] < MaxAttempts[t] THEN "pending" ELSE "failed"]
    /\ UNCHANGED <<attempts, evidence>>

Next ==
    \/ \E t \in Tasks : Create(t) \/ Record(t) \/ Succeed(t) \/ Fail(t)
    \/ \E B \in SUBSET Tasks : GiveUp(B) \/ \E t \in Tasks : Start(t, B)

Spec == Init /\ [][Next]_vars
=============================================================================
