------------------------ MODULE ResearchRuntimeProofs ------------------------
(* Safety of the research queue for any set of tasks, any dependencies, any   *)
(* number of overlapping workers, with crashes and failing database calls.    *)
EXTENDS ResearchRuntime, TLAPS

-----------------------------------------------------------------------------
(* The inductive invariant: who holds a task, and what the columns remember.  *)

(* A worker on its way through run_once holds a RUNNING task; the exception   *)
(* is a worker that is about to call fail() after its success was committed.  *)
HoldsRunning ==
    \A w \in Workers : pc[w] \in Executing =>
        /\ job[w] \in Tasks
        /\ \/ status[job[w]] = "running"
           \/ pc[w] = "fail" /\ status[job[w]] = "succeeded"

PolicyHasTask == \A w \in Workers : pc[w] = "reprioritize" => job[w] \in Tasks

(* What _finish is about to write is still justified when it is written.      *)
VerdictStands ==
    \A w \in Workers : pc[w] \in {"finish", "commit"} =>
        /\ verdict[w] # "none"
        /\ verdict[w] = "succeeded" => evidence[job[w]] = attempts[job[w]]
        /\ verdict[w] \in {"pending", "failed"} => verdict[w] = Verdict(job[w])

(* The attempt counter and the status belong together.                        *)
AttemptsCounted ==
    \A t \in Tasks :
        /\ status[t] = "absent" => attempts[t] = 0
        /\ status[t] = "pending" => attempts[t] < MaxAttempts[t]
        /\ status[t] = "running" => attempts[t] > 0

StartedOnSuccess ==
    \A t \in Tasks : attempts[t] > 0 => \A d \in DependsOn[t] : status[d] = "succeeded"

IInv == /\ TypeOK
        /\ HoldsRunning
        /\ ExclusiveOwner
        /\ PolicyHasTask
        /\ VerdictStands
        /\ AttemptsCounted
        /\ StartedOnSuccess
        /\ SettledHasReason

-----------------------------------------------------------------------------
(* Initially.                                                                 *)

\* A fresh database without workers satisfies the invariant.
LEMMA InitInvariant == Init => IInv
<1> SUFFICES ASSUME Init PROVE IInv
  OBVIOUS
<1>1. TypeOK
  BY MaxAttemptsAssumption, MaxQuotaAssumption
  DEF Init, GraphInit, TypeOK, GraphTypeOK, Status, Stages, Verdicts
<1> QED
  BY <1>1, MaxAttemptsAssumption
  DEF Init, GraphInit, IInv, HoldsRunning, ExclusiveOwner, PolicyHasTask, VerdictStands,
      AttemptsCounted, StartedOnSuccess, SettledHasReason, Executing

-----------------------------------------------------------------------------
(* Steps that only move a worker: the tables keep what they say.              *)

\* While no column that matters changes, the facts about the tables stand.
LEMMA TablesKept ==
    ASSUME IInv, UNCHANGED <<status, attempts, evidence>>
    PROVE  AttemptsCounted' /\ StartedOnSuccess' /\ SettledHasReason'
BY DEF IInv, AttemptsCounted, StartedOnSuccess, SettledHasReason

\* The heartbeat starts holding no task.
LEMMA HeartbeatKeeps ==
    ASSUME IInv, NEW w \in Workers, NEW n \in 0..MaxQuota, NEW r \in BOOLEAN,
           Heartbeat(w, n, r)
    PROVE  IInv'
<1> USE NoneAssumption, MaxQuotaAssumption
    DEF Heartbeat, IInv, Goto, Leave, LeaveTo, graphVars, localVars, Executing, Verdict, Pending
<1>1. UNCHANGED <<status, attempts, evidence>>
  OBVIOUS
<1>2. TypeOK'
  BY DEF TypeOK, GraphTypeOK, Status, Terminal, Stages, Verdicts
<1>3. HoldsRunning' /\ PolicyHasTask'
  BY DEF TypeOK, GraphTypeOK, HoldsRunning, PolicyHasTask
<1>4. ExclusiveOwner'
  BY DEF TypeOK, GraphTypeOK, HoldsRunning, ExclusiveOwner
<1>5. VerdictStands'
  BY DEF TypeOK, GraphTypeOK, HoldsRunning, ExclusiveOwner, VerdictStands
<1> QED
  BY <1>1, <1>2, <1>3, <1>4, <1>5, TablesKept

\* The policy skips a task of its snapshot.
LEMMA PolicySkipKeeps ==
    ASSUME IInv, NEW w \in Workers, PolicySkip(w)
    PROVE  IInv'
<1> USE NoneAssumption, MaxQuotaAssumption
    DEF PolicySkip, IInv, Goto, Leave, LeaveTo, graphVars, localVars, Executing, Verdict
<1>1. UNCHANGED <<status, attempts, evidence>>
  OBVIOUS
<1>2. TypeOK'
  BY DEF TypeOK, GraphTypeOK, Status, Terminal, Stages, Verdicts
<1>3. HoldsRunning' /\ PolicyHasTask'
  BY DEF TypeOK, GraphTypeOK, HoldsRunning, PolicyHasTask
<1>4. ExclusiveOwner'
  BY DEF TypeOK, GraphTypeOK, HoldsRunning, ExclusiveOwner
<1>5. VerdictStands'
  BY DEF TypeOK, GraphTypeOK, HoldsRunning, ExclusiveOwner, VerdictStands
<1> QED
  BY <1>1, <1>2, <1>3, <1>4, <1>5, TablesKept

\* set_priority reads a task.
LEMMA PolicyCheckKeeps ==
    ASSUME IInv, NEW w \in Workers, PolicyCheck(w)
    PROVE  IInv'
<1> USE NoneAssumption, MaxQuotaAssumption
    DEF PolicyCheck, IInv, Goto, Leave, LeaveTo, graphVars, localVars, Executing, Verdict
<1>1. UNCHANGED <<status, attempts, evidence>>
  OBVIOUS
<1>2. TypeOK'
  BY DEF TypeOK, GraphTypeOK, Status, Terminal, Stages, Verdicts
<1>3. HoldsRunning' /\ PolicyHasTask'
  BY DEF TypeOK, GraphTypeOK, HoldsRunning, PolicyHasTask
<1>4. ExclusiveOwner'
  BY DEF TypeOK, GraphTypeOK, HoldsRunning, ExclusiveOwner
<1>5. VerdictStands'
  BY DEF TypeOK, GraphTypeOK, HoldsRunning, ExclusiveOwner, VerdictStands
<1> QED
  BY <1>1, <1>2, <1>3, <1>4, <1>5, TablesKept

\* set_priority writes whatever the task has become: only its priority changes.
LEMMA PolicyWriteKeeps ==
    ASSUME IInv, NEW w \in Workers, PolicyWrite(w)
    PROVE  IInv'
<1> USE NoneAssumption, MaxQuotaAssumption
    DEF PolicyWrite, IInv, Goto, Leave, LeaveTo, graphVars, localVars, Executing, Verdict, PriorityTxn
<1>1. PICK p \in Priorities : PriorityTxn(job[w], p)
  OBVIOUS
<1>2. TypeOK'
  BY <1>1 DEF PolicyHasTask, TypeOK, GraphTypeOK, Status, Terminal, Stages, Verdicts
<1>3. HoldsRunning' /\ PolicyHasTask'
  BY DEF TypeOK, GraphTypeOK, HoldsRunning, PolicyHasTask
<1>4. ExclusiveOwner'
  BY DEF TypeOK, GraphTypeOK, HoldsRunning, ExclusiveOwner
<1>5. VerdictStands'
  BY DEF TypeOK, GraphTypeOK, HoldsRunning, ExclusiveOwner, VerdictStands
<1> QED
  BY <1>1, <1>2, <1>3, <1>4, <1>5, TablesKept

\* The policy is done.
LEMMA PolicyDoneKeeps ==
    ASSUME IInv, NEW w \in Workers, PolicyDone(w)
    PROVE  IInv'
<1> USE NoneAssumption, MaxQuotaAssumption
    DEF PolicyDone, IInv, Goto, Leave, LeaveTo, graphVars, localVars, Executing, Verdict
<1>1. UNCHANGED <<status, attempts, evidence>>
  OBVIOUS
<1>2. TypeOK'
  BY DEF TypeOK, GraphTypeOK, Status, Terminal, Stages, Verdicts
<1>3. HoldsRunning' /\ PolicyHasTask'
  BY DEF TypeOK, GraphTypeOK, HoldsRunning, PolicyHasTask
<1>4. ExclusiveOwner'
  BY DEF TypeOK, GraphTypeOK, HoldsRunning, ExclusiveOwner
<1>5. VerdictStands'
  BY DEF TypeOK, GraphTypeOK, HoldsRunning, ExclusiveOwner, VerdictStands
<1> QED
  BY <1>1, <1>2, <1>3, <1>4, <1>5, TablesKept

\* The inputs are read.
LEMMA PrepareKeeps ==
    ASSUME IInv, NEW w \in Workers, Prepare(w)
    PROVE  IInv'
<1> USE NoneAssumption, MaxQuotaAssumption
    DEF Prepare, IInv, Goto, Leave, LeaveTo, graphVars, localVars, Executing, Verdict
<1>1. UNCHANGED <<status, attempts, evidence>>
  OBVIOUS
<1>2. TypeOK'
  BY DEF TypeOK, GraphTypeOK, Status, Terminal, Stages, Verdicts
<1>3. HoldsRunning' /\ PolicyHasTask'
  BY DEF TypeOK, GraphTypeOK, HoldsRunning, PolicyHasTask
<1>4. ExclusiveOwner'
  BY DEF TypeOK, GraphTypeOK, HoldsRunning, ExclusiveOwner
<1>5. VerdictStands'
  BY DEF TypeOK, GraphTypeOK, HoldsRunning, ExclusiveOwner, VerdictStands
<1> QED
  BY <1>1, <1>2, <1>3, <1>4, <1>5, TablesKept

\* The handler runs.
LEMMA HandleKeeps ==
    ASSUME IInv, NEW w \in Workers, Handle(w)
    PROVE  IInv'
<1> USE NoneAssumption, MaxQuotaAssumption
    DEF Handle, IInv, Goto, Leave, LeaveTo, graphVars, localVars, Executing, Verdict
<1>1. UNCHANGED <<status, attempts, evidence>>
  OBVIOUS
<1>2. TypeOK'
  BY DEF TypeOK, GraphTypeOK, Status, Terminal, Stages, Verdicts
<1>3. HoldsRunning' /\ PolicyHasTask'
  BY DEF TypeOK, GraphTypeOK, HoldsRunning, PolicyHasTask
<1>4. ExclusiveOwner'
  BY DEF TypeOK, GraphTypeOK, HoldsRunning, ExclusiveOwner
<1>5. VerdictStands'
  BY DEF TypeOK, GraphTypeOK, HoldsRunning, ExclusiveOwner, VerdictStands
<1> QED
  BY <1>1, <1>2, <1>3, <1>4, <1>5, TablesKept

\* fail() chooses the verdict it will write.
LEMMA FailReadKeeps ==
    ASSUME IInv, NEW w \in Workers, FailRead(w)
    PROVE  IInv'
<1> USE NoneAssumption, MaxQuotaAssumption
    DEF FailRead, IInv, Goto, Leave, LeaveTo, graphVars, localVars, Executing, Verdict
<1>1. UNCHANGED <<status, attempts, evidence>>
  OBVIOUS
<1>2. TypeOK'
  BY DEF TypeOK, GraphTypeOK, Status, Terminal, Stages, Verdicts
<1>3. HoldsRunning' /\ PolicyHasTask'
  BY DEF TypeOK, GraphTypeOK, HoldsRunning, PolicyHasTask
<1>4. ExclusiveOwner'
  BY DEF TypeOK, GraphTypeOK, HoldsRunning, ExclusiveOwner
<1>5. VerdictStands'
  BY DEF TypeOK, GraphTypeOK, HoldsRunning, ExclusiveOwner, VerdictStands
<1> QED
  BY <1>1, <1>2, <1>3, <1>4, <1>5, TablesKept

\* _finish reads the task.
LEMMA FinishReadKeeps ==
    ASSUME IInv, NEW w \in Workers, FinishRead(w)
    PROVE  IInv'
<1> USE NoneAssumption, MaxQuotaAssumption
    DEF FinishRead, IInv, Goto, Leave, LeaveTo, graphVars, localVars, Executing, Verdict, FinishRaises
<1>1. UNCHANGED <<status, attempts, evidence>>
  OBVIOUS
<1>2. TypeOK'
  BY DEF TypeOK, GraphTypeOK, Status, Terminal, Stages, Verdicts
<1>3. HoldsRunning' /\ PolicyHasTask'
  BY DEF TypeOK, GraphTypeOK, HoldsRunning, PolicyHasTask
<1>4. ExclusiveOwner'
  BY DEF TypeOK, GraphTypeOK, HoldsRunning, ExclusiveOwner
<1>5. VerdictStands'
  BY DEF TypeOK, GraphTypeOK, HoldsRunning, ExclusiveOwner, VerdictStands
<1> QED
  BY <1>1, <1>2, <1>3, <1>4, <1>5, TablesKept

\* A database call raises.
LEMMA StorageErrorKeeps ==
    ASSUME IInv, NEW w \in Workers, StorageError(w)
    PROVE  IInv'
<1> USE NoneAssumption, MaxQuotaAssumption
    DEF StorageError, IInv, Goto, Leave, LeaveTo, graphVars, localVars, Executing, Verdict, FinishRaises
<1>1. UNCHANGED <<status, attempts, evidence>>
  OBVIOUS
<1>2. TypeOK'
  BY DEF TypeOK, GraphTypeOK, Status, Terminal, Stages, Verdicts
<1>3. HoldsRunning' /\ PolicyHasTask'
  BY DEF TypeOK, GraphTypeOK, HoldsRunning, PolicyHasTask
<1>4. ExclusiveOwner'
  BY DEF TypeOK, GraphTypeOK, HoldsRunning, ExclusiveOwner
<1>5. VerdictStands'
  BY DEF TypeOK, GraphTypeOK, HoldsRunning, ExclusiveOwner, VerdictStands
<1> QED
  BY <1>1, <1>2, <1>3, <1>4, <1>5, TablesKept

\* A worker dies.
LEMMA CrashKeeps ==
    ASSUME IInv, NEW w \in Workers, Crash(w)
    PROVE  IInv'
<1> USE NoneAssumption, MaxQuotaAssumption
    DEF Crash, IInv, Goto, Leave, LeaveTo, graphVars, localVars, Executing, Verdict
<1>1. UNCHANGED <<status, attempts, evidence>>
  OBVIOUS
<1>2. TypeOK'
  BY DEF TypeOK, GraphTypeOK, Status, Terminal, Stages, Verdicts
<1>3. HoldsRunning' /\ PolicyHasTask'
  BY DEF TypeOK, GraphTypeOK, HoldsRunning, PolicyHasTask
<1>4. ExclusiveOwner'
  BY DEF TypeOK, GraphTypeOK, HoldsRunning, ExclusiveOwner
<1>5. VerdictStands'
  BY DEF TypeOK, GraphTypeOK, HoldsRunning, ExclusiveOwner, VerdictStands
<1> QED
  BY <1>1, <1>2, <1>3, <1>4, <1>5, TablesKept

\* ... and is started again.
LEMMA RestartKeeps ==
    ASSUME IInv, NEW w \in Workers, Restart(w)
    PROVE  IInv'
<1> USE NoneAssumption, MaxQuotaAssumption
    DEF Restart, IInv, Goto, Leave, LeaveTo, graphVars, localVars, Executing, Verdict
<1>1. UNCHANGED <<status, attempts, evidence>>
  OBVIOUS
<1>2. TypeOK'
  BY DEF TypeOK, GraphTypeOK, Status, Terminal, Stages, Verdicts
<1>3. HoldsRunning' /\ PolicyHasTask'
  BY DEF TypeOK, GraphTypeOK, HoldsRunning, PolicyHasTask
<1>4. ExclusiveOwner'
  BY DEF TypeOK, GraphTypeOK, HoldsRunning, ExclusiveOwner
<1>5. VerdictStands'
  BY DEF TypeOK, GraphTypeOK, HoldsRunning, ExclusiveOwner, VerdictStands
<1> QED
  BY <1>1, <1>2, <1>3, <1>4, <1>5, TablesKept

-----------------------------------------------------------------------------
(* Steps that write a table.                                                  *)

\* A new row disturbs no worker and no other row.
LEMMA AddTaskKeeps == ASSUME IInv, NEW t \in Tasks, AddTask(t) PROVE IInv'
<1>1. MaxAttempts[t] > 0
  BY MaxAttemptsAssumption
<1> USE MaxAttemptsAssumption
    DEF AddTask, Add, IInv, localVars, Executing, Verdict, TypeOK, GraphTypeOK
<1>2. TypeOK'
  BY DEF Status, Terminal, Stages, Verdicts
<1>3. HoldsRunning' /\ ExclusiveOwner' /\ PolicyHasTask'
  BY DEF HoldsRunning, ExclusiveOwner, PolicyHasTask
<1>4. VerdictStands'
  BY DEF VerdictStands, HoldsRunning
<1>5. AttemptsCounted'
  BY <1>1 DEF AttemptsCounted
<1>6. StartedOnSuccess'
  BY DEF StartedOnSuccess
<1>7. SettledHasReason'
  BY DependsOnAssumption DEF SettledHasReason
<1> QED
  BY <1>2, <1>3, <1>4, <1>5, <1>6, <1>7

\* What a committed scan does: pending rows become blocked for a reason, at
\* most one runnable row starts its next attempt.
ScanResult(S, B) ==
    /\ B \subseteq Pending /\ S \subseteq Pending /\ S \intersect B = {}
    /\ \A s, t \in S : s = t
    /\ \A t \in S : Runnable(t)
    /\ \A t \in B : \E d \in DependsOn[t] : status[d] \in Lost \/ d \in B
    /\ status' = [t \in Tasks |-> IF t \in S THEN "running"
                                  ELSE IF t \in B THEN "blocked" ELSE status[t]]
    /\ attempts' = [t \in Tasks |-> IF t \in S THEN attempts[t] + 1 ELSE attempts[t]]

\* claim_next that finds a task is such a scan.
LEMMA ClaimTxnScans ==
    ASSUME TypeOK, NEW t \in Tasks, NEW B \in SUBSET Tasks, ClaimTxn(t, B)
    PROVE  ScanResult({t}, B)
<1> DEFINE scanned == {s \in Pending : Before(s, t)}
<1>1. B \subseteq scanned /\ ScanBlocks(scanned, B) /\ t \in Pending /\ Runnable(t)
  BY DEF ClaimTxn
<1>2. t \notin scanned
  <2>1. priority[t] \in 0..100 /\ Rank[t] \in Nat
    <3>1. priority[t] \in Priorities
      BY DEF TypeOK, GraphTypeOK
    <3>2. Rank[t] \in Nat
      BY RankAssumption
    <3> QED
      BY <3>1, <3>2, PrioritiesAssumption
  <2>2. ~Before(t, t)
    BY <2>1 DEF Before
  <2> QED
    BY <2>2
<1>3. B \subseteq Pending /\ {t} \subseteq Pending /\ {t} \intersect B = {}
  BY <1>1, <1>2
<1>4. \A b \in B : \E d \in DependsOn[b] : status[d] \in Lost \/ d \in B
  BY <1>1 DEF ScanBlocks
<1>5. attempts' = [s \in Tasks |-> IF s \in {t} THEN attempts[s] + 1 ELSE attempts[s]]
  BY DEF ClaimTxn, TypeOK, GraphTypeOK
<1>6. status' = [s \in Tasks |-> IF s \in {t} THEN "running"
                                 ELSE IF s \in B THEN "blocked" ELSE status[s]]
  BY DEF ClaimTxn
<1> QED
  BY <1>1, <1>3, <1>4, <1>5, <1>6 DEF ScanResult

\* claim_next that finds none is one too.
LEMMA NoClaimTxnScans ==
    ASSUME TypeOK, NEW B \in SUBSET Tasks, NoClaimTxn(B)
    PROVE  ScanResult({}, B)
<1>1. \A b \in B : \E d \in DependsOn[b] : status[d] \in Lost \/ d \in B
  BY DEF NoClaimTxn, ScanBlocks
<1>2. attempts' = [s \in Tasks |-> IF s \in {} THEN attempts[s] + 1 ELSE attempts[s]]
  BY DEF NoClaimTxn, TypeOK, GraphTypeOK
<1>3. status' = [s \in Tasks |-> IF s \in {} THEN "running"
                                 ELSE IF s \in B THEN "blocked" ELSE status[s]]
  BY DEF NoClaimTxn
<1> QED
  BY <1>1, <1>2, <1>3 DEF ScanResult, NoClaimTxn

\* A scan keeps the facts about the tables.
LEMMA ScanKeepsTables ==
    ASSUME IInv, NEW S \in SUBSET Tasks, NEW B \in SUBSET Tasks,
           ScanResult(S, B), UNCHANGED <<evidence, priority>>
    PROVE  /\ GraphTypeOK'
           /\ AttemptsCounted' /\ StartedOnSuccess' /\ SettledHasReason'
<1> USE MaxAttemptsAssumption, DependsOnAssumption
    DEF IInv, TypeOK, GraphTypeOK, Pending
<1>1. /\ status' \in [Tasks -> Status] /\ attempts' \in [Tasks -> Nat]
      /\ \A t \in Tasks : attempts'[t] <= MaxAttempts[t]
  BY DEF ScanResult, Status, Terminal, AttemptsCounted
<1>2. AttemptsCounted'
  BY DEF AttemptsCounted, ScanResult
<1>3. StartedOnSuccess'
  BY DEF StartedOnSuccess, ScanResult, Runnable
<1>4. \A t \in Tasks :
         /\ status[t] # "pending" => status'[t] = status[t] /\ attempts'[t] = attempts[t]
         /\ t \in B => status'[t] = "blocked"
         /\ status'[t] \in {"succeeded", "failed"} => status'[t] = status[t]
         /\ status'[t] = "blocked" => status[t] = "blocked" \/ t \in B
  BY DEF ScanResult
<1>5. \A t \in Tasks : status'[t] = "blocked" =>
          \E d \in DependsOn[t] : status'[d] \in {"failed", "blocked"}
  <2> SUFFICES ASSUME NEW t \in Tasks, status'[t] = "blocked"
               PROVE  \E d \in DependsOn[t] : status'[d] \in {"failed", "blocked"}
    OBVIOUS
  <2>1. CASE status[t] = "blocked"
    BY <2>1, <1>4 DEF SettledHasReason
  <2>2. CASE t \in B
    BY <2>2, <1>4 DEF ScanResult, Lost
  <2> QED
    BY <1>4, <2>1, <2>2
<1>6. SettledHasReason'
  BY <1>4, <1>5 DEF SettledHasReason
<1> QED
  BY <1>1, <1>2, <1>3, <1>6

\* A scan moves no task that a worker holds.
LEMMA ScanKeepsHeld ==
    ASSUME IInv, NEW S \in SUBSET Tasks, NEW B \in SUBSET Tasks, ScanResult(S, B),
           NEW t \in Tasks, status[t] # "pending"
    PROVE  status'[t] = status[t] /\ attempts'[t] = attempts[t] /\ t \notin S
BY DEF ScanResult, Pending

\* The claimed task was pending, so no other worker holds it; a worker that dies
\* right after the commit holds nothing.
LEMMA ClaimTaskKeeps == ASSUME IInv, NEW w \in Workers, ClaimTask(w) PROVE IInv'
<1> USE NoneAssumption DEF ClaimTask, IInv, Goto, Leave, LeaveTo, localVars, Executing
<1>1. PICK t \in Tasks, B \in SUBSET Tasks :
         /\ ClaimTxn(t, B)
         /\ \/ /\ pc' = [pc EXCEPT ![w] = "prepare"]
               /\ job' = [job EXCEPT ![w] = t]
               /\ UNCHANGED <<verdict, quota, todo>>
            \/ Leave(w)
  OBVIOUS
<1>2. ScanResult({t}, B)
  BY <1>1, ClaimTxnScans
<1>3. UNCHANGED <<evidence, priority>>
  BY <1>1 DEF ClaimTxn
<1>4. GraphTypeOK' /\ AttemptsCounted' /\ StartedOnSuccess' /\ SettledHasReason'
  BY <1>2, <1>3, ScanKeepsTables
<1>5. status'[t] = "running" /\ status[t] = "pending"
  BY <1>2 DEF ScanResult, Pending
<1>6. \A v \in Workers : v # w /\ pc[v] \in Executing =>
          /\ job[v] \in Tasks /\ job[v] # t
          /\ status'[job[v]] = status[job[v]] /\ attempts'[job[v]] = attempts[job[v]]
  BY <1>2, <1>5, ScanKeepsHeld DEF HoldsRunning
<1>7. TypeOK'
  BY <1>1, <1>3, <1>4, MaxQuotaAssumption DEF TypeOK, Stages, Verdicts
<1>8. HoldsRunning' /\ PolicyHasTask'
  BY <1>1, <1>5, <1>6 DEF HoldsRunning, PolicyHasTask, TypeOK
<1>9. ExclusiveOwner'
  BY <1>1, <1>6 DEF ExclusiveOwner, TypeOK
<1>10. VerdictStands'
  BY <1>1, <1>3, <1>6 DEF VerdictStands, Verdict, TypeOK
<1> QED
  BY <1>4, <1>7, <1>8, <1>9, <1>10

\* Nothing to claim: the blocked rows were pending, so no worker holds one.
LEMMA ClaimNothingKeeps == ASSUME IInv, NEW w \in Workers, ClaimNothing(w) PROVE IInv'
<1> USE NoneAssumption DEF ClaimNothing, IInv, Goto, Leave, LeaveTo, localVars, Executing
<1>1. PICK B \in SUBSET Tasks : NoClaimTxn(B)
  OBVIOUS
<1>2. ScanResult({}, B)
  BY <1>1, NoClaimTxnScans
<1>3. UNCHANGED <<evidence, priority>>
  BY <1>1 DEF NoClaimTxn
<1>4. GraphTypeOK' /\ AttemptsCounted' /\ StartedOnSuccess' /\ SettledHasReason'
  BY <1>2, <1>3, ScanKeepsTables
<1>5. \A v \in Workers : v # w /\ pc[v] \in Executing =>
          /\ job[v] \in Tasks
          /\ status'[job[v]] = status[job[v]] /\ attempts'[job[v]] = attempts[job[v]]
  BY <1>2, ScanKeepsHeld DEF HoldsRunning
<1>6. TypeOK'
  BY <1>3, <1>4, MaxQuotaAssumption DEF TypeOK, Stages, Verdicts
<1>7. HoldsRunning' /\ PolicyHasTask'
  BY <1>5 DEF HoldsRunning, PolicyHasTask, TypeOK
<1>8. ExclusiveOwner'
  BY DEF ExclusiveOwner, TypeOK
<1>9. VerdictStands'
  BY <1>3, <1>5 DEF VerdictStands, Verdict, TypeOK
<1> QED
  BY <1>4, <1>6, <1>7, <1>8, <1>9

\* The output is stored under the attempt in progress; nobody else holds the
\* task, so no other worker's pending success is invalidated.
LEMMA PutKeeps == ASSUME IInv, NEW w \in Workers, Put(w) PROVE IInv'
<1> USE DEF Put, IInv, Goto, graphVars, Executing, TypeOK, GraphTypeOK
<1>1. job[w] \in Tasks /\ status[job[w]] = "running"
  BY DEF HoldsRunning
<1>2. TypeOK'
  BY <1>1 DEF Stages, Verdicts
<1>3. HoldsRunning' /\ ExclusiveOwner' /\ PolicyHasTask'
  BY DEF HoldsRunning, ExclusiveOwner, PolicyHasTask
<1>4. VerdictStands'
  BY <1>1 DEF VerdictStands, HoldsRunning, ExclusiveOwner, Verdict
<1>5. AttemptsCounted' /\ StartedOnSuccess'
  BY DEF AttemptsCounted, StartedOnSuccess
<1>6. SettledHasReason'
  BY <1>1 DEF SettledHasReason
<1> QED
  BY <1>2, <1>3, <1>4, <1>5, <1>6

\* The unguarded UPDATE of _finish meets the row it read: still RUNNING, and
\* with the attempt count the verdict was computed from.
LEMMA CommitMeetsRow ==
    ASSUME IInv, NEW w \in Workers, pc[w] = "commit"
    PROVE  /\ job[w] \in Tasks
           /\ status[job[w]] = "running" /\ attempts[job[w]] > 0
           /\ verdict[w] \in {"succeeded", "pending", "failed"}
           /\ verdict[w] = "succeeded" => evidence[job[w]] = attempts[job[w]]
           /\ verdict[w] = "pending" => attempts[job[w]] < MaxAttempts[job[w]]
           /\ verdict[w] = "failed" => attempts[job[w]] = MaxAttempts[job[w]]
<1> USE DEF IInv, TypeOK, GraphTypeOK
<1>1. job[w] \in Tasks /\ status[job[w]] = "running"
  BY DEF HoldsRunning, Executing
<1>2. verdict[w] \in {"succeeded", "pending", "failed"}
  BY DEF VerdictStands, Verdicts
<1>3. /\ attempts[job[w]] \in Nat /\ MaxAttempts[job[w]] \in Nat
      /\ attempts[job[w]] <= MaxAttempts[job[w]] /\ attempts[job[w]] > 0
  BY <1>1, MaxAttemptsAssumption DEF AttemptsCounted
<1> QED
  BY <1>1, <1>2, <1>3 DEF VerdictStands, Verdict

\* Both ways out of the UPDATE: with the read-back, and with it raising.
LEMMA CommitKeeps ==
    ASSUME IInv, NEW w \in Workers, Commit(w) \/ CommitThenRaise(w)
    PROVE  IInv'
<1> USE NoneAssumption, MaxQuotaAssumption
    DEF Commit, CommitThenRaise, FinishRaises, FinishTxn, IInv, Goto, Leave, LeaveTo, localVars,
        Executing, TypeOK, GraphTypeOK
<1>1. /\ job[w] \in Tasks
      /\ status[job[w]] = "running" /\ attempts[job[w]] > 0
      /\ verdict[w] \in {"succeeded", "pending", "failed"}
      /\ verdict[w] = "succeeded" => evidence[job[w]] = attempts[job[w]]
      /\ verdict[w] = "pending" => attempts[job[w]] < MaxAttempts[job[w]]
      /\ verdict[w] = "failed" => attempts[job[w]] = MaxAttempts[job[w]]
  BY CommitMeetsRow
<1>2. TypeOK'
  BY <1>1 DEF Status, Terminal, Stages, Verdicts
<1>3. HoldsRunning' /\ PolicyHasTask'
  BY <1>1 DEF HoldsRunning, ExclusiveOwner, PolicyHasTask
<1>4. ExclusiveOwner'
  BY DEF ExclusiveOwner
<1>5. VerdictStands'
  BY DEF VerdictStands, HoldsRunning, Verdict
<1>6. AttemptsCounted'
  BY <1>1 DEF AttemptsCounted
<1>7. StartedOnSuccess'
  BY <1>1, DependsOnAssumption DEF StartedOnSuccess
<1>8. SettledHasReason'
  BY <1>1, DependsOnAssumption DEF SettledHasReason
<1> QED
  BY <1>2, <1>3, <1>4, <1>5, <1>6, <1>7, <1>8

-----------------------------------------------------------------------------
(* The invariant and what follows from it.                                    *)

\* Every step keeps the invariant.
LEMMA NextInvariant == IInv /\ [Next]_vars => IInv'
<1> SUFFICES ASSUME IInv, [Next]_vars PROVE IInv'
  OBVIOUS
<1>1. ASSUME NEW t \in Tasks, AddTask(t) PROVE IInv'
  BY <1>1, AddTaskKeeps
<1>2. ASSUME NEW w \in Workers, NEW n \in 0..MaxQuota, NEW r \in BOOLEAN, Heartbeat(w, n, r)
      PROVE  IInv'
  BY <1>2, HeartbeatKeeps
<1>3. ASSUME NEW w \in Workers, PolicyStep(w) PROVE IInv'
  BY <1>3, PolicySkipKeeps, PolicyCheckKeeps, PolicyWriteKeeps, PolicyDoneKeeps
  DEF PolicyStep
<1>4. ASSUME NEW w \in Workers, ExecutorStep(w) PROVE IInv'
  BY <1>4, ClaimTaskKeeps, ClaimNothingKeeps, PrepareKeeps, HandleKeeps, PutKeeps,
     FailReadKeeps, FinishReadKeeps, CommitKeeps
  DEF ExecutorStep
<1>5. ASSUME NEW w \in Workers, StorageError(w) \/ Crash(w) \/ Restart(w) PROVE IInv'
  BY <1>5, StorageErrorKeeps, CrashKeeps, RestartKeeps
<1>6. CASE UNCHANGED vars
  <2>1. UNCHANGED <<status, attempts, priority, evidence, pc, job, verdict, quota, todo>>
    BY <1>6 DEF vars, graphVars, localVars
  <2>2. TypeOK' /\ HoldsRunning' /\ ExclusiveOwner' /\ PolicyHasTask' /\ VerdictStands'
    BY <2>1 DEF IInv, TypeOK, GraphTypeOK, HoldsRunning, ExclusiveOwner, PolicyHasTask,
                VerdictStands, Verdict
  <2> QED
    BY <2>1, <2>2, TablesKept DEF IInv
<1> QED
  BY <1>1, <1>2, <1>3, <1>4, <1>5, <1>6 DEF Next

\* The tables and the workers keep their types, and no task is ever started more
\* often than max_attempts allows.
THEOREM TypeCorrect == Spec => []TypeOK
<1>1. IInv => TypeOK
  BY DEF IInv
<1> QED
  BY <1>1, InitInvariant, NextInvariant, PTL DEF Spec

\* No two heartbeats ever execute the same task.
THEOREM OwnerIsExclusive == Spec => []ExclusiveOwner
<1>1. IInv => ExclusiveOwner
  BY DEF IInv
<1> QED
  BY <1>1, InitInvariant, NextInvariant, PTL DEF Spec

\* Success, failure and blocking always have their reason in the tables.
THEOREM SettledWithReason == Spec => []SettledHasReason
<1>1. IInv => SettledHasReason
  BY DEF IInv
<1> QED
  BY <1>1, InitInvariant, NextInvariant, PTL DEF Spec

\* A task that was ever started has all its inputs, so the executor never finds
\* the result of a succeeded dependency missing.
THEOREM InputsAlwaysReady == Spec => []InputsReady
<1>1. IInv => InputsReady
  BY DependsOnAssumption
  DEF IInv, InputsReady, StartedOnSuccess, SettledHasReason, TypeOK, GraphTypeOK
<1> QED
  BY <1>1, InitInvariant, NextInvariant, PTL DEF Spec

-----------------------------------------------------------------------------
(* The promised life cycle.                                                   *)

\* A scan is the abstract step that gives up lost tasks.
LEMMA ScanGivesUp ==
    ASSUME IInv, NEW S \in SUBSET Tasks, NEW B \in SUBSET Tasks, ScanResult(S, B)
    PROVE  Lifecycle!GivesUp(B)
<1> SUFFICES ASSUME NEW b \in B
             PROVE  /\ status[b] = "pending"
                    /\ \E d \in DependsOn[b] : status'[d] \in {"failed", "blocked"}
  BY DEF Lifecycle!GivesUp
<1>1. status[b] = "pending"
  BY DEF ScanResult, Pending
<1>2. PICK d \in DependsOn[b] : status[d] \in Lost \/ d \in B
  BY DEF ScanResult
<1>3. d \in Tasks
  BY DependsOnAssumption
<1>4. status'[d] \in {"failed", "blocked"}
  BY <1>2, <1>3 DEF ScanResult, Pending, Lost
<1> QED
  BY <1>1, <1>2, <1>4

\* Each step of the workers is a step of the life cycle or leaves it alone.
LEMMA StepImplements ==
    ASSUME IInv, [Next]_vars PROVE [Lifecycle!Next]_(Lifecycle!vars)
<1> USE DEF Lifecycle!vars
<1>1. ASSUME NEW t \in Tasks, AddTask(t) PROVE Lifecycle!Create(t)
  BY <1>1, DependsOnAssumption DEF AddTask, Add, Lifecycle!Create
<1>2. ASSUME NEW w \in Workers, ClaimTask(w)
      PROVE  \E t \in Tasks : \E B \in SUBSET Tasks : Lifecycle!Start(t, B)
  <2>1. PICK t \in Tasks, B \in SUBSET Tasks : ClaimTxn(t, B) /\ UNCHANGED evidence
    BY <1>2 DEF ClaimTask
  <2>2. ScanResult({t}, B)
    BY <2>1, ClaimTxnScans DEF IInv
  <2>3. Lifecycle!GivesUp(B) /\ t \notin B
    BY <2>2, ScanGivesUp DEF ScanResult
  <2>4. Lifecycle!Start(t, B)
    BY <2>1, <2>3 DEF ClaimTxn, Lifecycle!Start, Pending, Runnable
  <2> QED
    BY <2>4
<1>3. ASSUME NEW w \in Workers, ClaimNothing(w)
      PROVE  \E B \in SUBSET Tasks : Lifecycle!GiveUp(B)
  <2>1. PICK B \in SUBSET Tasks : NoClaimTxn(B) /\ UNCHANGED evidence
    BY <1>3 DEF ClaimNothing
  <2>2. ScanResult({}, B)
    BY <2>1, NoClaimTxnScans DEF IInv
  <2>3. Lifecycle!GivesUp(B)
    BY <2>2, ScanGivesUp
  <2>4. Lifecycle!GiveUp(B)
    BY <2>1, <2>3 DEF NoClaimTxn, Lifecycle!GiveUp
  <2> QED
    BY <2>4
<1>4. ASSUME NEW w \in Workers, Put(w) PROVE Lifecycle!Record(job[w]) /\ job[w] \in Tasks
  BY <1>4 DEF Put, graphVars, IInv, HoldsRunning, Executing, Lifecycle!Record
<1>5. ASSUME NEW w \in Workers, Commit(w) \/ CommitThenRaise(w)
      PROVE  job[w] \in Tasks /\ (Lifecycle!Succeed(job[w]) \/ Lifecycle!Fail(job[w]))
  <2>1. pc[w] = "commit" /\ FinishTxn(job[w], verdict[w]) /\ UNCHANGED evidence
    BY <1>5 DEF Commit, CommitThenRaise
  <2>2. /\ job[w] \in Tasks
        /\ status[job[w]] = "running"
        /\ verdict[w] \in {"succeeded", "pending", "failed"}
        /\ verdict[w] = "succeeded" => evidence[job[w]] = attempts[job[w]]
        /\ verdict[w] = "pending" => attempts[job[w]] < MaxAttempts[job[w]]
        /\ verdict[w] = "failed" => attempts[job[w]] = MaxAttempts[job[w]]
    BY <2>1, CommitMeetsRow
  <2>3. MaxAttempts[job[w]] \in Nat /\ attempts[job[w]] \in Nat
    BY <2>2, MaxAttemptsAssumption DEF IInv, TypeOK, GraphTypeOK
  <2>4. status' = [status EXCEPT ![job[w]] = verdict[w]] /\ UNCHANGED <<attempts, evidence>>
    BY <2>1 DEF FinishTxn
  <2>5. CASE verdict[w] = "succeeded"
    BY <2>2, <2>4, <2>5 DEF Lifecycle!Succeed
  <2>6. CASE verdict[w] = "pending"
    BY <2>2, <2>4, <2>6 DEF Lifecycle!Fail
  <2>7. CASE verdict[w] = "failed"
    <3>1. ~(attempts[job[w]] < MaxAttempts[job[w]])
      BY <2>2, <2>3, <2>7
    <3> QED
      BY <2>2, <2>4, <2>7, <3>1 DEF Lifecycle!Fail
  <2> QED
    BY <2>2, <2>5, <2>6, <2>7
<1>6. ASSUME NEW w \in Workers,
             \/ \E n \in 0..MaxQuota, r \in BOOLEAN : Heartbeat(w, n, r)
             \/ PolicyStep(w) \/ Prepare(w) \/ Handle(w) \/ FailRead(w) \/ FinishRead(w)
             \/ StorageError(w) \/ Crash(w) \/ Restart(w)
      PROVE  UNCHANGED <<status, attempts, evidence>>
  BY <1>6 DEF Heartbeat, PolicyStep, PolicySkip, PolicyCheck, PolicyWrite, PolicyDone,
     PriorityTxn, Prepare, Handle, FailRead, FinishRead, StorageError, Crash, Restart, graphVars
<1>7. ASSUME UNCHANGED vars PROVE UNCHANGED <<status, attempts, evidence>>
  BY <1>7 DEF vars, graphVars
<1> QED
  BY <1>1, <1>2, <1>3, <1>4, <1>5, <1>6, <1>7
  DEF Next, ExecutorStep, Lifecycle!Next

\* The queue implements the life cycle it promises.
THEOREM QueueImplementsLifecycle == Spec => ImplementsLifecycle
<1>1. Init => Lifecycle!Init
  BY DEF Init, GraphInit, Lifecycle!Init
<1>2. IInv /\ [Next]_vars => [Lifecycle!Next]_(Lifecycle!vars)
  BY StepImplements
<1> QED
  BY <1>1, <1>2, InitInvariant, NextInvariant, PTL
  DEF Spec, ImplementsLifecycle, Lifecycle!Spec

\* What a life cycle step does to a task that has settled: nothing.
LEMMA LifecycleKeepsSettled ==
    ASSUME IInv, [Next]_vars, NEW t \in Tasks, status[t] \in Terminal
    PROVE  status'[t] = status[t] /\ evidence'[t] = evidence[t]
<1> USE DEF Terminal, IInv, TypeOK, GraphTypeOK
<1>1. [Lifecycle!Next]_(Lifecycle!vars)
  BY StepImplements
<1>2. ASSUME NEW s \in Tasks, Lifecycle!Create(s) \/ Lifecycle!Record(s)
                              \/ Lifecycle!Succeed(s) \/ Lifecycle!Fail(s)
      PROVE  status'[t] = status[t] /\ evidence'[t] = evidence[t]
  BY <1>2 DEF Lifecycle!Create, Lifecycle!Record, Lifecycle!Succeed, Lifecycle!Fail
<1>3. ASSUME NEW B \in SUBSET Tasks,
             Lifecycle!GiveUp(B) \/ \E s \in Tasks : Lifecycle!Start(s, B)
      PROVE  status'[t] = status[t] /\ evidence'[t] = evidence[t]
  BY <1>3 DEF Lifecycle!GiveUp, Lifecycle!Start, Lifecycle!GivesUp
<1> QED
  BY <1>1, <1>2, <1>3 DEF Lifecycle!Next, Lifecycle!vars

\* Completed evidence is never rewritten.
THEOREM SettledForEver == Spec => SettledIsFinal
<1>1. IInv /\ [Next]_vars =>
          [\A t \in Tasks : status[t] \in Terminal =>
               status'[t] = status[t] /\ evidence'[t] = evidence[t]]_vars
  BY LifecycleKeepsSettled
<1> QED
  BY <1>1, InitInvariant, NextInvariant, PTL DEF Spec, SettledIsFinal

\* While no process dies and no database call raises, the worker boundary keeps
\* its promise: a RUNNING task has a worker that is going to finish it.
LEMMA NobodyStrands ==
    ASSUME ~Crashes, ~StorageErrors, IInv, RunningHasWorker, [Next]_vars
    PROVE  RunningHasWorker'
<1> SUFFICES ASSUME NEW t \in Tasks, status'[t] = "running"
             PROVE  \E w \in Workers : pc'[w] \in Executing /\ job'[w] = t
  BY DEF RunningHasWorker
<1> USE DEF IInv, TypeOK, GraphTypeOK
<1>1. ASSUME status[t] = "running"
      PROVE  \E w \in Workers : pc'[w] \in Executing /\ job'[w] = t
  <2>1. PICK w \in Workers : pc[w] \in Executing /\ job[w] = t
    BY <1>1 DEF RunningHasWorker
  <2>2. ASSUME NEW v \in Workers, v # w, pc'[w] = pc[w], job'[w] = job[w]
        PROVE  \E u \in Workers : pc'[u] \in Executing /\ job'[u] = t
    BY <2>1, <2>2
  <2>3. CASE UNCHANGED <<pc, job>>
    BY <2>1, <2>3
  <2>4. ASSUME NEW v \in Workers,
               \/ \E n \in 0..MaxQuota, r \in BOOLEAN : Heartbeat(v, n, r)
               \/ PolicyStep(v) \/ ClaimTask(v) \/ ClaimNothing(v) \/ Restart(v)
        PROVE  pc'[w] = pc[w] /\ job'[w] = job[w]
    BY <2>1, <2>4 DEF Heartbeat, PolicyStep, PolicySkip, PolicyCheck, PolicyWrite, PolicyDone,
       ClaimTask, ClaimNothing, Restart, Goto, Leave, LeaveTo, Executing, localVars
  <2>5. ASSUME NEW v \in Workers, Prepare(v) \/ Handle(v) \/ Put(v) \/ FailRead(v) \/ FinishRead(v)
        PROVE  pc'[w] \in Executing /\ job'[w] = job[w]
    BY <2>1, <2>5, <1>1 DEF Prepare, Handle, Put, FailRead, FinishRead, FinishRaises, Goto, Leave, LeaveTo,
       Executing, localVars
  <2>6. ASSUME NEW v \in Workers, Commit(v)
        PROVE  pc'[w] = pc[w] /\ job'[w] = job[w]
    <3>1. v # w
      <4> SUFFICES ASSUME v = w PROVE FALSE
        OBVIOUS
      <4>1. verdict[w] # "running" /\ status' = [status EXCEPT ![t] = verdict[w]]
        BY <2>1, <2>6 DEF Commit, FinishTxn, Verdicts
      <4> QED
        BY <4>1
    <3> QED
      BY <2>6, <3>1 DEF Commit, Goto, Leave, LeaveTo
  <2>7. ASSUME NEW s \in Tasks, AddTask(s) PROVE UNCHANGED <<pc, job>>
    BY <2>7 DEF AddTask, localVars
  <2>8. ASSUME UNCHANGED vars PROVE UNCHANGED <<pc, job>>
    BY <2>8 DEF vars, localVars
  <2> QED
    BY <2>1, <2>3, <2>4, <2>5, <2>6, <2>7, <2>8
    DEF Next, ExecutorStep, CommitThenRaise, StorageError, Crash
<1>2. ASSUME status[t] # "running"
      PROVE  \E w \in Workers : pc'[w] \in Executing /\ job'[w] = t
  <2>1. PICK w \in Workers : ClaimTask(w)
    <3>1. ASSUME NEW v \in Workers, Commit(v) PROVE FALSE
      BY <3>1, <1>2, CommitMeetsRow DEF Commit, FinishTxn
    <3>2. ASSUME NEW v \in Workers, ClaimNothing(v) PROVE FALSE
      BY <3>2, <1>2 DEF ClaimNothing, NoClaimTxn
    <3>3. ASSUME NEW s \in Tasks, AddTask(s) PROVE FALSE
      BY <3>3, <1>2 DEF AddTask, Add
    <3>4. ASSUME NEW v \in Workers,
                 \/ \E n \in 0..MaxQuota, r \in BOOLEAN : Heartbeat(v, n, r)
                 \/ PolicyStep(v) \/ Prepare(v) \/ Handle(v) \/ Put(v)
                 \/ FailRead(v) \/ FinishRead(v) \/ Restart(v)
          PROVE  FALSE
      BY <3>4, <1>2 DEF Heartbeat, PolicyStep, PolicySkip, PolicyCheck, PolicyWrite, PolicyDone,
         PriorityTxn, Prepare, Handle, Put, FailRead, FinishRead, Restart, graphVars
    <3>5. ASSUME UNCHANGED vars PROVE FALSE
      BY <3>5, <1>2 DEF vars, graphVars
    <3> QED
      BY <3>1, <3>2, <3>3, <3>4, <3>5
      DEF Next, ExecutorStep, CommitThenRaise, StorageError, Crash
  <2>2. PICK s \in Tasks, B \in SUBSET Tasks :
           ClaimTxn(s, B) /\ pc' = [pc EXCEPT ![w] = "prepare"] /\ job' = [job EXCEPT ![w] = s]
    BY <2>1 DEF ClaimTask, Goto
  <2>3. s = t
    BY <2>2, <1>2 DEF ClaimTxn
  <2> QED
    BY <2>2, <2>3 DEF Executing
<1> QED
  BY <1>1, <1>2

\* RUNNING always means that a worker is executing the task, on a machine where
\* no process dies and no database call raises (the code has no lease to fall
\* back on when one does).
THEOREM NoTaskIsStranded ==
    ASSUME ~Crashes, ~StorageErrors PROVE Spec => []RunningHasWorker
<1>1. Init => RunningHasWorker
  BY DEF Init, GraphInit, RunningHasWorker
<1>2. IInv /\ RunningHasWorker /\ [Next]_vars => RunningHasWorker'
  BY NobodyStrands
<1> QED
  BY <1>1, <1>2, InitInvariant, NextInvariant, PTL DEF Spec
=============================================================================
