--------------------------- MODULE ResearchRuntime ---------------------------
(* Heartbeats of ResearchRuntimeController over one research database: each   *)
(* worker (a process whose scheduler fires heartbeat) applies the priority    *)
(* policy, then runs ResearchTaskExecutor.run_until_idle under the quota the  *)
(* compute governor granted.  Heartbeats of different processes, or one that  *)
(* fires while another is still running, overlap.  A step is one database     *)
(* transaction, one read in a connection of its own, or the handler call.     *)
EXTENDS ResearchTaskGraph

CONSTANTS Workers,       \* processes that fire heartbeats
          None,          \* no task
          Unhandled,     \* tasks whose task_type has no registered handler
          MaxQuota,      \* bound on budget.max_parallel_workers
          Crashes,       \* whether a worker process may die
          StorageErrors  \* whether a database call may raise

ASSUME NoneAssumption == None \notin Tasks
ASSUME UnhandledAssumption == Unhandled \subseteq Tasks
ASSUME MaxQuotaAssumption == MaxQuota \in Nat \ {0}
ASSUME SwitchAssumption == Crashes \in BOOLEAN /\ StorageErrors \in BOOLEAN

VARIABLES evidence,      \* research_results: the attempt that wrote t's row, or 0
          pc,            \* where the worker is in heartbeat
          job,           \* the task it has claimed, or is about to reprioritize
          verdict,       \* the status _finish is going to write
          quota,         \* iterations left in run_until_idle
          todo           \* the policy's snapshot: pending tasks not yet visited

localVars == <<job, verdict, quota, todo>>
vars == <<graphVars, evidence, pc, localVars>>

Executing == {"prepare", "handle", "put", "finish", "commit", "fail"}
Stages == {"off", "down", "policy", "reprioritize", "claim"} \union Executing
Verdicts == {"none", "succeeded", "failed", "pending"}

TypeOK ==
    /\ GraphTypeOK
    /\ evidence \in [Tasks -> Nat]
    /\ pc \in [Workers -> Stages]
    /\ job \in [Workers -> Tasks \union {None}]
    /\ verdict \in [Workers -> Verdicts]
    /\ quota \in [Workers -> 0..MaxQuota]
    /\ todo \in [Workers -> SUBSET Tasks]

Init ==
    /\ GraphInit
    /\ evidence = [t \in Tasks |-> 0]
    /\ pc = [w \in Workers |-> "off"]
    /\ job = [w \in Workers |-> None]
    /\ verdict = [w \in Workers |-> "none"]
    /\ quota = [w \in Workers |-> 0]
    /\ todo = [w \in Workers |-> {}]

Goto(w, stage) == pc' = [pc EXCEPT ![w] = stage]

\* The heartbeat is over: what it held in memory is gone.
LeaveTo(w, stage) ==
    /\ Goto(w, stage)
    /\ job' = [job EXCEPT ![w] = None]
    /\ verdict' = [verdict EXCEPT ![w] = "none"]
    /\ quota' = [quota EXCEPT ![w] = 0]
    /\ todo' = [todo EXCEPT ![w] = {}]

\* By return or by an exception that nobody catches.
Leave(w) == LeaveTo(w, "off")

-----------------------------------------------------------------------------
(* The pipeline adds tasks while workers are running.                         *)

AddTask(t) == Add(t) /\ UNCHANGED <<evidence, pc, localVars>>

-----------------------------------------------------------------------------
(* heartbeat: budget, then the policy over a snapshot of the queue.           *)

\* Without a health report the policy is skipped: nothing to visit.
Heartbeat(w, n, reported) ==
    /\ pc[w] = "off"
    /\ Goto(w, "policy")
    /\ quota' = [quota EXCEPT ![w] = n]
    /\ todo' = [todo EXCEPT ![w] = IF reported THEN Pending ELSE {}]
    /\ UNCHANGED <<graphVars, evidence, job, verdict>>

\* priority_for gives the task the priority it already has.
PolicySkip(w) ==
    /\ pc[w] = "policy"
    /\ \E t \in todo[w] : todo' = [todo EXCEPT ![w] = @ \ {t}]
    /\ UNCHANGED <<graphVars, evidence, pc, job, verdict, quota>>

\* set_priority reads the task: a ValueError ends the heartbeat if the task
\* has left PENDING since the snapshot.
PolicyCheck(w) ==
    /\ pc[w] = "policy"
    /\ \E t \in todo[w] :
          IF status[t] = "pending"
          THEN /\ Goto(w, "reprioritize")
               /\ job' = [job EXCEPT ![w] = t]
               /\ todo' = [todo EXCEPT ![w] = @ \ {t}]
               /\ UNCHANGED <<verdict, quota>>
          ELSE Leave(w)
    /\ UNCHANGED <<graphVars, evidence>>

\* set_priority writes the task.
PolicyWrite(w) ==
    /\ pc[w] = "reprioritize"
    /\ \E p \in Priorities : PriorityTxn(job[w], p)
    /\ Goto(w, "policy")
    /\ job' = [job EXCEPT ![w] = None]
    /\ UNCHANGED <<evidence, verdict, quota, todo>>

PolicyDone(w) ==
    /\ pc[w] = "policy" /\ todo[w] = {}
    /\ Goto(w, IF quota[w] = 0 THEN "off" ELSE "claim")
    /\ UNCHANGED <<graphVars, evidence, localVars>>

-----------------------------------------------------------------------------
(* run_until_idle: run_once until it returns None or the quota is used.       *)

\* claim_next commits, then reads the task back: if that raises, the heartbeat
\* ends with the task already RUNNING.
ClaimTask(w) ==
    /\ pc[w] = "claim"
    /\ \E t \in Tasks : \E B \in SUBSET Tasks :
          /\ ClaimTxn(t, B)
          /\ \/ /\ Goto(w, "prepare")
                /\ job' = [job EXCEPT ![w] = t]
                /\ UNCHANGED <<verdict, quota, todo>>
             \/ StorageErrors /\ Leave(w)
    /\ UNCHANGED evidence

ClaimNothing(w) ==
    /\ pc[w] = "claim"
    /\ \E B \in SUBSET Tasks : NoClaimTxn(B)
    /\ Leave(w)
    /\ UNCHANGED evidence

\* The handler is looked up and the outputs of the dependencies are read.
Prepare(w) ==
    /\ pc[w] = "prepare"
    /\ Goto(w, IF \/ job[w] \in Unhandled
                  \/ \E d \in DependsOn[job[w]] : evidence[d] = 0
               THEN "fail" ELSE "handle")
    /\ UNCHANGED <<graphVars, evidence, localVars>>

\* The handler returns an output or raises.
HandleUncaught(w) ==  \* mutant of Handle
    /\ pc[w] = "handle"
    /\ \/ Goto(w, "put") /\ UNCHANGED localVars
       \/ Leave(w)
    /\ UNCHANGED <<graphVars, evidence>>
Handle(w) ==
    /\ pc[w] = "handle"
    /\ Goto(w, "put") \/ Goto(w, "fail")
    /\ UNCHANGED <<graphVars, evidence, localVars>>

\* results.put, and on to graph.succeed.
PutForgotten(w) ==  \* mutant of Put
    /\ pc[w] = "put"
    /\ verdict' = [verdict EXCEPT ![w] = "succeeded"]
    /\ Goto(w, "finish")
    /\ UNCHANGED <<graphVars, evidence, job, quota, todo>>
Put(w) ==
    /\ pc[w] = "put"
    /\ evidence' = [evidence EXCEPT ![job[w]] = attempts[job[w]]]
    /\ verdict' = [verdict EXCEPT ![w] = "succeeded"]
    /\ Goto(w, "finish")
    /\ UNCHANGED <<graphVars, job, quota, todo>>

\* fail() reads the task and chooses the next status.
FailRead(w) ==
    /\ pc[w] = "fail"
    /\ IF status[job[w]] = "running"
       THEN /\ verdict' = [verdict EXCEPT ![w] = Verdict(job[w])]
            /\ Goto(w, "finish")
            /\ UNCHANGED <<job, quota, todo>>
       ELSE Leave(w)
    /\ UNCHANGED <<graphVars, evidence>>

\* An exception inside _finish: run_once catches it while it is trying to
\* succeed, and lets it out while it is already failing.
FinishRaises(w) ==
    IF verdict[w] = "succeeded"
    THEN Goto(w, "fail") /\ UNCHANGED localVars
    ELSE Leave(w)

\* _finish reads the task ...
FinishRead(w) ==
    /\ pc[w] = "finish"
    /\ IF status[job[w]] = "running"
       THEN Goto(w, "commit") /\ UNCHANGED localVars
       ELSE FinishRaises(w)
    /\ UNCHANGED <<graphVars, evidence>>

\* ... and writes it.  After a success the loop goes on while quota is left;
\* after a failure run_once returns None and the heartbeat is over.  The row is
\* read back once more, and that read may raise.
Commit(w) ==
    /\ pc[w] = "commit"
    /\ FinishTxn(job[w], verdict[w])
    /\ IF verdict[w] = "succeeded" /\ quota[w] > 1
       THEN /\ Goto(w, "claim")
            /\ job' = [job EXCEPT ![w] = None]
            /\ verdict' = [verdict EXCEPT ![w] = "none"]
            /\ quota' = [quota EXCEPT ![w] = @ - 1]
            /\ UNCHANGED todo
       ELSE Leave(w)
    /\ UNCHANGED evidence

CommitThenRaise(w) ==
    /\ StorageErrors
    /\ pc[w] = "commit"
    /\ FinishTxn(job[w], verdict[w])
    /\ FinishRaises(w)
    /\ UNCHANGED evidence

-----------------------------------------------------------------------------
(* Failures: a database call that raises, and the death of a process.         *)

StorageError(w) ==
    /\ StorageErrors
    /\ \/ pc[w] \in {"policy", "reprioritize", "claim", "fail"} /\ Leave(w)
       \/ pc[w] \in {"prepare", "put"} /\ Goto(w, "fail") /\ UNCHANGED localVars
       \/ pc[w] \in {"finish", "commit"} /\ FinishRaises(w)
    /\ UNCHANGED <<graphVars, evidence>>

Crash(w) ==
    /\ Crashes
    /\ pc[w] \notin {"off", "down"}
    /\ LeaveTo(w, "down")
    /\ UNCHANGED <<graphVars, evidence>>

\* The process is started again; nothing looks for what it left RUNNING.
Restart(w) ==
    /\ pc[w] = "down"
    /\ Goto(w, "off")
    /\ UNCHANGED <<graphVars, evidence, localVars>>

-----------------------------------------------------------------------------

PolicyStep(w) == PolicySkip(w) \/ PolicyCheck(w) \/ PolicyWrite(w) \/ PolicyDone(w)

ExecutorStep(w) ==
    \/ ClaimTask(w) \/ ClaimNothing(w) \/ Prepare(w) \/ Handle(w) \/ Put(w)
    \/ FailRead(w) \/ FinishRead(w) \/ Commit(w) \/ CommitThenRaise(w)

Next ==
    \/ \E t \in Tasks : AddTask(t)
    \/ \E w \in Workers :
          \/ \E n \in 0..MaxQuota, reported \in BOOLEAN : Heartbeat(w, n, reported)
          \/ PolicyStep(w)
          \/ ExecutorStep(w)
          \/ StorageError(w)
          \/ Crash(w)
          \/ Restart(w)

Spec == Init /\ [][Next]_vars

(* A running heartbeat goes on, a dead process is restarted, and every        *)
(* scheduler fires again and again while the governor grants some capacity.   *)
Fairness ==
    \A w \in Workers :
       /\ WF_vars(PolicyStep(w) \/ ExecutorStep(w))
       /\ WF_vars(Restart(w))
       /\ SF_vars(\E n \in 1..MaxQuota, reported \in BOOLEAN : Heartbeat(w, n, reported))

FairSpec == Spec /\ Fairness
-----------------------------------------------------------------------------
(* What must hold.                                                            *)

\* claim_next hands a task to one worker at a time: two overlapping heartbeats
\* never execute the same task, whatever fails around them.
ExclusiveOwner ==
    \A v, w \in Workers :
        pc[v] \in Executing /\ pc[w] \in Executing /\ job[v] = job[w] => v = w

\* A task that was ever started finds every dependency succeeded and its output
\* stored, so the executor's "missing result for succeeded dependency" cannot
\* arise, even when the result store and the queue fail independently.
InputsReady ==
    \A t \in Tasks : attempts[t] > 0 =>
        \A d \in DependsOn[t] : status[d] = "succeeded" /\ evidence[d] # 0

\* A settled task has a reason: a success stored the output of its very last
\* attempt, a failure used up every attempt, a blocked task lost a dependency.
SettledHasReason ==
    \A t \in Tasks :
        /\ status[t] = "succeeded" => evidence[t] = attempts[t] /\ attempts[t] > 0
        /\ status[t] = "failed" => attempts[t] = MaxAttempts[t]
        /\ status[t] = "blocked" => \E d \in DependsOn[t] : status[d] \in {"failed", "blocked"}

\* The worker boundary strands no RUNNING task: one of the workers is still on
\* its way to finish it (run_once catches whatever the handler raises).
RunningHasWorker ==
    \A t \in Tasks : status[t] = "running" =>
        \E w \in Workers : pc[w] \in Executing /\ job[w] = t

\* Completed evidence is never rewritten: once a task has settled, neither its
\* status nor its stored output changes, although both writes are unguarded.
SettledIsFinal ==
    [][\A t \in Tasks : status[t] \in Terminal =>
           status'[t] = status[t] /\ evidence'[t] = evidence[t]]_vars

\* The policy never touches the priority of a task that has left PENDING.
OnlyPendingReprioritized ==
    [][\A t \in Tasks : priority'[t] # priority[t] => status[t] = "pending"]_vars

\* The queue implements the life cycle it promises: the read-then-write methods,
\* the overlapping workers and their failures never show.
Lifecycle == INSTANCE TaskLifecycle
                 WITH status <- status, attempts <- attempts, evidence <- evidence
ImplementsLifecycle == Lifecycle!Spec

\* Once processes stop dying, every task that was added settles: the heartbeats
\* that keep coming run it, retry it, or give it up.
EveryTaskSettles ==
    <>[](\A w \in Workers : pc[w] # "down") =>
        \A t \in Tasks : status[t] = "pending" ~> status[t] \in Terminal
=============================================================================
