# Verification of Dusty Dragon

TLA+ models of *MT5 Firm Dusty Dragon*, a paper-first digital trading firm
written in Python: one trading department that decides, reviews, fills on paper
and records; one research department that works through a durable queue of
experiments, promotes strategies and shares knowledge; and the clocks and
monitors that say which of the two may work.  TLC checks the models on small
instances, TLAPS proves all the safety that its passing runs check, for every value
of the constants.

Paths such as `task_graph.py` are under `src/src/dusty_dragon/`, by package.

Contents: 1 the system, 2 the modules, 3 the runs, 4 bounds, 5 fairness,
6 proofs, 7 disagreements between code and documents, 8 what is not modelled,
9 plan, 10 how to run.

## 1. The system

Every component, the state it keeps, how it is used, and what makes it right.

### Research department

| component | state | operations | correct when |
|---|---|---|---|
| `research/task_graph.py` durable queue | SQLite table `research_tasks` | `add`, `claim_next`, `set_priority`, `succeed`, `fail` | one owner per task, dependencies before dependents, attempts counted, settled is final |
| `research/executor.py` executor, result store | table `research_results`, a frame per heartbeat | `run_once`, `run_until_idle`, `put`, `get` | an output is stored before success is declared; no handler failure strands a task |
| `research/priority_policy.py` | none | `priority_for`, `apply` | only pending tasks are reordered; worse health is not less urgent |
| `runtime/research_runtime.py` heartbeat | none | `heartbeat` | budget, policy, then execution under the quota |
| `research/pipeline.py`, `challenger_worker.py` | none; writes registry and queue | `plan` | every challenger has its chain of tasks |
| `storage/strategy_registry.py`, `learning/strategy_lineage.py` | tables `strategies`, `promotions` | `register_founder`, `create_challenger`, `promote`, `reject` | one champion, promoted with complete evidence, well-founded lineage |
| `learning/challenger_evaluator.py`, `promotion_gate.py` | none | `compare`, `evidence` | gates open for the comparison that was made |
| `learning/holding_maturity.py` | counters per holding stage | `record`, `can_hold` | authority has no gap and is earned |
| `knowledge/institutional.py` | tables `institutional_knowledge`, `knowledge_verifications` | `publish`, `verify`, `usable_for` | what desks may use is what the evidence validates |
| `knowledge/verification_work.py` | none; writes the queue | `plan` | the work of a plan suffices to judge a finding, and replications never pass for peers |
| `knowledge/research_bridge.py` | none | `draft` | — |
| `research/weekend.py` | none | `run` | accepts its phases, refuses others; what calls for an answer gets a hypothesis that is tested |
| `backtest/*` | none | windows and experiments of a weekend | experiments are out of sample |
| `research/stage_handlers.py`, `factors.py` | none | pure computations | — |

### Trading department

| component | state | operations | correct when |
|---|---|---|---|
| `trading/orchestrator.py` | a frame per cycle | `run` | every decision is recorded before it is returned; a mail outage costs nothing |
| `portfolio/exposure.py`, `risk/order_guard.py` | none | `evaluate` | fail-closed, limits hold for what is filled |
| `trading/paper_execution.py`, `brokers/volume.py` | none | `open`, normalization | a volume never carries more risk than was reviewed |
| `storage/trade_ledger.py` | hash-chained table `trade_reports` | `append`, `verify_chain` | the chain verifies under concurrent appends |
| `reporting/delivery.py`, `reporting/trade_report.py` | none | `send`, `from_decision` | failures do not reach the cycle |
| `intelligence/*` | none | forecast, signal | — |
| `brokers/mt5_adapter.py` | external terminal | positions, account, quotes | — |

### The firm around them

| component | state | operations | correct when |
|---|---|---|---|
| `runtime/firm_runtime.py`, `scheduler/weekly_clock.py` | the time | `phase_at`, `dispatch_trading`, `dispatch_research` | phases follow in order, manual research is always possible |
| `scheduler/research_clock.py`, `runtime/compute_governor.py` | the time, machine load | `mode_at`, `budget` | trading has the machine, research is never starved |
| `analytics/firm_health.py` | none | `evaluate` | monotone: worse is never judged milder |
| `analytics/performance.py`, `capital_growth.py` | none | `summarize`, `evaluate` | losses are not forgotten, ruin is seen |
| `learning/outcomes.py`, `storage/outcome_store.py` | table of outcomes | `from_report`, `append`, `all` | one outcome per trade, for ever |
| `organization/*` | none | `next_recommendation` | breadth before depth |
| `storage/archive.py`, `google_drive_archive.py` | staged files, Drive folders and files | `stage_jsonl_gz`, `verify`, `put` | what is archived is what was staged, under its partition |

### How they interact

* The **heartbeat** computes a budget from the clock and the machine, lets the
  policy reorder a snapshot of the queue, and runs the executor under that
  quota.  Nothing keeps heartbeats from overlapping: a slow one and the next, or
  two processes on one database.
* The **pipeline** writes to two databases, the registry and the queue, in many
  small transactions.
* The **decision cycle** reads the broker, whose positions other people change,
  and appends to a ledger that all desks share.
* **Outcomes** are the firm's memory of itself: performance, equity curve, health
  report and weekend brief are worked out from all of them whenever somebody asks.
* **Verification** of knowledge goes through the queue: a planner adds tasks, and
  whoever runs one calls `verify` under the identity in its payload.
* **Health reports** reach the research queue only through words: the policy
  looks for substrings of the monitor's reasons.
* Everything durable is SQLite.  A transaction is atomic and writers are
  serialised, but most methods open one connection to read and check and
  another one to write, by primary key alone.

### What is hard

Check-then-write over two connections; crashes between two transactions and
what nobody looks for after a restart; a handler, the mail or the database
failing in the middle; answers of a remote service that are lost; stale
snapshots and stale evidence; outcomes that are recorded late; blocking that must
spread through dependencies; hours and grants at their boundaries.  PROJECT.json
lists each hazard at its line, with the properties that would catch it or the
reason why none does.

## 2. The modules

| module | models | lines of code it stands for |
|---|---|---|
| `TaskLifecycle` | abstract: what the queue promises of a task | `task_graph.py`, `executor.py` |
| `ResearchTaskGraph` | the table of tasks and its transactions | `task_graph.py` |
| `ResearchRuntime` | EXTENDS it: workers, heartbeats, executor, result store, failures | `executor.py`, `research_runtime.py`, `priority_policy.py` |
| `StrategyRegistry` | lineage, promotions, the comparison that opens gates | `strategy_registry.py`, `promotion_gate.py` |
| `WeekendBrief` | priority codes of a weekend and the hypotheses they become | `weekend.py`, `challenger_worker.py` |
| `ResearchPipeline` | EXTENDS both: planning of challengers and chains beside the other clients of the registry | `pipeline.py`, `challenger_worker.py` |
| `HoldingMaturity` | the ladder of holding stages | `holding_maturity.py` |
| `KnowledgeStore` | findings and their verification | `institutional.py` |
| `KnowledgeWork` | EXTENDS it: planned verification tasks and those who run them | `verification_work.py` |
| `PaperTrading` | decision cycle, gates, fills, ledger, delivery | `orchestrator.py`, `exposure.py`, `order_guard.py`, `volume.py`, `paper_execution.py`, `trade_ledger.py`, `delivery.py` |
| `FirmWeek` | both clocks, compute governor, dispatches | `weekly_clock.py`, `research_clock.py`, `compute_governor.py`, `firm_runtime.py` |
| `TradeOutcomes` | outcomes of trades and their store | `outcomes.py`, `outcome_store.py` |
| `FirmAnalytics` | performance and equity curve, as functions | `performance.py`, `capital_growth.py` |
| `FirmHealth` | the monitor and the policy's reading of it, as functions | `firm_health.py`, `priority_policy.py` |
| `FirmGrowth` | EXTENDS these three and `WeekendBrief`: the firm judged by its outcomes | the same |
| `ExpansionRoadmap` | the order of specializations, as functions | `expansion_roadmap.py` |
| `WeekendProtocol` | windows of the weekend's experiments, as functions | `weekend_protocol.py`, `walk_forward.py`, `campaign_evaluator.py` |
| `HistoricalArchive` | staged chunks and their way into Drive | `archive.py`, `google_drive_archive.py` |
| `*Proofs` | their theorems, in eight modules: `KnowledgeProofs` is about `KnowledgeStore` and `KnowledgeWork`, `ResearchPipelineProofs` about `StrategyRegistry` and `ResearchPipeline`, `FirmGrowthProofs` about `FirmGrowth` and the four modules it extends | |
| `MC*` | values of constants for TLC | |

PROJECT.json maps every definition to its lines.  A definition whose first line
ends in `\* mutant of D` is not part of a model: it is D with a plausible bug,
with which the properties are shown to be able to fail.

### Conventions

An action is one SQLite transaction, one read in a connection of its own, or one
call of foreign code (handler, broker, mail).  Whatever a method does between two
of them is part of the action before.  A method's frame is a set of functions of
the process that runs it (`pc`, `job`, `verdict`; `call`, `target`, `evidence`;
`cycle`), and they are cleared where the frame is gone: a return, an exception
that nobody catches, or a crash.  A row that does not exist yet is `"absent"`.

### ResearchTaskGraph and ResearchRuntime

`status`, `attempts`, `priority` are the columns; `evidence[t]` is the row of
`research_results`, reduced to the attempt that wrote it.  `claim_next` scans in
the order (priority, created_at, id), which is `Before`; on its way to the first
runnable row it marks rows blocked, and a row it marks counts for the rows after
it.  `ScanBlocks` says so without a loop: B is the one set that contains a
scanned row exactly if one of its dependencies was lost before the scan or is in
B and came before it.

A worker's path is off → policy (↔ reprioritize) → claim → prepare → handle →
put → finish → commit, with `fail` for what `run_once` catches.
`FinishRaises` is the subtle part of the code: an exception while succeeding goes
to the `except` of `run_once`, which then calls `fail()` on a task that may
already be SUCCEEDED; `fail()` notices and raises.  A failed task makes
`run_once` return None and so ends the heartbeat.  The policy visits its snapshot
in any order (the code's order depends on priorities it is changing), and may
choose any priority: which one is `FirmHealth`'s subject.

`TaskLifecycle` has no workers, no priorities and no connections: a task is
created, started, recorded, succeeds, fails or is given up in single steps.
`Lifecycle == INSTANCE TaskLifecycle` in `ResearchRuntime` maps it by name, and
`ImplementsLifecycle` says that every step of the detailed system is a step of
it or invisible.

### StrategyRegistry

Each of `register_founder`, `promote` and `reject` is a check and a write with
anything of other clients in between; `create_challenger` is one step, because
all it reads of the parent never changes.  The transaction of `promote` retires
every champion, updates by id alone, and inserts a `promotions` row whose primary
key makes a second promotion of the same strategy roll back.  `comparison` is not a column: it is the
`ChallengerEvaluation` a caller holds on to, and through which
`CampaignPromotionGate` opens two of the five gates.

### ResearchPipeline

The module extends the registry, whose clients go on while `plan` runs: they
found, compare, promote and reject, and only `plan` creates challengers.  A brief
(`WeekendBrief`) is a performance, a robustness and a regime; its hypotheses decide
how many challengers a call makes.  `create_challenger` runs once per hypothesis,
then `_enqueue_chain` once per stage; the version name is a function of the champion
and an index (`Version`), and UNIQUE.  A `ValueError` for a taken name ends `plan`.  A storage exception in the middle of `plan` leaves
the same tables as a crash, and is covered by `Crash` and `Restart`.

### HoldingMaturity

`record` has four outcomes: `Catastrophe`, `Demote`, `Progress`, `Qualify`.  The
sliding window is kept as a sequence because the verdict on it counts; money is
an integer.

### KnowledgeStore

`verify` is four steps: read the finding, upsert the row, read all rows and apply
`status_for`, replace the finding.  A rate is compared in percent without
division.  Scope and age, which only make `usable_for` return less, are left
out.

### KnowledgeWork

`plan` chooses desks other than the source when the roster names enough of them,
and replications otherwise; every `graph.add` is a step, and the planner may die
between two, which leaves the first tasks behind.  A client takes a task and calls
`verify` as in `KnowledgeStore`; that the queue gives a task to one client at a time
is `ResearchRuntime`'s `ExclusiveOwner` and taken from there.  A task whose call died
is run again.

### PaperTrading

A cycle: dispatch, signal (abstain or propose), review, fill, append, delivery.
The positions are read once, in `Review`, and kept in the report as `seen`: that
is how a property can say later against what a fill was weighed.  `Requested` and
the broker's volumes are integers; a broker whose step does not fit its minimum is
included.  The ledger's hash is a record of the previous hash and the report, so
it is injective by construction, which stands for the collision resistance of
SHA-256.  `Raise`, `AppendRaises`, `DeliverRaises` are the calls that may raise
and where the exception leaves the cycle.

### FirmWeek

Time is an hour of a week in the firm's time zone; the phases and modes are
functions of it.

### TradeOutcomes, FirmAnalytics, FirmHealth, FirmGrowth

An outcome is recorded once, at any time after it closed; `InClosingOrder` is the
ORDER BY of the store: a row's place is one more than the number of rows that are
`Earlier`.  The summaries are variables of `FirmGrowth` only so that
TLC works them out once per state: each step computes them from all outcomes, as the
code does.  Prices are chosen so that every R is an integer, drawdowns are compared
as fractions.  `Firm` turns summaries into the levels, from good to worse, that
`FirmHealth` judges; the measures that do not come from outcomes change freely.
`FirmHealth` states what the monitor concludes and, word by word, what the policy
finds in its reasons.

### ExpansionRoadmap and WeekendProtocol

Functions without state.  A roadmap is the sequence of its nodes; a history is the
set of the times of its bars, and every window the seeded choices may take is taken.
Their properties are assumptions of `MCFirmGrowth` that TLC evaluates for every small
input before it starts that run.  One of them, `GapEndsProtocol`, records a weakness: a
window of another symbol with a few bars, fewer than a walk needs, raises and ends the
whole protocol, while one with none is skipped.

### HistoricalArchive

A chunk goes through open, close, digest, verify, one step per folder name and
upload.  A file is what it holds: nothing complete, all of one chunk, a mixture of two
writers, or something rotten; a digest is equal exactly when the content is.  A folder
is its parent and its name, so Drive may hold two alike.  Every API call may raise, and
a creation or an upload may succeed with its answer lost, after which `put` is called
again.  From the moment it is written a file may go bad, before its digest, before a put
and under one (`Rot`).  `put` reads the file twice: `Verify` compares it with the
manifest (`google_drive_archive.py:27`), and `Upload` reads it again (`:121`) after the
account call and the folder calls, and stores what is there by then.  `spoiled` is a history
variable: it remembers the chunks whose file changed under the put that had verified it.
No step depends on it.

## 3. The runs

Passing runs (distinct states, time with two workers):

| run | configuration | states | what it shows |
|---|---|---|---|
| `research_faults` | `MCResearchFaults` | 1 145 096, 75 s | a join of three tasks, two workers, crashes, restarts and database errors at every call: one owner per task, inputs always there, settled for a reason and for ever, and the whole is a `TaskLifecycle` |
| `research_chain` | `MCResearchChain` | 45 039, 25 s | a chain of three tasks, the last without a handler, no crashes and no database errors: no task is left RUNNING without a worker, and every task settles |
| `programme` | `MCResearchPipeline` | 244 637, 45 s | two successive champions, two clients beside `plan`, crashes: one champion, earned, never restored by a stale promotion, a firm that is led, no challenger of a plan that was not killed without its chain, and a plan that collides has made nothing |
| `holding` | `MCHoldingMaturity` | 118 203, 25 s | every sequence of trades on three stages |
| `knowledge` | `MCKnowledgeWork` | 628 585, 60 s | one finding's verification planned twice, for peers or replications, by a planner that may die, and run by two clients that may die |
| `paper` | `MCPaperTrading` | 1.74 million, 100 s | two desks, one ledger, moving positions, calls that raise |
| `firm_week` | `MCFirmWeekly` | 42 336, 20 s | every hour of the week, every load |
| `firm_growth` | `MCFirmGrowth` | 10 976, 55 s | every way to record three outcomes, in time or late, with every other measure coming and going; the pure modules over all small inputs |
| `archive` | `MCHistoricalArchive` | 2 982 253, 110 s | two chunks of one or two partitions, in one second or two, staged, put and put again while files go bad at any moment: what is uploaded was verified, or changed under its put, and lies under its partition |

Runs that end in a violation, each of one statement the repository makes:
`research_crash`, `paper_lifted`, `knowledge_lost_update` (section 7).

What each property says of the code:

* `ExclusiveOwner`: overlapping heartbeats never execute the same task.
* `InputsReady`: a started task finds its dependencies succeeded and their outputs
  stored, although queue and results fail independently.
* `SettledHasReason`: SUCCEEDED has the output of its last attempt, FAILED used
  every attempt, BLOCKED lost a dependency.
* `RunningHasWorker`: `run_once` strands nothing (without crashes and database
  errors).
* `ImplementsLifecycle`: refinement of `TaskLifecycle`; neither status nor output of
  a settled task is ever rewritten, although no UPDATE is guarded by the status.
* `EveryTaskSettles`: every pending task is settled in the end.
* `AtMostOneChampion`, `TitleIsEarned`, `NobodyReignsTwice`:
  the check and the write of a promotion may lie arbitrarily far apart.
* `FirmIsLed`: a firm that was founded has a champion at every moment, as long as
  nobody rejects a strategy that somebody else is promoting: that overlap is excluded by
  its hypothesis (section 7 has what it does).
* `NoOrphanChallenger`, `CreatedIsResearched`: challengers and chains agree
  between two calls of `plan`, and each challenger's chain is completed, but for
  those of a champion whose plan was killed, which both exempt.
* `CollidingPlanMadeNothing`: a call of `plan` that finds a version taken has made no
  challenger itself, whatever earlier calls made, were killed in, or would have made from
  a brief with more or fewer hypotheses; so the exception leaves nothing half done, and
  what a crash left behind is not added to.
* `LadderHasNoGaps`, `RungBelowStands`, `AuthorityIsEarned`: resets and demotions
  in any order keep authority sound.
* `PeersValidate`: a usable finding was answered by enough desks that are neither
  its source nor replications, in spite of repeated plans, lost updates and dying
  calls.
* `PlannedWorkSuffices`: undisturbed, the tasks of one plan for peers are enough to
  validate or reject the finding.
* `UndisturbedReflectsEvidence`: without overlap and death, the status is what
  the rows earn.  It says nothing of a call that dies between the row and the finding.
* `ChainVerifies`, `DecisionsAreAudited`: the ledger verifies and contains what
  cycles returned.
* `FillsAreWeighed`, `FillsRespectLimit`: no fill without a computed exposure,
  none that takes a currency beyond the limit by the positions its review saw.
* `OutageNeverFailsCycle`: a cycle that raised recorded nothing, for desks whose
  mail is off or has its credentials.
* `PhasesInOrder`, `ResearchRecurs`: the week turns as documented, research is
  granted capacity again and again.
* `WorseIsNeverMilder`: when nothing gets better and something worse, no judgement
  gets milder, whichever words the reasons gain or lose.
* `LossesAreRemembered`: an outcome recorded in time takes back no drawdown and no
  breach of capital preservation.
* `RuinHalts`: a firm that lost everything is halted from then on, although the trade
  that took the last of it is never measured as a drawdown.
* `DrawdownIsAnswered`: the cut after `maximum_challengers` never falls on the
  hypothesis that answers a drawdown.
* `UploadsAreVerified`: a put, the first or a repeated one, uploads what the manifest
  describes unless the file changed after that very put had verified it; and where
  chunks of a partition were staged in different seconds, that is the chunk and nothing
  else, or the rubbish its file was at the time of the digest.
* `FiledUnderPartition`: every file lies under its partition's names, whatever folders
  interrupted puts left behind.

Each module has one type invariant; those of `PlanTypeOK` (no chain longer than its
stages), `WorkTypeOK` (no desk is asked to vote as a peer for its own finding) and
`FirmGrowth!TypeOK` (no priority the queue would refuse) say more than types.

## 4. Bounds

| bound | value | why it is enough |
|---|---|---|
| tasks | 3, as a join and as a chain | a join makes one task depend on two that different workers run; a chain makes blocking spread, with the middle task failing and the last without a handler. The proofs are for any tasks and any dependencies |
| workers | 2 (1 in `research_crash`) | every race is between two frames on one row; proved for any number |
| attempts | 2, 1, 1 | a retry and a last attempt both occur |
| `MaxQuota` | 1 with failures, 2 in the live run | 2 lets one heartbeat go from one task to the next |
| priorities | 50 and 90, or 50 | the policy turns the order around, against age; the priority only chooses which runnable row is claimed first, so liveness is checked with one |
| strategies, clients | 4, 2 | founder, two rivals and a descendant; two overlapping calls. Ids run out, so the run may stop: `CHECK_DEADLOCK FALSE` |
| challengers, stages | 2 of the founder, 1 of its successor; 2 | a crash between two inserts, a plan for the next champion while the first one's challengers are there, and a chain with a middle. The cut after `MaxChallengers` occurs in one of three briefs. The proofs are for any number |
| holding | 3 stages, `Target` 2, `Window` 2, wins and losses of one, `MaxTrades` 3 | demotion from the top, the middle and the bottom; the window both fills and slides. `MaxTrades` stops only the counting of further trades at a stage |
| knowledge | 1 finding, its own desk and two others, `MinPeers` 2, 67 percent, one time | one vote of three decides. `verified_at` has one value: overlapping calls differ in rows, not in times |
| planning | `MaxPlans` 2, two replications, rosters that are empty, too short, repeat a desk or name the source | a plan that was cut off, and another with a different mode. `required_verifications` and `min_peer_verifications` are both 2, their defaults: they are configured apart, and with fewer required than the store asks for a plan would not suffice |
| paper | 2 desks, 2 trade ids, one pair and one symbol that cannot be parsed, 2 positions, limit 3 | two concurrent appends; a position that is at the limit already and one that makes the exposure unknown. Trade ids are symmetric; each id is used once, so a desk that has none left aborts or abstains |
| paper volumes | requested 3, minimum 1, step 4, maximum 4 | rounding down loses volume, rounding up would pass the limit; the minimum is no larger than the request (the other case is `paper_lifted`) |
| week | 168 hours | thresholds are whole hours, sub-hour times behave as their hour. Daylight saving only moves UTC, the code converts before it compares. A weekday's backtest window ends at midnight, the default |
| governor | 1 and 4 workers | 1 shows that halving does not round to nothing |
| growth | three trades that can be closed and two that cannot, three exits, two closing times, 20 percent risk | R from -6 to 6 in units of 20 percent reaches caution, halt and ruin within three trades, so does a recovery; two closing times make every order of recording and closing |
| health | all levels of all measures; five task types; two words | one word of each group the policy looks for |
| roadmap, protocol | two styles, two sectors, one symbol, two slots; histories of 0 to 10 bars, a week of four | a sector without symbols, every subset of qualified slots; every pattern of gaps in the history |
| archive | two chunks, two partitions of two names, one of them the same in both, two seconds, 5 folders, one kind of rubbish | two chunks in one second or not, in one folder or two; both partitions have room, with a folder made twice. Seven names, as in the code, are more of the same loop. With no room left a put can only raise: `CHECK_DEADLOCK FALSE`. The proofs are for any partitions and any rubbish |

## 5. Fairness

`ResearchRuntime!Fairness`: a running heartbeat goes on (weak), since Python does
not stop between two statements; a dead process is restarted (weak); and every
scheduler fires, again and again, a heartbeat with capacity (strong).  The last
is what `FirmWeek!ResearchRecurs` establishes of the governor unless the machine
is under pressure for ever; strong, because a heartbeat can only fire between two
others of the same process.  Which handler outcome or which task is chosen is not
fair: a handler may fail every time.

`ResearchPipeline!FairPlanSpec`: a call of `plan` that is under way goes on (weak) or
its process dies; nothing is assumed of the other clients.  `SurvivalSpec` adds that a
dead process is restarted and `plan` is called again, and is only used to show what
even that does not repair (section 7).

`FirmWeek!FairSpec`: time passes (weak) and the scheduler keeps firing heartbeats
(strong).  Nothing is assumed of the machine's load or of trading.

`EveryTaskSettles` speaks of runs in which processes stop dying in the end; that
is a hypothesis of the property, not of the system.

## 6. Proofs

All theorems are proved with the constants arbitrary, from the assumptions named
in the modules, and checked to the last leaf.

**ResearchRuntimeProofs.**  Inductive invariant `IInv`: `TypeOK`, `ExclusiveOwner`
and `SettledHasReason` are not inductive alone.  Two workers on one task could
each invalidate what the other has checked, so one needs that whoever executes
holds a RUNNING row (`HoldsRunning`), with the one exception the code has: a worker
whose success was committed although the call raised is about to call `fail()` on
a SUCCEEDED task.  What `_finish` is about to write must still be right when it is
written (`VerdictStands`); the counter and the status belong together
(`AttemptsCounted`); a started task keeps its dependencies succeeded
(`StartedOnSuccess`, from which `InputsReady` follows); `PolicyHasTask` types the
frame of `set_priority`.  From it:

* `TypeCorrect`, `OwnerIsExclusive`, `SettledWithReason`, `InputsAlwaysReady`:
  with any crashes and database errors;
* `QueueImplementsLifecycle`: the refinement, one lemma per action: a claim maps
  to `Start`, a scan without a claim to `GiveUp`, `Put` to `Record`, a commit to
  `Succeed` or `Fail`, everything else stutters.  What both claims need of a scan is stated once
  (`ScanResult`): `ScanGivesUp` derives from it that whatever is marked blocked has
  lost a dependency by the end of the scan;
* `SettledForEver`: no step of the life cycle leaves a terminal status, so it
  follows from the refinement;
* `NoTaskIsStranded`: without crashes and database errors.

**ResearchPipelineProofs.**  First the registry, for registries with one founding client
(`OneFounder`; with two it is false, section 7).  `Founded` says that a founder is
inserted into a registry that is still empty; `CandidatesHaveParents` separates
founders from candidates; `CallStands` says what survives between check and write:
the target is registered, has a parent, and the evidence is complete.  From it
`TypeCorrect`, `OneChampion`, `EarnedTitle`, `GroundedLineage`, `OneReignOnly`.
`FirmStaysLed` needs no assumption on founders: what it needs instead (`Led`) is that a
strategy about to be rejected is no champion, which is an invariant of those steps
before which nobody rejects what another client promotes.

Then the programme, with one founding client again.  The invariant of
the registry is joined by `PInv`, which follows the two loops of `plan`.  Its core is
`MadeInOrder`: the challengers of a champion are made in order, whichever calls made
them, so a name that is taken is found at the first one or never, and a call that
collides has made nothing.  `Creating` and `Enqueueing` say what a call has done up to
its index, and `AccountedFor` that every challenger without its chain belongs to the
call that is under way or to a champion whose plan was killed.  From it
`ProgrammeTypes`, `OrphansOfTheKilledOnly` and `CollisionsLeaveNothing`.  The lemma
`ProgrammeUsesTheRegistry` carries what is proved of the registry over to the programme:
`PlanNext` is put together from the registry's actions.

**HoldingMaturityProofs.**  The two shape properties are inductive together:
`LadderHasNoGaps` gives a demotion a rung to land on, `RungBelowStands` says
that what loses its graduation is on probation.  `TypeCorrect`, `NoGaps`,
`RungsStand`, `EarnedAuthority`, for every ladder, window and policy.  The sum in
the probation test is never expanded: the argument holds for any verdict.

**KnowledgeProofs.**  Of the store: `OthersValidate`.  A stale update can be written
after rows have changed; `UpdateEarned` says that the outsiders it was computed from are
still there, because rows are overwritten but never removed.  `StoreTypeCorrect` has one
hard part: the time of the last confirmation is the largest of a set, so the set must
not be empty.  `Stored` says that a call finds its own answer when it reads the rows
back.  `UndisturbedShowsEvidence` is an implication between temporal formulas: an
invariant is proved of the steps that stay undisturbed, and the history of disturbance
never turns back.

Of the planned work: every step of planner and tasks is one of the store or leaves it
alone (the lemma `WorkUsesTheStore`), so the store's theorems hold of it.
`OnlyPeersValidate` adds what the store cannot know: a row that counts as a peer's was written under the
identity of a desk, because a replication's task never says `peer`.  `WorkTypeCorrect`
rests on `Busy` and `Assigned`: a call under way runs a task, and verifies what that task
says.  `OnePlanSuffices` counts.  The peers that `plan` chooses are the candidates with
the smallest ranks; ranks leave none out (`RanksAreTaken`), so as many are chosen
as are asked for (`EnoughAreChosen`); `PlansCount` carries that number through the loop of
`add`, during which the planner may die, to the return, and `AnswerInv` says that what
was answered is still in the table.  Enough answers of outsiders leave `status_for`
nothing but a verdict.

**HistoricalArchiveProofs.**  `UploadsVerified`, for any number of chunks, partitions and
seconds and whenever files go bad.  Its invariant has two parts: `Traced` follows a file
that no other chunk shares from its writer to the digest, and `Checked` says that under a
put the file is what was verified or is known to have changed.  A shared file stays shared
(`SharedStays`), which is why a step on one file disturbs no chunk that has another
(`ChangeStep`).  `FiledWhereItBelongs` and
`TypeCorrect` follow from `FInv`: a folder is always younger than its parent, so its path
exists and never changes (`PathsStay`), and a put stands in a folder
whose path is as much of its partition as it has walked (`StandsAt`), whether it found
that folder or made it a second time.

**PaperTradingProofs.**  `LedgerVerifies`, `AuditedDecisions`, `WeighedFills`,
`RaisedCyclesLeaveNothing`.  The
chain is inductive with `RecordedOnce`, which needs that ids are owned by one
cycle (`IdsAreOwned`) and recorded by its append only (`RecordedInOrder`);
`ReviewedBeforeFill` carries the review's verdict to the fill.  For the last theorem,
`RaisedIsLost` says more than the property: the id of a cycle that raised is not in the
ledger and nobody holds it any more, so that no later append can record it.

`FilledWithinLimit` assumes that a decision asks for at least the broker's minimum.
`paper_lifted` shows that it is needed: a smaller volume is lifted to the minimum after
the gate.  With it a fill is at most what was asked for (`RoundedDown`), and less of a
volume that was within the limit is within it too, or on the way back to it
(`PartialFill`); `FillInv` says that what was reviewed is what is filled.  `TypeCorrect`
assumes that the broker's minimum is not above its maximum, without which it would
accept no volume at all.

**FirmWeekProofs.**  `TypeCorrect`, whose substance is that half of one worker is one
(`BudgetGrants`), and `PhasesFollow`, for every setting of the hours in which Sunday's
validation starts before its trading, as the code's defaults do (14:00 and 16:00,
`weekly_clock.py`).  Otherwise there is no hour of validation and the phases skip it.

**FirmGrowthProofs**, for any number of trades, exits and times.

* `TypeCorrect`: every kind of research gets a priority that `add` accepts.
* `WorseNeverMilder`, if the elevated base is at least 16 above the normal one; the code
  has 50 and 70.  The one judgement that gets milder on its own is the boost
  for "capital" in the words of a healthy firm, and 16 is what it is worth.
* `DrawdownAnswered`, if a weekend may keep four challengers, the code's default: three
  other hypotheses may come before the one that controls a drawdown (`AmongTheFirst`).
* `LossesRemembered` and `RuinIsHalted` rest on `Drawn`: the summaries are those of all
  outcomes in closing order.  `InTimeComesLast` says that an outcome recorded in time is
  appended to that order, so that its step is one more turn of the loops
  (`SummariesGoOn`).  What is left is arithmetic: fractions are compared by
  multiplication (`FractionsCompare`), a drawdown only gets deeper (`DeeperIs`), and a
  breach stays one (`BreachStays`).

**Induction over data.**  The summaries, the sums of exposures and the paths of folders
are recursive functions, and the library's induction theorems take a predicate as a
parameter, which the provers cannot instantiate.  Its theorem that `<` on the naturals is
well-founded takes a set instead.  From it follows that every nonempty set of numbers has
a smallest one (`SmallestNumber`); applied to the set of numbers at which a statement
fails, this is induction for that statement (`StepByStep`), and it also gives that the
recursive functions exist at all (`PassExists`, `SumsExist`), which TLA+ does not take
for granted.

**Only model-checked.**  Liveness (`EveryTaskSettles`, `CreatedIsResearched`,
`ResearchRecurs`), which rests on fairness and so on ENABLED.  The functions of
`ExpansionRoadmap` and `WeekendProtocol`, which have no behaviour: TLC evaluates their
properties for every small input.  The statements of section 7 are refuted, not proved; two of
them show what happens without a theorem's hypothesis: `MCRegistryTwoFounders` without
one founding client, `paper_lifted` without a volume that reaches the minimum.

## 7. Disagreements between code and documents

Listed as findings, each with a run that TLC ends in a violation:

| run | property | the repository says | the code |
|---|---|---|---|
| `research_crash` | `EveryTaskSettles` | `pipeline.py:35-36`, `task_graph.py:47`: tasks survive process restarts | a task that was claimed by a process that died stays RUNNING for ever, and what depends on it PENDING; nothing looks for such rows |
| `paper_lifted` | `FillsRespectLimit` | `volume.py:7`: normalization does not increase risk | a volume below the broker's minimum is raised to it, after the portfolio governor reviewed the smaller one |
| `knowledge_lost_update` | `EvidenceGated` | `institutional.py:180`: evidence-gated knowledge | of two overlapping `verify`, the one that saw fewer rows may write last: a finding stays VALIDATED that its rows reject |

More that configurations here reproduce, kept beside the listed runs
(`tlc -config <cfg> <module>`); each ends in a short counterexample:

| configuration | module | property | where |
|---|---|---|---|
| `MCResearchStranded` | `MCResearchRuntime` | `RunningHasWorker` | `claim_next` commits and then reads the row back; if that read raises, the task is RUNNING and its worker never got it. `executor.py:124` says the worker boundary must not strand RUNNING tasks |
| `MCResearchReprioritize` | `MCResearchRuntime` | `OnlyPendingReprioritized` | `set_priority` checks and then updates by id; a claim in between gets its priority changed. `priority_policy.py:13-15` calls such tasks immutable to the policy |
| `MCRegistryTwoFounders` | `StrategyRegistry` | `AtMostOneChampion` | `register_founder` checks for emptiness in another connection (`strategy_registry.py:63-64`) |
| `MCRegistryPromoteReject` | `StrategyRegistry` | `ChampionKept` | a `reject` that was checked before a promotion rejects the new champion (`strategy_registry.py:127-132`) |
| `MCRegistryStaleComparison` | `StrategyRegistry` | `ComparedWithPredecessor` | evidence of a comparison with a former champion opens the gates (`promotion_gate.py:13-14`) |
| `MCPipelineSurvives` | `MCResearchPipeline` | `ResearchSurvivesRestarts` | after a crash inside `plan` the next call collides with the version it left (`challenger_worker.py:69-76`) |
| `MCPaperMail` | `MCPaperTrading` | `NotificationNeverFailsCycle` | missing credentials raise a `RuntimeError` (`config.py:58-68`, through `delivery.py:36`) that `_deliver` does not catch (`orchestrator.py:170-176`) |
| `MCFirmManualResearch` | `FirmWeek` | `ManualResearchRuns` | `firm_runtime.py:79-81` does not refuse the trading phase, the weekend service (`weekend.py:68`) does |
| `MCFirmHealthy` | `MCFirmGrowth` | `HealthyFirmReordersNothing` | the one reason of a healthy firm contains "capital" (`firm_health.py:127`), a word the policy boosts economic work for (`priority_policy.py:46`) |
| `MCFirmLateOutcomes` | `MCFirmGrowth` | `EvenLateOutcomesRemember` | the analyzers sort by closing time (`performance.py`, `outcome_store.py:81`): a win that closed early and is recorded late can make an earlier drawdown vanish, and a halt with it. No document forbids it |
| `MCArchiveSameSecond` | `MCHistoricalArchive` | `ManifestsAreTrue` | file names are whole seconds (`archive.py:63`): a second chunk of a partition in the same second overwrites the first, whose manifest then describes the other's records. `archive.py:47` calls the chunks immutable |
| `MCArchiveCheckToUse` | `MCHistoricalArchive` | `CopiesMatchManifests` | `put` verifies the file (`google_drive_archive.py:27`) and reads it again (`:121`) after the account call and up to fourteen folder calls: what changed in between lies in Drive under the old checksum. No document forbids it, and a later `verify` of the copy would find it |

## 8. Not modelled

* Floating-point arithmetic: the returns of experiments, the cost model of
  `CampaignEvaluator`, `research/factors.py`, the thresholds of
  `ChallengerEvaluator.compare` and of the signal engine, and the metrics of
  `performance.py` nothing decides on.  Verdicts are free choices where a model uses
  them.
* `intelligence/kronos_*`, the MetaTrader terminal, SMTP and Google Drive: external;
  what matters of them is that a call may raise or the world may move.
* Contents: payloads, configurations, texts of reports and hypotheses.
* `trading_risk_multiplier` is computed by the monitor and read by nothing else, so
  there is no behaviour that HALT has on trading to be checked.
* Closing of paper trades: no code of the repository closes one; `from_report` is
  called by tests only.  `FirmGrowth` closes them freely.
* `knowledge/research_bridge.py`, the stage handlers and the notices of the roadmap:
  stateless construction of records and texts.
* Findings that are published with another status: `publish` stores whatever status its
  caller passes (`institutional.py:218-224`).  The repository's one producer leaves the
  default, OBSERVED, and so does `KnowledgeStore!Publish`.
* Two processes that plan at once: nothing in the repository calls `plan` yet, and
  `ResearchPipeline` gives it one caller, which may die and come back.  Two callers could
  make the challengers of one champion between them, and each find a name taken later than
  at once.
* Seeds, payloads and scopes of verification tasks: they decide what a task computes,
  not who may answer.
* The queue under `KnowledgeWork` and `ResearchPipeline`: only that tasks are added,
  and answered once at a time, matters there; the queue itself is `ResearchRuntime`.

## 9. Plan

Done, in this order: the queue and its executor, since every other part of the
research department goes through it; registry, ladder, store and decision cycle, each
alone; then what composes them (`ResearchPipeline`, `KnowledgeWork`, `FirmGrowth`), the
archive and the pure parts; then the theorems, and last those that need induction
over data.

What is left:

1. The functions of `WeekendProtocol` and `ExpansionRoadmap` as theorems: that windows do
   not overlap for a history of any length, and that breadth comes before depth in a
   roadmap of any size.
2. Closing of paper trades, once the code has it, between `PaperTrading` and
   `FirmGrowth`, feeding `HoldingMaturity`.

To keep the set of runs small, new parts join an existing configuration where they
share its question.

## 10. How to run

    tlc -workers 2 -config MCResearchFaults.cfg MCResearchRuntime
    tlapm ResearchRuntimeProofs.tla
