# Verification of the energy market agent

TLA+ specifications of `src/` (package `energy_agent`), the TLC configurations that check them on
small instances, and theorems about them that TLAPS proves for every value of the constants.
Paths below are relative to the repository's parent: `agent.py` is `src/src/energy_agent/agent.py`.

1. [The system](#1-the-system)
2. [Modules](#2-modules)
3. [Runs](#3-runs-and-what-they-show)
4. [Fairness](#4-fairness)
5. [Proofs](#5-proofs)
6. [Where the code and its documents disagree](#6-where-the-code-and-its-documents-disagree)
7. [What is not modelled](#7-what-is-not-modelled)
8. [Plan](#8-plan)

## 1. The system

A FastAPI service answers questions about the Australian electricity market. It plans calls to
market, evidence and battery tools, executes them, and answers with a status, a list of call
records and a trace. One image runs `uvicorn --workers 1` (`Dockerfile`), one compose service with
`restart: unless-stopped`, beside Elasticsearch and Redis (`allkeys-lru`). The handlers are plain
functions, so FastAPI runs them on a pool of threads: requests do run concurrently, in one process.

| component | state | operations | hard behaviour | what makes it correct |
|---|---|---|---|---|
| **EnergyAgent** (`agent.py`) | per run: plan, futures of the stage, recovery in flight, records, results, states | plan; run four stages of a DAG; collect each future with a timeout; recover each failed call once; derive a diagnosis from a detected event; settle the status | pool workers that outlive their timeout, late answers, recoveries, budgets | no call runs outside its stage; one result per call; a stage waits for the recoveries of the one before; every attempt leaves a record; "completed" means it |
| **Trace cache** (`agent.py`) | a locked `OrderedDict`, two counters | `_store_trace`, `get_trace`, `trace_stats` | eviction at the capacity, concurrent lookups | bounded, least recently used first, no uncounted eviction |
| **Trace service** (`api.py`, `metrics.py`) | the cache, the Redis client, metrics | `query`, `trace`, connect at startup | Redis fails, expires or evicts; the process restarts; requests interleave between `run` and `get_trace` | an answered trace is durable; no false 404; each run counted once |
| **Conversation memory** (`model_agent.py`) | an unlocked `OrderedDict` of conversations, a lock per conversation, the constraints, texts and summaries of each | `state`, `begin_turn`, `constraints_for_mode`, `record_results` | lookups, inserts and pops of different conversations interleave | turns of a conversation exclude each other; memory is bounded and only of its own turns; the windows over texts, constraints and summaries agree |
| **ModelDrivenAgent turn** (`model_agent.py`) | queue of calls, seen signatures, budgets, records, results | plan on three paths, hybrid guard, execute, derive a diagnosis, replan, settle the status | a model may propose anything, at any failure; three budgets cut the loop | no success repeated; replacements follow failures and respect the DAG; "completed" means it |
| **Evidence releases** (`evidence.py`) | Elasticsearch indices and an alias, which outlive the process | `ensure_index` at startup, fallback to the local index | a crash or failed call between any two requests; rollbacks | a process that searches Elasticsearch reaches all of its release and nothing else |
| **HTTP startup and health** (`api.py`) | clients, index or fallback | wiring, `/healthz`, `/metrics` | dependencies down at startup | degraded, not dead |
| **Planner providers** (`providers.py`) | - | three clients, `_validated_calls` | malformed or unsafe calls | only registered tools with valid arguments, at most the limit |
| **Tool registry** (`tools.py`, `schemas.py`) | - | validate, execute one tool | which tools raise, answer nothing, or cite | as-of rules, settlement |
| **Battery dispatch** (`battery.py`, the handler in `tools.py`) | signal, state of charge, charge, discharge, settlement | choose the price signal; plan with the MILP (SciPy) or the threshold rule; settle on realised prices; compare with the oracle | any price in any interval; the forced tail meets the rule's own trades; missing data at each step | power, energy and terminal limits; no charge and discharge at once; the oracle is not beaten |
| **Local retrieval and fusion** (`evidence.py`, `composite_evidence.py`, `multimodal.py`, `workbook_evidence.py`) | - | BM25, LSA, reciprocal rank fusion, diversification | ties, duplicates | deterministic order, no lost hit |
| **Snapshots, forecast** (`snapshots.py`, `forecast.py`) | files | as-of lookup | data from after the origin | nothing later than the as-of time |
| **Market data jobs** (`scripts/ingest_*`, `repair_*`, `validate_*`, `finalize_*`, `merge_dispatch_periods.py`) | data files, manifests and reports in shared directories | ingest day by day, repair one day, validate the coverage, reconcile the manifest, ingest the history, merge periods | jobs killed within a write or between two, resubmitted, overlapping; archives that miss, shift or repeat rows | "complete" means an unbroken grid of the requested length; a manifest is about its data |
| **Out-of-time evaluation** (`evaluate_real_market.py`, `evaluate_decision_weighted.py`, `evaluate_chronos2_bess.py`, `evaluation.py`, `foundation_forecast.py`) | per fold: models, scores, selected policy, schedules | split, fit, calibrate, emit intervals online, select, plan, settle | missing rows against lags and blocks that count rows; windows at the edge of the data | nothing is computed from a price of its own future |
| **Sharded evaluation** (`merge.py`, `merge_*.py`, the evaluations as array jobs) | a directory of results per region | run a region, merge all | a rerun at another commit that is killed half-way; an input replaced meanwhile | merged results are of one commit |
| **Promotion gates** (`evaluation.py`, `ensemble_gate.py`, `llm_evaluation.py`, `summarize_*.py`, `evaluate_llm_agent.py`) | selections, settled results, verdict | select on calibration days, settle, judge | ties, baselines chosen in hindsight, rates of what was not run | what is promoted earned it |
| **Market store** (`market.py`), **other evaluation** (`claim_verification.py`, ...), **CLI**, **other scripts** | files | offline computation | - | - |

How they interact. `query` calls `EnergyAgent.run`, which ends in `_store_trace`, then reads the trace
back with `get_trace` and writes it to Redis; `trace` looks in the cache, then in Redis.
`model_query` calls `ModelDrivenAgent.run_turn`, which takes the conversation's lock, calls
`begin_turn`, runs the turn, and calls `record_results`. Both agents share the tool registry, the
deterministic plans (`EnergyAgent._plan`) and the alternate call of a failed one
(`_recovery_call`). At startup the service calls `ensure_index` and falls back to the local index
if anything raises.

The offline part meets the service only through files. The market jobs write the data that the
service and the evaluations load; an evaluation runs as one job per region, a merge joins the
results, and a gate decides whether its candidate (a forecast weighting, a risk policy, a foundation
model, the model-driven agent) is promoted. Nothing locks these files: what keeps them apart is
the order of submission, hashes and counts in manifests, and the exit codes of the jobs.

## 2. Modules

```
Workflow ----+-- EnergyAgent -- MCEnergyAgent          OrderedDict --+-- TraceCache -- TraceService
             |       `- - refines - - CallLedger                     `-- ConversationMemory
             `-- Planner -- ModelTurn -- MCModelTurn                        `-- MCConversationMemory
                                                       EvidenceRelease -- MCEvidenceRelease
                                                       BatteryDispatch -- MCBatteryDispatch
offline: MarketIngest -- MCMarketIngest                WalkForward -- MCWalkForward
         ShardedEvaluation -- MCShardedEvaluation      PromotionGates -- Promotion -- MCPromotion
proofs:  EnergyAgentProofs         EnergyAgent, CallLedger
         TraceServiceProofs        TraceCache, TraceService
         ConversationMemoryProofs  ConversationMemory
         ModelTurnProofs           Planner, ModelTurn
         OfflineDataProofs         EvidenceRelease, MarketIngest
         DispatchProofs            BatteryDispatch, WalkForward
         EvaluationProofs          ShardedEvaluation, PromotionGates, Promotion
         DataLemmas                Ordering, OrderedDict and finite sums
```

**Ordering** is `sorted` and the list comprehension that keeps some entries: `InOrder(S)` are the
numbers of a finite set in order, `EntriesAt(s, S)` the entries of `s` at the positions `S`. `Planner`, `WalkForward`
and `PromotionGates` extend it. They are no `RECURSIVE` operators, which could not be proved about.

Two components share a proof module where they are about the same data or decision. The
specification of the second has a prefix then (`IngestSpec`, `WalkSpec`, `PromotionSpec`), so that
no name is defined twice.

**Workflow** is what the two agents share: a call is a tool, an argument value and a retrieval mode;
`WorkflowTools` is the plan of each workflow; `RecoveryCall` changes the modality of a search and
repeats any other call; `Outcomes` says which tools may answer without data. An argument is a
model value: only whether two calls have equal arguments matters.

**EnergyAgent** is one call of `EnergyAgent.run`. Its actions are the steps of three kinds of
process. The thread of `run`: `PlanCall`, `PlanDone`, `PlannerRaises`; `Submit`, `SkipStage`,
`Diagnose`, `SkipDiagnosis`; `Collect` and `CollectTimeout` (one future each, in the order of
submission); `Join` (`pool.shutdown(wait=True)`); `RetrySubmit`, `RetryTimeout`, `RetryCollect`
(the recovery pool of one worker); `StageDone`; `Respond`. The pool's workers: `WorkerStart`,
`WorkerReturn`. The recovery's worker: `RetryReturn`. `progress` is what the loops over
`pending` and `failed` know of each call, `worker` the state of its future: a call may be
"failed" for the one and still "running" for the other. Time is abstracted: a timeout may strike
whenever the future is not done.

**CallLedger** is the abstract specification of a run: calls are owed, attempted once or twice in
stage order, and the run closes with everything settled. Threads, futures and records do not
occur in it. `EnergyAgent` implements it under the mapping `Ledger` (property `KeepsLedger`).

**OrderedDict** is the key order of a `collections.OrderedDict` as a sequence.

**TraceCache** has one action per locked operation, and a log `uses` of the traces stored and
found, over which `LeastRecentlyUsed` defines what an LRU cache of a given capacity holds.
**TraceService** composes it with the request threads (`Begin` ... `SetEx` are the statements of
`query` between which other threads may run), the readers (`ReadLocal`, `ReadRedis`), Redis
(`RedisDrops`, failing calls) and `Restart`.

**ConversationMemory** has one action per operation on the unlocked dict in `state` (`Check`,
`Insert`, `Bound`, `Pop`, `Touch`, `Fetch`, `KeyError`) and one for each of the steps of
`begin_turn` and `record_results`. CPython executes each of these dict operations atomically; a
thread switch may occur between any two. Of the constraints, the regions are modelled with their
values, because a "replace X with Y" text computes them from older ones; the dates stand for all
others, which a text simply overwrites. A view holds the constraints themselves, values and sources.
`HorizonsAgree` compares them with the texts that are shown: a constraint is seen exactly if a shown text
gives it, the latest one is its source, and the regions are those of that text. A text that replaces a
region is the exception it states: its regions may come from turns that are not shown, so that
the stronger `WindowIsClosed` does not hold (section 6).

**ModelTurn** is `_run_turn_locked`: `PlanTurn` (with `HybridGuard`), then one action per way an
iteration of the loop may go (`SkipRepeated`, `Execute`, `GiveUp`, `Replan`, `ReplanRaises`), then
`Finish`. A turn executes one call at a time, so an iteration is one step. What a model proposes
is any of `ModelPlans` and `Replacements`, of which **Planner** (`_validated_calls`) keeps the
valid calls among as many as are asked for. `Scope` gives the region and window of an argument
value.

**EvidenceRelease** is `ensure_index`, one action per request to Elasticsearch, the crashes between
them (`Stop`), failing calls (`CallFails`, `BulkErrors`) and the next start with any release. A
release is its set of chunks; the index name is a digest of them, so releases with different
documents have different indices. A bulk request that stops half-way leaves any subset.

**BatteryDispatch** is the `optimize_battery_dispatch` tool: `FromActuals`, `FromSnapshot`,
`FromHistory` or `NoSignal` choose the prices to plan on; `Optimise` is the MILP, or
`StartThreshold`, one `ThresholdStep` per interval and `EndThreshold` the threshold rule; then
`AnswerPlan` or `Replay`. What can be missing at each point (`CannotPlan`, `CannotReplay`) makes the
tool raise. The MILP is delegated to SciPy: it is modelled by what it is asked for, any schedule of
`Optimal`, the feasible ones of best margin. Energy is counted in the store and money in a unit in
which the square root of the round trip efficiency, 1/k, drops out, so that both planners are
exact in integers. The MILP bounds differences of states of charge by integers, so an optimum
exists among integer schedules and its margin is the true one. A forced share is the integer part
of an even share, and all that is missing in the last interval: the grid of an instance is a step
of energy, and on a fine enough grid the shares are exact. The code's floating point, with the
tolerances of the solver, is abstracted to exact arithmetic.

**MarketIngest** has the six scripts of the market data and the nine files they share. `Job` is a set of
submissions, any number of each script (`Script`), and nothing keeps two of them apart, of one
script or of two. A job is a sequence of steps, one for each read or write another job may come
between: `IngestOpen`, `IngestDay`, `IngestDayFails`, `IngestClose`, `IngestManifest`; `RepairOpen`,
`RepairClose`, `RepairOfTorn`, `RepairFails`, `RepairManifest`; `Validate`, `Report` (a step of the
ingest's and of the repair's script, and a job of its own); `Reconcile`, `ReplaceManifest`; `HistoryOpen`,
`HistoryClose`, `HistoryManifest`; `MergeOpen`, `MergeClose`, `MergeManifest`. Jobs are submitted in any
order (`Submit`), and `Kill` ends one at any step, or within a write, which leaves a torn file.
Both ingests remove their directory when they start (`Emptied`), as their batch scripts do, whoever still
writes in it. The data files are written from `Opens`, which truncates, to `Closes`; what is in a file that two
jobs had open together is the rows of one of them or a mixture of both, which is torn. A job's `hold` on
its file says whether another one opened it since; `alone` copies it into a manifest, where the
code has no such field, to state what holds of undisturbed jobs. A hash stands for the content it is
of, and a job takes it from the file under the shared name, not from the rows it wrote. The hash and the
manifest it goes into are one step: an overlap that begins between the two is one the claims leave out
anyway. A record has an interval, a region, an intervention flag and perhaps a price; `Archive` and
`Monthly` are what the server may answer. `repair_time_axis_v2.sbatch`, which repairs
into files of its own, and the validation of the history, whose report nothing reads, are left out.

**WalkForward** is one evaluation of a region. Prices and models are represented by their
sources, the set of intervals whose prices they were computed from; so a leak is a source that
lies in the future of its use, and a statistic of any kind is modelled by what it reads. The features count rows
as `features` does, not hours: a missing interval shifts them. `Emit` is one step of the online
intervals, `Plan` makes the schedules of all test days of a fold.

**ShardedEvaluation** is the array of region jobs over directories that are not emptied (`Submit`,
`HashInput`, `Load`, `WriteMetrics`, `WriteDaily`, `WriteManifest`, `Kill`), `ReplaceInput`, and the
merge (`MergeStart`, `MergeShard`, `MergeDone`) with the checks of each of the three merging scripts in
`Admissible` and `Consistent`. Jobs of different regions overlap; a region is submitted again only when its job is
over. Nothing in the scripts enforces this (the output directory is fixed, and
`evaluate_decision_weighted.py:291` seals what is under the name of the metrics): what is shown is of kills and
reruns, not of two jobs of one region at a time, whose results and manifests could mix.

**PromotionGates** has the selections and the gates as operators on whole numbers: sums stand for
means of series of one length, and a fraction is multiplied out. **Promotion** are the studies that
feed them: `Select`, `Settle`, `SettleChronos`, `Judge` for those by region, `RunTurn` and
`JudgeAgent` for the agent's. What a model earns is drawn from a scale of margins; a bootstrap
bound is anything between the worst and the best of its sample.

The `MC*` modules only give constants their values. Definitions whose comment begins "Seeded
fault" are variants of the definition that follows them, with a plausible mistake in it; no
specification uses them. They show that each property can fail: put in place of the original,
each makes TLC find the property named in `PROJECT.json` ("mutants") violated.

## 3. Runs, and what they show

Passing runs. Where a service has nothing left to do, an explicit stuttering disjunct (`Finished`,
`Quiet`, `Ended`, `Done`) says so, and deadlock is checked. In `ingest` and `promotion` it is not: there
the jobs and the studies just end.

| run | instance | distinct states | properties |
|---|---|---|---|
| `agent` (`Agent.cfg`) | every workflow, plain and visual, with 2 and 5 calls allowed, and five plans only a provider makes; pool of 2 | 467 000 | `NoStrayWorker`, `OneResultPerCall`, `StageBarrier`, `LedgerComplete`, `CompletedIsSound`, `EveryRunEnds`, `KeepsLedger` |
| `trace_service` (`TraceService.cfg`) | 3 requests, 1 reader with 2 reads, capacity 2, 1 restart, Redis configured | 2 900 000 | `CacheBounded`, `EvictionLedger`, `LeastRecentlyUsed`, `AnsweredIsDurable`, `CountedOnce`, `NoFalseMiss` |
| `memory` (`Memory.cfg`) | 2 threads, 2 conversations, a memory of 1, 4 turns, windows of 2, 4 kinds of text | 896 000 | `OneTurnAtATime`, `MemoryBounded`, `MemoryIsSourced`, `HorizonsAgree`, `EveryTurnEnds` |
| `model_turn` (`ModelTurn.cfg`) | every workflow on three paths, 3 and 7 calls allowed, 6 steps, 2 replans, 1 repeated call, 6 answers of a model to plan and 6 to replace | 2 030 000 | `NoRepeatAfterSuccess`, `RetriesFollowFailures`, `FollowsDag`, `CompletedServes`, `NothingDisplaced` |
| `evidence_release` (`EvidenceRelease.cfg`) | 3 releases over 3 chunks, two of the same size; unbounded crashes and restarts | 12 900 | `ServingIsComplete`, `FallbackIsExplained`, `FilledIndexIsKept` |
| `battery` (`BatteryDispatch.cfg`) | 3 batteries, 3 prices, windows of 0, 1, 4 and 5 intervals where 4 is the longest, a tail of 2 | 268 000 | `ScheduleIsPhysical`, `TerminalErrorBounded`, `RatingRespected`, `RegretIsSound` |
| `ingest` (`MarketIngest.cfg`) | 3 days of 2 intervals, 2 regions; a day may be whole, shifted, uneven, unpriced or have an intervention; up to five submissions of four mixes, in which two ingests, repairs, histories or merges overlap | 532 000 | `CompleteIsGrid`, `ManifestCountsItsData`, `MergedIsUnique` |
| `walk_forward` (`WalkForward.cfg`) | 4 protocols, 23 days of 3 intervals, 11 patterns of missing rows | 1 000 | `SelectionIsBlind`, `IntervalsAreOnline`, `SchedulesSeeNoFuture` |
| `shards` (`Shards.cfg`) | 3 evaluations, 2 regions, 2 commits, 2 inputs, one region run twice | 71 000 | `SealedMergeIsOneCommit` |
| `promotion` (`Promotion.cfg`) | 5 studies, 3 regions, 2 calibration days, 3 turns on the paths and modes chosen | 5 830 000 | `PromotionNeedsSelection`, `PromotedBeatsBaselines`, `AgentPromotionIsEarned` |

Bounds, and why they are enough:

- `MaxToolCalls = {2, 5}` (agent): 5 lets the longest plan run whole, with its derived diagnosis; 2
  cuts it inside a stage, and lets the diagnosis meet an exhausted budget. A pool of 2 is smaller
  than the first stage of a decision replay (3 calls), so that a queued call may time out before it
  starts; with the pool of 4 of the code, no plan of at most four calls per stage queues.
  `MCQuestions` keeps one workflow for the plans of a provider, which do not depend on it.
- `Capacity = 2` with 3 requests (trace service): the newest trace may be evicted by two others
  while its request is between `run` and `get_trace`, and a read may save the oldest.
- A memory of one with two conversations, each with a thread: each insert makes an eviction due, so
  the threads can meet between the bound and the pop and empty the dict; the proofs cover any
  number of threads. `Requests` gives one thread every text and memory mode on one
  conversation, and the other one text on either, so that the two also queue for a conversation.
- Four turns with a window of two: the window leaves a turn behind and keeps two.
- A window of four intervals with a tail of two: the rule trades freely before the tail and against
  it inside. The batteries: without losses and able to cross its range in the tail; with losses;
  and too slow to reach its terminal state, for which the MILP is infeasible. Windows of 0 and 5 intervals
  fail. The proofs cover every battery, window and tail.
- `MaxSteps = 6` is below the 7 calls that the larger budget allows, so each of the budgets is the
  one that ends some turn.
- `ingest`: one day of history and two of the daily ingest, the second of which is repaired, so that a
  repair retains a day and replaces one. Days of two intervals can lose one, gain one and be
  shifted by one, with the counts of every day still right (`Uneven`, `Early`), which is what tells a
  grid from right counts. The jobs submitted are those of one of the `Mixes` of `MCMarketIngest` (a state
  constraint, `SubmittedAsMixed`): an ingest with a gate, two repairs and a reconciliation; two ingests with a gate;
  the two periods with two merges; two histories. The two of a script may overlap, follow one
  another, or remove what the other one wrote. Two jobs of one script differ in their name only, so the first is submitted first. The
  proofs cover any set of submissions.
- `walk_forward` has no choice but the protocol, the gap and the selection, hence few states. The gaps lie in
  the training, calibration and test rows, at both ends, and across a window's border; one leaves a
  season without a window. Three intervals a day with a short window of two keep the order of the
  lags (1, 12, 288) apart.
- `shards`: a single rerun is enough to leave two runs in a directory; two regions tell one
  commit from another.
- `promotion`: margins 0, 19, 20 and tails 10, 11, 12 lie on, within and beyond the tolerances of five and
  ten per cent; three regions with two required keep a minority and a majority apart. The agent's
  episodes have a turn of each need; its thresholds are those of `llm_agent_promotion_gate_v1.json`.
- Two releases of the same size in `evidence_release`: a count alone does not tell them apart.

Violations (`expect: violation`) are in section 6.

## 4. Fairness

- `EnergyAgent!FairSpec` is `Scheduling` (the thread of `run` and the pool's free workers get to
  run: Python threads are scheduled by the operating system) and `ToolsEnd` (a tool answers or
  raises in the end). `ToolsEnd` is an assumption about the tools, which the code does not enforce:
  `HangSpec` drops it, and then the run need not end (section 6, `HardTimeout`).
- `ConversationMemory!FairSpec` has weak fairness of each thread's next step. A thread that waits
  for a `threading.Lock` is only promised progress by the bound on the number of turns: with
  endless turns of others, CPython's lock promises no order. So `EveryTurnEnds` says that no
  path, exceptions included, leaves a conversation locked; it is not a claim of bypass-freedom.
- The other specifications have no fairness: only safety is stated of them.

## 5. Proofs

All proofs are checked by TLAPS for every value of the constants that satisfies the named
assumptions of the modules (`WorkflowAssumption`, `AgentAssumption`, `QuestionsAssumption`,
`PlannerAssumption`, `TurnAssumption`, `CacheAssumption`, `ServiceAssumption`, `MemoryAssumption`,
`ReleaseAssumption`, `DispatchAssumption`, `IngestAssumption`, `WalkAssumption`, `ShardAssumption`,
`PromotionAssumption`); TLC evaluates the same assumptions in the runs. Every safety property of a
passing run is a theorem, and so are its action properties and the refinement; each inductive
invariant below was first checked by TLC on the instance of its run.

**DataLemmas** - what several components need of their data. Induction comes as `SetInduction`, for a *set* of
naturals, by the pigeonhole principle: the successor would map a finite set into itself, one to one and not onto.
From it follow `InOrderSorts` (sorting a finite set of integers), `LeastExists`, `EntriesAtKeeps`,
and with `PartialSums` what a fold over a function sums to (`SumsCompare`: term by term no less, so
no less in all). For `OrderedDict`: `move_to_end` permutes, `popitem` removes, an insert adds.

**EnergyAgentProofs** - any plans, pool size, budgets. `AgentInv` joins `TypeOK`,
`NoStrayWorker`, `OneResultPerCall`, `CompletedIsSound` with what makes them
inductive: which calls a batch may hold at each stage, that calls of stages to come are untouched,
that those of stages gone are settled. `StageBarrier`, which follows, alone is not inductive: it says nothing of a
stage that has not begun, which the next `Submit` makes it speak of. `RecordsAreComplete`
(`LedgerComplete`) rests on an invariant of its own: at every step the records of each attempt and outcome
are as many as the calls whose progress says so (`Balanced`), so that at the end no attempt is
unrecorded or recorded twice. `AgentKeepsLedger`: every step of the agent maps to a step of
`CallLedger` or to a stutter.

**TraceServiceProofs** - any number of requests, readers and restarts. Each operation of the cache keeps
`CacheInv` (bounded, injective, and evictions + entries = traces issued). `ServiceInv` adds
`StoredAfterRunning` (a request is past "running" exactly when its trace was issued), without
which `CountedOnce` is not inductive: the counter moves with the request, the set it counts with
the cache. Theorems: `TypeCorrect`, `CacheStaysBounded`, `EvictionsAccounted`,
`AnswersAreDurable`, `QueriesCountedOnce`, and the action property `NoMissIsFalse`.
`EvictsTheLeastRecentlyUsed` shows that the cache holds what an LRU cache over the whole log of
uses would: `RecencyInv` orders the cache by last use and puts whatever was evicted before all of it.

**ConversationMemoryProofs** - any finite set of threads, any texts. `LockInv`: a thread inside the lock holds
it, holders are inside, and a thread about to insert a conversation does not find it in the dict
(only a turn of that conversation inserts it, and it has the lock); hence `TurnsExclude`. `BoundInv`
counts the threads in the eviction loop; hence `MemoryStaysBounded`. `MemoryInv` adds two parts.
`Sourced`: the state of a conversation accounts for all its turns, or, while its
thread is between appending a text and extracting from it, for all but the last; hence `ConstraintsAreSourced`.
`Viewed`: the view a turn was given is still that of the state it will record into; hence
`WindowsAgree`. Both need the lock: without it another turn could append in between. `Sourced` also says of the
regions that they are those of the text they are attributed to, or of a replacement's, those of turns up to it
(`AsTold`); so what is proved of a planner's view is about values and not only about source numbers, and
says where the values stop being those of the texts shown.

**ModelTurnProofs** - any answers of the model, any budgets, all three paths. `TurnInv` has a part for each property:
`SuccessIsSeen` (a call that succeeded has its signature in `seen`), `RetryAtHead` (a second attempt waits only
at the head of the queue and right after the failure it replaces, and each one was paid for from the replans),
`QueueFollowsDag` (what waits is in DAG order and after what was done), `PlannedInScope` (a first attempt is in the
scope of a call of the deterministic baseline), `DeterministicFits` (what is done and what waits are within the
budgets). Theorems: `TypeCorrect`, `NeverRepeatsASuccess`,
`EveryRetryFollowsAFailure`, `CallsFollowTheDag`, `CompletionServesTheBaseline`, `NothingIsDisplaced`.

**OfflineDataProofs**, evidence releases - any set of releases with finite, non-empty documents.
`ReleaseInv` says for each place in `ensure_index` what the alias and the index hold (after
`SwitchAlias` the alias is this release alone; a filled index stays filled), and that no index
holds a chunk of another release. Theorems: `ReleaseTypeCorrect`, `ServesItsRelease`,
`FallbackExplained`, `FilledIndicesStay`.

**OfflineDataProofs**, market data - any archive, any submissions, overlaps and kills. `ValidationIsUnbroken`, `HistoryIsGrid` and
`MergeIsUnique` show that the counts the jobs compute tell what they are taken for: with as many rows as the grid has places,
none of them twice and none outside, every place is filled. The validator is told how many days, not which: what it
calls complete is an unbroken run of that length, and `UnbrokenIsGrid` makes it the grid of the requested
days if the rows lie on the days of their archives. `HistoryIsGrid` holds only if there is a
day of history at all, which the model had left open until the proof asked for it.
`IngestInv` says what each file may be (`FileOK`, `ContentOK`), what each job holds at each of its steps
(`JobOK`), and that a job which has had its file to itself since it opened it finds its own data there when it hashes it
(`SoleOK`). `OpensKeeps` and `ClosesKeeps` are where an overlap shows: an open takes the sole hold from everyone
else who has the file, so `SoleOK` says nothing of them any more. Theorems: `IngestTypeCorrect`,
`CompleteDataIsTheGrid`, `ManifestsCountTheirData`, `MergesAreUnique`.

**DispatchProofs**, battery - any batteries, prices, windows and tail. Lemmas on one step of the rule
(`StepIsPhysical`, `LastStepEnds`, `TailStepWithinReach`), on the schedules of the MILP
(`FeasibleIsPhysical`) and on even shares (`ShareWithinReach`). `DispatchInv` adds to the properties
`Progress` (how many intervals each stage has planned), `EndBounded` (the terminal error is bounded
as soon as the last interval is planned) and `TailReach`: in the tail, what is left to move
can be moved at rated power in the intervals left, if the battery is well sized. Without it
`RatingRespected` is not inductive: a share is within rated power only because the steps before it
kept the target within reach. `RegretInv` adds `Accounted`: a schedule is the differences of its own states of
charge, and an optimum for the prices it was planned on. So the schedule of the rule, where it is feasible, is among those
the oracle was the best of (`OracleIsBest`). `Windowed`: what is planned is as long as the window
that was asked for, so a settlement adds up whole schedules. Theorems: `SchedulesArePhysical`,
`TerminalErrorIsBounded`, `RatingIsRespected`, `RegretsAreSound`, `DispatchTypeCorrect`.

**DispatchProofs**, out-of-time evaluation - any days, gaps, folds and window lengths. The source of a feature, a residual, a
context is in the past of its row (`FeaturesArePast`, `ResidualsArePast`, `ContextIsPast`): a window of *rows* before a
row is before it in time, whatever is missing. Windows begin and end with days (`FoldsAligned`), so whatever
is before a test window is before each of its days. `PathsAreDays`: blocks of as many rows as a day has are
days if no row of the days is missing, and the
evaluation that selects on blocks takes complete days only. `WalkInv` says of each step what was computed so far and from what
(`FoldOnline`, `ChosenBlind`, `EmittedOnline`, `PlannedOnline`). Theorems: `WalkTypeCorrect`,
`SelectionsAreBlind`, `EveryIntervalIsOnline`, `NoScheduleSeesTheFuture`.

**EvaluationProofs**, shards - any regions, commits, inputs, reruns and kills. `ShardInv` adds to
`TypeOK` and the property: `Written` (a job past its results has written them, at its own commit), `Sealed` (a
manifest names the commit of the results it seals, wherever these are by now) and `Taken` (what
the merge has taken so far is of the commit it was asked for). `SealedMergeIsOneCommit` alone is not
inductive: it says nothing of the shards a merge still has to read, and those directories may
well hold new results under an old manifest; what `Admissible` compares is the seal, and `Sealed` is what makes
that enough. Theorems: `ShardTypes`, `SealedMergeIsOneCommitAlways`.

**EvaluationProofs**, promotion - any margins, days, regions, candidates, baselines and thresholds. The lemmas take each
gate apart: `EnsembleNeedsSelection` and `RiskNeedsSelection` (a region that selected no candidate settles as a tie, and a tie
cannot carry a gate), `GainsAddUp` and `ChronosBeatsBaselines` (what beats the hardest baseline in sum beats each), `GateIsEarned` (a rate
above its threshold has a turn behind it, of the need it is the rate of). `PromotionInv` says what is
settled before the verdict. The first form of `AgentPromotionIsEarned` asked of a replan need that the turn ended with success;
the proof failed, for good reason: the gate's replan rate counts results after a replan, and only on small
instances is that turn also successful. Theorems: `CalibrationSelects`,
`PromotionBeatsEveryBaseline`, `AgentsEarnPromotion`.

What stays with TLC. The liveness properties `EveryRunEnds` and `EveryTurnEnds`, since liveness
under fairness is out of this prover's reach; that each property can fail at all, which the seeded faults
show; and the claims of section 6, which do not hold. The type invariants are theorems (in `Promotion`,
`StudyTyped` and `SettledFairly` of `PromotionInv` stand for one); the runs leave them out and spend
their time on the other properties.

## 6. Where the code and its documents disagree

Two are defects, each with a run that TLC must find violated:

| run | property | what it shows |
|---|---|---|
| `memory_keyerror` | `StateIsFound` | `ConversationMemory.state` runs under the lock of its own conversation only. Another conversation's turn may evict the entry between the membership test and `move_to_end`: `KeyError`, a 500. |
| `evidence_partial` | `EnsureIndexIndexes` | `ensure_index` takes an index that exists for a filled one. After a crash between the create and the end of the bulk request, every later start of that release moves the alias to the partial index, finds the count wrong and runs on the local index, though no call of its own fails. |

In the others a document, or the name of a field or a file, says more than the code does. Each is stated as a property of its module
that does not hold, and that no run has as an invariant; adding it to the run's `.cfg` shows the
counterexample.

| module | property | what does not hold |
|---|---|---|
| `EnergyAgent` (under `HangSpec`) | `HardTimeout` | The comment at `agent.py:264` speaks of hard timeouts. The timeout of a future ends the wait for its result; `pool.shutdown(wait=True)` (`agent.py:329`), and the `with` block of a recovery, then wait for the tool itself. A tool that hangs is recorded as "timeout" and the run is never answered. |
| `EnergyAgent` | `MissingToolInsufficient` | `docs/SYSTEM_CARD.md:32`: missing required tools produce `insufficient_evidence`. The required tools are taken from the plan after it was cut at `max_tool_calls`: a decision replay with three calls allowed is "completed" without its dispatch. |
| `ModelTurn` | `WindowEnforced` | `docs/LLM_AGENT_PLANNER_MEMORY_EVALUATION.md:15`: the hybrid runtime enforces the temporal window. `_hybrid_guard` does for the first plan; the replacement of a failed call is only filtered by tool (`model_agent.py:423`). |
| `BatteryDispatch` | `TerminalEnforced` | `battery.py:276`: the threshold baseline enforces the terminal state. It spreads what is missing over the last twelve intervals but still trades in them, the last one included: a last price at or beyond a threshold leaves the schedule off the terminal state, by at most one interval at rated power (`TerminalErrorBounded`). |
| `ConversationMemory` | `WindowIsClosed` | `docs/LLM_AGENT_PLANNER_MEMORY_EVALUATION.md:34`: without memory, prior constraints are deliberately unavailable; `:36`: a window evicts older turns; the docstring at `model_agent.py:139`: only constraints that the selected memory policy may expose. A text that replaces a region computes the regions from those of turns of any age and attributes them to the current turn (`model_agent.py:192`): the planner is given regions of turns it is not shown, in `no_memory` too. |
| `MarketIngest` | `CoverageIsRequested` | A report that is complete need not be about the requested days. The validator compares their number (`validate_dispatch_coverage.py:83`), not the days: archives that all date an interval by its start give an unbroken run, shifted by one interval, and a complete report. |
| `MarketIngest` | `ManifestIsOfItsData` | The counts of a final manifest need not be those of the data whose hash it has. Of two repairs that overlap, each counts the rows it wrote itself (`repair_dispatch_gap.py:138`) and hashes what is under the name they share (`:140`). |
| `MarketIngest` | `FinalizedIsCovered` | The reconciliation compares the report with the manifest by counts and not by hash (`finalize_ingest_manifest.py:20`): a report about the unrepaired file, or an earlier repair, finalizes data that is no whole grid, though of the right size. |
| `WalkForward` | `PricesAreForSettlement` | `evaluate_real_market.py:208` and `:758`: realised prices are used solely for settlement. The schedule of a whole day is planned at once on forecasts whose features are prices of the same day, up to the last interval but one. |
| `WalkForward` | `ScenariosAreDays` | `evaluation.py:229`: complete calibration-day residual paths. With a row missing in the calibration window the blocks the risk policy plans with are no calendar days; those its selection uses are. |
| `ShardedEvaluation` | `MergeIsOneCommit` | Two of the three merges compare manifests only. A rerun killed before its manifest leaves new results under the old one, and they are merged. The seal of the third excludes it (`SealedMergeIsOneCommit`). |
| `Promotion` | `DeterministicWasRun` | `llm_agent_promotion_gate_v1.json:18`: the hybrid must exceed deterministic task success. A study whose `--paths` leave the deterministic path out takes that success as zero (`evaluate_llm_agent.py:208`). |

Also seen while modelling: a derived diagnosis is admitted against the
calls recorded so far, not those still planned, so a run may start `max_tool_calls + 1` calls
(`agent.py:397`); `query` answers 500 if other requests evict its new
trace before `get_trace` (`api.py:156`; `FetchEvicted` in `TraceService`); the forced share of the threshold rule is not capped at `power_mw`, so a
battery with losses or too slow for its range may be planned beyond its rating (`battery.py:309`;
`RatingRespected` says when it is not), and since such a schedule is not one of the MILP's, its
`oracle_regret_aud` may be negative (`tools.py:298`; `RegretIsSound` says when it is not).

## 7. What is not modelled

- Numbers: statistics of prices, forecasts (any prices in `BatteryDispatch`, their sources in
  `WalkForward`), retrieval scores, the CVaR program, metrics, bootstrap distributions. To the agents a tool is what it may answer: data, nothing, an exception, or never.
- Text: answers, citations' wording, logging, token usage, latencies. `_build_case` is abstracted to
  the workflow and the one argument value it derives.
- Two service processes starting at once: the image runs one worker, compose one service.
- `EvalFaultRegistry`, which makes a tool fail on purpose in the agent study: in `Promotion` what a turn
  comes to is drawn, faults or not. Retries within one download: a day fails or not.
- Two evaluation jobs of one region at a time (`ShardedEvaluation`).
- Side files of the offline jobs that no other job reads (provenance, errors, repair manifests).
- Redis and Elasticsearch are external: modelled by what the code may observe of them.
- On Windows the dispatch of both agents runs on the caller's thread; `Windows` is a constant,
  FALSE in the runs (the images are Linux) and arbitrary in the proofs.
- Components with status `not_modelled` in `PROJECT.json`, with their reasons.

## 8. Plan

Done first, because the rest of the service depends on it: the two orchestrators, the trace path,
the conversation memory, the evidence releases, the battery tool; then the offline pipeline: market data,
evaluation, merges and gates; then the theorems about all of them. Next, in this order:

1. **TraceServiceProofs**: an LRU cache of unbounded memory as an abstract specification, which `TraceCache`
   implements step by step; **OfflineDataProofs**: the action property that no job turns a final manifest into one that
   counts less than it says.
2. **Startup**: `/healthz` over the connections to Redis and Elasticsearch, composing
   `TraceService` and `EvidenceRelease`.
3. **EvidenceFusion**: reciprocal rank fusion and source diversification against reference
   definitions. **ForecastSnapshots**: the as-of lookup. One run each is not needed: they are pure, and share an
   instance. **ShardedEvaluation**: two jobs of one region at a time, as `MarketIngest` has them. **BatteryDispatch**: the CVaR dispatch, if a useful property of it is found.
