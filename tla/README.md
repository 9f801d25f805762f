# Specifications of trace_analyzer / rLLM

TLA+ modules of the concurrent core of this repository: the engines that roll
out agent trajectories against sandboxed environments and through the SDK's
proxy, the SDK tracer that persists LLM calls in the background, the way of a
training batch through the PPO trainers, and the collection of trajectories for
SFT and DPO, which survives being killed. The modules are checked with TLC on
small instances; every safety property they check is also proved with TLAPS, for
all values of the constants.

## 1. Inventory

| Component | State it keeps | Operations | What is hard about it |
|---|---|---|---|
| `SqliteTracer` (`rllm/sdk/tracers/sqlite.py`) | bounded `queue.Queue` and its `unfinished_tasks`, worker thread, its event loop | `log_llm_call`, worker coroutine with retries, `flush`, `close`, restart of a dead worker | three kinds of threads, unlocked `is_alive` checks, a loop stopped between two awaits, a counter `flush` relies on |
| Trajectory loop (`agent_execution_engine.py`, `run_agent_trajectory_async`, `_run_trajectory_tito`, `assemble_steps`) | tokens, masks, budget, steps, time left | reset, model call, env step, truncation, filters, reward, result | boundary cases of the budget, order of the exit tests, re-tokenization |
| Retries and executor (`run_agent_trajectory_with_retry`, `trajectory_generator`) | one coroutine per trajectory, semaphore, thread pool | attempts, timeouts, cleanup, dummy result | jobs go on in threads after their coroutine gave up on them |
| `SWEEnv` (`environments/swe/swe.py`) | `session`, `_closed`, the sandbox behind the session | `reset`, `step`, `compute_final_reward`, `close` | called by overlapping jobs of several attempts |
| `execute_tasks` of the engine | env/agent slots, index queue | slot hand-over, `finally` close | slot reused while an abandoned step runs |
| `AgentWorkflowEngine`, `Workflow` | queue of workflows; each keeps its agent, env and uid | `process_task_with_retry`, `run_with_termination_handling`, grouping of results, rows for training | a workflow goes back to the pool while a thread still works on it; episodes come in order of completion |
| `AgentSdkEngine` | rounds of a batch, semaphore, sessions | batch retry, flush, trace retrieval, episodes, rows | the next round starts while jobs of the last one still run and log; traces arrive in the background |
| `SqliteTraceStore` | sqlite tables | `store`, `store_batch`, queries | two tables written together |
| SDK sessions, LiteLLM proxy | context variables; HTTP process | enter/exit, metadata, flush endpoint | nesting across tasks |
| `MCPConnectionManager` (`environments/tools/mcp_env.py`) | shared manager, request queue, worker thread | start, stop, execute | failed start, requests behind a stop |
| Trajectory collection (`utils/collect`) | counters, caches, output parquet and two JSONL sidecars | launch, process, checkpoint, append, resume, cancel | kills between and inside writes, failing writes, tasks in flight when the target is reached |
| Warm pool prefetch, sandbox server (`utils/infra`) | pools; one shared session state | create, wait, scale; start, stop | partial failure; start racing stop |
| expdata server (`utils/expdata`) | sqlite database | CRUD, login | one shared connection |
| PPO trainers (`agent_ppo_trainer.py`, `agent_workflow_trainer.py`) | the batch: rows, masks, advantages | collect, reject, pad, split off last steps, broadcast, reshape, update | rows are cut and padded to the size of the worker group between steps that match rows by id |
| P2A bonus maps, other trainers, agents, parsers, rewards, tools, experimental code | - | - | numeric or text code, external services |

How they interact: the trainer calls the engine; the engine's coroutines submit
env methods to a thread pool and await the rollout engine; an env talks to the
ARL gateway through its session. The SDK engine runs agent functions whose LLM
calls go through the proxy, whose callback logs to the tracer; before it reads
the traces back from the store it asks the proxy to flush.

What makes each correct, in short: no trace is lost silently, held twice or
reported flushed before its store was tried to the end; no sandbox outlives its
trajectory and no more of them exist than the quota, save where the gateway
refuses a deletion; no workflow is lost and no episode holds another rollout's
steps, save after a timeout; an episode consists of the calls of its own
attempt; what trains was sampled, in its context, in its budget and under its
own prompt; a killed collection loses little, and of what it wrote nothing it
can read again; everything that began ends. `PROJECT.json` lists every hazard
met while reading, at its line, with the property that covers it or why none
does.

## 2. Modules

| Module | Models | Lines of |
|---|---|---|
| `TraceLog` | what the tracer promises: a trace is new, pending, stored, failed or dropped | abstract |
| `SqliteTracer` | the tracer in full; implements `TraceLog` | `sdk/tracers/sqlite.py` |
| `SdkBatch` | a batch of the SDK engine over the proxy; composed with `TraceLog` | `agent_sdk_engine.py`, `litellm_callbacks.py`, `sqlite_store.py` |
| `SweRollout` | a batch of trajectories, their retries, the executor's threads, `SWEEnv` and the sandboxes | `agent_execution_engine.py` 889-980, 231-513; `swe.py` |
| `RolloutLoop` | the data of one attempt: tokens, masks, rewards, exit reasons, in both loops | `agent_execution_engine.py` 26-74, 231-887 |
| `WorkflowPool` | a batch of the workflow engine: pool, retries, timeouts, abandoned jobs, order of results | `agent_workflow_engine.py`, `workflow.py`, `multi_turn_workflow.py` |
| `TrainBatch` | the rows of one training iteration in the agent and in the workflow trainer | `agent_ppo_trainer.py`, `agent_workflow_trainer.py` |
| `CollectRun` | collection to a target, with kills, restarts and failing writes | `collect_swe_trajectories.py` |
| `Lists` | `Select(s, T)`, the comprehension `[x for x in s if x in T]`, as a recursive function | - |
| `ListsProofs` | lemmas about lists that the other proofs cite | - |
| `SqliteTracerProofs`, `SweRolloutProofs`, `RolloutLoopProofs`, `SdkBatchProofs`, `WorkflowPoolProofs`, `TrainBatchProofs`, `CollectRunProofs` | theorems about the module each is named after | - |
| `MC...` | instances for TLC | - |

`SweRollout` and `RolloutLoop` are two views of an attempt: the first knows
threads and sandboxes and leaves the loop for a reason it does not look at; the
second knows why and with which tokens, and what becomes of an attempt that
raises is the first one's business. `SdkBatch` sees the tracer only through
`TraceLog`, by `Log == INSTANCE TraceLog WITH Traces <- Calls, Flushers <-
Rounds`; that `SqliteTracer` implements `TraceLog` is proved, so what `SdkBatch`
shows of the engine does not depend on how the tracer works inside. That what
`SdkBatch` does with these variables is a behaviour of `TraceLog` is proved as
well; it adds only that traces settle in the order of acceptance, which
`OrderHolds` proves of the tracer with one worker. Every
definition of a module stands for the lines `PROJECT.json` maps it to.

### SqliteTracer

| Spec | Code |
|---|---|
| `queue`, `unfinished` | `_store_queue` and its `unfinished_tasks` |
| `thread`, `loop` | `_worker_thread`, `_worker_loop`: the number of the worker they belong to |
| `wpc`, `item`, `attempt` | where each worker thread is, the item its coroutine holds, its attempt |
| `stopReq` | `_stop` is scheduled on the loop of that worker |
| `LogCheck`, `LogStart`, `LogPut` | `_queue_trace`: the liveness check, the restart, `put_nowait`; other threads run in between |
| `WorkerBoot`, `WorkerRun` | `_run_worker_loop`: the loop is published, then the coroutine and the loop start; a close in between closes a loop that does not run yet, and the worker dies of it |
| `WorkerGet` ... `WorkerExit` | `_worker_coroutine`, `_store_trace_with_retry`, the end of the thread |
| `RunStop` | the `_stop` callback; it can run only while the coroutine is suspended or ended (`Yields`), because `queue.get` blocks the loop |
| `Collect` | the collector closes a coroutine that a stopped loop abandoned, and its `finally` calls `task_done` |
| `FlushCall`, `FlushTrue`, `FlushTimeout` | `flush` |
| `CloseSentinel`, `CloseSchedule`, `CloseJoined` | `close` and `close_sync`, which do the same |

Two facts of the runtime are modelled as they are: `_worker_started` stays set
after the first worker, so `_start_background_worker` waits for nobody from then
on; and closing the loop of another worker that runs raises, which the code
swallows or logs, so only the field changes. `accepted` and `snap` are history
variables.

Abstractions: `store()` is one step that commits or raises. A write that is in
flight when the loop is stopped counts as not made (the connection's thread may
still commit it). A dead worker's `_worker_loop` read twice in one statement
sequence is one step unless a blocking call separates the reads.
`log_llm_call_sync` shares nothing with the queue and is left out.

### SweRollout

A coroutine (`cpc`) submits jobs to the executor and awaits them. A job is
`<<trajectory, attempt, operation>>`; `jpc` says how far its thread is, `hold`
which session it took from the env. `setting` is the engine's configuration,
chosen in `Init` for good: the overlong filter, `n_parallel_agents` (`slots`,
the semaphore's places and the executor's threads), `max_steps`, and whether
attempts reach their 7200 s (`cancels`). Cancelling the await cancels a job that
waits, which stays in the executor's queue until a thread drops it (`Start`),
and leaves one that runs to itself (`Leave`). `session`, `closed` and `sandbox`
are `env.session`, `env._closed` and what the gateway has behind the session of
each attempt. `close` sets `_closed` and takes the session in one step: nothing
blocks between its three assignments. A timeout while the model answers is an
`AttemptFails`: no job is involved; so is whatever raises after a job that went
well. A sandbox whose deletion failed is "stuck": `close` swallows the error,
and nobody tries again (`Refused`). `session.close()` only closes the client's
connection and is part of `Delete`.

### RolloutLoop

Tokens are `p` (prompt), `a` (sampled), `e` (environment, template) and `x`
(a sampled token that came back from re-tokenization as something else).
`Tito` selects the token-in-token-out loop. `EnvAnswers` is the whole tail of an
iteration: agent update, budget, the exit tests in their order, accumulation.
The env may reward any step, as the repository's multi-turn envs do; with
`sparse` it only rewards the one that ends the episode, as SWEEnv does.
`Deliver` is format check, close and result in Token mode. `Rendered` is what
tokenizing the assistant message again yields: the same tokens, or with `Drift`
a token fewer, another one, or two for one.

### SdkBatch

| Spec | Code |
|---|---|
| `round`, `epc` | the rounds of `execute_tasks`; gathering, flushing, reading the store |
| `pc`, `attempt` of a job `<<round, rollout>>` | `_process_task_with_retry` and the semaphore |
| `made`, `answered`, `open` | LLM calls: whose session, whose response the agent got, which the proxy has not logged |
| `accepted`, `status`, `asked`, `answer` | the tracer, as `TraceLog` sees it |
| `Hook`, `CallFails` | the success and failure callbacks of the proxy |
| `RolloutRaised`, `BuildFails`, `BuildsEmpty` | the three ways in which a round is given up (`NextRound`) |
| `Read`, `Deliver` | `get_by_session_uid`; episodes and `transform_results_for_verl` |

The first job that runs out of attempts ends its round, and the engine does not
cancel the others: they keep their place in the semaphore and go on logging
while the next round runs. Every attempt opens a session with a fresh uid, which
is what keeps their calls apart (the `since` filter of the store follows from
it). Calls of one agent are sequential and are numbered as they are made. That
the tracer settles traces in the order in which it accepted them is
`SettledInOrder` of `SqliteTracer`, which holds because the proxy never closes
its tracer. Tasks are numbered as they come and each is repeated in place, as
the trainer's `repeat(interleave=True)` makes it (`agent_sdk_trainer.py:211`):
`BatchAssumption` says so, and the order of the episodes rests on it. `kind` is
what the agent function returned and how steps are grouped: a reward (one
trajectory), steps grouped by a key, or step views. It is chosen when the engine
first looks at it. `MaxFaults` bounds what goes wrong in a batch: attempts that
raise, calls that fail or are given up, traces that are dropped, fail to be
stored or are malformed. A grouped episode has one group. What an
`execute_tasks` that raises leaves behind (the validation flag, an awake rollout
engine) is not modelled.

### WorkflowPool

`pool` is `workflow_queue`; `pc`, `wf`, `attempt` and `turn` are the coroutine
of a rollout; `job` is its job in the thread pool and `threads` the pool's
queue. `uid`, `steps` and `acted` are the memory a workflow keeps from rollout
to rollout: its uid, the steps of its agent, and who acted on its env. A job
that has a thread when its rollout times out goes on (`Abandoned`) on a workflow
that is already back in the pool. `view` is history: whether the workflow a
rollout holds was reset for it ("own"), was not yet ("old"), or was touched by
an abandoned job after the reset ("disturbed"). `PromptTooLong` is the
`TerminationEvent` of the rollout engine, raised instead of asking the model. A
rollout out of attempts raises or, without `raise_on_error`, returns its last
episode with reason ERROR. `Rows` says of each row under which task it stands,
whose episode it comes from and which rollout's answer it holds. `ResetWrites`
(uid and agents) and `ResetEnds` (env) are two steps because the reset of an env
blocks its thread, and others touch the workflow meanwhile. `Flaky` names the
rollouts whose model or env may raise; all of them may time out at any point.
`TaskIds` repeats each task in place (`PoolAssumption`), as the trainer's
`repeat(interleave=True)` does (`agent_workflow_trainer.py:182`); a trajectory
is named after the task at its position only because of this.

### TrainBatch

A row is one step of one trajectory with the fields that decide where it goes:
prompt, trajectory, step, whether it is the last one, whether it is padding, its
advantage, which the mean over an empty mask makes NaN, and whether a near
distance on the call graph reshaped it. The stages are those of `fit_agent` of
both trainers: `Generate`, `Reject`, `LogProb` (pad), `Split`, `Advantage`,
`BroadcastAdvantage`, `Reshape`, `FinalPad`, `Update`. The inputs are which
trajectories solved their task, which the filters masked, which end in an empty
answer (`silent`), how many steps each has and in which order they were
collected. The cut goes by the size of the actors' worker group (`actors`), the
padding by the least common multiple of all groups' sizes (`world`), as in the
code. `Grpo` is the reward
less the mean of its group, times the size of the group to stay an integer; the
division by the deviation is left out.
Per-step rewards are the outcome of the trajectory. The workflow trainer
collects prompts over several batches until it has enough, and draws from them
by lot; here this is one batch, and with fewer the iteration is skipped.

Left out: the runs without stepwise advantages, `mask_truncated_samples`,
`normalize_by_steps`, the critic, KL, the reward model and distillation.

### CollectRun

`sample_loop` runs on one event loop, so `_process_trajectory` is one step
(`Passed`, `PassedUnsaved`, `PassedDpo`, `FailedDpo`, `AppendRaises`,
`Dropped`) unless a kill catches it inside an append (`KillInAppend`). `up` is
where the loop is; `task` and `inst` are the asyncio tasks; `cursor` is the
cycle over the tasks; `collected`, `pos` and `neg` are the caches; `disk`,
`pairs`, `posFile` and `negFile` survive a kill. A sidecar is its whole lines
and a tail: nothing, a fragment, or a record that lacks only its newline, which
the next append completes or spoils. `Resume` reads back what `load` makes of
the files; an output parquet that cannot be read counts as none, and the next
save replaces it (`output`, a history variable, says whether the run knows the
rows in it). `PairUp` pairs the records of each instance (`OfInstance`), the
negatives in turn (`InTurn`). `MaxFaults` bounds the writes that raise `OSError`
in one run.

## 3. Runs

| Run | Instance | Shows |
|---|---|---|
| `tracer_closes` | 2 traces (one without session uids), queue of 1, 2 attempts, 1 flush, 2 closes, 2 workers, fair | `flush` answers True only when each earlier trace was stored or given up; custody; order; refinement of `TraceLog`; accepted traces settle; every close returns |
| `swe_batch` | 2 trajectories, 2 attempts; 2 slots with and without the filter, 1 slot with 2 steps, 1 slot with the 7200 s timeout; steps time out, deletions fail, fair | no leak and the quota, but for refused deletions; sessions; with the filter the reward runs alone; every trajectory ends |
| `swe_leakdoc` | 1 trajectory, the 7200 s timeout | a sandbox created after its attempt was cancelled leaks |
| `loop_both` | both loops, 3 steps, budget of 5 tokens, answers of 0 to 4, either limit, with and without the filter, training and validation, rewards at every step or at the end | budget, masks, format penalty, re-tokenization |
| `loop_maskdoc` | text loop with overlong filter | the filter's zero mask does not reach the result |
| `collect_crash` | 2 instances, target 2, 2 in parallel, checkpoint every 2 passes, 5 attempts, 3 starts, 1 failing write a run, outputs that cannot be read, both modes, fair | cost of kills and of torn appends, overshoot, pairs, the target ends the run |
| `pool_retry` | 2 rollouts of a task and 1 of another, 2 workflows and threads, 2 attempts, 2 turns, fair | no workflow lost, which episodes are their rollout's, rows under their prompt, every rollout ends |
| `pool_iddoc` | 2 rollouts of a task on 1 workflow, 1 attempt, 1 turn | two episodes of a batch have one id |
| `batch_rows` | 2 prompts with 2 trajectories of 0 to 2 steps, 3 arrival orders, an actor group of 2 or 3 and the others of its size or twice that, one trajectory that may be masked and one whose last answer may be empty, both trainers, both modes, with and without rejection | rows stay with their prompt, one advantage or where NaN comes from, when the KeyError comes, divisible batches |
| `batch_distdoc` | the same | a step is reshaped by the distance of another trajectory |
| `sdk_rounds` | 2 tasks, 2 attempts, 2 rounds, 2 calls of which one is overlong, 2 faults, fair | rows are of their own session, missing calls have a reason, the batch ends |
| `sdk_orderdoc` | 2 tasks, 2 calls, no faults | the last step of a trajectory is its first call |

Deadlock is not checked: every instance is a finite job that ends.

Bounds. Two attempts and two trajectories are what it takes for a stale job to
meet the next attempt, and for one trajectory to wait behind another's job, in
the executor's queue or, with one slot, at the semaphore. Two workers are what
it takes for a close to forget the loop of a worker it did not stop; that two
live ones share a queue takes a third, which is left to the proof
(`CustodyIsExclusive`). A queue of one fills with one trace or a sentinel. Three
steps and five tokens reach every exit of the loop with and without room,
exactly at the limit and beyond it. In `collect_crash` a target of two with an
interval of two is reached and overshot, one kill hits a run that resumed from
another, and the fault meets a fragment the kill before it left. Three rollouts
on two workflows make one rollout take over a workflow an abandoned job still
touches, and two of them share a task whose episodes are regrouped. Actor groups
of two and three divide four trajectories and do not, and cut rows of one task
apart; groups of twice that take what the actors' cut leaves, or not. Two rounds
(the code has three), two calls and two faults are what it takes for a job of
the first round to log a call into the second, while the flush of the second
fails. What `swe_batch` says of sandboxes and sessions holds without the 7200 s
timeout (`~setting.cancels`); with it `NoLeak` does not, which is `swe_leakdoc`.
Every trajectory ends in all of its settings.

Fairness. Threads that can run are scheduled by the OS, and sleeps, joins with a
timeout and waits with a timeout end: hence weak fairness of every worker step,
of `RunStop` (a callback of a loop that is in control runs before it waits), of
`CloseSchedule`, `CloseJoined` and the two answers of `flush`. Callers need not
call, and the collector need not collect. In `SweRollout` the event loop runs
every coroutine that can go on, the executor its queue, and every gateway call
returns: the client's calls have timeouts; since a batch has only finitely many
steps to take, weak fairness of `Next` says all of this. In `WorkflowPool` only
handing out a workflow and the timeout of a run are fair: neither the model nor
the env need ever answer. In `CollectRun` the event loop runs what is ready, and
the engine's timeouts end every trajectory. In `SdkBatch` an agent function
comes to its end, the model answers or fails, a flush has a timeout and a read
of the store returns; the tracer's worker need not go on.

## 4. Findings

1. An attempt cancelled during `create_sandbox` leaks its sandbox
   (`swe_leakdoc`, `agent_execution_engine.py:895`).
2. In Token mode of the text loop, a trajectory the overlong filter or the
   format check masks out is delivered with unmasked tokens (`loop_maskdoc`,
   `agent_execution_engine.py:478`).
3. The store returns a session's traces newest first and nobody sorts them, so
   `is_last_step` marks the first call of a trajectory whose agent returned a
   reward (`sdk_orderdoc`, `agent_sdk_engine.py:595`).
4. Trajectories of one prompt share their step ids, so the distance of a step is
   looked up under an id other trajectories wrote to as well (`batch_distdoc`,
   `agent_ppo_trainer.py:1052`).
5. A rollout that times out before its workflow was reset delivers what the
   rollout before it left there, under that one's uid (view "old"), so two
   episodes of a batch have one id, which the code calls "unique identifier for
   each rollout" (`pool_iddoc`, `workflow.py:205`,
   `agent_workflow_engine.py:444`). The comment at 266-268 there expects an
   episode without steps, which is dropped.

Disagreements that the models show and whose exact extent a passing property
states, in place of a run of their own:

- `flush` answers True for a trace whose last attempt failed. `FlushWaitsForAll`
  says "stored or given up"; the docstring says "Block until all queued traces
  are persisted" and "True if all traces were flushed successfully"
  (`sqlite.py:425`, `431`), and the endpoint's promises the same
  (`litellm_server.py:228-231`). `MissingForAReason` shows what follows for an
  episode: a call may be missing although the flush answered True.
- A malformed answer costs the reward of the last step only: the code clears the
  current step (`agent_execution_engine.py:438-439`), and the reward of a
  trajectory is the sum over its steps (`env_utils.py:23`). The log says "reward
  forced to 0" (443, 837). With an env that pays only at the end it is so
  (`FormatPenalty`).
- The mean that hands the advantage of a last step to the other steps is NaN
  when the last step's response mask is empty, be it masked out or its answer
  empty, and the other steps get NaN, those with tokens to train included
  (`OneAdvantage`). The note that averaging "makes no difference"
  (`agent_ppo_trainer.py:987`) does not hold there.
- `load_rejection_checkpoint` is to "return previously collected trajectory
  records" (`collect_swe_trajectories.py:102`) and returns none if it cannot
  read them, whereupon the next checkpoint replaces the file
  (`OutputLosesOnlyTheUnread`).

What the models show besides, and no document says otherwise: `close` abandons a
store in progress (`RunStop`), whose trace is then neither stored nor reported
until the collector finds the coroutine. A sentinel that a close left in the
queue stops the worker the next `log_llm_call` starts. A sandbox whose deletion
the gateway refuses stays, and the next attempt creates another beside it
(`SandboxQuota` counts them apart). A step without its last step raises
`KeyError`, which only the cut of the workflow trainer can bring about; a batch
in which no trajectory has a second step raises `RuntimeError`, from stacking an
empty list (`agent_ppo_trainer.py:1015`). The workflow trainer's batch may be
empty after the cut (`agent_workflow_trainer.py:278`).

## 5. Theorems

| Module | Theorem | Statement |
|---|---|---|
| `SqliteTracerProofs` | `Invariance` | `Spec => []IInv` |
| | `TypeCorrect` | `Spec => []TypeOK` |
| | `FlushWaits` | `Spec => []FlushWaitsForAll` |
| | `CustodyIsExclusive` | `Spec => []Custody` |
| | `CounterIsEnough` | `Spec => []CounterCovers` |
| | `OrderHolds` | `Spec => []SettledInOrder` |
| | `TracerImplementsLog` | `Spec => ImplementsTraceLog` |
| `SweRolloutProofs` | `TypesHold` | `Spec => []TypeOK` |
| | `RolloutInvariance` | `Spec => [](TInv /\ (~setting.cancels => RInv))` |
| | `NothingLeaks` | `Spec => []NoLeakUncancelled` |
| | `ResetsFindNoSession` | `Spec => []ResetFindsNoSession` |
| | `RewardsRunAlone` | `Spec => []RewardRunsAlone` |
| | `QuotaHolds` | `Spec => []SandboxQuota` |
| `RolloutLoopProofs` | `LoopInvariance` | `Spec => []LInv` |
| | `BudgetIsKept` | `Spec => []BudgetHolds` |
| | `MasksMarkSamples` | `Spec => []MaskMarksSamples` |
| | `FormatIsPenalized` | `Spec => []FormatPenalty` |
| | `StepsInvariance` | `Spec => [](LInv /\ StepsInv)` |
| | `LoopTypesHold` | `Spec => []TypeOK` |
| | `LoopsAgree` | `Spec => []AgreesWithAssemble` |
| | `TrainedInContext` | `Spec => []TrainsInContext` |
| `SdkBatchProofs` | `Invariance` | `Spec => []BInv` |
| | `TypesHold` | `Spec => []TypeOK` |
| | `RowsAreOwn` | `Spec => []RowsOfOwnSession` |
| | `StepsMissForAReason` | `Spec => []MissingForAReason` |
| | `TracerIsTheLog` | `Spec => Log!Spec`: `SdkBatch` implements `TraceLog` too |
| `WorkflowPoolProofs` | `PoolInvariance` | `Spec => []Inv` |
| | `TypesHold` | `Spec => []TypeOK` |
| | `PoolIsConserved` | `Spec => []PoolConserved` |
| | `EpisodesAreOwn` | `Spec => []EpisodeIsOwn` |
| | `RowsUnderTheirPrompts` | `Spec => []RowsMatchPrompts` |
| `TrainBatchProofs` | `BatchInvariance` | `Spec => []IInv` |
| | `BatchTypesHold` | `Spec => []TypeOK` |
| | `RowsStayOwn` | `Spec => []RowsAreOwn` |
| | `AdvantageIsOne` | `Spec => []OneAdvantage` |
| | `KeyErrorsExplained` | `Spec => []KeyErrorNeedsASplitTask` |
| | `BatchesDivide` | `Spec => []BatchDivides` |
| `CollectRunProofs` | `KillIsCheap` | `Spec => []KillCostsLessThanInterval` |
| | `OutputKeeps` | `Spec => OutputLosesOnlyTheUnread` |
| | `TargetHolds` | `Spec => []OvershootsByTheOthers` |
| | `TypesHold` | `Spec => []TypeOK` |
| | `TearsCostTwo` | `Spec => []TearCostsTwo` |
| | `PairsHold` | `Spec => []PairsAreComplete` |

They hold for all values of the constants that satisfy the named assumption of
the module (`TracerAssumption` and `StopIsNoTrace`, `RolloutAssumption`,
`LoopAssumption`, `BatchAssumption`, `PoolAssumption`, `CollectAssumption`).

**Tracer.** `FlushWaitsForAll` is not inductive: that `unfinished = 0` means
everything is settled needs `CounterCovers`, that settling a trace lowers the
counter by one and the number of unsettled traces by one needs that the trace a
worker holds is unsettled and held by nobody else, which is `Custody`, and that
taking the head of the queue keeps `Custody` needs that no trace is queued
twice. `IInv` is their conjunction with `TypeOK` and what a running flush has
asked for. Each action has a lemma (`IInvAccept`, `IInvGet`, `IInvSettle`, ...);
actions that touch neither queue, items nor counter share `IInvFrame`. The
refinement proof maps every step to at most one step of `TraceLog`, with `IInv`
to show that `Settle` finds the trace pending and that `AnswerTrue` finds what
was asked settled. `SettledInOrder` needs the whole line (`Line`): with one
worker the settled traces come first, then the one it holds, then the queue,
each in the order of acceptance. What is at the head of the queue was accepted
before everything behind it, so what came before it is neither held nor queued
any more, hence settled. The line breaks with the second worker, which takes a
trace while the first one retries its own.

**Rollout.** `RInv` says of every trajectory that it is `Sound`. A job under way
is the one its coroutine awaits, at a place its operation has when nothing is
cancelled, and works on the session of its own attempt; the one exception is a
step whose await timed out, which may still run in its sandbox (`JobSound`). A
live sandbox is behind `env.session` or in the hand of the close that took it
(`Known`). Nothing is there before a reset and after a close (`Bare`), and both
are awaited before the coroutine goes on, so the next attempt starts from
nothing but what the gateway refused to delete. Abandoned steps change neither
session nor sandbox. The three properties about sessions follow at once. The
quota maps the sandboxes that are not stuck one-to-one to the trajectories that
are launched, which the semaphore bounds. All of this is under
`~setting.cancels`: with the 7200 s timeout a reset is cancelled in mid-course
and the invariant breaks, which is `swe_leakdoc`. Types hold with it.

**Loop.** `BudgetHolds` alone does not survive a step: an answer fits because
the loop's own count of the response is right, and the count is right only while
the loop goes on, for a truncated or last step is cut after it was counted
(`Room`). `KeptFits` says how much of a step is kept for each verdict.
`MaskMarksSamples` is kept because marked sequences can be put together
(`MarkedConcat`) and because the token loop keeps a turn whole or not at all.
`FormatPenalty` clears one reward and, with an env that pays at the end, claims
them all: the others are zero because a step with a reward leaves the loop
(`Rewards`). `AgreesWithAssemble` compares the token loop, turn by turn, with a
function that runs over the finished steps. `StepsInv` says what ties the two at
every turn: the response is what the steps so far make (`Parts`, `Marks`), with
some tokens of the environment behind it that belong to the next prompt
(`Follows`). One more step then extends both sides alike, which is
`FlattenAppend`. `TrainsInContext` compares prompts with what was seen before,
step by step, from the same invariant.

**Pool.** `PoolConserved` counts; `PInv` says the same without counting: the
queue holds no workflow twice, no two running rollouts hold the same one, and a
workflow is in the queue exactly if nobody holds it. Taking and giving back are
lemmas about `Tail` and `Append` of such a queue. For `EpisodeIsOwn`, `EInv`
says of each rollout what it finds in its workflow: with view "old" it still
waits for its reset (`Waits`); with view "own" it finds its uid, only its steps,
and as many as its turns (`Own`); `JobFits` ties its job to where it is. An
action of another rollout keeps this (`OthersAlone`) because it works on another
workflow, by `PInv`, or is an abandoned job, which changes `view`
(`AbandonedDisturbs`). That a rollout with view "old" returns another one's uid
is `UInv`: before its reset no workflow has its uid. `RowsMatchPrompts` is about
the order of the results: `settled` names every rollout that ended, once
(`SInv`); grouping it by task gives a list of all rollouts, each once, whose
tasks do not decrease (`FlattenOnce`, `FlattenSorted`); and two nondecreasing
lists of the same tasks, the results and the batch itself, agree at every
position (`SortedAlike`). Whose answer a row holds is `EpisodeIsOwn`, for a
rollout with view "own".

**SDK batch.** `BInv` follows a call from the agent to the row. `LogInv`: the
tracer's log holds each accepted trace once, the agent heard of no call the
tracer has not seen, and what a flush that succeeded asked about is settled.
`RoundInv`: when a round gathers, every agent of it is through, and what it
heard of was dropped or asked about (`Accounted`); what was read for a rollout
is stored and of its session, and complete if the flush succeeded (`ReadFor`);
rows fit (`RowFits`). Jobs of earlier rounds go on through all of it: `Frame`
says that a job that is through keeps its session, its calls and what it heard
of, and that a trace is settled once, so nothing that was accounted for changes.
A row is under its own task by the same argument about order as in the workflow
engine. `TracerIsTheLog` goes through the steps of jobs, proxy and engine: each
is one step of `TraceLog` or leaves its variables alone.

**Training batch.** Prompts and rows are arranged separately, by an order of
arrival and by a sort; `RowsAreOwn` needs that both arrange each trajectory once
and by nondecreasing prompt (`IsArranged`, `SortedAlike`). From the cut to the
broadcast the batch is `Ready`: a trajectory whose last step is there is whole,
and every row that is kept has the last step by which it was kept. `Waiting`
says that only the last steps have advantages, `Agreed` that after the broadcast
the rows of a trajectory have that of its last step, or NaN beside a last step
without tokens. What the size of all groups divides, the actors' size divides
(`DividesToo`). A step without last step
is a `KeyError`; what the cut may do to a task is the only way to one.

**Collection.** `IInv` adds `Books` to `KillCostsLessThanInterval`: `n_pass` is
the length of the cache and the last checkpoint is the length of the output, or
nothing in a run that could not read it (`Saved`), so that "interval reached"
and "what a kill costs" are the same number. The overshoot needs `Headroom`:
before the event is set `n_pass` is below the target plus failed writes, and
after it nothing is launched, so `n_pass` and what still runs stay below the
target plus the parallelism; that at most `NParallel` run is a cardinality
argument over the attempts. For `TearCostsTwo`, `Debt` is what the cache has and
the sidecar cannot be read to have, plus what the tail of the file puts at stake
of the next append (`AtStake`): every run begun and every append that raised
adds at most two to it (`Tears`). `PairsAreComplete` counts turns: of `n` pairs
each of `k` negatives is in `n / k` or one more, the first ones ahead of the
others (`Dealt`).

**Lists.** The library's induction theorems take an operator, which the provers
cannot instantiate. `ListsProofs` states induction and primitive recursion with
sets and functions in its place (`Induction`, `Recursion`, from the
well-foundedness of the natural numbers) and proves from them what `Select` and
`FlattenSeq` return for lists of any length: their equations, their elements,
that they repeat nothing, that they keep an order. The models use `Select` where
the proofs need this and `SelectSeq` nowhere.

Only model-checked: liveness (`AcceptedIsSettled`, `CloseReturns`,
`EveryTrajectoryEnds`, `TargetEndsTheRun`, `RolloutsSettle`, `BatchEnds`),
because fairness is beyond the prover; and what the runs of section 4 refute.
With the 7200 s timeout `NoLeak` is refuted, and the other properties about
sessions and sandboxes are not claimed.

## 6. Not modelled

The components without a module are listed in `PROJECT.json` with the reason,
and so are the parts left out of those that have one. In short:

- `trajectory_generator`'s exception path and `execute_tasks` of the trajectory
  engine: they serve evaluation scripts, the trainers use the generator in Token
  mode. Both are hazards without a property.
- SDK sessions: context variables entered and left by the agent's own code; what
  they name is an input of `SdkBatch`.
- `MCPConnectionManager`, warm pool prefetch, sandbox server, expdata: used by
  an example or by hand, apart from everything the trainers run.
- P2A bonus maps: offline numeric analyses; the distance of a step is an input
  of `TrainBatch`.
- The SDK, pipeline, Tinker and distillation trainers; experimental engines:
  siblings of what is modelled, or numeric code around external services.
- Agents, chat templates and parsers, rewards, tools, other environments: text
  processing without shared state, abstracted as inputs.

Most of the repository's lines are notebooks of data preprocessing, parsers,
reward functions and numeric code: nothing in them has states or an order to
check.

External: the ARL gateway (a call succeeds or fails; a sandbox it deletes is
gone), the inference engine (answers any number of tokens), sqlite (a
transaction commits or raises), the file system (a rename is atomic, an append
is not), and CPython's `ThreadPoolExecutor`, `queue.Queue` and event loop as
documented.

## 7. Plan

What is left, in the order in which it would add most:

1. The rows of `SdkBatch` as the input of `TrainBatch`.
2. The slots of `execute_tasks` and the exception path of
   `trajectory_generator`.
3. `MCPConnectionManager`: a failed start, requests behind a stop.
