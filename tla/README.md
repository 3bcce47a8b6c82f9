# Antigona agent: TLA+ models of the durable runtime

This directory models the control logic of the Antigona agent's durable parts:
how a task flow is accepted, queued, claimed by a worker, approved by its owner,
executed step by step, verified and finished; how its messages leave through the
delivery outbox; how writers of one workspace are fenced from each other; how the
execution kernel and the goal engine above it run, lose and repeat work; how the
chain store appends; and how a Telegram message reaches the dialogue core and its
tool calls once - while processes die, leases lapse, answers are lost and requests
race. TLC checks
the models on small instances; TLAPS proves the properties that matter most for
every instance.

Paths below are relative to the repository; Python modules live under
`src/antigona/`.

## 1. Inventory of the system

| Part | State it keeps | Operations | Interacts with |
|---|---|---|---|
| Task state machine (`durable/state_machine.py`, `models.py`) | the graphs of task and step states | `check_task_transition`, `check_step_transition`, `guard_verifying_done` | consulted by every writer |
| Task repository (`repository.py`) | `task_flows` (status, revision, lease, cancellation flag), `flow_steps`, `approvals`, `state_transitions` | create, transition, transition_step, acquire/heartbeat/release lease, request/decide approval, cancel, steer | worker, gateway, queue |
| Durable queue (`queue/__init__.py`, `queue/redis_broker.py`) | `queue_jobs` (status, owner, lease, attempts) | enqueue, claim, heartbeat, finish, retry; broker signal | service, gateway, worker |
| Worker (`worker/__init__.py`, `lifecycle.py`) | one session per job, guard thread | loop, failure handler, two maintenance sweeps, container clean-up | queue, orchestrator, shell |
| Orchestrator (`orchestrator.py`) | `durable_operations`, artifacts | run, _resume, _dispatch, _recover_or_execute, spawn_child_flow | repository, tools, verifier |
| Verifier service (`verifier_service.py`, `verifier_client.py`) | its own database capability | verify, reject, promote_skill | orchestrator over HTTP |
| Task service and gateway (`core/task_service.py`, `gateway/api.py`) | - | submit, cancel, steer, decide | repository, queue |
| Approval grants (`security/approval_grant.py`) | grants, consumed keys | issue, verify, consume | repository, orchestrator |
| Risk policy (`worker/hitl.py`, `policy/`) | policy settings | evaluate_risk, check_approval_timeout | repository, orchestrator |
| Circuit breaker (`gateway/circuit_breaker.py`) | failure counts, open time | record, allow | gateway client |
| Delivery outbox (`delivery/`, `delivery_worker.py`) | `delivery_outbox` (status, lease, attempts, `available_at`, `delivered_at`), `delivery_receipts`, each adapter's progress message | claim, dispatch, marker, receipt, backoff; send, edit | every transition and result enqueues a row; the provider's chat |
| Ownership (`ownership/`) | one ledger row per repository: state, owner, fencing epoch, lease; audit rows | reconcile, acquire, write permit, release | worker, tools, unified executor |
| Operation store and presenter (`durable/operation_store.py`, `presentation/`) | claims, manifest | claim, present, reconcile | channels |
| Execution kernel (`kernel/`) | `kernel_tasks` (status, owner, lease, attempts, cancellation flag), `kernel_runs`, `kernel_dependencies`, one-shot grants | create, claim, run, renew, finalise, reconcile, cancel | several dispatchers write the same rows; the goal engine owns one |
| Orchestration (`orchestration/`) | `goals` (state, cycle, bound flow, `meta` with the evidence), `goal_flows` | tick: reconcile, plan, collect evidence, judge, replan; stage handler | rows and dispatcher of the kernel; coding services |
| Chain store (`chain/`) | event files named by digest, `HEAD`, advisory lock | read HEAD, append with compare-and-swap, load chain | start-up validator and its retry loop; the file system and its syncs |
| Telegram turns (`channels/telegram/bridge.py`, `turn_ledger.py`) | `telegram_turns`, `telegram_queue`; in memory per-chat queues and futures | turn, drain, settle, `/stop`, close, startup recovery | Telegram's redeliveries; the gateway over HTTP |
| Unified tool executor (`engine/unified_executor.py`, `durable/tool_ledger.py`) | `durable_tool_ledger`, the same in memory with an event per call | authorise, look up, join, reserve, dispatch, record | turns of the gateway; the tools' effects |
| Cron (`cron/`), state cache, OTP/PIN gates | stores of their own | see `PROJECT.json` | runtime, channels |
| Brain, router, conversation, providers, MCP, UI | prompts, text, sockets | LLM and network I/O | not modelled |

What is hard here: several processes (submitter, gateway requests, workers and
their guard threads, the sweep of every worker, verifier request handlers) write
the same five rows, each with its own notion of what must be compared before a
write. Workers are killed at any instruction; a lease may lapse under a worker
that is still alive; a verdict arrives up to 90 seconds after its question; a
session commits in `finally` what an exception left flushed. The kernel opens no
transaction before its first write, so an operation that reads and then writes by
primary key is two steps; the goal engine may die between any two of its commits;
the chain store between any two system calls. The bot and the gateway have one
event loop each, but every `await` in them is a place where another message, a
cancellation or the end of the process comes in between, and an HTTP call that
timed out goes on at its other end. The hazards, each at
its line and with the properties that watch it, are listed in `PROJECT.json`.

## 2. Modules

| Module | Models |
|---|---|
| `TaskStates` | the two transition graphs and the guards of `durable/state_machine.py` |
| `FlowLifecycle` | the abstract specification: what an observer of one flow may rely on |
| `TaskRuntime` | one flow with all its rows and all its writers |
| `MCTaskRuntime` | `TaskRuntime` for TLC (symmetry of workers and requests) |
| `TaskRuntimeProofs` | type correctness |
| `LifecycleProofs` | journal, refinement of `FlowLifecycle`, plan, authority and outcome of a flow, exclusion and at-most-once effects |
| `Outbox` | the outbox rows and receipts of one task, the delivery workers, the Telegram adapter and the chat |
| `MCOutbox`, `OutboxProofs` | `Outbox` for TLC; types, "delivered means said", receipts and resends |
| `OwnershipEpoch` | the ledger row of one repository, the executions that mint, spend and release its tokens |
| `MCOwnershipEpoch`, `OwnershipProofs` | `OwnershipEpoch` for TLC; epochs, permits, lease lifetime |
| `Kernel`, `MCKernel` | the kernel's tasks with their dependency graph, its dispatchers and cancellations |
| `KernelProofs` | runs, dependencies and grants for every graph and number of dispatchers |
| `GoalLifecycle` | the abstract specification of one goal: cycles, and what may end them |
| `GoalEngine`, `MCGoalEngine` | one goal, its flows and the engine; extends `Kernel`, whose rows and dispatcher it uses |
| `GoalProofs` | the kernel under one dispatcher, the goal, its evidence, refinement of `GoalLifecycle`; extends `KernelProofs` |
| `AppendLog` | the abstract specification of the chain store: a log with a durable prefix |
| `ChainStore`, `MCChainStore` | event files, HEAD, lock, system calls, kills and power losses |
| `ChainProofs` | what HEAD names, what was acknowledged, refinement of `AppendLog` |
| `ToolLedger` | the tool calls of dialogue turns with the ledger in memory and the one on disk |
| `TelegramTurn`, `MCTelegramTurn` | bridge, turn ledger and HTTP call of a message; extends `ToolLedger` by what executes a turn |
| `TelegramTurnProofs` | effects of tool calls, one request of a chat at a time |

### TaskRuntime

An action is one commit, or one read whose result is used by a later write. The
state variables are the columns of the rows (`status`, `revision`,
`cancelRequested`, `leaseOwner`, `leaseLive`, `journal`; `step`, `retries`, `op`;
`approval`, `grant`; `jobStatus`, `jobOwner`, `jobLive`, `attempts`), the copies
each process works on (`st`, `tgt`, `seen`, `cur`, `mem`, `rqMem`, `late`), their
program points (`pc`, `rq`, `gw`), the guard threads (`guard`), the verifier's
requests in progress (`judging`) and, standing for the world, `effects`: how often
the tool of a step took effect.

- *Submission*: `SubmitEnqueue`, `SubmitRequeue`, `SubmitCriteriaFail`,
  `SubmitCrash`. `enqueue` has two ways: without a job it inserts one and moves the
  flow (`EnqueueNew`, one commit); with a job it has read as DONE or WAITING
  (`SeenIdle`) it writes QUEUED later and compares nothing (`PutBack`). The
  submitter and the orphan sweep hold a flow that is still RECEIVED to them, so the
  flow's status never keeps them from it. `overwritten` records that a put-back hit
  a RUNNING job.
- *Owner requests*: `CancelLoad`/`CancelWrite`, `DecideLoad`/`DecideWrite`/
  `DecideEnqueueLoad`/`DecideEnqueueWrite`. `decide_approval` and the re-queue
  write what an earlier read allowed without comparing again, so read and write
  are separate actions.
- *Worker loop*: `SweepSelect`/`SweepFail`, `SweepOrphan`/`EnqueueOrphan`/
  `RequeueOrphan`, `ClaimSelect`/
  `ClaimUpdate` (the claim's clock is read before its SELECT: `late`), `RunStart`,
  `AcquireLease`, `ResumeLoad`.
- *Orchestrator*: `ResumeQueued`, `ResumePlanning`, `ResumeWaiting`,
  `ApprovalTimeout`, `ConsumeApproval`, `Dispatch`, `EnterExec`, `BlockSensitive`,
  `SkipCompleted`, `StopAtFailed`, `BeginPendingStep`, `RecoverOperation`,
  `StartOperation`, `ToolSucceeds`, `RecordApplied`, `ToolFails`, `RetryStep`,
  `FailStep`, `ToolCancelled`, `PersistStep`, `PersistLast`, `ResumeObserving`,
  `AfterVerify`. Transitions that re-read the row and then compare its revision
  are `Begin` followed by `CasCommit`; a transition whose unit of work already
  holds the row's write lock is one action.
- *Verifier*: `VerifierRead`, `VerifierDone`, `VerifierReject`; a request outlives
  the worker that sent it.
- *End of a run*: `ReleaseLease`, `FinishJob`, `HandleFailure`.
- *Time and faults*: `GuardBeat`, `TaskLeaseExpires`, `JobLeaseExpires`, `Crash`,
  `WorkerRaises`.

Data is abstracted to what the properties tell apart. `profile` (chosen once per
flow) says whether the risk policy auto-approves the fixed arguments and whether
the safety classifier refuses them. `Recoverable` is the set of steps whose effect
can be read back (`workspace.write_text`); a shell step's container is started
with `--rm`, so a finished one leaves nothing to read back. Time has no numbers: a
lease lapses when its owner is dead, when its guard thread has ended, or - with
the fault `stall` - although its owner is alive. A worker that restarts has a new
identity; the leases of its former life belong to `Ghost`.

Left out of `TaskRuntime`: the RECEIVED branch of `_resume` (a job exists only for
a flow that was queued), `steer` (its messages have no reader in the runtime),
container clean-up at start-up, child flows, the content checks of the verifier
(one nondeterministic verdict), the redis signal (it carries no authority).

### Outbox

An action is one commit, one read, or one call of the provider. `Enqueue` is the
commit of a transition's or a result's row; `Select`, `ClaimUpdate` and `Load` are
the three statements of `claim`; `FoundReceipt`, `FoundMarker` and `Dispatch` are
the three ways through `dispatch_one` up to the adapter; `Simulate`, `SkipSame`,
`Send`, `Edit`, `EditRejected`, `Refused`, `TimesOut` and `Misconfigured` are what
the adapter and the provider do; `Fail`, `CommitMarker` and `CommitReceipt` are the
commits after it. A dispatch writes its row by primary key and compares nothing,
so a worker whose lease lapsed (`LeaseLapses`, fault `stall`) overwrites its
successor, and its second receipt violates the primary key and ends the process.
`Kill`, `Stop` and `Restart` are the service's processes; the adapter's memory
(`bubble`, `shown`) is lost with them. `Simulated` are the rows whose adapter never
contacts anybody: all of them under `delivery_mock`, those of the `fake` channel
otherwise. `Wiring` says who holds the adapter: the
service gives its worker a router, which caches one adapter per channel name;
tests give it an adapter. Only the second kind recovers the progress message, and
only there a result and the transitions share an adapter.

The chat is external: `sent` counts accepted calls, `live` is the set of progress
messages, `lost` counts accepted calls whose answer nobody could make durable.
Left out: the read-back probe (it can only lower the recorded level), the texts
(a row renders to a member of a small set, two rows may render alike), providers
other than Telegram (to the worker they accept, refuse or time out). A rejected
edit reaches `EditRejected` when the provider answers with HTTP success and
`ok: false`; an HTTP error is `Refused`.

### OwnershipEpoch

Every change of the ledger row is one conditional UPDATE and one action:
`Reconcile`, `Acquire`, `Permit`, `Release`. A call reads the clock first, so the
time it compares with, `ts`, may lie up to `Delay` in the past. A failure of the
ledger binds the DENY-ALL token 0 (`Unavailable`); the audit row is inserted in a
transaction of its own, and if that raises, the update stands although the caller
gets DENY-ALL or no permit (`ReconcileUnaudited`, `AcquireUnaudited`,
`PermitUnaudited`). A denied permit changes nothing and is no action. `Write` may
come after the permit's end, as the comment in `central.py` admits. `OwnerOf` is
the owner id an execution presents: workers have ids of their own, the actions of
the unified executor share `agent-<hostname>`. `renew`, `takeover` and
`check_write_permit` have no caller in the live paths and are left out.

### Kernel, GoalEngine and GoalLifecycle

`Kernel` has the columns of a task (`status`, `cancelReq`, `owner`, `lease`,
`attempts`), its `runs` by `run_number`, grants and how often a guarded handler was
entered, and per dispatcher a program point and what a read left for a later write
(`memo`). A tick is `StartTick`; `Reclaim` or `ReclaimRaises` for each expired run;
`FindOrphans`, `OrphanRead` and `OrphanWrite` for a claim that never got a run;
`EndReconcile`; `ListReadyTasks`; and for each listed task `ClaimTask` (or
`SkipTask`), `CancelClaimedRead`/`Write`, `CreateRunRead`/`CreateRunInsert`,
`EnterHandler`, `RenewLeases`, `HandlerEnds`, `FinalizeAndComplete`. A write by
primary key flushes only the columns whose value changed since the read
(`Dirty`, `Flushed`: SQLAlchemy's unit of work). `ReevaluateChildren` is part of
the transaction of the parent it follows. `CancelRead`/`CancelWrite` are
`request_cancel`. A dispatcher that crashes leaves its rows to `Ghost`.

`GoalEngine` adds the row of one goal, `goals.meta`, the flows by creation time,
the flow id in each task's payload and each task's result. `at` is the place in
the engine's sequential tick: `Recover`; `ProcessGoal` or `SkipGoal`; `Activate`;
the planner's `CreateFlow`, `BindFlow`, `CreateStage` for each of the three
stages, `RecordPlan`, or `PlanningFails`; `RecordEvidence` and `MarkFlow`;
`JudgeDone`, `JudgeFail` or `JudgeContinue`; `BumpCycle`, `CyclesExhausted` and
`SupersedeFlow`; then `DispatcherTick`, whose handler ends by `StageSucceeds` or
`StageFails` and `FinalizeStage`. Each is one commit, and `EngineDies` may come
between any two. Evidence is identified by flow, run and service, which is what
its hashes stand for; the router's health scores are one choice of a service.
`update_meta` merges it into `goals.meta` by `json_patch` (`Patched`): the members
every service answers are replaced; for those it may leave out, `member` stands:
absent, null (which the merge removes) or with a value. The constant `Answers` says
which of these a service gives.

`GoalRefined` maps the goal's status and cycle to themselves and `achieved` to
"every task of the bound flow's plan has succeeded in `kernel_tasks`".

### ChainStore and AppendLog

A revision is the sequence of payloads of its chain (no collisions). A file is
seen by processes as `event` or `head` and by a power loss as `diskEvent` or
`diskHead`; it goes through `linked` (link done, temporary not yet unlinked) where
the file system has hard links, else through `partial` and `cached`. The actions
of a writer are `ReadHead` and `Retry` (the caller's loop), `AcquireStoreLock`,
`ExactRetry`, `CheckHead`, `PublishNew` or `PublishExisting`, `UnlinkTemporary`,
`CopyBytes`, `SyncCopy`, `SyncEvents`, `ReplaceHead` and `SyncHead`; `SyncFails`,
`Kill` and `PowerLoss` are the faults. Before the lock an append makes the store's
directory and `events/` in it, each with a sync of its parent (`MakeStore`,
`SyncParent`, `MakeEvents`, `SyncStore`); a directory it finds is taken as it is,
so a maker that dies, or whose sync fails, leaves an entry that only the sync of
HEAD's directory may still make durable, and for the store's own directory
nothing (`dirs`, `wiped`). The log of `AppendLog` is the chain HEAD names, its
stable part the HEAD whose directory was synced and has a durable entry.

### ToolLedger and TelegramTurn

`ToolLedger` has, for each pair of turn and call, the status in
`durable_tool_ledger` and in memory, whether the recorded answer claims a path
(`claims`), how often a recorded success was discarded, and the world: effects,
whether the path is a file as the answer declares it (`intact`), how often it was
spoiled (removed, changed or made unreadable: `_replay_is_faithful` takes them
alike). An execution chooses a call or answers (`Choose`), and in one section under
the lock (`Lookup`) joins an identical call in progress, replays a recorded answer
that claims nothing or whose file is intact, refuses a call in doubt, or reserves
it, discarding a success that cannot be confirmed; `Dispatch` is the tool,
`UpdateLedger` the record and the wake-up of those who joined. The claims of
`Unconfirmable` calls are never confirmed: they name a directory (`target_dir` of
`archive.extract`), or a relative path where the layer has no settings.

`TelegramTurn` has the rows of `telegram_turns`, the bot's sessions, queues and
workers, the futures in flight and how many callers wait for each. `Turn` is one
of `Join`, `AnswerAtOnce`, `Overflow`, `Accept`; a worker does `Pop`, `Submit`
(or `Refused`), `Answer` or `TimeOut`, `SettleLedger`, `SettleFuture`.
`CancelChat` empties the queue under the lock, `CancelInLedger` and `CancelFuture`
follow outside it. `Kill`, `Close`, `CancelDrain`, `Closed`, `Start` and `Recover`
are the bot's process, `GatewayKill` the other one. A read timeout ends the
client's call and leaves the execution alone. Of `telegram_queue` only the chats
with unfinished rows of earlier processes are kept (`stale`); pruning after seven
days and attachments are left out. The model asks for at most one call in an
execution; which calls it may ask for in a turn is `CallsOf`, so that a repeated
execution may ask for the same or another.

## 3. Runs

Deadlock checking is off, except in `goal`, where the engine's loop never stops: a
finished flow, a delivered task, a bounded clock and an answered message stop. The
first table is of `MCTaskRuntime`.

| Run | Instance | Checks |
|---|---|---|
| `zombies` | 2 workers, 1 owner request, 2 steps, no retries, guards may stall, tools fail; not beyond a put-back under a running worker | `JournalIsHistory`, `DoneIsComplete`, `StepsInOrder`, `StepRowsAreFinal`, `LifecycleRefined` |
| `recovery` | 1 worker, 1 request, 2 steps (the first can be read back), every fault of a worker but a stall, fairness | `TypeOK`, `ExecutionIsAuthorised`, `RecoverableAtMostOnce`, `JobTellsOutcome`, `ExecutionEnds` |
| `exclusion` | 2 workers, 1 request, kills, errors, tool failures | `OneWorkerRuns` |
| `progress` | 2 workers, 1 request, submit and tool faults, fairness | `AutoFlowEnds`, `RequeuedDecisionIsApplied` |

| Run of `MCOutbox` | Instance | Checks |
|---|---|---|
| `receipts` | 2 workers, a transition and a result on a simulating channel, kills, stops, stalls, refusals, lost answers | `TypeOK`, `DeliveredWasSaid`, `StatusAgreesWithReceipt`, `ResentOnlyIfLost` |
| `every_row` | 1 worker with its adapter, two transitions of one text and a result, kills, refusals, bad configuration, deletions, fairness | `EveryRowEnds` |

| Run of `MCOwnershipEpoch` | Instance | Checks |
|---|---|---|
| `fenced` | 3 executions with their own ids, all faults, delayed clocks | `TypeOK`, `PermitHoldsOwnership`, `OneWriter`, `StaleWriterBlocked` |

| Run | Module, instance | Checks |
|---|---|---|
| `kernel` | `MCKernel`: 2 dispatchers, a cancellation, a task and its dependent, whose handler needs a grant; a kill, blocked renewals, denials | `SucceededHasRun`, `DependentsWait`, `OneEntryPerGrant`, `RunRowsAreFinal` |
| `goal` | `MCGoalEngine`: 2 cycles of 3 stages, 2 services that differ in the optional members of their answers, failing handlers, a raising planner, a kill between any two commits, fairness | `GoalTypeOK`, `DoneIsVerified`, `PlanIsBound`, `OneActiveRun`, `GoalRefined`, `GoalEnds` |
| `chain` | `MCChainStore`: 2 writers, 2 records, with and without hard links, directories to be made, a kill, a failing sync, a power loss | `ChainTypeOK`, `HeadLoads`, `AckedStays`, `LogRefined` |
| `turns` | `MCTelegramTurn`: 2 messages of a chat, one delivered twice and calling a reading tool, one whose file can be confirmed and one that names a directory; a queue of 1, 2 executions and workers, 2 starts of the bot, one fault of any kind besides read timeouts, fairness | `TurnTypeOK`, `EffectOnce`, `OneTurnPerChat`, `CallersAnswered` |

Bounds of `TaskRuntime`. One retry (`MaxRetries = 1`, the default of `config.py`)
gives a first attempt, a retry and an exhausted budget; `zombies` has none, to afford
two steps under two workers, and is not explored beyond a put-back under a running
worker (`NotOverwritten`), which lets a second one in as a stall does (`exclusion` and
`progress` go beyond it, and the theorems of section 4 cover both). Two workers are
the holder and the successor of a lease; a third would only repeat the successor. One
request can cancel or decide, beside the submitter and two sweeps, which put a job
back as it does. Two steps are the first and the last one, and the hand-over between
them. `attempts`, `retries` and `effects` are capped one above the largest value the
code or a property compares them with. No bound is put on revisions: a flow makes few
transitions because the graph has no cycle that the runtime takes.

Bounds of `Outbox`. Two attempts give a retry and an exhausted budget; two workers
are the holder of a row and its successor; `MaxFaults = 2` allows a kill during
the recovery from a kill. Bounds of `OwnershipEpoch`. Leases and permits of one
or two ticks expire within `MaxTime`; three executions are the stale owner, the
current one and the one that may slip in; `MaxEpoch = 3` gives each an epoch.
Neither matters to the proofs.

`StatusAgreesWithReceipt` and `ResentOnlyIfLost` hold as long as no lease ran out
under a live worker (`faults.stalled`): when a lease (30 seconds) runs out under a
dispatch (one call, 10 seconds), a stale worker's FAILED overwrites the successor's
DELIVERED. `DeliveredWasSaid` holds with stalls.

Bounds of the other runs. `Kernel`: two attempts are a lost run and its repetition,
two dispatchers the one that lost a run and the one that reclaimed it. The graph of
`MCKernel` has one edge, that of a goal is a chain of three. `GoalEngine`: two cycles
are a replanned and a last one; four flows are two in each, one of them left behind by
a kill. `ChainStore`: with two records one is built upon another writer's; one kill,
one failing sync and one power loss are the maker of a directory that dies, the writer
that builds on it and the loss of both; a sync that fails, after which the caller may
append again, can come in the repair of a kill. `TelegramTurn`: a queue of one and two
messages fill it; two executions are the one nobody waits for any more and its
repetition, two workers the one that ends and its successor.

Some properties name the way in which the code gives up what they promise. TLC
refutes each of them without its exception:

- `OneWorkerRuns` holds until `enqueue` puts back a job that is RUNNING
  (`overwritten`): its write compares nothing with what it read.
  `RequeuedDecisionIsApplied` asks for nothing after it either.
- `AckedStays` and `HeadLoads` hold unless the power failed while the entry of a
  directory (`wiped`) was not durable, which a first append that died after `mkdir`
  leaves so for good.
- `GoalEnds` admits a goal whose evidence was mixed by `json_patch`
  (`EvidenceMixed`): the judge never accepts it.
- `EffectOnce` counts the answers `_replay_is_faithful` discarded. Of a call whose
  claims it can never confirm (`Unconfirmable`) the code accepts the repetition
  ("needless re-execution", `unified_executor.py:253`); of any other
  call a repetition needs a file that was spoiled.

Fairness of `Outbox`: a delivery worker goes on with its loop, the service manager
restarts a dead one, leases and backoffs run out. The provider may refuse for
ever.

Fairness of `GoalEngine`: the engine's loop goes on, restarted by the service when
it dies, and leases run out; services may fail every time. Fairness of
`TelegramTurn`: the bot's event loop runs while one of its tasks is ready. Nothing
is asked of the gateway: a read ends, at the latest, with the client's timeout.

Fairness of `TaskRuntime` (`FairSpec`). A process that runs keeps running (weak
fairness of a worker's, the submitter's and an accepted request's next step), the
guard thread beats, the verifier answers, leases that nobody renews lapse, and the
sweep, which every worker repeats each ten seconds before it claims, gets its turn
(strong fairness, because the flow may leave and re-enter the swept state between two
sweeps; weak fairness for its search for flows without a job, which stay so) and goes
on with the flow it selected. The owner never has to decide or cancel, tools and
verifier may fail every time, and `ExecutionEnds` assumes only that workers are not
killed infinitely often.

### Where code and documentation disagree

The run `shared_owner` checks one statement of the documentation and TLC refutes it
with a behaviour of the code: `central.py` promises that ownership cannot change
while a permit is valid, but `release` compares the owner's name and not the epoch,
so a stale action frees the lease of a newer one of the same name.

Statements that the modelling contradicts, without a run of their own:

- `docs/RISK_POLICY.md:43` (a decided approval moves the task on) against
  `queue/__init__.py:60`: decided after WAITING_APPROVAL was committed and before
  the job is WAITING, it re-queues nothing. `RequeuedDecisionIsApplied` is about
  the decisions whose job is in the queue again.
- `worker/__init__.py:238-241` (of several workers, "`DurableQueue.claim`'s CAS on
  the single row guarantees one execution") against `queue/__init__.py:61`: a late
  put-back makes a claimed row claimable again (`OneWorkerRuns` until then).
- `chain/fsops.py:115` (missing parents are created, "syncing the parent of each
  created one") against lines 126-133: a directory found existing is not synced,
  also when its maker died before it synced it (`AckedStays`, `HeadLoads`).
- `orchestration/engine.py:174-176` (a crash between evidence and flow is "never a
  permanent CONTINUE") against `store.py:231-249`: what a killed run wrote stays under
  the repetition's evidence where that one has no such member, and null members
  are dropped; the judge compares the mixture for ever (`GoalEnds`).
- One live progress message per task, recovered with a new worker: the service's
  worker (`delivery_worker.py:39`) has a router and no adapter, so nothing is
  recovered after a restart.
- `turn_ledger.py:11-12` ("a turn left in flight by a *previous* process is
  reported as ambiguous and is never re-invoked") against
  `bridge.py:293`: recovery resets exactly these rows to FAILED, and a redelivery
  executes the turn again. The comment in `_execute`, "The runtime never accepted
  this turn", does not hold for a read timeout or a cancelled worker either. What
  protects a tool call from its repetition is the tool ledger (`EffectOnce`).
- `bridge.py:288` ("resume draining any durable pending queue items"): the workers
  it starts find empty queues in memory and end; rows of a dead process stay QUEUED
  or RUNNING in `telegram_queue`.
- `compute_call_hash` says that intentional identical calls of a turn do not
  collide; for dialogue requests `execute` sets ordinal and call id to constants,
  so the second one is answered from the ledger.
- `chain/errors.py:97` (a failed sync is never swallowed into success): an exact
  retry after it finds HEAD in place and acknowledges it without a sync
  (`AckedStays` speaks of these acknowledgements apart).

The models have further behaviours a reader of the documentation would not
expect. No property is stated about them, since the code makes no attempt to
exclude them:

- An approval nobody decides stays PENDING: `check_approval_timeout` runs only
  while the flow is resumed, and a WAITING job is not a candidate of `claim`.
- A job whose retries are exhausted in QUEUED or PLANNING leaves its flow there;
  one kill can be enough, because the job's lease ends before the task's and the
  claims in between count as failed attempts.
- The sweep also fails a flow whose job is RUNNING with an expired lease, which
  the next claim could have resumed.
- A shell command killed between its end and its record is run again.
- A submitter, an orphan sweep or a decision that is late with its put-back sets a
  RUNNING job to QUEUED: its heartbeat fails, the guard ends, the lease lapses and
  a second worker enters the run.
- A message accepted by the provider and not yet marked is sent again after a
  kill (`ResentOnlyIfLost` says that this is the only window).
- An exception outside the execution with no retry left leaves the flow in QUEUED,
  PLANNING, OBSERVING or WAITING_APPROVAL with its job FAILED.
- With two dispatchers, phase 2 of the kernel's `reconcile` and `request_cancel`
  write by primary key what they read: two dispatchers that recover the same claim
  both execute it, and a cancellation may leave an active run under a CANCELLED
  task, whose reclaim then raises in every tick. `OneActiveRun` is therefore
  checked for the engine's single dispatcher only, and a second engine process over
  the same store is not modelled.
- A goal without acceptance criteria (`gateway/api.py:1694` admits one) is judged
  CONTINUE for ever; `GoalEnds` assumes `HasCriteria`. A kill after `bump_cycle`
  costs the goal a cycle. `retry_delay` is stored and read by nobody; WAITING,
  BLOCKED and wake events are unreachable.
- A kill between link and unlink leaves an event with two links, which no reader
  accepts: appending that very record is refused until somebody removes the
  temporary file; `HEAD` never comes to name it. Without hard
  links an event copied and not synced by a killed writer is accepted by its bytes
  (`HeadLoads` excludes power losses there).
- `close` leaves the futures of queued requests unresolved and their rows
  IN_FLIGHT: their callers end with the process. A caller cancelled between
  `claim` and the queue leaves a row IN_FLIGHT that answers every redelivery with
  AmbiguousTurn until the bot restarts.
- A `CancelledError` in a tool, or an error of the tool ledger's own write, leaves
  the call PENDING in memory: identical calls wait for an event nobody sets.
- The shell tools bypass the tool ledger: a turn that is executed again runs its
  `sandbox.shell` commands again.

## 4. Proofs

Every safety invariant, action property and refinement that a passing run checks
is stated by a theorem: for every value of the constants, or under the hypotheses
given below. A proof consists of an inductive invariant (in most modules the
theorem named `...Invariant`; its conjuncts are definitions of the proof module),
one step per action that keeps it, and what follows from it. TLC checked each of
these invariants on the component's run before it was proved. Leaves that a prover
finds slowly name it with a longer limit (`SMTT`, `ZenonT`).

### The flow: `TaskRuntimeProofs`, `LifecycleProofs`

Assumptions: `NSteps` is a positive natural number, `MaxRetries` a natural number,
`None` and `Ghost` are distinct and no workers, `Faults` and `Recoverable` are
subsets of their kinds. Nothing bounds workers, requests, steps or faults.

- `TypeCorrect`: `Spec => []TypeOK`, one step per action.
- `FreshInvariant`: `TypeOK /\ Fresh` is inductive. A worker's
  transition checks the row it reads and writes it later. `JournalIsHistory` and
  the refinement are not inductive by themselves, because nothing in them speaks
  of the worker between the two steps. `Fresh` does: if the revision is still the
  one that was read, then status and cancellation flag are still the ones that
  were checked. It holds because every write of either moves the revision
  (`FlowWrites`) and because only a re-read prepares a write (`CasEntries`). Its
  second part, an accepted cancellation is a CANCELLED flow, closes the verifier's
  edge to DONE.
- `JournalCorrect`: `Spec => []JournalIsHistory`, from `FlowWrites`.
- `LifecycleImplemented`: `Spec => LifecycleRefined`, the refinement of
  `FlowLifecycle` with status and flag mapped to themselves; every step is a step
  of `LNext` or leaves both alone.
- `StepRowsCorrect`: `Spec => StepRowsAreFinal`; every write of a step row
  compares it first.
- `StepsInOrderHolds` and `DoneIsCompleteHolds`, from `PlanInv`. Nothing compares a
  worker's copy of the plan with the rows before the tool runs. What saves the
  order is that a copy only lags (`CopiesLag`: what it shows as finished is
  finished, by `StepRowsAreFinal`), that the loop leaves completed steps behind it
  in its copy (`Behind`), and that a flow past its execution, or a worker about to
  commit its move there, has all its steps (`PlanRan`).
- `ExecutionIsAuthorisedHolds`, from `AuthorityInv`: who is behind the approval
  gate, or a flow in TOOL_EXECUTING, is authorised, who is behind the classifier
  is not blocked, and `TOOL_EXECUTING` is never the target of a pending write but
  entered by `Dispatch` itself. A restarted worker resumes in the middle of the
  execution, which is why the row is part of the invariant.
- `JobTellsOutcomeHolds`, from `OutcomeInv`: terminal statuses are final, so a
  worker that saw the flow end may write so at any later time.
- `OneWorkerRunsHolds`: without guard stalls, for any number of workers and
  requests. The invariant is that, until a job is put back under its worker, a claim
  is exclusive (`ClaimExcludes`: its holder owns a RUNNING job with a live lease and
  a beating guard, and no claim in progress saw that lease expire); once a
  cancellation is accepted, nobody sets out to run the flow any more. A put-back
  is harmless when nobody runs the job it writes; one that finds it RUNNING sets
  `overwritten`.
- `RecoverableOnceIfExclusive`: in every behaviour with `[]RunsAlone` an effect
  that can be read back happens at most once (`RecoverableAtMostOnce`), stalls and
  kills included. What makes it inductive is that a worker at the tool of such a
  step knows that it had no effect. `RecoverableAtMostOnceHolds` is the instance
  with one worker, the one the run `recovery` checks.

### Delivery: `OutboxProofs`

For every number of workers and rows and every set of faults, assuming only that
`Kind` and `Text` are functions on the rows and `NoText` is no text.

- `OutboxTypeCorrect`: `Spec => []TypeOK`.
- `DeliveredWasSaidCorrect`: `Spec => []DeliveredWasSaid`, from the inductive
  `DeliveryInvariant`. The property speaks of the durable rows; the invariant adds
  what a worker knows between the provider's answer and the commit: a worker at
  the marker, or at the receipt with a transmitted outcome, has a row whose text
  was said, so has a loaded marker, and so has the text an adapter believes shown.
- `StatusAgreesWithReceiptHolds` and `ResentOnlyIfLostHolds`, from `CalmInvariant`.
  A row has a lease exactly while it is SENDING, whatever happens. As long as no
  lease ran out under a dispatch, the lease of a served row is live (`Held`), so it
  has one server (`Alone`), and what this one loaded of marker and receipt is what
  the columns hold (`Known`). Neither property is inductive without them: they say
  nothing of a worker between the load of a row and its commit. `Counted` says
  that without a durable or imminent answer every accepted message was lost.

### Workspace: `OwnershipProofs`

For every number of executions, all lease and permit lengths and every delay of
the clock.

- `LedgerTypeCorrect`, `LeaseLifetime` (`LeaseIsBounded`).
- `EpochsAreUnique` and `StaleWriterIsBlocked`, whatever the owner ids, from
  `EpochInv`: no token is newer than the row, a held row has an epoch, tokens are
  unique and nothing newer than the row has written.
- `PermitGuarantee` and `SingleWriter`, under `OwnersDistinct`. The strengthening
  `PermitPins` adds that the lease outlives the permit: then no claim and no
  reconcile matches, unique tokens exclude another permit, and distinct owners
  another release. Without `OwnersDistinct` the last step fails, and the run
  `shared_owner` shows that the theorem does too.

### Kernel and goal: `KernelProofs`, `GoalProofs`

For every set of tasks with any graph, any number of dispatchers and requests and
all faults. `Parents` is only assumed to be a function; that it has no cycle is
not needed.

- `KernelInvariant`: `KernelTypeOK`, `Locals`, `Placed`, `SucceededHasRun`,
  `Admitted` and `Granted`. A recovery writes by primary key what it read earlier,
  with no comparison. `SucceededHasRun` survives it because what the recovery read
  stays true: a run that succeeded is never written again (`RunsGrow`, which every
  action satisfies). `Admitted` adds to `DependentsWait` that a READY task has
  parents that are done, `Granted` to `OneEntryPerGrant` that an entry consumed
  its grant.
- `SucceededHasRunHolds`, `DependentsWaitHolds`, `OneEntryPerGrantHolds`,
  `KernelTypeCorrect`; `RunRowsAreFinalHolds` from `RunsGrow`.

`GoalProofs` extends `KernelProofs` and first strengthens the kernel's invariant
under the engine's single dispatcher (`SoloInv`): an active run is the last one of
a RUNNING task, and what the dispatcher read of the task it holds is so still.
Assumed are the chain of stages, one dispatcher, no cancellation, at least one
cycle.

- `GoalInvariant`: what the engine read is still so where it uses it
  (`ReadPlanning`, `ReadJudging`), flows, plans and tasks agree (`Planned`,
  `Created`, `Ended`), and the evidence in `goals.meta` names the run that
  succeeded (`Evident`), or is about to (`Outcome`: the handler writes it before
  its run is finalised, and a lost run is repeated). The merge may leave it members
  of an earlier run, but flow, run and service are in every answer and so always
  those of the last writer (`SameRun`); `DoneIsVerified` needs no more.
- `GoalTypeCorrect`, `OneActiveRunHolds`, `PlanIsBoundHolds`, `DoneIsVerifiedHolds`.
- `GoalImplemented`: `Spec => GoalRefined`. The third variable of `GoalLifecycle`
  is a state function of the rows (`PlanAchieved`); that it is never taken back
  before a new cycle needs the invariant.

### Chain store: `ChainProofs`

For every number of writers and payloads and every bound on length, kills, losses
and errors.

- `ChainInvariant`: HEAD is what the holder of the lock found until it moves it
  (`Held`), what is on disk is a prefix of what is seen and contains what was
  acknowledged, unless the store's directory was lost (`Durable`), nothing is in a
  directory that is not there (`Entries`), with hard links no file is ever seen in
  part (`Linked`), and an event is whole, and with hard links on disk, before HEAD names
  it (`Published`). `HeadLoads` and `AckedStays` say nothing of the writer between
  the compare and the rename; `Held` does.
- `ChainTypeCorrect`, `HeadLoadsHolds`, `AckedStaysHolds`.
- `LogImplemented`: `ChainSpec => LogRefined`. The stable part of the log is what is
  on disk once the entry of the store's directory is (`SafeHead`). `ReplaceHead` is
  `Extend`; `SyncHead`, and the steps that make the store's entry durable, are
  `Settle` or stutter; `PowerLoss` is `Lose`; every other step stutters.

### Telegram turns: `TelegramTurnProofs`

For every number of turns, calls, executions, chats, workers and starts, every
capacity and all faults.

- `TurnInvariant`: `LedgerInv` and `BridgeInv`. `LedgerInv` is inductive by itself:
  whatever the bot does, the ledger sees the steps of `LedgerMoves` only.
- `EffectOnceHolds`. The call of an execution between reservation and record is
  PENDING in memory and table (`Reserved`), so that it is alone (`OneActive`), and
  until the tool ran each effect of the call so far is one whose answer was discarded
  (`NotYet`). A recorded success of a confirmable call whose file is not as it was
  written has been spoiled once more than discarded (`Paid`), so that discarding it
  never gets ahead. That a call without a record had no effect (`Unrecorded`) is what
  the reservation before the dispatch buys.
- `OneTurnPerChatHolds`. A chat has one worker, the one its session names
  (`Workers`); what a worker holds or a queue contains is in flight, claimed by
  this process and nowhere else (`Held`, `Queued`).
- `TurnTypeCorrect`.

### Only model-checked

Liveness (`AutoFlowEnds`, `RequeuedDecisionIsApplied`, `ExecutionEnds`,
`EveryRowEnds`, `GoalEnds`, `CallersAnswered`): fairness and ENABLED are out of the
prover's reach. `TokensUnique` and `LeaseIsBounded` are proved for every instance
and not repeated by a run. `OneWorkerRuns` is not a theorem with stalling guards,
nor `OneActiveRun` for several dispatchers, because they do not hold there.

## 5. Plan

Modelled so far: the path every task takes (submission, queue, worker,
orchestrator, verifier, delivery), the fence around the workspace, the kernel with
the goal engine, the chain store, and the path of a Telegram message to its tools.

Theorems to prove next: that a DONE flow or an applied cancellation is never left
by any step of a zombie (`LifecycleRefined` contains it, a theorem of
`FlowLifecycle` would say so); that each of `FlowLifecycle`, `GoalLifecycle` and
`AppendLog` has the properties it is written for (terminal statuses, bounded
cycles, a durable prefix that only grows), and with the refinements their
components; the number of attempts of outbox rows, jobs and kernel tasks against
their limits; the invariants of the modules below.

Components to model next:

1. `OperationStore` (`durable/operation_store.py`, `presentation/presenter.py`):
   claims and manifest of the final message, the at-most-once window.
2. `ApprovalGrant` (`security/approval_grant.py`): grants bound to actor, tool and
   arguments, consumption raced by several dispatches, expiry.
3. `CircuitBreaker` (`gateway/circuit_breaker.py`), cron schedulers, OTP and PIN
   gates, child flows and their budgets (`spawn_child_flow`), the two threads of
   the shell tool (`shell.py`: a cancellation before the process was started).
4. A composition of `TaskRuntime` and `Outbox`: the result row is committed with
   DONE, so a DONE task is eventually announced.

## 6. Not modelled

Most of the repository is not control logic: the brain, the Telegram bot's commands
and rendering, the terminal front ends, the intent router and the tool registry
alone are a third of its lines, and they are prompts, texts, parsing and layout.
The modules here map the lines that change shared or durable state; a share of the
source much larger than that is out of reach of a model that says something.

Prompting, routing and conversation (LLM text), providers, MCP, browser and voice
(network clients), user interfaces, sessions, memory and skills (storage of text),
schema migrations, and the content checks of verifier and risk policy (parsing):
each is listed with its reason in `PROJECT.json`. Out of the prover's reach and
left to TLC: liveness, ENABLED and what recursive definitions compute.
