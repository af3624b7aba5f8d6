# Loop agent control plane: TLA+ models, checks and proofs

This directory holds the formal development kept beside the loop agent control
plane: TLA+ modules translated from `src/`, TLC configurations that check small
instances, and proofs checked by TLAPS that hold for every instance.

Run a check with `tlc -workers 2 -config execution.cfg MCLoopControl`, a proof with
`tlapm LoopControlLocks.tla`.

## 1. The system

Loop executes software tasks with language model agents. One SQLite database
(`schemas/loop-agent.sql`) is the only state its processes share. Every state
change is a `loopctl` command that runs as one `BEGIN IMMEDIATE` transaction; a
command that raises is rolled back whole.

| Component | State it keeps | Operations | Meets the others through | Hard because |
|---|---|---|---|---|
| Task store (`schemas/`, `database/task_store.py`, `control/queue.py`) | tasks, dependencies, scopes, verifications | dependency checks, projections | the database | edges of several tasks change in one command; no cycle may ever close |
| Operator (`operator/control.py`) | none of its own | enqueue, update, requeue, cancel, confirm, resolve-human, archive, unarchive | task rows | acts at any moment, on tasks that Planner, Worker or recovery also write |
| Planner scheduling and preflight (`scheduler/planner_control.py`) | `preflight_executions`, the fence `tasks.preflight_execution_id` | schedule, unschedule, claim, heartbeat, ready / split / needs-review / fail, timeout recovery | task rows | late verdicts of timed-out inspections, the limit tested only when scheduling |
| Worker dispatcher (`scheduler/execution_dispatch.py`) | `executions` in QUEUED | queue one candidate, unschedule | task and execution rows | looks at tasks and locks long before the claim does |
| Worker commands (`worker/control.py`) | `executions`, `scope_locks`, the credential file of the process | claim, heartbeat, extend-scope, finish | execution, lock and task rows | a live process whose execution was taken for lost keeps its credential |
| Recovery (`control/recovery.py`) | `recovery_required`, `recovery_action`, QUARANTINED locks | sweep (inside claim and recover), recover wait / requeue / failed | execution, lock and task rows | must move three tables together, fenced against everything the Operator did meanwhile |
| Runner (`runner/agent_runtime.py`) | child processes, active ids | queue snapshot, launch, reap, stop | starts Worker and Planner processes | acts on a snapshot; nothing sweeps while it launches nobody |
| Scope keys (`tasks/scopes.py`, `ScopePolicy` of `runtime/sandbox.py`) | none | normalise, match a project, make and compare keys, open a path | keys in `scope_locks`, paths of a tool call | sets of files that nobody lists are locked by a comparison of spellings |
| Scheduler loop (`scheduler/main.py`) | timers, each run only with its `scheduled` setting | calls dispatcher and Planner scheduling | commands | errors of one cycle |
| Worker runtimes (`runtime/`, `worker/agent_runtime.py`, `worker/codex_cli_runtime.py`) | turns, retries, heartbeat thread | model loop, CLI attempts | commands, model provider | retries inside one lease |
| Planner runtimes (`worker/planner_agent_runtime.py`, `worker/planner_codex_runtime.py`) | row version, heartbeat thread | claim, attempts, heartbeat, the four reports | commands as subprocesses, model provider | two threads send commands with one version; an answer is lost after the commit |
| Model provider client (`providers/deepseek.py`, `common/providers.py`) | the key of one call | requests, retries, error kinds | provider, secret store | reads a key that somebody is replacing |
| Secret store (`secrets/store.py`, `operator/secretctl.py`) | credential entries, one lock per process | set, verify, rotate, delete | credential manager, provider check | replacement in six calls, each of which may fail, restored on failure |
| Service runtime, Supervisor, health check (`common/service_runtime.py`, `components.py`, `health.py`, `supervisor/`) | PID, heartbeat, stop and switch files | claim, release, start, stop, cycles | files, PIDs, the Dashboard | managers that know each other only by files; numbers used again |
| Dashboard (`client/`) | event of the provider, request ids | service and secret actions, task commands | all of the above | request threads, a second manager of every service |
| Configuration, migrations, command line | files | — | — | see "Not modelled" |

What makes the parts correct:

- *Locks.* Two executions never hold conflicting scope keys, and, stronger, two
  live Worker **processes** never believe they may write conflicting files, though
  a sweep may declare one of them lost at any time.
- *Recovery.* A lock leaves quarantine only with the process gone and a decision
  stored; no lock is left without a row able to release it.
- *Coupling.* Task, execution and lock rows, written by six programs, agree after
  every command.
- *Contract.* Only published contracts are queued, and what was queued is what the
  Worker is claimed for. A task is done only on evidence of its own last attempt.
- *Planner.* A draft is fenced by exactly one inspection and judged by no other, verdicts are final, the
  limit holds.
- *Dependencies.* No sequence of enqueue, update and split closes a cycle.
- *Capacity.* Claims never pass a global or platform limit.
- *Service.* Whatever Runner and Worker processes crash, restart and start again, a row has
  one process at work at most, a ready task gets its result and an inspection its end.
- *Files.* What a lock on a key is for: two live Workers can open no common file,
  however their scopes are spelled and nested, but for files a scope opens without locking them.
- *Inspections.* A Planner process closes its inspection, and what it prints is what is
  recorded, lost answers and refused versions notwithstanding.
- *Instances.* A service is running once, comes back after a crash, stops when it is
  switched off, and no stranger that has got its number is killed.
- *Secrets.* A report says what is stored; no value the provider refuses is ever read; a
  replacement under way sends no task to a human.
- *Attempts.* A runtime repeats no attempt that it could see has changed something, lets go of
  the model process when its execution is taken away, and ends.

## 2. Modules

| Module | Models |
|---|---|
| `LoopStore` | the rows as VARIABLES, their types, `Init` (new database), projections shared by the commands |
| `Recovery` | the two clocks of an execution, the sweep, `recover` |
| `WorkerControl` | `claim`, `heartbeat`, `extend-scope`, `finish`, the end of a process |
| `Dispatcher` | queueing and withdrawing executions |
| `PlannerControl` | scheduling, timeout, claim and verdicts of inspections |
| `OperatorControl` | the Operator's commands |
| `LoopControl` | composition (`Next`, `Spec`) and all properties |
| `WriteAccess` | the abstract specification: write access granted to one writer at a time |
| `RunnerControl` | the Runner and the processes it starts, over all of `LoopControl`; fairness and liveness |
| `AttemptContract` | the abstract specification of a runtime: what a Worker process owes the control plane after its claim |
| `WorkerRun` | what the Worker runtimes share: the row seen from the process, `HeartbeatGuard`, `finish` |
| `CodexRun` | the Codex CLI runtime: attempts, poll loop, ending the process tree, retry, report |
| `AgentRun` | the self-hosted agent runtime: model steps, provider thread, tool calls, repair, retry, report |
| `ScopeKeys` | paths of segments, their normal form, project matching, keys, the conflict of two keys, the files `ScopePolicy` opens |
| `LockedFiles` | `LoopControl` over the keys of `ScopeKeys`; `FilesApart` |
| `PlannerRun` | one Planner process of either program, with its two threads and its commands under way |
| `SecretStore` | one secret, its clients in one process or two, call by call; the event the Dashboard shows |
| `ProviderClient` | one call of the provider client, over `SecretStore` |
| `ServiceFiles` | the files of the Supervisor and of one service, and what a service does with them |
| `Supervision` | Supervisor cycle, health check and Dashboard as managers, one file operation a step |
| `MCLoopControl`, `MCRunnerControl`, `MCWorkerRuns`, `MCPlannerSecrets`, `MCSupervision` | instances for TLC |
| `LoopControlLocks`, `LoopControlCoupling`, `LoopControlHistory`, `LoopControlQueues` | theorems and proofs about the control plane |
| `RunnerControlProofs`, `WorkerRunProofs`, `PlannerSecretsProofs`, `SupervisionProofs` | theorems and proofs about Runner and files, Worker runtimes, Planner process and secrets, services |

The modules of the control plane extend `LoopStore` and share its variables, as the programs
share the database. One transaction is one step, and each action is a whole
command. `PROJECT.json` maps every definition to its lines.

### State

| Variable | Code |
|---|---|
| `status`, `preflightStatus`, `preflightExecution`, `assignedAgent` | columns of `tasks` |
| `dependsOn`, `scopes` | `task_dependencies`, `task_scopes` |
| `verifiedBy` | which execution's report left `task_verifications` rows (the rows are deleted at claim and update, replaced at finish) |
| `archived` | `tasks.archived_at` |
| `execStatus`, `execTask`, `recoveryRequired`, `recoveryAction` | columns of `executions` |
| `stale`, `overdue` | time, as two facts: heartbeat or lease behind its limit; `started_at + attempt_timeout_seconds` passed |
| `holder`, `quarantined` | `scope_locks` |
| `credential` | the `scope_lock_credential` a live Worker process holds, `{}` when there is no process |
| `inspStatus`, `inspTask`, `inspOutcome`, `inspLate` | `preflight_executions` |
| `runner`, `life` | the Runner process, and how many there have been |
| `candidates`, `children` | the snapshot `serve_runner` acts on, and `active_children` |
| `started`, `working` | processes before their claim, and with an accepted claim |
| `pc`, `attempt`, `result` | the main thread of a Worker runtime |
| `guardError`, `beating` | `HeartbeatGuard.error` and its thread |
| `row`, `report` | the execution in the database, as one run meets it |
| `cli`, `orphan` | the codex process; a process it started has outlived it and holds the pipe open |
| `piped`, `output`, `produced` | what is in the pipe or in the reader's unfinished chunk, the `BoundedText` of the output, how much there was |
| `ending`, `wrote` | how an attempt ended, and which attempts really wrote |
| `step`, `calls`, `repairing` | model step of the agent, tool calls left of the last answer, `final_repair` of the request |
| `provider`, `late` | the thread of `call_provider`; `deadline` has passed |
| `recorded`, `outcome`, `printed` | of `PlannerRun`: the `outcome` column, the model's verdict, the verdict the process has seen accepted |
| `thread`, `call`, `current` | the heartbeat thread, the command each thread has under way, and which copies of `row_version` are the row's own |
| `entry`, `staged`, `lock` | the value under `secret_ref`, the `.candidate.` entries, the lock of each process |
| `at`, `request`, `before`, `result` | of `SecretStore`: where an operation is, what was asked, `old_value`, the error it will raise |
| `event` | the Dashboard's last event of the provider |
| `clientAt`, `held`, `tries`, `answer` | a call of `complete`: its point, `api_key`, requests sent, what it ends with |
| `pidFile`, `beatFile`, `fresh`, `stopFile`, `enabled` | the files of a service: PID, heartbeat and its age, stop request, `service-control.json` |
| `life` | of `ServiceFiles`: what the process with a number is (no process, starting, running, ending, a stranger) |
| `at`, `on`, `goal`, `recorded`, `launched` | of `Supervision`: a manager's point, service, aim, and the PIDs it has read and started |
| `disturbed`, `interfered`, `unasked`, `blurred`, `withdrawn`, `mistaken`, `incomplete` | marks of the model, without code: they say what has happened, for the properties that leave it out or forbid it |
| `count`, `error` | `sandbox.side_effect_count`, the kind of `attempt_error` |
| `wrote`, `lostWrites` | of `AgentRun`: what the tools really did to the disk, and when |

### Commands and actions

`transition_recovery_states` and `recover_timed_out_preflights` have no command of
their own: they run first in the transactions of claim and recover, or of schedule,
Planner claim, heartbeat and finish. They are therefore not actions. `SweptExec`,
`SweptStatus`, ... and `InspAfter`, `PreflightAfter`, ... are the values of the rows
after them, and the actions continue from these values. The outcomes of a command
that commit nothing but the sweep are `ClaimNothing` and `PreflightNothing`.

`RunnerControl` adds the processes. A Worker or Planner process is `<<n, x>>`,
started by the n-th Runner for row `x`; each of its commands is an action of `LoopControl`
together with what becomes of the process. `BesideRunner` lets Scheduler, Operator and
time act at any moment, so the Runner acts on an old snapshot, and a killed Runner
leaves processes nobody knows. `CodexRun` and `AgentRun` are the inside of one such process: the control
plane is reduced to whether the row is RUNNING, lost or finished, and every command of the
process may fail whatever the row says. `PlannerRun` is the inside of a Planner process. A
command of it is under way from its start to its answer, meanwhile the other thread may send
its own, the row may time out, and the answer may be lost after the commit.

`LockedFiles` joins the control plane and the keys: a member of `Scope` stands for a key
(`ScopeKey`), and `KeyAssumption` fixes `Conflict` as the comparison of `tasks/scopes.py`. What a
Worker may open follows from the keys of its credential, as in `ScopePolicy`.

`SecretStore` has one action per call of the credential manager. `ProviderClient` adds a
reader. In `Supervision` a manager is a Supervisor, the health check or the Dashboard; each
runs the same functions (`ensure_component`, `stop_component`, `start_server`) step by step on the
files of `ServiceFiles`, where the services claim, beat, look for a stop request, release and crash.

### Abstractions

- `row_version` is optional in every Operator command. The model has the commands
  whose version, if given, is current; a stale one changes nothing.
- Which candidate comes first (priority, age, id) is nondeterministic, as is the choice
  between requeue and failed, which the code takes from `attempt < max_attempts` when the caller
  does not say. Both allow more than the code.
- In `LoopControl` scope keys are members of a finite set with a symmetric, reflexive conflict
  relation, the only facts the locks use. `LockedFiles` gives them: keys made from raw spellings by
  `KeyOf`, compared by `KeysConflict`. A path is its segments; `Fold` is `str.casefold` on one
  segment. `HomeAssumption` says that a key names a project of the registry, as `KeyOf`
  makes it. Nothing is assumed of where projects lie or of which paths are directories: what a scope
  opens and does not lock is `Stray`, and `FilesApart` excepts it by name. The
  workspace is taken to have no links and no short names: keys compare spellings, `ScopePolicy` resolves a
  path, so two keys that lead to one directory would be strangers.
- Whether a task is automatic, its lock mode, capabilities, sandbox and assets are
  settled when the contract is published; here a contract is its set of keys. The
  platform of a task is a constant (`PlatformOf`).
- `human_required` follows from the status. Texts, histories, attachments,
  `parallel_with` and revision counters are left out: no guard of a modelled command
  depends on them.
- A batch enqueue inserts its tasks one step at a time.
- A Worker ends with its accepted report. `--runner-confirmed-terminated` is taken
  to be true exactly when the process tree is gone: it is the Operator's or Runner's
  word outside the database, and what recovery promises rests on it.
- `queue_snapshot` reads both queues and the rows in use by separate SELECTs in
  a few milliseconds; `Observe` is one read. The snapshot is acted on in a later step, so what
  matters, that it is old, is kept.
- No Runner code calls `recover`, though `operator/operator.md:124` gives recovery to the
  Runner; recovery is a command of somebody outside, at any moment.
- One JSONL event of a codex process is "write" or "text". The process is external: it
  announces a command or change before it does it, and starts other processes only for what it
  announced. Such a process may outlive it and keep the pipe open, whether codex exits or is killed. The
  reader takes an event at any later moment (`read(4096)` waits for a full chunk or the end), and a join
  may give up whenever the reader has not ended.
- An answer of the model provider is tool calls, a final result, one of the wrong form, or an
  error, which is transient (a timeout, or a retryable one), one for a human, or final. A tool call
  reads, is rejected, writes, breaks off in the operating system, or needs an approval. Which
  request leads to which is not modelled. `run_command` is among those that read: the programs it
  allows are read-only git and ripgrep.
- The model has `beat` and `ensure_healthy` of one place in the code as one step. The heartbeat
  thread of `HeartbeatGuard` may fail at any other moment.
- In `PlannerRun` every answer of the model calls one tool, a command ends by its answer or by its
  time limit, and an interrupt cuts it off wherever it is. A provider thread that hangs on, and a codex process that cannot be
  killed (it is started read-only), do not delay the report and are left out.
- `Accepted`, the values the provider takes, is a constant: the provider revokes nothing during a run. One
  secret is modelled, and the system's credential manager, not the environment, which nothing can write.
- In `ServiceFiles` a check of a file and the unlink after it are one step. The number of
  a Supervisor is used again only when its job is over. Whether the health check
  is installed (`installed`) and which services the Dashboard is asked about (`asked`) are given. A slow start and
  an identity query that fails count as faults.
- The health lock, the displayed health state, and the Scheduler and Dashboard as services beside the Runner
  are left out: they are managed one after the other by the same functions.
- WAITING_CONFLICT, which only old databases hold, and the direct claim without a
  queued execution, which the configuration switches off, are left out.

## 3. Runs

The passing runs are exhaustive.

| Run | Module | Instance | Shows |
|---|---|---|---|
| `execution` | `MCLoopControl` | 2 tasks with published contracts (module against file, or two files; with and without a dependency), 2 executions, 3 keys made from mixed spellings, one of them a file scope that names a directory (`tree`), a project registered below another, the files below them, every command but the Planner's | `ScopeExclusion`, `WritersDisjoint`, `FilesApart`, `LockLifecycle`, `ExecutionCoupling`, `EvidenceOfLastAttempt`; action properties `QuarantineHeld`, `ExecutionOrder`, `ContractStable`; `ImplementsWriteAccess` |
| `lifecycle` | `MCLoopControl` | every command from an empty database: 2 tasks, some of them enqueued archived, 2 inspections, 2 executions, 2 keys | `PlannerFence`, `ContractPublished`, `ArchivedFrozen` where contracts also change |
| `planning` | `MCLoopControl` | 4 tasks, 2 inspections, Planner limit 1, Planner and Operator | `PlannerCapacity`, `DependenciesSound`, `VerdictFinal` (rows and tasks) with splits, timeouts and late verdicts |
| `capacity` | `MCLoopControl` | 4 tasks with disjoint keys, 5 executions, global limit 2, one platform limited to 1 | `CapacityRespected` |
| `runner` | `MCRunnerControl` | 2 tasks, 2 executions, 3 keys, 2 Runner lives; everything about executions but the Operator's edits | `OneProcessPerRow` |
| `service` | `MCRunnerControl` | left to Scheduler, Runner and processes, both cycles scheduled, 2 Runner lives: 2 ready tasks with the same key, or an empty database with one draft | `ReadyTasksFinish`, `InspectionsEnd`, liveness |
| `worker_runs` | `MCWorkerRuns` | either runtime with 3 attempts: `AgentRun` of 2 model steps of at most 2 tool calls, or `CodexRun` of at most 3 events with a buffer for 2 | `AgentKeepsContract`, `ImplementsContract` (refinements of `AttemptContract`), `OneWriteAfterLoss`; `LossEndsAttempt`, `WorkerRunEnds`, liveness |
| `planner_secrets` | `MCPlannerSecrets` | a Planner process of 2 attempts and 2 steps; or 2 clients of the store with 2 requests and 2 failing calls or crashes; or a provider client with 1 retry beside one request | `InspectionClosed`, `PrintedIsRecorded`, `NoAttemptAfterVerdict`, `LossEndsInspection`; `OnlyAccepted`, `ReportIsTrue`, `StatusIsCurrent`; `HumanForCause`; `PartsEnd`, liveness; `PartsTypeOK` |
| `supervision` | `MCSupervision` | 2 PIDs for Supervisors, 2 for Runners, 1 fault, 1 Dashboard action, in three scenes | `InstanceRecorded`, `NoStrangerKilled`; `RunnerComesBack`, `SwitchesObeyed`, liveness |

The scenes of `supervision`: `Boot` (nothing runs; health check, Supervisor and Runner, with a fault),
`Shared` (a Supervisor and the Dashboard manage the same Runner, with a fault), `Served` (health check and
Dashboard manage the same Supervisor, without).

`worker_runs` and `planner_secrets` put parts in one state space that share nothing, or only
the store: one moves, the others stand still, so nothing about one is lost by the others.

`InstanceRecorded` leaves out the case that a manager has removed the file of an instance it did
not see or could not identify (`disturbed`), `InspectionClosed` a lost answer, a version raised by
others, a given-up wait for the thread, or an interrupt that nobody catches or that cuts off a command, `ReportIsTrue` an operation another process has
interfered with. Each of these cases is one of the disagreements below, and reached in the run.

Deadlock is checked where a step is always possible (the sweep-only outcomes of
`LoopControl`). `service`, `worker_runs`, `planner_secrets` and `supervision` switch it off: when all ids,
lives, requests and faults are used up and the processes have ended or rest, nothing is left to do.

### Bounds

In `LoopControl` the only bounds are the sets of ids; no counter is cut. An execution id is used once,
so `Exec` bounds the number of attempts. Two tasks and two executions give every
pairwise race: two Workers on conflicting keys, or a lost attempt of a task followed by
a second attempt while the first process lives on. Locks and couplings relate two
executions or two tasks at a time, so a violation needs two of each; the proofs remove the bound. In
`capacity` five executions for three slots let a slot be lost, taken, recovered and
taken again. In `planning` four tasks allow a split into two children
with a task downstream of the split one, the smallest case of rewiring; two
inspections exceed the limit of one by one, and `lifecycle` has two at a time.
`MaxLives` bounds how often a Runner is started: two give one that is killed, its
successor, and the processes of both. `MaxEvents` bounds the events of one codex attempt:
three with a buffer for two are a write that is kept, one that is dropped and one that is left in the
pipe; `violation_retry` has two and one. `MaxSteps` and `MaxCalls` are limits of the agent's
settings, not of the model; two calls leave one to be refused after a loss, two steps let an
attempt write, ask again and fail.

The keys of `LockedFiles` in these runs are made from spellings with other letters, dots and
separators, in two modes. They are as many as the runs of the locks need; the proofs hold for any.
`MaxRequests` and `MaxBreaks` of `SecretStore`: two requests interleave, in one process or two; one failing
call breaks an operation and the second its restore, or the operation of the other. `MaxRequestRetries` 1
is one key used for two requests with a replacement between them. `MaxFaults` 1 of
`Supervision` is a crash, a slow start or a failed query at any point, on top of numbers used again; two PIDs
for each service are an instance and the one that replaces or rivals it. `service` enqueues one draft, since a split
makes another task from it.

Symmetry is used only on ids no constant tells apart
(`Exec`, and in `lifecycle` and `planning`, where all tasks start absent, `Task` and `Preflight`),
and in no run with a liveness property.

### Fairness

Safety is checked without fairness: commands are sent by people, timers and
processes that may stop. `Fairness` of `RunnerControl` assumes, and the code has:

- `Observe`, `Launch`, `EndRunner`, `StopChild`: steps of the one loop of `serve_runner`
  and of its `finally` clause (weak).
- `StartRunner`: the Supervisor starts a Runner that is down (weak).
- a claim: a process that was started claims or dies before; strong fairness says that
  not every process started for a row dies before its claim. Without it nothing
  could be promised about Workers that never come up.
- a Worker or Planner process ends (weak): attempts have a deadline, retries a limit; for the
  Worker runtimes that is `WorkerRunEnds`, for the Planner `PlannerRunEnds`.
- an inspection timeout passes (weak): time.

The liveness properties name the rest as premises. The two timers of `scheduler/main.py` run only with
`scheduler.execution.scheduled` and `scheduler.preflight.scheduled` (line 189), both false in
`config/initialization.json`: `ExecutionScheduled` and `PreflightScheduled` are weak fairness of `Dispatch` and
`ScheduleCycle`, premises of `ReadyTasksFinish` and `InspectionsEnd`. With the configuration as delivered only
an Operator's command starts a cycle, and nothing of this is promised. Further, the Runner is not killed for ever
(`<>[](runner = "UP")`), and in `ReadyTasksFinish` no Worker is lost (`NobodyLost`), since a lost one
waits for a human. In `ServiceSpec` no heartbeat lapses, which that premise leaves out anyway; `LossSpec`,
where they do, is for `violation_capacity`. A recovery is never assumed to happen.

`WorkerRunsSpec` assumes weak fairness of the main thread of either runtime, and in the Codex runtime that
the heartbeat thread tries again while the row is lost. `WorkerRunEnds` has the deadline as a premise,
`LossEndsAttempt` does without it. Nothing is assumed of the codex process, which may go on for ever, nor of
the provider.

`PartSpec` assumes weak fairness of the main thread of the Planner process and of its heartbeat thread, the
periodic beat included (`ThreadBeats`), and that a command is answered or cut off
by its limit (`subprocess.run` has a timeout); `PlannerRunEnds` has the deadline as a premise. An interrupt is never forced. The credential
manager returns, and each request to the provider is answered or times out
(`urlopen` has a timeout).

`SupervisionFairness` is weak fairness of every step of a service of its own, and of a manager's job, of the health
check's timer and of the Supervisor's cycle. Crashes, used numbers and Dashboard actions are never forced, and no
program that has got an old number is ever forced to end (`StrangerEnds` is a breakdown without fairness).
`RunnerComesBack` has as premises that the services stay switched on, that nothing is disturbed, that the health
check is installed or a Supervisor stays, and `[]<>(~ Blocked)`: as long as a stranger has the number in the Runner's PID
file, `ensure_component` answers BLOCKED and starts nothing (`components.py:323`).

### Disagreements found

Each of these has a run of one property that TLC violates.

| Run | The repository says | The code does |
|---|---|---|
| `violation_quarantine` | `validation.py:305-308`: the task of a QUARANTINED lock is WAITING_HUMAN | `requeue`, `update` and `cancel` move that task; `recover` then always refuses, and the lock stays for good |
| `violation_capacity` | `recovery.py:5`: an execution that can no longer be shown to be alive leaves the active capacity | the sweep runs only inside claim and recover; when lost Workers fill all slots the Runner starts nobody, nobody claims, and nothing sweeps |
| `violation_retry` | `codex_cli_runtime.py:420-422`: no retry after possible side effects | the evidence is looked for in what the buffer holds after a join that may give up (`:542`): an announcement still in the pipe, as when a process that outlived codex holds it open, or dropped from the bounded buffer, is not seen, and an attempt that wrote is repeated |

Met while modelling and not given a run:

- `worker.md:17` and `recovery.py:109` call the timeout that of one attempt, but `started_at` is
  written when the row is queued (`execution_dispatch.py:263`) and not renewed by the claim
  (`worker/control.py:245`): time in the queue counts.
- `agent.py:8-9` says that a provider thread that lives on after its deadline leaves the scope to
  the recovery, isolated. `OwnedWorkStillRunning` is an `Exception`, `run` catches it
  (`agent.py:165`) and reports FAILED, and `finish` releases the locks (`Abort` of `AgentRun`). The
  thread itself writes nothing.
- `recover` clears `recovery_required` and leaves STALLED or TIMED_OUT
  (`recovery.py:361`), which `validation.py:223-224` rejects. A recovered STALLED row
  is escalated to TIMED_OUT when its attempt clock runs out (`recovery.py:125`) and needs
  recovery again, with no lock left to recover (`recovery.py:285` raises).
- A split rewires the dependencies of every downstream task, QUEUED and RUNNING ones
  included (`planner_control.py:735`, against `operator.md:62`).
- `queue_snapshot` offers the first queued rows whatever their last claim said; a row
  refused each time keeps its launch slot from a ready one behind it (`agent_runtime.py:138`, against
  `worker/control.py:133-134`). `ReadyTasksFinish` is therefore checked with tasks that
  stay claimable.
- When `taskkill` fails, `_terminate_process_tree` kills the codex process alone; a command it
  started may write on while `finish` releases the locks (`codex_cli_runtime.py:635`,
  against its comment that no writing process is left behind).
- `command_enqueue` forbids what only the Planner may write, but neither forbids nor clears `archived_at`
  (`operator/control.py:349-388`), and `insert_task` stores it (`task_store.py:293`). Neither Planner scheduling
  (`planner_control.py:68-71`) nor dispatch looks at the column, so a task may be inspected, run and finished in the archive.
- `run_planner_codex` catches `Exception` only (`planner_codex_runtime.py:243,247`), so Ctrl-C leaves its inspection
  open until the timeout; `planner_agent_runtime.py:424` reports it, unless it comes during that report.
- `codex_cli_runtime.py:477` compares the casefolded project of a key with the path of the registry as it
  is written, against `scopes.py:3-5` (paths are compared without case): a project registered with an upper-case letter never
  gets a working directory, and its tasks are reported FAILED after the claim.
- `sandbox.py:56` asks the disk whether a scope is a directory, the lock was taken by the mode of the key. A
  file key whose path is a directory, or becomes one, opens the whole tree. Keys of a project registered
  below another never conflict with those of the outer one (`scopes.py:93`), while the outer scope opens the inner files. Two
  Workers can then open one file. The execution run has both; `Stray` names both cases, and
  `StrayFiles` proves that there are no others.
- The sandbox of the codex process is the whole project root (`codex_cli_runtime.py:226`); its scope is in its prompt
  only. `FilesApart` is about what `ScopePolicy` opens, so about the self-hosted agent.
- Two heartbeats of a Planner process under way at once refuse each other by their version, and a healthy
  inspection loses its attempts and is reported FAILED (`planner_agent_runtime.py:169`). After a lost answer the
  report is sent a second time, against the docstring of `run` (it reports once). The migration commands
  raise the version of a draft under inspection (`operator/control.py:740`): even FAILED is refused,
  and the row is open until its timeout.
- The retries of a provider request each get the time that was left when the call began, and pauses come on
  top (`deepseek.py:193`): the thread may outlast the attempt by a multiple of it.
- A manager that has read no PID clears the file of an instance that claimed in between
  (`components.py:357`, `278`; against `components.py:172`, `service_runtime.py:189`), and a second
  instance may start. So does the health check after an identity query that failed for a
  live Supervisor (`health.py:123`): then two Supervisors run, and the heartbeat of the one without a file overwrites that
  of the other. The Dashboard starts a Supervisor without the health lock.
- `health.py:134` kills by PID, five seconds after its one look at whose PID it is, against its docstring (only the
  Supervisor whose identity is certain); `components.py:195` looks again.
- One identity query that fails makes `ensure_component` stop a healthy service. The health check waits 30 s
  for the first heartbeat of a Supervisor, which is written after its first cycle. `set_service_enabled`
  (`service_control.py:25`) and the health state read, change and write without a lock, and
  `write_json_atomic` uses one temporary name for all writers.
- A restore overwrites what another process has stored and reported meanwhile (`store.py:330-335`; the lock is one of the
  process, line 108). A deletion of the candidate that fails after the commit is reported as an error though the
  value is replaced (`store.py:324-328`), a write that fails after taking effect is not restored
  (`store.py:307`), and a crash leaves the candidate entry behind (`store.py:299`).
- The Dashboard records its event after the lock is released (`dashboard_server.py:846`), and `secretctl` records
  none: VALID may be shown of another value. A refused rotation is shown as INVALID though the old key is valid and
  stored (`dashboard_server.py:820-828`).

None of them breaks the lock properties of the control plane: the stranded lock of the first blocks too
much, never too little.

## 4. Proofs

The proofs about the control plane hold for any finite sets of ids, any symmetric, reflexive conflict relation
and any positive limits (`ConflictAssumption`, `IdAssumption`, `LimitAssumption`, evaluated by TLC in every run of
them), those about the runtimes for any limits of retries, steps, calls and events, those about the secret
store for any keys and any number of clients, requests and failing calls, those about the services for any
PIDs, faults and actions of the Dashboard. `PidAssumption` says that no PID is 0, which stands for the empty
PID file.

| Module | Theorems | Inductive invariant |
|---|---|---|
| `LoopControlLocks` | `TypeCorrect`, `LocksExclude`, `WritersApart`, `LocksImplementWriteAccess` | `TypeInv`: `TypeOK`, and that executions and inspections that exist have a task, those that do not have none; `LockInv` = types, `ScopeExclusion`, `CredentialBacked`, `IdleBare` |
| `LoopControlCoupling` | `LocksHaveOwners`, `TasksMatchExecutions` | `CouplingInv` = `LockInv`, `LockLifecycle`, `ExecutionCoupling`, `QuarantineBacked` |
| `LoopControlHistory` | `QuarantineIsHeld`, `ContractIsStable`, `ExecutionsMoveForward`, `EvidenceIsCurrent` | `CouplingInv`; `EvidenceInv` for the last |
| `LoopControlQueues` | `DraftsAreFenced`, `ContractsArePublished`, `VerdictIsFinal`, `ArchivedIsFrozen`, `DependenciesAreSound`, `PlannerStaysWithinLimit`, `WorkersStayWithinLimits` | `PlannerInv` = types, `PlannerFence`, `ContractPublished`, `AbsentUntouched`; with it `DependenciesSound` and `PlannerCapacity`, with the types `CapacityRespected` |
| `RunnerControlProofs` | `RunnerImplementsControl`, `WritersApartUnderRunner`, `RunnerTypeCorrect`, `OneProcess` | `RunnerInv`: types of both modules, `WorkingHasClaimed`, `OneProcessPerRow` |
| | `CommonFileConflicts`, `WritersReachNoCommonFile`, `StrayFiles`, `ConflictsAreMutual` | `WritersDisjoint`, proved in `LoopControlLocks` |
| `WorkerRunProofs` | `AgentImplementsContract`, `AgentStopsWriting`, `AgentTypeCorrect` | `AgentInv` = `WritesKnown`, `AttemptsLeft`, `ReportIsLast`, `LossStopsTools`; `AgentTypes`, `CountBounded` for the last |
| | `CodexImplementsContract`, `CodexTypeCorrect` | `CodexInv` = `EventsCounted`, `WritesShow`, `JudgedWhole`, `RetriesKnow`, `ProcessGone`, `AttemptsLeft`, `ReportIsLast`; `CodexTypes`, `BufferOK` for the last |
| `PlannerSecretsProofs` | `PlannerTypeCorrect`, `EndedRunIsClosed`, `PrintedOutcomeIsRecorded`, `VerdictEndsAttempts` | `PlannerRunInv` = types, `InspectionClosed`, `WithinLimits`, `Decided`, `Quiet`, `VersionKnown`, `LastReportAccepted`, `OverOnceRecorded` |
| | `OneOperationInside`, `RefusedIsNeverStored`, `ShownValidIsAccepted`, `ReportsAreTheTruth` | `SecretInv` = types, `RequestPlaces`, `AllVetted`, `EffectsKnown`, `EventTracked` |
| | `CallsAreBounded`, `ReplacingNeedsNoHuman` | `ClientInv` = `SecretInv`, types, `TriesLeft`, `KeyStaysGood` |
| | `PartsKeepTypes` | `PartsInv`: the three side by side, as `MCPlannerSecrets` has them |
| `SupervisionProofs` | `SupervisionTypeCorrect`, `RunningIsRecorded`, `ServicesAreSingle`, `StrangersLive`, `ScenesAreRecorded` | `SupervisionInv` = types, `RecordsFit`, `InstanceRecorded`, `NoStrangerKilled` |

The argument:

- `WritersDisjoint` is not inductive. It speaks of processes, the guards of
  locks. `CredentialBacked` joins the two: every key a live process believes it may
  write is locked for its execution. It survives the sweep because the sweep keeps
  the holder, and `recover` because that waits for the process to be gone; with
  `ScopeExclusion` it gives `WritersDisjoint` and the refinement of `WriteAccess`.
  `IdleBare` says that an execution not yet claimed has neither lock nor process, so
  that a claim really grants to a newcomer.
- `FilesApart` follows from `WritersDisjoint` and `CommonFileConflicts`: if one file is opened
  through two keys that both lock it (neither has it in its `Stray`), it lies in the project of both, which is therefore
  one, and both roots are prefixes of its path, so one is a prefix of the other; then each combination of modes
  compares as a conflict. `ConflictsAreMutual` gives `ConflictAssumption` for these keys.
- `LockLifecycle` and `ExecutionCoupling` need each other: the sweep finds the task
  of a lost execution through the coupling, and finish and recover release the locks that the
  lifecycle says are theirs. `QuarantineBacked` adds that a key marked quarantined
  has a holder.
- `EvidenceOfLastAttempt` needs the intermediate states: `EvidenceOfWaiting` says
  that a WAITING_HUMAN task carries no records or those of the assigned execution.
- `PlannerFence` and `ContractPublished` need each other: an inspection may fence only a draft, and a
  draft is one only while it has no contract. `SweepKeepsFence` shows that the sweep of timed-out inspections,
  with which schedule, claim, heartbeat and finish begin, releases row and draft together, so whatever the command does
  next starts from a fenced state. An id that has no row yet must have left no trace (`AbsentUntouched`), or the next command could find it halfway.
- `VerdictFinal` and `ArchivedFrozen` are proved step by step from these: `ClosedStep` is about the rows, `JudgedStep` about
  the tasks, which only the fencing inspection judges; a finished task has no open inspection and no queued row. `DependenciesSound` needs of the
  search for cycles only that it refuses every cycle; tasks never disappear.
- `PlannerCapacity`: only scheduling adds inspections, and what it counts as free is counted after its own
  sweep, which only takes away. `CapacityRespected`: the Dispatcher does not look at the running slots, so the
  count of the claim, after its sweep, must carry the limits alone; `OneMoreWithinLimit` is the arithmetic.
- `RunnerImplementsControl` maps every step of the Runner and its processes to a command of
  `LoopControl` or to none, so all theorems about `Spec`, those of
  `LoopControlQueues` too, hold under a Runner.
  `OneProcessPerRow` is not inductive: that the second process of a row is refused follows from
  `WorkingHasClaimed`, that the row of a process at work has left the queue, and from no
  command ever bringing a row back into it.
- `AgentImplementsContract` rests on `WritesKnown`: an attempt that has written has it in the
  counter, or ends with an error that allows no retry (the write that broke off before the counter was
  raised). `AgentStepsOfContract` says what a step can be for the contract, and every action of the agent is one
  of these. `OneWriteAfterLoss` is not inductive: after the one write `LossStopsTools` has no tool begin
  before the next beat, which the lost row refuses.
- `CodexImplementsContract` has no premise. `AttemptContract` calls an attempt dirty here when it is known to have written
  (`KnownWrites`): its output was read to its end and nothing was dropped. Of the others, marked `incomplete`, the contract
  promises nothing, and `violation_retry` shows that the code keeps nothing. `EventsCounted` follows every event to the pipe, the
  buffer, or the loss that `Truncated` tells, so what was written shows or is to come (`WritesShow`), and is there when
  `CodexRetryable` looks for it (`JudgedWhole`); `RetriesKnow` carries this over the attempts; `ProcessGone` has the codex process dead
  before the next attempt and before the report.
- `EndedRunIsClosed`: the main thread's last report cannot be refused. The guard has been left, so no other
  command is under way (`Quiet`), and then the controller's copy of `row_version` is the row's own
  (`VersionKnown`: it is the controller's, or in the one answer that is under way). All of it holds unless the run is
  disturbed: an answer lost, a version raised by others, a thread that outlives its join, an interrupt the codex program does not catch
  (`InterruptEnds`), or one that cuts off a command or the last report of the agent. `VerdictEndsAttempts` adds
  `OverOnceRecorded`: after the verdict the process has only to hear of it.
- The theorems about the secret store rest on what each place of an operation implies about entry, candidate and
  result (`EffectsKnown`): under the lock only the operation itself has changed the entry, or another process has,
  and then it is marked as interfered with. `AllVetted` follows the values that a rollback may bring back:
  the value read at the beginning is vetted because everything stored before was. `EventTracked` follows the event from
  the result to the Dashboard, for requests one at a time.
- `ReplacingNeedsNoHuman` needs `KeyStaysGood`: not only the entry but also what any replacement under way would
  restore is accepted, so whenever the thread reads it reads a good key.
- `RunningIsRecorded`: a PID file is claimed only when it is free, and cleared only of nobody, of a process that has
  ended, or with `disturbed` set; a manager knows only PIDs of its own service (`RecordsFit`). `StrangersLive`: the
  managers of the Runner ask once more whose PID it is in the step in which they kill. `ScenesAreRecorded` says
  the same of the scenes with which the run begins.
- `AgentTypeCorrect` bounds the counter of side effects by the calls of the steps so far (`CountBounded`), a
  product of two constants; `CodexTypeCorrect` holds for a buffer that drops events too.
- Steps that touch none of the variables of an invariant are dealt with once, in
  the lemmas `TaskEdit`, `PlannerEdits`, `OperatorEdits` and `ClockEdits`.

Every invariant and every action property of the passing runs is a theorem, and so is the type invariant of each
module with state of its own. Two things to know beside the runs: the theorems about `PlannerRun`, `SecretStore`
and `ProviderClient` are about each part's own specification, and `PartsKeepTypes` about the three side by side;
`InspectionClosed`, `NoAttemptAfterVerdict`, `InstanceRecorded`, `StatusIsCurrent` and `FilesApart` name their exceptions in the formula,
and each of these is listed under Disagreements.

Only model-checked: the liveness properties, which need fairness (`ReadyTasksFinish`, `InspectionsEnd`,
`LossEndsAttempt`, `WorkerRunEnds`, `LossEndsInspection`, `PartsEnd`, `RunnerComesBack`, `SwitchesObeyed`).
Liveness under fairness, ENABLED and induction over data are out of the prover's reach.

## 5. Not modelled

- The timers of the Scheduler loop appear as fairness only, each a premise.
- Configuration, normalisation of task text, JSON, the command line: pure functions or I/O without protocol.
- Pages, sessions and the request-id cache of the Dashboard; its configuration actions.
- Migrations of the schema rewrite old databases once. The two maintenance commands of the Operator that
  rewrite runtime and assets of all tasks are left out with the columns they write, but for the version
  they raise under a Planner (`PlannerRun`).
- Which paths and commands a tool call accepts beyond its scope; translation of messages and tools to the
  provider, and the startup check of a profile.
- The health lock and the displayed health state; Scheduler and Dashboard as services of their own.
- The Validation Worker, enabled in the delivered configuration, which answers test tasks with a fixed report.
- Cryptography and the credential manager itself are external.

## 6. Plan

1. Proofs: the steps on which the liveness properties rest, where they are action properties; what a
   `RECOVERED` or `LOST` row implies for the Runner's slots, so that `violation_capacity` gets a counterpart.
2. `AttemptClock`: integer time, heartbeat, lease and timeout at their `<=`
   boundaries, refining `stale` and `overdue`.
3. `DependencyGraph`: the depth-first search against `Acyclic`.
4. `RowVersions`: dashboard edits with expected versions (unarchive does not advance
   the version, cancel takes none).
