------------------------------ MODULE LoopStore ------------------------------
(***************************************************************************)
(* The rows of the task database that the control commands read and write  *)
(* (schemas/loop-agent.sql), and the projections they share.               *)
(*                                                                         *)
(* Every loopctl command is one BEGIN IMMEDIATE transaction, so a command  *)
(* is one step of the model; a command that raises is rolled back whole    *)
(* and is no step at all.  The modules Recovery, WorkerControl,            *)
(* Dispatcher, PlannerControl and OperatorControl give the commands,       *)
(* LoopControl composes them.                                              *)
(***************************************************************************)
EXTENDS Naturals, FiniteSets

CONSTANTS
  Task,            \* task ids
  Exec,            \* Worker execution ids
  Preflight,       \* Planner execution ids
  Scope,           \* scope keys (project:, module:, file:, external:)
  Conflict,        \* the pairs scope_keys_conflict accepts
  Platform,        \* runtime environments
  PlatformOf,      \* the runtime environment of a task
  PlatformLimit,   \* RUNNING executions allowed per runtime environment
  GlobalLimit,     \* RUNNING executions allowed in all
  QueueLimit,      \* max_queued_executions
  PlannerLimit,    \* planner.max_active_executions
  PlannerBatch,    \* planner.max_tasks_per_cycle
  None             \* NULL in an id column

\* scope_keys_conflict compares two keys, whichever comes first, and a key
\* conflicts with itself.
ASSUME ConflictAssumption ==
  /\ Conflict \subseteq Scope \X Scope
  /\ \A a \in Scope : <<a, a>> \in Conflict
  /\ \A a, b \in Scope : <<a, b>> \in Conflict => <<b, a>> \in Conflict

ASSUME IdAssumption ==
  /\ IsFiniteSet(Task)
  /\ IsFiniteSet(Exec)
  /\ IsFiniteSet(Preflight)
  /\ None \notin Task \cup Exec \cup Preflight

\* initialization.json: every limit is a positive integer.
ASSUME LimitAssumption ==
  /\ PlatformOf \in [Task -> Platform]
  /\ PlatformLimit \in [Platform -> Nat \ {0}]
  /\ GlobalLimit \in Nat \ {0}
  /\ QueueLimit \in Nat \ {0}
  /\ PlannerLimit \in Nat \ {0}
  /\ PlannerBatch \in Nat \ {0}

VARIABLES
  \* tasks, task_dependencies, task_scopes, task_verifications
  status,              \* tasks.status
  preflightStatus,     \* tasks.preflight_status
  preflightExecution,  \* tasks.preflight_execution_id
  dependsOn,           \* task_dependencies
  scopes,              \* task_scopes: the keys of the execution contract
  assignedAgent,       \* tasks.assigned_agent
  verifiedBy,          \* the execution whose report left task_verifications
  archived,            \* tasks with archived_at set
  \* executions
  execStatus,          \* executions.status, None before the row exists
  execTask,            \* executions.task_id
  recoveryRequired,    \* executions with recovery_required = 1
  recoveryAction,      \* executions.recovery_action
  stale,               \* heartbeat or lease is past its limit
  overdue,             \* started_at + attempt_timeout_seconds is past
  \* scope_locks
  holder,              \* the execution that holds the lock of a scope key
  quarantined,         \* scope keys whose lock is QUARANTINED, not ACTIVE
  \* the Worker process trees, outside the database
  credential,          \* the scope keys a live Worker believes it may write
  \* preflight_executions
  inspStatus,          \* preflight_executions.status
  inspTask,            \* preflight_executions.task_id
  inspOutcome,         \* preflight_executions.outcome
  inspLate             \* heartbeat, lease or deadline is past its limit

taskVars == <<status, preflightStatus, preflightExecution, dependsOn, scopes,
              assignedAgent, verifiedBy, archived>>
execVars == <<execStatus, execTask, recoveryRequired, recoveryAction, stale,
              overdue>>
lockVars == <<holder, quarantined>>
inspVars == <<inspStatus, inspTask, inspOutcome, inspLate>>
vars     == <<taskVars, execVars, lockVars, credential, inspVars>>

(***************************************************************************)
(* Types.  "ABSENT" is a task id no row has yet; WAITING_CONFLICT, which   *)
(* only a legacy database holds, and the execution status EXPIRED, which   *)
(* no command writes, are left out.                                        *)
(***************************************************************************)
TaskStatus == {"ABSENT", "DRAFT", "NEEDS_REVIEW", "PENDING", "QUEUED",
               "RUNNING", "WAITING_HUMAN", "SUCCEEDED", "CONFIRMED",
               "FAILED", "CANCELLED"}
PreflightStatus == {"UNINSPECTED", "QUEUED", "INSPECTING", "READY", "FAILED"}
ExecStatus == {"ABSENT", "QUEUED", "RUNNING", "FINISHED", "STALLED",
               "TIMED_OUT"}
InspStatus == {"ABSENT", "QUEUED", "INSPECTING", "FINISHED", "FAILED",
               "TIMED_OUT"}
Verdict == {"READY", "SPLIT", "NEEDS_REVIEW", "FAILED"}

TypeOK ==
  /\ status \in [Task -> TaskStatus]
  /\ preflightStatus \in [Task -> PreflightStatus]
  /\ preflightExecution \in [Task -> Preflight \cup {None}]
  /\ dependsOn \in [Task -> SUBSET Task]
  /\ scopes \in [Task -> SUBSET Scope]
  /\ assignedAgent \in [Task -> Exec \cup {None}]
  /\ verifiedBy \in [Task -> Exec \cup {None}]
  /\ archived \in SUBSET Task
  /\ execStatus \in [Exec -> ExecStatus]
  /\ execTask \in [Exec -> Task \cup {None}]
  /\ recoveryRequired \in SUBSET Exec
  /\ recoveryAction \in [Exec -> {"NONE", "wait", "requeue", "failed"}]
  /\ stale \in SUBSET Exec
  /\ overdue \in SUBSET Exec
  /\ holder \in [Scope -> Exec \cup {None}]
  /\ quarantined \in SUBSET Scope
  /\ credential \in [Exec -> SUBSET Scope]
  /\ inspStatus \in [Preflight -> InspStatus]
  /\ inspTask \in [Preflight -> Task \cup {None}]
  /\ inspOutcome \in [Preflight -> Verdict \cup {"NONE", "TIMED_OUT"}]
  /\ inspLate \in SUBSET Preflight

\* A new database: the schema's tables, and no row in them.
Init ==
  /\ status = [t \in Task |-> "ABSENT"]
  /\ preflightStatus = [t \in Task |-> "UNINSPECTED"]
  /\ preflightExecution = [t \in Task |-> None]
  /\ dependsOn = [t \in Task |-> {}]
  /\ scopes = [t \in Task |-> {}]
  /\ assignedAgent = [t \in Task |-> None]
  /\ verifiedBy = [t \in Task |-> None]
  /\ archived = {}
  /\ execStatus = [e \in Exec |-> "ABSENT"]
  /\ execTask = [e \in Exec |-> None]
  /\ recoveryRequired = {}
  /\ recoveryAction = [e \in Exec |-> "NONE"]
  /\ stale = {}
  /\ overdue = {}
  /\ holder = [s \in Scope |-> None]
  /\ quarantined = {}
  /\ credential = [e \in Exec |-> {}]
  /\ inspStatus = [p \in Preflight |-> "ABSENT"]
  /\ inspTask = [p \in Preflight |-> None]
  /\ inspOutcome = [p \in Preflight |-> "NONE"]
  /\ inspLate = {}

-----------------------------------------------------------------------------
(***************************************************************************)
(* Projections the commands share.                                         *)
(***************************************************************************)
Complete == {"SUCCEEDED", "CONFIRMED"}

\* dependencies_ready
DependenciesReady(t) == \A d \in dependsOn[t] : status[d] \in Complete

LocksOf(e) == {s \in Scope : holder[s] = e}

\* Two wrong versions of Blocked: the first compares keys for equality only,
\* the second takes a quarantined key for a free one.
BlockedSameKey(keys, E) == \E a \in keys : holder[a] \in E
BlockedByActive(keys, E) ==
  \E a \in keys, b \in Scope \ quarantined :
    holder[b] \in E /\ <<a, b>> \in Conflict

\* scope_conflicts_for_keys, against the locks of the executions in E.
Blocked(keys, E) ==
  \E a \in keys, b \in Scope : holder[b] \in E /\ <<a, b>> \in Conflict

\* Every key of keys is locked for e, the others keep their holder.
Lock(keys, e) == [s \in Scope |-> IF s \in keys THEN e ELSE holder[s]]

\* DELETE FROM scope_locks WHERE execution_id = e
Unlock(e) == [s \in Scope |-> IF holder[s] = e THEN None ELSE holder[s]]

\* dependency_cycle_path finds nothing: no set of tasks in which every task
\* depends on one of them.
Acyclic(deps) ==
  ~ \E S \in SUBSET Task : S # {} /\ \A t \in S : deps[t] \cap S # {}

\* A wrong MayDepend, which finds a dependency of a task on itself only.
MayDependDirect(t, D, known) == D \subseteq known /\ t \notin D

\* set_task_dependencies accepts replacing the edges of t by D, when the
\* tasks of the set known have rows.
MayDepend(t, D, known) ==
  /\ D \subseteq known
  /\ t \notin D
  /\ Acyclic([dependsOn EXCEPT ![t] = D])

Existing == {t \in Task : status[t] # "ABSENT"}
=============================================================================
