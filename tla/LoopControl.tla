----------------------------- MODULE LoopControl -----------------------------
(***************************************************************************)
(* The control plane: all commands over one database.  Scheduler, Runner,  *)
(* Worker, Planner and Operator are separate processes that meet only in   *)
(* it, so any command may come next.  The properties say what their        *)
(* interleavings must keep.                                                *)
(***************************************************************************)
EXTENDS WorkerControl, Dispatcher, PlannerControl, OperatorControl

Clock ==
  \/ \E e \in Exec : HeartbeatLapses(e) \/ AttemptTimesOut(e)
  \/ \E p \in Preflight : InspectionLapses(p)

RecoveryStep ==
  \E e \in Exec :
    \/ RecoverWait(e)
    \/ \E action \in {"requeue", "failed"} : RecoverRelease(e, action)

WorkerStep ==
  \/ ClaimNothing
  \/ \E e \in Exec :
       \/ Claim(e)
       \/ Heartbeat(e)
       \/ ProcessEnds(e)
       \/ \E keys \in SUBSET Scope : ExtendScope(e, keys)
       \/ \E final \in {"SUCCEEDED", "FAILED", "WAITING_HUMAN"},
             verified \in BOOLEAN : Finish(e, final, verified)

DispatcherStep ==
  \E t \in Task, e \in Exec : Dispatch(t, e) \/ UnscheduleExecution(t, e)

PlannerStep ==
  \/ PreflightNothing
  \/ \E S \in SUBSET Task : \E insp \in [S -> Preflight] :
       SchedulePreflight(S, insp)
  \/ \E t \in Task : UnschedulePreflight(t)
  \/ \E p \in Preflight :
       \/ PreflightClaim(p)
       \/ \E S \in SUBSET Scope : PreflightReady(p, S)
       \/ \E verdict \in {"NEEDS_REVIEW", "FAILED"} :
            PreflightReturn(p, verdict)
       \/ PreflightSplit(p)

OperatorStep ==
  \E t \in Task :
    \/ \E D \in SUBSET Task : Enqueue(t, D) \/ Update(t, D)
    \/ RequeueDraft(t)
    \/ RequeueReady(t)
    \/ Cancel(t)
    \/ Confirm(t)
    \/ ResolveHuman(t)
    \/ Archive(t)
    \/ Unarchive(t)

Next ==
  \/ Clock
  \/ RecoveryStep
  \/ WorkerStep
  \/ DispatcherStep
  \/ PlannerStep
  \/ OperatorStep

Spec == Init /\ [][Next]_vars

-----------------------------------------------------------------------------
(***************************************************************************)
(* Scope locks.                                                            *)
(***************************************************************************)
\* Locks of different executions never conflict, quarantined or active, even
\* though claims, extensions and sweeps interleave (validation.py reports
\* overlapping_locks otherwise).
ScopeExclusion ==
  \A a, b \in Scope :
    /\ holder[a] # None
    /\ holder[b] # None
    /\ <<a, b>> \in Conflict
    => holder[a] = holder[b]

\* Two live Worker processes never believe they may write conflicting scopes:
\* not after a sweep took one out of its capacity while its process lives on,
\* not after an Operator sent its task to the queue again.
WritersDisjoint ==
  \A e, f \in Exec : \A a \in credential[e], b \in credential[f] :
    <<a, b>> \in Conflict => e = f

\* An ACTIVE lock belongs to a RUNNING execution of a RUNNING task that is
\* assigned to it; a QUARANTINED lock to one that was lost and still needs
\* recovery.  No lock is ever without a row that can release it.
LockLifecycle ==
  \A s \in Scope : holder[s] # None =>
    LET e == holder[s] IN
    IF s \in quarantined
    THEN execStatus[e] \in {"STALLED", "TIMED_OUT"} /\ e \in recoveryRequired
    ELSE /\ execStatus[e] = "RUNNING"
         /\ status[execTask[e]] = "RUNNING"
         /\ assignedAgent[execTask[e]] = e

\* A lock leaves quarantine only when its Worker process has ended and the
\* recovery decision is stored with its execution: no claim, finish, requeue,
\* update or cancel of anybody sets it free (operator.md: the scope stays
\* QUARANTINED until the old process tree is confirmed gone).
QuarantineHeld ==
  [][\A s \in quarantined :
       \/ s \in quarantined' /\ holder'[s] = holder[s]
       \/ /\ holder'[s] = None
          /\ credential[holder[s]] = {}
          /\ recoveryAction'[holder[s]] \in {"requeue", "failed"}]_vars

(***************************************************************************)
(* Executions and their tasks.                                             *)
(***************************************************************************)
\* A QUEUED or RUNNING execution is the only one of its task, and the task is
\* in the same state.
OneActiveExecution ==
  \A e \in Exec : execStatus[e] \in {"QUEUED", "RUNNING"} =>
    /\ status[execTask[e]] = execStatus[e]
    /\ preflightStatus[execTask[e]] = "READY"
    /\ \A f \in Exec \ {e} : execTask[f] = execTask[e] =>
         execStatus[f] \notin {"QUEUED", "RUNNING"}

\* A RUNNING execution is the one its task is assigned to, and holds exactly
\* the locks of the keys of the contract.
RunningHoldsContract ==
  \A e \in Exec : execStatus[e] = "RUNNING" =>
    /\ assignedAgent[execTask[e]] = e
    /\ LocksOf(e) = scopes[execTask[e]]

\* A QUEUED or RUNNING task has an execution in the same state.
ActiveTaskHasExecution ==
  \A t \in Task : status[t] \in {"QUEUED", "RUNNING"} =>
    \E e \in Exec : execTask[e] = t /\ execStatus[e] = status[t]

\* Tasks and executions agree, though dispatch, claim, sweep, report and the
\* Operator write them in separate commands: a task has at most one active
\* execution, is QUEUED or RUNNING exactly while that one is, and its locks are
\* those of its contract as long as it runs.
ExecutionCoupling ==
  OneActiveExecution /\ RunningHoldsContract /\ ActiveTaskHasExecution

\* The running executions stay within the global and the platform limit, the
\* queued ones within the queue limit, whatever the order of claims, sweeps
\* and recoveries.
CapacityRespected ==
  /\ Cardinality({e \in Exec : execStatus[e] = "RUNNING"}) <= GlobalLimit
  /\ \A p \in Platform :
       Cardinality(Running(p, execStatus)) <= PlatformLimit[p]
  /\ Cardinality(Queued) <= QueueLimit

\* An execution goes through its life once: a row that was closed or lost never
\* runs again, whatever late claim, heartbeat or report arrives, a FINISHED one
\* never changes, and its task never changes.
ExecutionOrder ==
  [][\A e \in Exec :
       /\ execTask[e] # None => execTask'[e] = execTask[e]
       /\ execStatus[e] = "RUNNING" =>
            execStatus'[e] \in {"RUNNING", "FINISHED", "STALLED", "TIMED_OUT"}
       /\ execStatus[e] = "STALLED" => execStatus'[e] \in {"STALLED", "TIMED_OUT"}
       /\ execStatus[e] \in {"FINISHED", "TIMED_OUT"} =>
            execStatus'[e] = execStatus[e]]_vars

\* A task counts as done only on verification records of the attempt it was
\* last assigned to: requeues, lost attempts and human answers never let the
\* records of an earlier attempt stand for a later one.
EvidenceOfLastAttempt ==
  \A t \in Task : status[t] \in Complete =>
    verifiedBy[t] # None /\ verifiedBy[t] = assignedAgent[t]

\* While an execution of a task is queued or running nobody takes a key from
\* its contract, and while it is queued nobody adds one: the Worker is claimed
\* for the contract the Dispatcher saw.
ContractStable ==
  [][\A t \in Task :
       /\ status[t] = "RUNNING" /\ status'[t] = "RUNNING" =>
            scopes[t] \subseteq scopes'[t]
       /\ status[t] = "QUEUED" => scopes'[t] = scopes[t]]_vars

(***************************************************************************)
(* Planner and dependencies.                                               *)
(***************************************************************************)
\* A draft in the Planner queue is fenced by exactly one active inspection of
\* it in the same state, and every active inspection fences its draft
\* (validation.py, invalid_preflight_states and invalid_planners).
PlannerFence ==
  /\ \A t \in Task :
       /\ preflightExecution[t] # None <=>
            preflightStatus[t] \in {"QUEUED", "INSPECTING"}
       /\ preflightExecution[t] # None =>
            /\ inspTask[preflightExecution[t]] = t
            /\ inspStatus[preflightExecution[t]] = preflightStatus[t]
  /\ \A p \in Preflight : inspStatus[p] \in {"QUEUED", "INSPECTING"} =>
       /\ status[inspTask[p]] = "DRAFT"
       /\ preflightExecution[inspTask[p]] = p

\* Queued and active inspections together never exceed the Planner limit: the
\* claim does not test it, so scheduling must have.
PlannerCapacity ==
  Cardinality({p \in Preflight : inspStatus[p] \in {"QUEUED", "INSPECTING"}})
    <= PlannerLimit

\* The step gives t a verdict: it becomes READY or FAILED for the Planner, goes
\* to review, or gets a contract, other than by the extension of a running
\* Worker.
Judged(t) ==
  \/ preflightStatus'[t] \in {"READY", "FAILED"} \ {preflightStatus[t]}
  \/ status'[t] = "NEEDS_REVIEW" /\ status[t] # "NEEDS_REVIEW"
  \/ status[t] # "RUNNING" /\ scopes'[t] \notin {{}, scopes[t]}

\* Once an inspection is closed, its verdict is final, and a late or repeated
\* result changes neither the row nor a task: a task is judged only by the
\* inspection that fences it, in the step that closes this inspection, and as
\* this inspection records it.
VerdictFinal ==
  [][/\ \A p \in Preflight : inspStatus[p] \in {"FINISHED", "FAILED", "TIMED_OUT"} =>
          inspStatus'[p] = inspStatus[p] /\ inspOutcome'[p] = inspOutcome[p]
     /\ \A t \in Task : Judged(t) =>
          \E p \in Preflight :
            /\ preflightExecution[t] = p /\ inspTask[p] = t
            /\ inspStatus[p] = "INSPECTING"
            /\ inspStatus'[p] \in {"FINISHED", "FAILED"}
            /\ inspOutcome'[p] = "READY" <=> preflightStatus'[t] = "READY"]_vars

\* A task that may be dispatched, or was, has a contract, and a task without
\* one is a draft, in review, or given up.
ContractPublished ==
  \A t \in Task :
    /\ status[t] \in {"PENDING", "QUEUED", "RUNNING", "WAITING_HUMAN",
                      "SUCCEEDED", "CONFIRMED"} => preflightStatus[t] = "READY"
    /\ preflightStatus[t] = "READY" => scopes[t] # {}
    /\ status[t] = "DRAFT" =>
         preflightStatus[t] \in {"UNINSPECTED", "QUEUED", "INSPECTING"}

\* Enqueue, update and the rewiring of a split never close a dependency cycle
\* and never leave a dependency on a task that does not exist.
DependenciesSound ==
  /\ Acyclic(dependsOn)
  /\ \A t \in Task : dependsOn[t] \subseteq Existing

\* A finished task that is archived stays as it finished, with its contract and
\* its evidence, until it is taken out of the archive.  (A draft may be archived
\* from its enqueue on; inspection, dispatch and Worker do not look at it.)
ArchivedFrozen ==
  [][\A t \in archived : status[t] \in {"CONFIRMED", "FAILED", "CANCELLED"} =>
       /\ status'[t] = status[t]
       /\ preflightStatus'[t] = preflightStatus[t]
       /\ scopes'[t] = scopes[t]
       /\ verifiedBy'[t] = verifiedBy[t]]_vars

(***************************************************************************)
(* What the repository states and the code does not keep.                  *)
(***************************************************************************)
\* validation.py, mismatched_locks: the task of a QUARANTINED lock is
\* WAITING_HUMAN.
QuarantineAwaitsHuman ==
  \A s \in quarantined :
    holder[s] # None => status[execTask[holder[s]]] = "WAITING_HUMAN"

-----------------------------------------------------------------------------
(***************************************************************************)
(* The control plane implements WriteAccess: what a live Worker may write  *)
(* is granted by claim and extension alone, and never while another live   *)
(* Worker may write what conflicts.                                        *)
(***************************************************************************)
Access == INSTANCE WriteAccess WITH
            Writer <- Exec, Key <- Scope, Clash <- Conflict,
            access <- credential

ImplementsWriteAccess == Access!Spec
=============================================================================
