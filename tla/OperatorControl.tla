--------------------------- MODULE OperatorControl ---------------------------
(***************************************************************************)
(* The Operator's commands on tasks (operator/control.py).  Each of them   *)
(* may carry the row_version the caller last saw; a stale one is refused   *)
(* and changes nothing, so the steps here are those whose version, if one  *)
(* was given, is current.                                                  *)
(***************************************************************************)
EXTENDS LoopStore

\* A wrong InPlannerQueue, which forgets what is queued but not yet claimed.
InPlannerQueueClaimed(t) == preflightStatus[t] = "INSPECTING"

\* The Planner queue holds the task: no Operator command may touch it.
InPlannerQueue(t) == preflightStatus[t] \in {"QUEUED", "INSPECTING"}

\* command_enqueue, one task of the batch: a DRAFT with dependencies D.  The
\* command forbids the Planner's fields and no others: insert_task stores the
\* archived_at the caller gave.  It stores a given assigned_agent and given
\* verification records as well; the first claim replaces both before anything
\* reads them, and they are left out.
Enqueue(t, D) ==
  /\ status[t] = "ABSENT"
  /\ MayDepend(t, D, Existing)
  /\ status' = [status EXCEPT ![t] = "DRAFT"]
  /\ dependsOn' = [dependsOn EXCEPT ![t] = D]
  /\ archived' \in {archived, archived \cup {t}}
  /\ UNCHANGED <<preflightStatus, preflightExecution, scopes, assignedAgent,
                 verifiedBy, execVars, lockVars, credential, inspVars>>

\* Wrong versions of Editable: a QUEUED task may be edited, an archived one.
EditableQueued(t) ==
  /\ status[t] \notin {"ABSENT", "RUNNING", "CONFIRMED", "CANCELLED"}
  /\ ~ InPlannerQueue(t)
  /\ t \notin archived
EditableArchived(t) ==
  /\ status[t] \notin {"ABSENT", "QUEUED", "RUNNING", "CONFIRMED", "CANCELLED"}
  /\ ~ InPlannerQueue(t)

\* What command_update requires of the task.
Editable(t) ==
  /\ status[t] \notin {"ABSENT", "QUEUED", "RUNNING", "CONFIRMED", "CANCELLED"}
  /\ ~ InPlannerQueue(t)
  /\ t \notin archived

\* command_update: the definition changes, everything the Planner and the
\* Worker derived from the old one is cleared.  Locks and executions are not
\* looked at.
Update(t, D) ==
  /\ Editable(t)
  /\ D = dependsOn[t] \/ MayDepend(t, D, Existing)
  /\ status' = [status EXCEPT ![t] = "DRAFT"]
  /\ preflightStatus' = [preflightStatus EXCEPT ![t] = "UNINSPECTED"]
  /\ preflightExecution' = [preflightExecution EXCEPT ![t] = None]
  /\ dependsOn' = [dependsOn EXCEPT ![t] = D]
  /\ scopes' = [scopes EXCEPT ![t] = {}]
  /\ assignedAgent' = [assignedAgent EXCEPT ![t] = None]
  /\ verifiedBy' = [verifiedBy EXCEPT ![t] = None]
  /\ UNCHANGED <<archived, execVars, lockVars, credential, inspVars>>

\* command_requeue of a task that never got a contract: back to the Planner.
RequeueDraft(t) ==
  /\ status[t] \in {"DRAFT", "NEEDS_REVIEW"}
  /\ ~ InPlannerQueue(t)
  /\ t \notin archived
  /\ status' = [status EXCEPT ![t] = "DRAFT"]
  /\ preflightStatus' = [preflightStatus EXCEPT ![t] = "UNINSPECTED"]
  /\ preflightExecution' = [preflightExecution EXCEPT ![t] = None]
  /\ scopes' = [scopes EXCEPT ![t] = {}]
  /\ assignedAgent' = [assignedAgent EXCEPT ![t] = None]
  /\ UNCHANGED <<dependsOn, verifiedBy, archived, execVars, lockVars,
                 credential, inspVars>>

\* command_requeue of a task with a contract: back to the Worker queue.  The
\* command looks neither at scope_locks nor at recovery_required.
RequeueReady(t) ==
  /\ status[t] \in {"WAITING_HUMAN", "SUCCEEDED", "FAILED"}
  /\ preflightStatus[t] = "READY"
  /\ t \notin archived
  /\ status' = [status EXCEPT ![t] = "PENDING"]
  /\ assignedAgent' = [assignedAgent EXCEPT ![t] = None]
  /\ UNCHANGED <<preflightStatus, preflightExecution, dependsOn, scopes,
                 verifiedBy, archived, execVars, lockVars, credential,
                 inspVars>>

\* command_cancel
Cancel(t) ==
  /\ status[t] \notin {"ABSENT", "QUEUED", "RUNNING"}
  /\ ~ InPlannerQueue(t)
  /\ t \notin archived
  /\ status' = [status EXCEPT ![t] = "CANCELLED"]
  /\ UNCHANGED <<preflightStatus, preflightExecution, dependsOn, scopes,
                 assignedAgent, verifiedBy, archived, execVars, lockVars,
                 credential, inspVars>>

\* command_confirm
Confirm(t) ==
  /\ status[t] = "SUCCEEDED"
  /\ t \notin archived
  /\ status' = [status EXCEPT ![t] = "CONFIRMED"]
  /\ UNCHANGED <<preflightStatus, preflightExecution, dependsOn, scopes,
                 assignedAgent, verifiedBy, archived, execVars, lockVars,
                 credential, inspVars>>

\* A wrong Resolvable: no verification record is asked for.
ResolvableUnverified(t) ==
  \A e \in Exec : execTask[e] = t =>
    execStatus[e] # "RUNNING" /\ LocksOf(e) = {}

\* command_resolve_human finds no running execution and no lock of the task,
\* and verification records.
Resolvable(t) ==
  /\ \A e \in Exec : execTask[e] = t =>
       execStatus[e] # "RUNNING" /\ LocksOf(e) = {}
  /\ verifiedBy[t] # None

\* command_resolve_human: a human answer completes the task on the evidence
\* its Worker left.
ResolveHuman(t) ==
  /\ status[t] = "WAITING_HUMAN"
  /\ t \notin archived
  /\ Resolvable(t)
  /\ status' = [status EXCEPT ![t] = "SUCCEEDED"]
  /\ UNCHANGED <<preflightStatus, preflightExecution, dependsOn, scopes,
                 assignedAgent, verifiedBy, archived, execVars, lockVars,
                 credential, inspVars>>

\* command_archive and command_unarchive: the status stays.
Archive(t) ==
  /\ status[t] \in {"CONFIRMED", "FAILED", "CANCELLED"}
  /\ archived' = archived \cup {t}
  /\ UNCHANGED <<status, preflightStatus, preflightExecution, dependsOn,
                 scopes, assignedAgent, verifiedBy, execVars, lockVars,
                 credential, inspVars>>

Unarchive(t) ==
  /\ archived' = archived \ {t}
  /\ UNCHANGED <<status, preflightStatus, preflightExecution, dependsOn,
                 scopes, assignedAgent, verifiedBy, execVars, lockVars,
                 credential, inspVars>>
=============================================================================
