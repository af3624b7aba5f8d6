------------------------------ MODULE Recovery ------------------------------
(***************************************************************************)
(* Losing a Worker execution and disposing of it:                          *)
(* control/loop_agent/control/recovery.py.                                 *)
(*                                                                         *)
(* transition_recovery_states has no command of its own.  It runs at the   *)
(* start of the claim and of the recover transaction, so it is given here  *)
(* as the values the rows have after it, and those commands go on from     *)
(* these values.  If the command then raises, the sweep is rolled back     *)
(* with it.                                                                *)
(*                                                                         *)
(* Time is two facts about an execution: "stale", its heartbeat or its     *)
(* lease is past the limit (a heartbeat renews both at once), and          *)
(* "overdue", its attempt timeout has passed since started_at.             *)
(***************************************************************************)
EXTENDS LoopStore

\* Time passes without a heartbeat: heartbeat_at or lease_expires_at of a
\* RUNNING row falls behind.
HeartbeatLapses(e) ==
  /\ execStatus[e] = "RUNNING"
  /\ stale' = stale \cup {e}
  /\ UNCHANGED <<taskVars, execStatus, execTask, recoveryRequired,
                 recoveryAction, overdue, lockVars, credential, inspVars>>

\* started_at + attempt_timeout_seconds passes.  The clock runs from the row's
\* started_at, whatever the status: while the row waits in the queue, and
\* after the execution was found stalled or was recovered.
AttemptTimesOut(e) ==
  /\ execStatus[e] \in {"QUEUED", "RUNNING", "STALLED"}
  /\ overdue' = overdue \cup {e}
  /\ UNCHANGED <<taskVars, execStatus, execTask, recoveryRequired,
                 recoveryAction, stale, lockVars, credential, inspVars>>

-----------------------------------------------------------------------------
\* A wrong Lost, which takes rows of any status.
LostAnyStatus == stale \cup overdue

\* stalled_executions, without the rows transition_recovery_states skips.
Lost == {e \in Exec : execStatus[e] = "RUNNING" /\ e \in stale \cup overdue}
Escalated == {e \in Exec : execStatus[e] = "STALLED" /\ e \in overdue}
Swept == Lost \cup Escalated

\* Wrong versions of what follows: the sweep leaves the locks as they are,
\* leaves the task RUNNING, or stores the execution's new status in the task.
SweptQuarantineKept == quarantined
SweptStatusKept == status
SweptStatusMixedUp ==
  [t \in Task |-> IF status[t] = "RUNNING" /\ assignedAgent[t] \in Lost
                  THEN "STALLED" ELSE status[t]]

\* The rows after transition_recovery_states.
SweptExec ==
  [e \in Exec |-> IF e \in Swept
                  THEN IF e \in overdue THEN "TIMED_OUT" ELSE "STALLED"
                  ELSE execStatus[e]]
SweptRequired == recoveryRequired \cup Swept
SweptQuarantine == quarantined \cup {s \in Scope : holder[s] \in Swept}
SweptStatus ==
  [t \in Task |-> IF /\ status[t] = "RUNNING"
                     /\ assignedAgent[t] \in Lost
                     /\ execTask[assignedAgent[t]] = t
                  THEN "WAITING_HUMAN"
                  ELSE status[t]]

-----------------------------------------------------------------------------
\* Wrong versions of Recoverable: without the Runner's confirmation, without
\* the fencing by the task.
RecoverableUnconfirmed(e) ==
  /\ e \in SweptRequired
  /\ LocksOf(e) \cap SweptQuarantine # {}
  /\ SweptStatus[execTask[e]] = "WAITING_HUMAN"
  /\ assignedAgent[execTask[e]] = e
RecoverableUnfenced(e) ==
  /\ e \in SweptRequired
  /\ LocksOf(e) \cap SweptQuarantine # {}
  /\ credential[e] = {}

\* What command_recover requires of the execution, its locks and its task:
\* some lock of it is quarantined, the Runner has confirmed that the process
\* tree is gone, and the task still waits for this very execution.
Recoverable(e) ==
  /\ e \in SweptRequired
  /\ LocksOf(e) \cap SweptQuarantine # {}
  /\ credential[e] = {}
  /\ SweptStatus[execTask[e]] = "WAITING_HUMAN"
  /\ assignedAgent[execTask[e]] = e

\* command_recover --action wait: the decision is recorded, the scope stays
\* quarantined.
RecoverWait(e) ==
  /\ Recoverable(e)
  /\ recoveryAction' = [recoveryAction EXCEPT ![e] = "wait"]
  /\ execStatus' = SweptExec
  /\ recoveryRequired' = SweptRequired
  /\ quarantined' = SweptQuarantine
  /\ status' = SweptStatus
  /\ UNCHANGED <<preflightStatus, preflightExecution, dependsOn, scopes,
                 assignedAgent, verifiedBy, archived, execTask, stale, overdue,
                 holder, credential, inspVars>>

\* command_recover --action requeue or failed (attempt < max_attempts chooses
\* between them when the caller does not): the locks are deleted, the task
\* leaves the execution.  executions.status keeps STALLED or TIMED_OUT.
RecoverRelease(e, action) ==
  LET t == execTask[e] IN
  /\ Recoverable(e)
  /\ action \in {"requeue", "failed"}
  /\ holder' = Unlock(e)
  /\ quarantined' = SweptQuarantine \ LocksOf(e)
  /\ recoveryRequired' = SweptRequired \ {e}
  /\ recoveryAction' = [recoveryAction EXCEPT ![e] = action]
  /\ execStatus' = SweptExec
  /\ status' = [SweptStatus EXCEPT ![t] =
                  IF action = "requeue" THEN "PENDING" ELSE "FAILED"]
  /\ assignedAgent' = [assignedAgent EXCEPT ![t] = None]
  /\ UNCHANGED <<preflightStatus, preflightExecution, dependsOn, scopes,
                 verifiedBy, archived, execTask, stale, overdue, credential,
                 inspVars>>
=============================================================================
