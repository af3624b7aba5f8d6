----------------------------- MODULE Dispatcher -----------------------------
(***************************************************************************)
(* The durable Worker queue (scheduler/execution_dispatch.py).  A task is  *)
(* queued by inserting a QUEUED execution; the Runner starts a Worker for  *)
(* it later, and the Worker claims it.                                     *)
(***************************************************************************)
EXTENDS LoopStore

\* A lock of another task is on a conflicting key: task_dict's
\* blocking_scopes, which leaves out the locks of the task itself.
BlockedByOthers(t) ==
  Blocked(scopes[t], {e \in Exec : execTask[e] # t})

\* select_candidate, for an automatic task the configuration can route.
\* Which of the candidates comes first (priority, age, id) is left open.
Candidate(t) ==
  /\ status[t] = "PENDING"
  /\ preflightStatus[t] = "READY"
  /\ scopes[t] # {}
  /\ DependenciesReady(t)
  /\ ~ BlockedByOthers(t)

Queued == {e \in Exec : execStatus[e] = "QUEUED"}

\* ExecutionDispatcher._run_one, outcome QUEUED, with the new execution id e.
\* Heartbeat, lease and attempt clock start now.
Dispatch(t, e) ==
  /\ Cardinality(Queued) < QueueLimit
  /\ Candidate(t)
  /\ execStatus[e] = "ABSENT"
  /\ execStatus' = [execStatus EXCEPT ![e] = "QUEUED"]
  /\ execTask' = [execTask EXCEPT ![e] = t]
  /\ status' = [status EXCEPT ![t] = "QUEUED"]
  /\ UNCHANGED <<preflightStatus, preflightExecution, dependsOn, scopes,
                 assignedAgent, verifiedBy, archived, recoveryRequired,
                 recoveryAction, stale, overdue, lockVars, credential,
                 inspVars>>

\* command_unschedule_execution: the one QUEUED row of a task is closed and the
\* task is PENDING again, if no Worker claimed it first.
UnscheduleExecution(t, e) ==
  /\ status[t] = "QUEUED"
  /\ preflightStatus[t] = "READY"
  /\ {f \in Queued : execTask[f] = t} = {e}
  /\ execStatus' = [execStatus EXCEPT ![e] = "FINISHED"]
  /\ status' = [status EXCEPT ![t] = "PENDING"]
  /\ UNCHANGED <<preflightStatus, preflightExecution, dependsOn, scopes,
                 assignedAgent, verifiedBy, archived, execTask,
                 recoveryRequired, recoveryAction, stale, overdue, lockVars,
                 credential, inspVars>>
=============================================================================
