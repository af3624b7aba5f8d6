---------------------------- MODULE WorkerControl ----------------------------
(***************************************************************************)
(* The Worker's commands (worker/control.py): claim, heartbeat,            *)
(* extend-scope and finish, and the two ways its process tree meets the    *)
(* world: it ends, or it goes on with the credential it was given.         *)
(*                                                                         *)
(* A live Worker writes files under the scope keys of its                  *)
(* scope_lock_credential.  credential[e] is that set; it is what the       *)
(* process knows, so a sweep that quarantines the locks does not change    *)
(* it.  {} is a process that has not started or has ended.                 *)
(***************************************************************************)
EXTENDS Recovery

Running(p, est) ==
  {e \in Exec : est[e] = "RUNNING" /\ PlatformOf[execTask[e]] = p}

\* A wrong SlotFree, one too many on each platform.
SlotFreeOffByOne(p) ==
  /\ Cardinality({e \in Exec : SweptExec[e] = "RUNNING"}) < GlobalLimit
  /\ Cardinality(Running(p, SweptExec)) <= PlatformLimit[p]

\* The capacity test of command_claim, on the swept rows.
SlotFree(p) ==
  /\ Cardinality({e \in Exec : SweptExec[e] = "RUNNING"}) < GlobalLimit
  /\ Cardinality(Running(p, SweptExec)) < PlatformLimit[p]

\* A wrong Claimable: a process started for a row may claim it again.
ClaimableAgain(e) ==
  LET t == execTask[e] IN
  /\ execStatus[e] \in {"QUEUED", "RUNNING"}
  /\ SlotFree(PlatformOf[t])
  /\ status[t] = execStatus[e]
  /\ preflightStatus[t] = "READY"
  /\ DependenciesReady(t)
  /\ ~ Blocked(scopes[t], Exec \ {e})

\* What command_claim requires of the execution it was started for.  Nothing
\* else decides: not which process asks, nor whether one asked before.
Claimable(e) ==
  LET t == execTask[e] IN
  /\ execStatus[e] = "QUEUED"
  /\ SlotFree(PlatformOf[t])
  /\ status[t] = "QUEUED"
  /\ preflightStatus[t] = "READY"
  /\ DependenciesReady(t)
  /\ ~ Blocked(scopes[t], Exec)

\* command_claim, outcome CLAIMED.  The row keeps its started_at, so whether it
\* is overdue does not change; heartbeat_at and the lease start anew.
Claim(e) ==
  LET t == execTask[e] IN
  /\ Claimable(e)
  /\ execStatus' = [SweptExec EXCEPT ![e] = "RUNNING"]
  /\ stale' = stale \ {e}
  /\ recoveryRequired' = SweptRequired
  /\ holder' = Lock(scopes[t], e)
  /\ quarantined' = SweptQuarantine
  /\ status' = [SweptStatus EXCEPT ![t] = "RUNNING"]
  /\ assignedAgent' = [assignedAgent EXCEPT ![t] = e]
  /\ verifiedBy' = [verifiedBy EXCEPT ![t] = None]
  /\ credential' = [credential EXCEPT ![e] = scopes[t]]
  /\ UNCHANGED <<preflightStatus, preflightExecution, dependsOn, scopes,
                 archived, execTask, recoveryAction, overdue, inspVars>>

\* command_claim, outcomes SLOT_FULL, CONFLICT and NO_TASK (the dependencies
\* are not ready, or no such row exists), and command_recover, outcomes
\* ALREADY_RECOVERED and ALREADY_WAITING: the sweep is committed alone.
ClaimNothing ==
  /\ execStatus' = SweptExec
  /\ recoveryRequired' = SweptRequired
  /\ quarantined' = SweptQuarantine
  /\ status' = SweptStatus
  /\ UNCHANGED <<preflightStatus, preflightExecution, dependsOn, scopes,
                 assignedAgent, verifiedBy, archived, execTask, recoveryAction,
                 stale, overdue, holder, credential, inspVars>>

\* A command the Worker process of e sends.  It is accepted only while the row
\* is RUNNING; a late one raises and changes nothing.
Reports(e) == credential[e] # {} /\ execStatus[e] = "RUNNING"

\* command_heartbeat.  It looks at the status only, so it also revives an
\* execution whose heartbeat lapsed before any sweep saw it.
Heartbeat(e) ==
  /\ Reports(e)
  /\ stale' = stale \ {e}
  /\ UNCHANGED <<taskVars, execStatus, execTask, recoveryRequired,
                 recoveryAction, overdue, lockVars, credential, inspVars>>

\* command_extend_scope, outcome SCOPE_EXTENDED, for the new keys.
ExtendScope(e, keys) ==
  LET t == execTask[e] IN
  /\ Reports(e)
  /\ status[t] = "RUNNING"
  /\ assignedAgent[t] = e
  /\ keys # {} /\ keys \cap scopes[t] = {}
  /\ ~ Blocked(keys, Exec \ {e})
  /\ scopes' = [scopes EXCEPT ![t] = @ \cup keys]
  /\ holder' = Lock(keys, e)
  /\ credential' = [credential EXCEPT ![e] = @ \cup keys]
  /\ UNCHANGED <<status, preflightStatus, preflightExecution, dependsOn,
                 assignedAgent, verifiedBy, archived, execVars, quarantined,
                 inspVars>>

\* command_finish with a final status and, or not, verification records; a
\* SUCCEEDED report must carry some.  The Worker ends with its report.
Finish(e, final, verified) ==
  LET t == execTask[e] IN
  /\ Reports(e)
  /\ status[t] = "RUNNING"
  /\ final \in {"SUCCEEDED", "FAILED", "WAITING_HUMAN"}
  /\ final = "SUCCEEDED" => verified
  /\ status' = [status EXCEPT ![t] = final]
  /\ verifiedBy' = [verifiedBy EXCEPT ![t] = IF verified THEN e ELSE None]
  /\ execStatus' = [execStatus EXCEPT ![e] = "FINISHED"]
  /\ holder' = Unlock(e)
  /\ quarantined' = quarantined \ LocksOf(e)
  /\ credential' = [credential EXCEPT ![e] = {}]
  /\ UNCHANGED <<preflightStatus, preflightExecution, dependsOn, scopes,
                 assignedAgent, archived, execTask, recoveryRequired,
                 recoveryAction, stale, overdue, inspVars>>

\* The process tree of e ends without a report that was accepted: a crash, a
\* kill by the Runner, or an exit after its late report was refused.
ProcessEnds(e) ==
  /\ credential[e] # {}
  /\ credential' = [credential EXCEPT ![e] = {}]
  /\ UNCHANGED <<taskVars, execVars, lockVars, inspVars>>
=============================================================================
