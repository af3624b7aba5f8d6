--------------------------- MODULE PlannerControl ---------------------------
(***************************************************************************)
(* Planner preflight (scheduler/planner_control.py): a DRAFT is queued for *)
(* inspection, claimed by a read-only Planner process, and leaves DRAFT by *)
(* its verdict: an execution contract, a split into child tasks, or a      *)
(* question to the Operator.                                               *)
(*                                                                         *)
(* recover_timed_out_preflights runs at the start of schedule, claim,      *)
(* heartbeat and of every finish, in the same transaction.  It is given as *)
(* the values the rows have after it, as in module Recovery.  A Planner    *)
(* heartbeat is accepted only if the sweep leaves its row INSPECTING, so   *)
(* it postpones lateness and never undoes it.                              *)
(***************************************************************************)
EXTENDS LoopStore

\* heartbeat_at, lease_expires_at or attempt_deadline_at of a claimed
\* inspection passes.  The claim sets all three anew.
InspectionLapses(p) ==
  /\ inspStatus[p] = "INSPECTING"
  /\ inspLate' = inspLate \cup {p}
  /\ UNCHANGED <<taskVars, execVars, lockVars, credential, inspStatus,
                 inspTask, inspOutcome>>

-----------------------------------------------------------------------------
TimedOut == {p \in Preflight : inspStatus[p] = "INSPECTING" /\ p \in inspLate}

\* The tasks whose fence still names a timed-out inspection.
Released ==
  {t \in Task : /\ status[t] = "DRAFT"
                /\ preflightStatus[t] = "INSPECTING"
                /\ preflightExecution[t] \in TimedOut
                /\ inspTask[preflightExecution[t]] = t}

\* The rows after recover_timed_out_preflights.
InspAfter == [p \in Preflight |->
                IF p \in TimedOut THEN "TIMED_OUT" ELSE inspStatus[p]]
OutcomeAfter == [p \in Preflight |->
                   IF p \in TimedOut THEN "TIMED_OUT" ELSE inspOutcome[p]]
PreflightAfter == [t \in Task |->
                     IF t \in Released THEN "UNINSPECTED"
                     ELSE preflightStatus[t]]
FenceAfter == [t \in Task |->
                 IF t \in Released THEN None ELSE preflightExecution[t]]

\* A wrong ActiveInspections, which forgets the queue.
ActiveInspectionsClaimed == {p \in Preflight : InspAfter[p] = "INSPECTING"}

ActiveInspections ==
  {p \in Preflight : InspAfter[p] \in {"QUEUED", "INSPECTING"}}

-----------------------------------------------------------------------------
\* command_schedule_preflight.  The drafts of S, as many as slots and the batch
\* size allow, are queued, each with the new row insp[t].  Which drafts come
\* first (priority, age, id) is left open.
SchedulePreflight(S, insp) ==
  LET drafts == {t \in Task : /\ status[t] = "DRAFT"
                              /\ PreflightAfter[t] = "UNINSPECTED"}
      free   == IF Cardinality(ActiveInspections) < PlannerLimit
                THEN PlannerLimit - Cardinality(ActiveInspections)
                ELSE 0
      most   == IF free < PlannerBatch THEN free ELSE PlannerBatch
      rows   == {insp[t] : t \in S}
  IN
  /\ S \subseteq drafts
  /\ \/ Cardinality(S) = most
     \/ S = drafts /\ Cardinality(S) < most
  /\ \A t \in S : inspStatus[insp[t]] = "ABSENT"
  /\ \A t, u \in S : insp[t] = insp[u] => t = u
  /\ inspStatus' = [p \in Preflight |->
                      IF p \in rows THEN "QUEUED" ELSE InspAfter[p]]
  /\ inspTask' = [p \in Preflight |->
                    IF p \in rows THEN CHOOSE t \in S : insp[t] = p
                    ELSE inspTask[p]]
  /\ inspOutcome' = OutcomeAfter
  /\ preflightStatus' = [t \in Task |->
                           IF t \in S THEN "QUEUED" ELSE PreflightAfter[t]]
  /\ preflightExecution' = [t \in Task |->
                              IF t \in S THEN insp[t] ELSE FenceAfter[t]]
  /\ UNCHANGED <<status, dependsOn, scopes, assignedAgent, verifiedBy,
                 archived, execVars, lockVars, credential, inspLate>>

\* command_unschedule_preflight: withdraw an inspection nobody claimed.
UnschedulePreflight(t) ==
  LET p == preflightExecution[t] IN
  /\ status[t] = "DRAFT"
  /\ preflightStatus[t] = "QUEUED"
  /\ p \in Preflight /\ inspTask[p] = t /\ inspStatus[p] = "QUEUED"
  /\ inspStatus' = [inspStatus EXCEPT ![p] = "FINISHED"]
  /\ preflightStatus' = [preflightStatus EXCEPT ![t] = "UNINSPECTED"]
  /\ preflightExecution' = [preflightExecution EXCEPT ![t] = None]
  /\ UNCHANGED <<status, dependsOn, scopes, assignedAgent, verifiedBy,
                 archived, execVars, lockVars, credential, inspTask,
                 inspOutcome, inspLate>>

\* command_preflight_claim, outcome CLAIMED.  It does not test the capacity
\* again.
PreflightClaim(p) ==
  LET t == inspTask[p] IN
  /\ inspStatus[p] = "QUEUED"
  /\ status[t] = "DRAFT"
  /\ preflightStatus[t] = "QUEUED"
  /\ preflightExecution[t] = p
  /\ inspStatus' = [InspAfter EXCEPT ![p] = "INSPECTING"]
  /\ inspOutcome' = OutcomeAfter
  /\ inspLate' = inspLate \ {p}
  /\ preflightStatus' = [PreflightAfter EXCEPT ![t] = "INSPECTING"]
  /\ preflightExecution' = FenceAfter
  /\ UNCHANGED <<status, dependsOn, scopes, assignedAgent, verifiedBy,
                 archived, execVars, lockVars, credential, inspTask>>

\* command_preflight_claim, outcome NO_TASK, an accepted Planner heartbeat, and
\* the replay of a verdict already recorded (ALREADY_FINISHED): the sweep is
\* committed alone.
PreflightNothing ==
  /\ inspStatus' = InspAfter
  /\ inspOutcome' = OutcomeAfter
  /\ preflightStatus' = PreflightAfter
  /\ preflightExecution' = FenceAfter
  /\ UNCHANGED <<status, dependsOn, scopes, assignedAgent, verifiedBy,
                 archived, execVars, lockVars, credential, inspTask, inspLate>>

-----------------------------------------------------------------------------
\* A wrong MayFinish: some inspection of the draft is active, and the verdict may
\* come from one that timed out before it.
MayFinishLate(p) ==
  LET t == inspTask[p] IN
  /\ InspAfter[p] \in {"INSPECTING", "TIMED_OUT"}
  /\ status[t] = "DRAFT"
  /\ PreflightAfter[t] = "INSPECTING"

\* preflight_finish_context lets the verdict of p through: its inspection is
\* active after the sweep and the fence of its task names it.
MayFinish(p) ==
  LET t == inspTask[p] IN
  /\ InspAfter[p] = "INSPECTING"
  /\ status[t] = "DRAFT"
  /\ PreflightAfter[t] = "INSPECTING"
  /\ FenceAfter[t] = p

\* The rows of p and its task once the verdict is stored: the inspection is
\* closed with it, the fence is cleared.
CloseInspection(p, closed, verdict, preflight) ==
  LET t == inspTask[p] IN
  /\ inspStatus' = [InspAfter EXCEPT ![p] = closed]
  /\ inspOutcome' = [OutcomeAfter EXCEPT ![p] = verdict]
  /\ preflightStatus' = [PreflightAfter EXCEPT ![t] = preflight]
  /\ preflightExecution' = [FenceAfter EXCEPT ![t] = None]
  /\ UNCHANGED <<assignedAgent, verifiedBy, archived, execVars, lockVars,
                 credential, inspTask, inspLate>>

\* command_preflight_ready: the contract with scope keys S is published.
PreflightReady(p, S) ==
  LET t == inspTask[p] IN
  /\ MayFinish(p)
  /\ S # {}
  /\ scopes' = [scopes EXCEPT ![t] = S]
  /\ status' = [status EXCEPT ![t] = "PENDING"]
  /\ CloseInspection(p, "FINISHED", "READY", "READY")
  /\ UNCHANGED dependsOn

\* command_preflight_needs_review and command_preflight_fail: the task goes to
\* the Operator without a contract.
PreflightReturn(p, verdict) ==
  LET t == inspTask[p] IN
  /\ MayFinish(p)
  /\ scopes' = [scopes EXCEPT ![t] = {}]
  /\ status' = [status EXCEPT ![t] = "NEEDS_REVIEW"]
  /\ \/ /\ verdict = "NEEDS_REVIEW"
        /\ CloseInspection(p, "FINISHED", "NEEDS_REVIEW", "FAILED")
     \/ /\ verdict = "FAILED"
        /\ CloseInspection(p, "FAILED", "FAILED", "FAILED")
  /\ UNCHANGED dependsOn

\* The dependencies after a split of t into kids: a kid has its own and those
\* of t, every task that waited for t waits for all kids.
SplitDependencies(t, kids, own) ==
  [u \in Task |->
     IF u \in kids THEN dependsOn[t] \cup own[u]
     ELSE IF t \in dependsOn[u] THEN (dependsOn[u] \ {t}) \cup kids
     ELSE dependsOn[u]]

\* command_preflight_split: kids are new drafts, t is CANCELLED in their
\* favour.  own[k] is what the report makes kid k depend on.
\* set_task_dependencies refuses a cycle or an unknown dependency.
PreflightSplit(p) ==
  LET t == inspTask[p] IN
  /\ MayFinish(p)
  /\ \E kids \in SUBSET (Task \ Existing) :
       /\ Cardinality(kids) >= 2
       /\ \E own \in [kids -> SUBSET ((Existing \cup kids) \ {t})] :
            /\ \A k \in kids : k \notin own[k]
            /\ Acyclic(SplitDependencies(t, kids, own))
            /\ dependsOn' = SplitDependencies(t, kids, own)
       /\ status' = [u \in Task |-> IF u = t THEN "CANCELLED"
                                    ELSE IF u \in kids THEN "DRAFT"
                                    ELSE status[u]]
  /\ CloseInspection(p, "FINISHED", "SPLIT", "FAILED")
  /\ UNCHANGED scopes
=============================================================================
