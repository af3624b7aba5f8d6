------------------------- MODULE LoopControlQueues --------------------------
(***************************************************************************)
(* The two queues, of inspections and of tasks: what the Planner may do    *)
(* (PlannerFence, ContractPublished, VerdictFinal, ArchivedFrozen,         *)
(* DependenciesSound) and the limits of both (PlannerCapacity,             *)
(* CapacityRespected), for every value of the constants.                   *)
(***************************************************************************)
EXTENDS LoopControlLocks, FiniteSetTheorems

(***************************************************************************)
(* PlannerFence and ContractPublished need each other: an inspection may   *)
(* fence only a draft, and a draft is one only while it has no contract.   *)
(* An id that has no row yet has left no trace for its first Enqueue or    *)
(* split to find.                                                          *)
(***************************************************************************)
AbsentUntouched ==
  \A t \in Task : status[t] = "ABSENT" => preflightStatus[t] = "UNINSPECTED"

PlannerInv ==
  /\ TypeInv
  /\ PlannerFence
  /\ ContractPublished
  /\ AbsentUntouched

InQueue == {"QUEUED", "INSPECTING"}

-----------------------------------------------------------------------------
(***************************************************************************)
(* Clock, recovery, Worker and dispatcher leave the Planner's columns as   *)
(* they are and move only tasks that have a contract.                      *)
(***************************************************************************)
Contracted == {"PENDING", "QUEUED", "RUNNING", "WAITING_HUMAN"}

RunEdit ==
  /\ UNCHANGED <<preflightStatus, preflightExecution, dependsOn, archived,
                 inspStatus, inspTask, inspOutcome>>
  /\ \A t \in Task :
       /\ scopes[t] \subseteq scopes'[t]
       /\ scopes'[t] = scopes[t] \/ status[t] = "RUNNING"
       /\ verifiedBy'[t] = verifiedBy[t] \/ status[t] \in Contracted
       /\ \/ status'[t] = status[t]
          \/ /\ status[t] \in Contracted
             /\ status'[t] \in Contracted \cup {"SUCCEEDED", "FAILED"}

\* The sweep moves a task from RUNNING to WAITING_HUMAN or leaves it.
LEMMA SweepMoves ==
  \A t \in Task : \/ SweptStatus[t] = status[t]
                  \/ status[t] = "RUNNING" /\ SweptStatus[t] = "WAITING_HUMAN"
BY DEF SweptStatus

\* Clock, recovery, Worker and Dispatcher change no more than RunEdit says.
LEMMA RunEdits ==
  ASSUME TypeInv,
         Clock \/ RecoveryStep \/ WorkerStep \/ DispatcherStep \/ UNCHANGED vars
  PROVE  RunEdit
<1>0. TypeOK BY DEF TypeInv
<1> USE <1>0, SweepMoves, SweepTypes
    DEF RunEdit, Contracted, TypeOK, taskVars, execVars, lockVars, inspVars
<1>1. CASE Clock
  BY <1>1 DEF Clock, HeartbeatLapses, AttemptTimesOut, InspectionLapses
<1>2. ASSUME NEW e \in Exec, RecoverWait(e) PROVE RunEdit
  BY <1>2 DEF RecoverWait
<1>3. ASSUME NEW e \in Exec, NEW action \in {"requeue", "failed"},
             RecoverRelease(e, action)
      PROVE  RunEdit
  BY <1>3 DEF RecoverRelease, Recoverable
<1>4. CASE ClaimNothing
  BY <1>4 DEF ClaimNothing
<1>5. ASSUME NEW e \in Exec, Claim(e) PROVE RunEdit
  BY <1>5 DEF Claim, Claimable
<1>6. ASSUME NEW e \in Exec, Heartbeat(e) \/ ProcessEnds(e) PROVE RunEdit
  BY <1>6 DEF Heartbeat, ProcessEnds
<1>7. ASSUME NEW e \in Exec, NEW keys \in SUBSET Scope, ExtendScope(e, keys)
      PROVE  RunEdit
  BY <1>7 DEF ExtendScope
<1>8. ASSUME NEW e \in Exec, NEW final \in {"SUCCEEDED", "FAILED", "WAITING_HUMAN"},
             NEW verified \in BOOLEAN, Finish(e, final, verified)
      PROVE  RunEdit
  BY <1>8 DEF Finish
<1>9. ASSUME NEW t \in Task, NEW e \in Exec,
             Dispatch(t, e) \/ UnscheduleExecution(t, e)
      PROVE  RunEdit
  BY <1>9 DEF Dispatch, Candidate, UnscheduleExecution
<1>10. CASE UNCHANGED vars
  BY <1>10 DEF vars
<1> HIDE DEF RunEdit
<1> QED
  BY <1>1, <1>2, <1>3, <1>4, <1>5, <1>6, <1>7, <1>8, <1>9, <1>10
     DEF RecoveryStep, WorkerStep, DispatcherStep

\* So they keep the invariant of the Planner.
LEMMA RunKeepsPlanner ==
  ASSUME PlannerInv, TypeInv', RunEdit
  PROVE  PlannerInv'
<1>0. TypeInv /\ TypeOK BY DEF PlannerInv, TypeInv
<1> USE <1>0 DEF PlannerInv, RunEdit, Contracted
<1>1. PlannerFence'
  <2>1. \A p \in Preflight : inspStatus[p] \in InQueue => inspTask[p] \in Task
    BY DEF TypeInv, TypeOK, RowsNamed, InQueue
  <2> QED
    BY <2>1 DEF PlannerFence, InQueue
<1>2. ContractPublished'
  BY DEF ContractPublished
<1>3. AbsentUntouched'
  BY DEF AbsentUntouched, TypeOK
<1> QED
  BY <1>1, <1>2, <1>3

-----------------------------------------------------------------------------
(***************************************************************************)
(* The Operator never touches a task that the Planner queue holds, and an  *)
(* active inspection is always that of such a task.                        *)
(***************************************************************************)
LEMMA ActiveIsQueued ==
  ASSUME PlannerInv, NEW p \in Preflight, inspStatus[p] \in InQueue
  PROVE  /\ inspTask[p] \in Task
         /\ preflightStatus[inspTask[p]] = inspStatus[p]
         /\ preflightExecution[inspTask[p]] = p
         /\ status[inspTask[p]] = "DRAFT"
<1>1. inspTask[p] \in Task
  BY DEF PlannerInv, TypeInv, TypeOK, RowsNamed, InQueue
<1> QED
  BY <1>1, IdAssumption DEF PlannerInv, PlannerFence, InQueue

\* The Operator edits no draft that is fenced, and queues none without a contract.
LEMMA OperatorKeepsPlanner ==
  ASSUME PlannerInv, TypeInv', OperatorStep
  PROVE  PlannerInv'
<1> SUFFICES ASSUME NEW t \in Task,
                    \/ \E D \in SUBSET Task : Enqueue(t, D) \/ Update(t, D)
                    \/ RequeueDraft(t) \/ RequeueReady(t) \/ Cancel(t)
                    \/ Confirm(t) \/ ResolveHuman(t) \/ Archive(t)
                    \/ Unarchive(t)
             PROVE  PlannerInv'
  BY DEF OperatorStep
<1>0. TypeInv /\ TypeOK BY DEF PlannerInv, TypeInv
<1>1. UNCHANGED <<inspStatus, inspTask>>
  BY DEF Enqueue, Update, RequeueDraft, RequeueReady, Cancel, Confirm,
         ResolveHuman, Archive, Unarchive, inspVars
<1>2. \A u \in Task :
        \/ /\ preflightStatus'[u] = preflightStatus[u]
           /\ preflightExecution'[u] = preflightExecution[u]
           /\ status'[u] = status[u] \/ preflightStatus[u] \notin InQueue
        \/ /\ preflightStatus[u] \notin InQueue
           /\ preflightStatus'[u] = "UNINSPECTED"
           /\ preflightExecution'[u] = None
  <2> USE <1>0 DEF TypeOK
  <2>1. CASE \E D \in SUBSET Task : Enqueue(t, D)
    BY <2>1 DEF Enqueue, PlannerInv, AbsentUntouched, InQueue
  <2>2. CASE \E D \in SUBSET Task : Update(t, D)
    BY <2>2 DEF Update, Editable, InPlannerQueue, InQueue
  <2>3. CASE RequeueDraft(t)
    BY <2>3 DEF RequeueDraft, InPlannerQueue, InQueue
  <2>4. CASE Cancel(t)
    BY <2>4 DEF Cancel, InPlannerQueue, InQueue
  <2>5. CASE RequeueReady(t)
    BY <2>5 DEF RequeueReady, InQueue
  <2>6. CASE Confirm(t) \/ ResolveHuman(t)
    BY <2>6 DEF Confirm, ResolveHuman, PlannerInv, ContractPublished, InQueue
  <2>7. CASE Archive(t) \/ Unarchive(t)
    BY <2>7 DEF Archive, Unarchive
  <2> QED
    BY <2>1, <2>2, <2>3, <2>4, <2>5, <2>6, <2>7
<1>3. PlannerFence'
  <2>1. \A u \in Task : /\ preflightExecution'[u] # None <=>
                             preflightStatus'[u] \in InQueue
                        /\ preflightExecution'[u] # None =>
                             /\ inspTask[preflightExecution'[u]] = u
                             /\ inspStatus[preflightExecution'[u]] =
                                  preflightStatus'[u]
    BY <1>2 DEF PlannerInv, PlannerFence, InQueue
  <2>2. \A p \in Preflight : inspStatus[p] \in InQueue =>
          /\ status'[inspTask[p]] = "DRAFT"
          /\ preflightExecution'[inspTask[p]] = p
    BY <1>2, ActiveIsQueued
  <2> QED
    BY <1>1, <2>1, <2>2 DEF PlannerFence, InQueue
<1>4. ContractPublished' /\ AbsentUntouched'
  <2> USE <1>0 DEF TypeOK, PlannerInv, ContractPublished, AbsentUntouched
  <2>1. CASE \E D \in SUBSET Task : Enqueue(t, D)
    BY <2>1 DEF Enqueue
  <2>2. CASE \E D \in SUBSET Task : Update(t, D)
    BY <2>2 DEF Update, Editable
  <2>3. CASE RequeueDraft(t) \/ RequeueReady(t)
    BY <2>3 DEF RequeueDraft, RequeueReady
  <2>4. CASE Cancel(t) \/ Confirm(t) \/ ResolveHuman(t)
    BY <2>4 DEF Cancel, Confirm, ResolveHuman
  <2>5. CASE Archive(t) \/ Unarchive(t)
    BY <2>5 DEF Archive, Unarchive
  <2> QED
    BY <2>1, <2>2, <2>3, <2>4, <2>5
<1> QED
  BY <1>3, <1>4 DEF PlannerInv

-----------------------------------------------------------------------------
(***************************************************************************)
(* The sweep of timed-out inspections keeps the fence: it releases exactly *)
(* the drafts whose inspection it closes.                                  *)
(***************************************************************************)
LEMMA SweepReleases ==
  ASSUME PlannerInv
  PROVE  /\ \A t \in Task : t \in Released <=> preflightExecution[t] \in TimedOut
         /\ \A p \in TimedOut : inspTask[p] \in Released
<1>1. \A p \in TimedOut : p \in Preflight /\ inspStatus[p] = "INSPECTING"
  BY DEF TimedOut
<1>2. \A p \in TimedOut :
        /\ inspTask[p] \in Task
        /\ preflightStatus[inspTask[p]] = "INSPECTING"
        /\ preflightExecution[inspTask[p]] = p
        /\ status[inspTask[p]] = "DRAFT"
  BY <1>1, ActiveIsQueued DEF InQueue
<1>3. \A t \in Task : preflightExecution[t] \in TimedOut =>
        inspTask[preflightExecution[t]] = t
  BY <1>1, IdAssumption DEF PlannerInv, PlannerFence
<1> QED
  BY <1>2, <1>3 DEF Released

SweptFence ==
  /\ \A t \in Task :
       /\ FenceAfter[t] # None <=> PreflightAfter[t] \in InQueue
       /\ FenceAfter[t] # None =>
            /\ inspTask[FenceAfter[t]] = t
            /\ InspAfter[FenceAfter[t]] = PreflightAfter[t]
       /\ status[t] # "DRAFT" => PreflightAfter[t] = preflightStatus[t]
       /\ PreflightAfter[t] = "READY" => preflightStatus[t] = "READY"
       /\ status[t] = "DRAFT" =>
            PreflightAfter[t] \in {"UNINSPECTED", "QUEUED", "INSPECTING"}
  /\ \A p \in Preflight : InspAfter[p] \in InQueue =>
       /\ inspTask[p] \in Task
       /\ status[inspTask[p]] = "DRAFT"
       /\ FenceAfter[inspTask[p]] = p

\* The sweep of timed-out inspections releases row and draft together.
LEMMA SweepKeepsFence == PlannerInv => SweptFence
<1> SUFFICES ASSUME PlannerInv PROVE SweptFence
  OBVIOUS
<1>0. TypeInv /\ TypeOK BY DEF PlannerInv, TypeInv
<1>1. ASSUME NEW t \in Task
      PROVE  /\ FenceAfter[t] # None <=> PreflightAfter[t] \in InQueue
             /\ FenceAfter[t] # None =>
                  /\ inspTask[FenceAfter[t]] = t
                  /\ InspAfter[FenceAfter[t]] = PreflightAfter[t]
  <2>1. CASE t \in Released
    BY <2>1 DEF FenceAfter, PreflightAfter, InQueue
  <2>2. CASE t \notin Released
    <3>1. FenceAfter[t] = preflightExecution[t] /\ PreflightAfter[t] = preflightStatus[t]
      BY <2>2 DEF FenceAfter, PreflightAfter
    <3>2. preflightExecution[t] \notin TimedOut
      BY <2>2, SweepReleases
    <3>3. preflightExecution[t] # None =>
            InspAfter[preflightExecution[t]] = inspStatus[preflightExecution[t]]
      BY <1>0, <3>2 DEF InspAfter, TypeOK
    <3> QED
      BY <3>1, <3>3 DEF PlannerInv, PlannerFence, InQueue
  <2> QED
    BY <2>1, <2>2
<1>2. \A t \in Task : /\ status[t] # "DRAFT" => PreflightAfter[t] = preflightStatus[t]
                      /\ PreflightAfter[t] = "READY" => preflightStatus[t] = "READY"
                      /\ status[t] = "DRAFT" =>
                           PreflightAfter[t] \in {"UNINSPECTED", "QUEUED", "INSPECTING"}
  BY DEF PreflightAfter, Released, PlannerInv, ContractPublished
<1>3. ASSUME NEW p \in Preflight, InspAfter[p] \in InQueue
      PROVE  /\ inspTask[p] \in Task
             /\ status[inspTask[p]] = "DRAFT"
             /\ FenceAfter[inspTask[p]] = p
  <2>1. p \notin TimedOut /\ inspStatus[p] \in InQueue
    BY <1>3 DEF InspAfter, InQueue
  <2>2. /\ inspTask[p] \in Task
        /\ status[inspTask[p]] = "DRAFT"
        /\ preflightExecution[inspTask[p]] = p
    BY <2>1, ActiveIsQueued
  <2> QED
    BY <2>1, <2>2, SweepReleases DEF FenceAfter
<1> QED
  BY <1>1, <1>2, <1>3 DEF SweptFence

-----------------------------------------------------------------------------
\* A verdict takes the task out of the queue together with its inspection, and
\* the other drafts keep theirs.
LEMMA ClosingKeepsFence ==
  ASSUME PlannerInv, NEW p \in Preflight, NEW closed \in {"FINISHED", "FAILED"},
         NEW verdict \in Verdict, NEW preflight \in {"READY", "FAILED"},
         MayFinish(p), CloseInspection(p, closed, verdict, preflight),
         \A t \in Task : t # inspTask[p] /\ status[t] = "DRAFT" => status'[t] = "DRAFT"
  PROVE  PlannerFence'
<1> DEFINE t == inspTask[p]
<1>0. TypeInv /\ TypeOK /\ SweptFence
  BY SweepKeepsFence DEF PlannerInv, TypeInv
<1>1. t \in Task /\ FenceAfter[t] = p
  BY <1>0 DEF MayFinish, SweptFence, InQueue
<1>2. /\ inspStatus' = [InspAfter EXCEPT ![p] = closed]
      /\ preflightStatus' = [PreflightAfter EXCEPT ![t] = preflight]
      /\ preflightExecution' = [FenceAfter EXCEPT ![t] = None]
      /\ UNCHANGED inspTask
  BY DEF CloseInspection
<1> HIDE DEF t
<1>3. \A u \in Task \ {t} : FenceAfter[u] # p
  BY <1>0, IdAssumption DEF SweptFence, t
<1>4. ASSUME NEW u \in Task
      PROVE  /\ preflightExecution'[u] # None <=> preflightStatus'[u] \in InQueue
             /\ preflightExecution'[u] # None =>
                  /\ inspTask'[preflightExecution'[u]] = u
                  /\ inspStatus'[preflightExecution'[u]] = preflightStatus'[u]
  <2>1. CASE u = t
    BY <1>0, <1>2, <2>1, InspectionTypes DEF InQueue
  <2>2. CASE u # t
    <3>1. preflightExecution'[u] = FenceAfter[u] /\ preflightStatus'[u] = PreflightAfter[u]
      BY <1>0, <1>2, <2>2, InspectionTypes
    <3>2. FenceAfter[u] # None => inspStatus'[FenceAfter[u]] = InspAfter[FenceAfter[u]]
      BY <1>0, <1>2, <1>3, <2>2, InspectionTypes
    <3> QED
      BY <1>0, <1>2, <3>1, <3>2 DEF SweptFence
  <2> QED
    BY <2>1, <2>2
<1>5. ASSUME NEW q \in Preflight, inspStatus'[q] \in InQueue
      PROVE  /\ status'[inspTask'[q]] = "DRAFT"
             /\ preflightExecution'[inspTask'[q]] = q
  <2>1. q # p /\ InspAfter[q] \in InQueue
    BY <1>0, <1>2, <1>5, InspectionTypes DEF InQueue
  <2>2. inspTask[q] \in Task /\ status[inspTask[q]] = "DRAFT" /\ FenceAfter[inspTask[q]] = q
    BY <1>0, <2>1 DEF SweptFence
  <2>3. inspTask[q] # t
    BY <1>1, <2>1, <2>2
  <2> QED
    BY <1>0, <1>2, <2>2, <2>3, InspectionTypes DEF t
<1> QED
  BY <1>4, <1>5 DEF PlannerFence, InQueue

\* The rows of drafts a cycle has queued are new, one for each draft.
LEMMA ScheduleKeepsFence ==
  ASSUME PlannerInv, NEW S \in SUBSET Task, NEW insp \in [S -> Preflight],
         SchedulePreflight(S, insp)
  PROVE  PlannerFence'
<1> DEFINE rows == {insp[t] : t \in S}
<1>0. TypeInv /\ TypeOK /\ SweptFence
  BY SweepKeepsFence DEF PlannerInv, TypeInv
<1>1. /\ \A t \in S : status[t] = "DRAFT" /\ PreflightAfter[t] = "UNINSPECTED"
      /\ \A t \in S : inspStatus[insp[t]] = "ABSENT"
      /\ \A t, u \in S : insp[t] = insp[u] => t = u
      /\ inspStatus' = [p \in Preflight |->
                          IF p \in rows THEN "QUEUED" ELSE InspAfter[p]]
      /\ inspTask' = [p \in Preflight |->
                        IF p \in rows THEN CHOOSE t \in S : insp[t] = p
                        ELSE inspTask[p]]
      /\ preflightStatus' = [t \in Task |->
                               IF t \in S THEN "QUEUED" ELSE PreflightAfter[t]]
      /\ preflightExecution' = [t \in Task |->
                                  IF t \in S THEN insp[t] ELSE FenceAfter[t]]
      /\ UNCHANGED status
  BY DEF SchedulePreflight
<1>2. \A t \in S : insp[t] \in Preflight /\ insp[t] \in rows /\ inspTask'[insp[t]] = t
  <2> SUFFICES ASSUME NEW t \in S
               PROVE  insp[t] \in Preflight /\ insp[t] \in rows /\ inspTask'[insp[t]] = t
    OBVIOUS
  <2>1. insp[t] \in Preflight /\ insp[t] \in rows
    OBVIOUS
  <2>2. (CHOOSE u \in S : insp[u] = insp[t]) = t
    BY <1>1
  <2> QED
    BY <1>1, <2>1, <2>2
<1>3. \A p \in rows : \E t \in S : p = insp[t]
  OBVIOUS
<1> HIDE DEF rows
<1>4. \A p \in Preflight : p \in rows => InspAfter[p] = "ABSENT"
  BY <1>0, <1>1, <1>3, InspectionTypes
<1>5. ASSUME NEW t \in Task
      PROVE  /\ preflightExecution'[t] # None <=> preflightStatus'[t] \in InQueue
             /\ preflightExecution'[t] # None =>
                  /\ inspTask'[preflightExecution'[t]] = t
                  /\ inspStatus'[preflightExecution'[t]] = preflightStatus'[t]
  <2>1. CASE t \in S
    BY <1>1, <1>2, <2>1, IdAssumption DEF InQueue
  <2>2. CASE t \notin S
    <3>1. preflightExecution'[t] = FenceAfter[t] /\ preflightStatus'[t] = PreflightAfter[t]
      BY <1>1, <2>2
    <3>2. ASSUME FenceAfter[t] # None
          PROVE  /\ FenceAfter[t] \in Preflight
                 /\ FenceAfter[t] \notin rows
                 /\ inspTask[FenceAfter[t]] = t
                 /\ InspAfter[FenceAfter[t]] = PreflightAfter[t]
      BY <1>0, <1>4, <3>2, InspectionTypes DEF SweptFence, InQueue
    <3> QED
      BY <1>0, <1>1, <3>1, <3>2 DEF SweptFence
  <2> QED
    BY <2>1, <2>2
<1>6. ASSUME NEW q \in Preflight, inspStatus'[q] \in InQueue
      PROVE  /\ status'[inspTask'[q]] = "DRAFT"
             /\ preflightExecution'[inspTask'[q]] = q
  <2>1. CASE q \in rows
    BY <1>1, <1>2, <1>3, <2>1
  <2>2. CASE q \notin rows
    <3>1. /\ InspAfter[q] \in InQueue
          /\ inspTask'[q] = inspTask[q]
      BY <1>1, <1>6, <2>2
    <3>2. /\ inspTask[q] \in Task
          /\ status[inspTask[q]] = "DRAFT"
          /\ FenceAfter[inspTask[q]] = q
      BY <1>0, <3>1 DEF SweptFence
    <3>3. inspTask[q] \notin S
      BY <1>0, <1>1, <3>2, IdAssumption DEF SweptFence, InQueue
    <3> QED
      BY <1>1, <3>1, <3>2, <3>3
  <2> QED
    BY <2>1, <2>2
<1> QED
  BY <1>5, <1>6 DEF PlannerFence, InQueue

\* A Planner's claim moves row and draft together.
LEMMA ClaimKeepsFence ==
  ASSUME PlannerInv, NEW p \in Preflight, PreflightClaim(p)
  PROVE  PlannerFence'
<1> DEFINE t == inspTask[p]
<1>0. TypeInv /\ TypeOK /\ SweptFence
  BY SweepKeepsFence DEF PlannerInv, TypeInv
<1>1. InspAfter[p] = "QUEUED"
  BY DEF PreflightClaim, InspAfter, TimedOut
<1>2. /\ inspStatus' = [InspAfter EXCEPT ![p] = "INSPECTING"]
      /\ preflightStatus' = [PreflightAfter EXCEPT ![t] = "INSPECTING"]
      /\ preflightExecution' = FenceAfter
      /\ UNCHANGED <<status, inspTask>>
  BY DEF PreflightClaim
<1>3. t \in Task /\ FenceAfter[t] = p /\ status[t] = "DRAFT"
  BY <1>0, <1>1 DEF SweptFence, InQueue
<1> HIDE DEF t
<1>4. \A u \in Task \ {t} : FenceAfter[u] # p
  BY <1>0, IdAssumption DEF SweptFence, t
<1>5. ASSUME NEW u \in Task
      PROVE  /\ preflightExecution'[u] # None <=> preflightStatus'[u] \in InQueue
             /\ preflightExecution'[u] # None =>
                  /\ inspTask'[preflightExecution'[u]] = u
                  /\ inspStatus'[preflightExecution'[u]] = preflightStatus'[u]
  <2>1. CASE u = t
    BY <1>0, <1>2, <1>3, <2>1, InspectionTypes, IdAssumption DEF InQueue, t
  <2>2. CASE u # t
    <3>1. preflightExecution'[u] = FenceAfter[u] /\ preflightStatus'[u] = PreflightAfter[u]
      BY <1>0, <1>2, <2>2, InspectionTypes
    <3>2. FenceAfter[u] # None => inspStatus'[FenceAfter[u]] = InspAfter[FenceAfter[u]]
      BY <1>0, <1>2, <1>4, <2>2, InspectionTypes
    <3> QED
      BY <1>0, <1>2, <3>1, <3>2 DEF SweptFence
  <2> QED
    BY <2>1, <2>2
<1>6. ASSUME NEW q \in Preflight, inspStatus'[q] \in InQueue
      PROVE  /\ status'[inspTask'[q]] = "DRAFT"
             /\ preflightExecution'[inspTask'[q]] = q
  <2>1. InspAfter[q] \in InQueue
    BY <1>0, <1>1, <1>2, <1>6, InspectionTypes DEF InQueue
  <2> QED
    BY <1>0, <1>2, <2>1 DEF SweptFence
<1> QED
  BY <1>5, <1>6 DEF PlannerFence, InQueue

\* Withdrawing an inspection releases row and draft together.
LEMMA WithdrawalKeepsFence ==
  ASSUME PlannerInv, NEW t \in Task, UnschedulePreflight(t)
  PROVE  PlannerFence'
<1> DEFINE p == preflightExecution[t]
<1>0. TypeInv /\ TypeOK BY DEF PlannerInv, TypeInv
<1>1. /\ p \in Preflight /\ inspTask[p] = t
      /\ inspStatus' = [inspStatus EXCEPT ![p] = "FINISHED"]
      /\ preflightStatus' = [preflightStatus EXCEPT ![t] = "UNINSPECTED"]
      /\ preflightExecution' = [preflightExecution EXCEPT ![t] = None]
      /\ UNCHANGED <<status, inspTask>>
  BY DEF UnschedulePreflight
<1> HIDE DEF p
<1>2. \A u \in Task \ {t} : preflightExecution[u] # p
  BY <1>1, IdAssumption DEF PlannerInv, PlannerFence
<1>3. ASSUME NEW q \in Preflight, inspStatus'[q] \in InQueue
      PROVE  /\ status'[inspTask'[q]] = "DRAFT"
             /\ preflightExecution'[inspTask'[q]] = q
  <2>1. q # p /\ inspStatus[q] \in InQueue
    BY <1>0, <1>1, <1>3 DEF TypeOK, InQueue
  <2>2. /\ inspTask[q] \in Task
        /\ status[inspTask[q]] = "DRAFT"
        /\ preflightExecution[inspTask[q]] = q
    BY <2>1, ActiveIsQueued
  <2> QED
    BY <1>0, <1>1, <2>1, <2>2 DEF TypeOK, p
<1>4. ASSUME NEW u \in Task
      PROVE  /\ preflightExecution'[u] # None <=> preflightStatus'[u] \in InQueue
             /\ preflightExecution'[u] # None =>
                  /\ inspTask'[preflightExecution'[u]] = u
                  /\ inspStatus'[preflightExecution'[u]] = preflightStatus'[u]
  <2>1. CASE u = t
    BY <1>0, <1>1, <2>1 DEF TypeOK, InQueue
  <2>2. CASE u # t
    BY <1>0, <1>1, <1>2, <2>2 DEF TypeOK, PlannerInv, PlannerFence, InQueue
  <2> QED
    BY <2>1, <2>2
<1> QED
  BY <1>3, <1>4 DEF PlannerFence, InQueue

-----------------------------------------------------------------------------
(***************************************************************************)
(* The other parts of PlannerInv read of a Planner step only this: which   *)
(* drafts leave DRAFT with which preflight status, and which new ones      *)
(* come.                                                                   *)
(***************************************************************************)
PlannerEdit ==
  /\ UNCHANGED <<archived, verifiedBy>>
  /\ \A t \in Task :
       \/ /\ status'[t] = status[t]
          /\ scopes'[t] = scopes[t]
          /\ \/ preflightStatus'[t] = PreflightAfter[t]
             \/ status[t] = "DRAFT" /\ preflightStatus'[t] \in InQueue \cup {"UNINSPECTED"}
       \/ /\ status[t] = "DRAFT"
          /\ \/ /\ status'[t] = "PENDING" /\ preflightStatus'[t] = "READY"
                /\ scopes'[t] # {}
             \/ /\ status'[t] \in {"NEEDS_REVIEW", "CANCELLED"}
                /\ preflightStatus'[t] = "FAILED"
       \/ /\ status[t] = "ABSENT" /\ status'[t] = "DRAFT"
          /\ preflightStatus'[t] = PreflightAfter[t]

\* The Planner changes drafts only.
LEMMA PlannerEditsDrafts ==
  ASSUME PlannerInv, PlannerStep
  PROVE  PlannerEdit
<1>0. TypeInv /\ TypeOK BY DEF PlannerInv, TypeInv
<1> USE <1>0, InspectionTypes DEF TypeOK, InQueue
<1>1. CASE PreflightNothing
  BY <1>1 DEF PreflightNothing, PlannerEdit
<1>2. ASSUME NEW S \in SUBSET Task, NEW insp \in [S -> Preflight],
             SchedulePreflight(S, insp)
      PROVE  PlannerEdit
  <2>1. /\ \A t \in S : status[t] = "DRAFT"
        /\ preflightStatus' = [t \in Task |->
                                 IF t \in S THEN "QUEUED" ELSE PreflightAfter[t]]
        /\ UNCHANGED <<status, scopes, archived, verifiedBy>>
    BY <1>2 DEF SchedulePreflight
  <2> QED
    BY <2>1 DEF PlannerEdit
<1>3. ASSUME NEW t \in Task, UnschedulePreflight(t) PROVE PlannerEdit
  <2>1. /\ status[t] = "DRAFT"
        /\ preflightStatus' = [preflightStatus EXCEPT ![t] = "UNINSPECTED"]
        /\ UNCHANGED <<status, scopes, archived, verifiedBy>>
    BY <1>3 DEF UnschedulePreflight
  <2>2. \A u \in Task : \/ preflightStatus[u] = PreflightAfter[u]
                        \/ status[u] = "DRAFT" /\ preflightStatus[u] = "INSPECTING"
    BY DEF PreflightAfter, Released
  <2> QED
    BY <2>1, <2>2 DEF PlannerEdit
<1>4. ASSUME NEW p \in Preflight, PreflightClaim(p) PROVE PlannerEdit
  BY <1>4 DEF PreflightClaim, PlannerEdit
<1>5. ASSUME NEW p \in Preflight, NEW S \in SUBSET Scope, PreflightReady(p, S)
      PROVE  PlannerEdit
  BY <1>5 DEF PreflightReady, MayFinish, CloseInspection, PlannerEdit
<1>6. ASSUME NEW p \in Preflight, NEW verdict \in {"NEEDS_REVIEW", "FAILED"},
             PreflightReturn(p, verdict)
      PROVE  PlannerEdit
  <2>1. /\ status[inspTask[p]] = "DRAFT"
        /\ status' = [status EXCEPT ![inspTask[p]] = "NEEDS_REVIEW"]
        /\ scopes' = [scopes EXCEPT ![inspTask[p]] = {}]
        /\ preflightStatus' = [PreflightAfter EXCEPT ![inspTask[p]] = "FAILED"]
        /\ UNCHANGED <<archived, verifiedBy>>
    BY <1>6 DEF PreflightReturn, MayFinish, CloseInspection
  <2> QED
    BY <2>1 DEF PlannerEdit
<1>7. ASSUME NEW p \in Preflight, PreflightSplit(p) PROVE PlannerEdit
  <2>1. PICK kids \in SUBSET (Task \ Existing) :
          status' = [u \in Task |-> IF u = inspTask[p] THEN "CANCELLED"
                                    ELSE IF u \in kids THEN "DRAFT"
                                    ELSE status[u]]
    BY <1>7 DEF PreflightSplit
  <2>2. \A u \in kids : status[u] = "ABSENT"
    BY DEF Existing
  <2>3. /\ status[inspTask[p]] = "DRAFT"
        /\ preflightStatus' = [PreflightAfter EXCEPT ![inspTask[p]] = "FAILED"]
        /\ UNCHANGED <<scopes, archived, verifiedBy>>
    BY <1>7 DEF PreflightSplit, MayFinish, CloseInspection
  <2> QED
    BY <2>1, <2>2, <2>3 DEF PlannerEdit
<1> QED
  BY <1>1, <1>2, <1>3, <1>4, <1>5, <1>6, <1>7 DEF PlannerStep

\* Every command of the Planner keeps the fences.
LEMMA PlannerKeepsFence ==
  ASSUME PlannerInv, PlannerStep
  PROVE  PlannerFence'
<1>0. TypeInv /\ TypeOK /\ SweptFence
  BY SweepKeepsFence DEF PlannerInv, TypeInv
<1>1. CASE PreflightNothing
  BY <1>0, <1>1 DEF PreflightNothing, SweptFence, PlannerFence, InQueue
<1>2. ASSUME NEW p \in Preflight, NEW S \in SUBSET Scope, PreflightReady(p, S)
      PROVE  PlannerFence'
  BY <1>0, <1>2, ClosingKeepsFence DEF PreflightReady, Verdict, TypeOK
<1>3. ASSUME NEW p \in Preflight, NEW verdict \in {"NEEDS_REVIEW", "FAILED"},
             PreflightReturn(p, verdict)
      PROVE  PlannerFence'
  <2>1. \A t \in Task : t # inspTask[p] /\ status[t] = "DRAFT" => status'[t] = "DRAFT"
    BY <1>0, <1>3 DEF PreflightReturn, TypeOK
  <2>2. MayFinish(p)
    BY <1>3 DEF PreflightReturn
  <2>3. \/ CloseInspection(p, "FINISHED", "NEEDS_REVIEW", "FAILED")
        \/ CloseInspection(p, "FAILED", "FAILED", "FAILED")
    BY <1>3 DEF PreflightReturn
  <2> QED
    BY <2>1, <2>2, <2>3, ClosingKeepsFence DEF Verdict
<1>4. ASSUME NEW p \in Preflight, PreflightSplit(p) PROVE PlannerFence'
  <2>1. \A t \in Task : t # inspTask[p] /\ status[t] = "DRAFT" => status'[t] = "DRAFT"
    BY <1>4 DEF PreflightSplit
  <2>2. MayFinish(p) /\ CloseInspection(p, "FINISHED", "SPLIT", "FAILED")
    BY <1>4 DEF PreflightSplit
  <2>3. "SPLIT" \in Verdict
    BY DEF Verdict
  <2> QED
    BY <2>1, <2>2, <2>3, ClosingKeepsFence
<1> QED
  BY <1>1, <1>2, <1>3, <1>4, ScheduleKeepsFence, ClaimKeepsFence,
     WithdrawalKeepsFence DEF PlannerStep

\* Every command of the Planner keeps its invariant.
LEMMA PlannerKeepsPlanner ==
  ASSUME PlannerInv, TypeInv', PlannerStep
  PROVE  PlannerInv'
<1>0. TypeInv /\ TypeOK /\ SweptFence /\ PlannerEdit
  BY SweepKeepsFence, PlannerEditsDrafts DEF PlannerInv, TypeInv
<1>1. PlannerFence'
  BY PlannerKeepsFence
<1>2. ContractPublished'
  BY <1>0
     DEF PlannerInv, ContractPublished, AbsentUntouched, PlannerEdit, SweptFence, InQueue
<1>3. AbsentUntouched'
  BY <1>0 DEF PlannerInv, AbsentUntouched, PlannerEdit, SweptFence
<1> QED
  BY <1>1, <1>2, <1>3 DEF PlannerInv

-----------------------------------------------------------------------------
\* An empty database has no queues.
LEMMA PlannerInit == Init => PlannerInv
<1> SUFFICES ASSUME Init PROVE PlannerInv
  OBVIOUS
<1>1. TypeInv
  BY TypeInit
<1>2. PlannerFence /\ ContractPublished /\ AbsentUntouched
  BY DEF Init, PlannerFence, ContractPublished, AbsentUntouched
<1> QED
  BY <1>1, <1>2 DEF PlannerInv

\* The inductive invariant of drafts, inspections and contracts.
THEOREM PlannerInvariant == Spec => []PlannerInv
<1>1. PlannerInv /\ TypeInv' /\ [Next]_vars => PlannerInv'
  <2> SUFFICES ASSUME PlannerInv, TypeInv', [Next]_vars PROVE PlannerInv'
    OBVIOUS
  <2>1. CASE PlannerStep
    BY <2>1, PlannerKeepsPlanner
  <2>2. CASE OperatorStep
    BY <2>2, OperatorKeepsPlanner
  <2>3. CASE Clock \/ RecoveryStep \/ WorkerStep \/ DispatcherStep \/ UNCHANGED vars
    BY <2>3, RunEdits, RunKeepsPlanner DEF PlannerInv
  <2> QED
    BY <2>1, <2>2, <2>3 DEF Next
<1> QED
  BY <1>1, PlannerInit, TypeInvariant, PTL DEF Spec

\* A draft in the Planner queue is fenced by exactly one active inspection, in
\* the same state, and no inspection is active without its draft: so a verdict
\* finds the task it was made about, or is refused.
THEOREM DraftsAreFenced == Spec => []PlannerFence
<1>1. PlannerInv => PlannerFence
  BY DEF PlannerInv
<1> QED
  BY <1>1, PlannerInvariant, PTL

\* No task is dispatched, claimed, lost or completed without a contract.
THEOREM ContractsArePublished == Spec => []ContractPublished
<1>1. PlannerInv => ContractPublished
  BY DEF PlannerInv
<1> QED
  BY <1>1, PlannerInvariant, PTL

-----------------------------------------------------------------------------
\* The two halves of the step property of VerdictFinal.
Closed == {"FINISHED", "FAILED", "TIMED_OUT"}

ClosedStep ==
  \A p \in Preflight : inspStatus[p] \in Closed =>
    inspStatus'[p] = inspStatus[p] /\ inspOutcome'[p] = inspOutcome[p]

JudgedStep ==
  \A t \in Task : Judged(t) =>
    \E p \in Preflight :
      /\ preflightExecution[t] = p /\ inspTask[p] = t
      /\ inspStatus[p] = "INSPECTING"
      /\ inspStatus'[p] \in {"FINISHED", "FAILED"}
      /\ inspOutcome'[p] = "READY" <=> preflightStatus'[t] = "READY"

\* No command changes a closed inspection.
LEMMA VerdictKept == TypeInv /\ [Next]_vars => ClosedStep
<1> SUFFICES ASSUME TypeInv, [Next]_vars PROVE ClosedStep
  OBVIOUS
<1>0. TypeOK BY DEF TypeInv
<1>1. \A p \in Preflight : inspStatus[p] \in Closed =>
        InspAfter[p] = inspStatus[p] /\ OutcomeAfter[p] = inspOutcome[p]
  BY DEF InspAfter, OutcomeAfter, TimedOut, Closed
<1> USE <1>0, <1>1, InspectionTypes DEF TypeOK, ClosedStep, Closed
<1>2. CASE PreflightNothing
  BY <1>2 DEF PreflightNothing
<1>3. ASSUME NEW S \in SUBSET Task, NEW insp \in [S -> Preflight],
             SchedulePreflight(S, insp)
      PROVE  ClosedStep
  <2>1. /\ \A t \in S : inspStatus[insp[t]] = "ABSENT"
        /\ inspStatus' = [p \in Preflight |->
                            IF p \in {insp[t] : t \in S} THEN "QUEUED"
                            ELSE InspAfter[p]]
        /\ inspOutcome' = OutcomeAfter
    BY <1>3 DEF SchedulePreflight
  <2> QED
    BY <2>1
<1>4. ASSUME NEW t \in Task, UnschedulePreflight(t) PROVE ClosedStep
  BY <1>4 DEF UnschedulePreflight
<1>5. ASSUME NEW p \in Preflight, PreflightClaim(p) PROVE ClosedStep
  BY <1>5 DEF PreflightClaim
<1>6. ASSUME NEW p \in Preflight, MayFinish(p), NEW closed, NEW verdict, NEW preflight,
             CloseInspection(p, closed, verdict, preflight)
      PROVE  ClosedStep
  <2>1. inspStatus[p] = "INSPECTING"
    BY <1>6 DEF MayFinish, InspAfter
  <2>2. /\ inspStatus' = [InspAfter EXCEPT ![p] = closed]
        /\ inspOutcome' = [OutcomeAfter EXCEPT ![p] = verdict]
    BY <1>6 DEF CloseInspection
  <2> QED
    BY <2>1, <2>2
<1>7. CASE PlannerStep
  BY <1>2, <1>3, <1>4, <1>5, <1>6, <1>7
     DEF PlannerStep, PreflightReady, PreflightReturn, PreflightSplit
<1>8. CASE OperatorStep
  BY <1>8 DEF OperatorStep, Enqueue, Update, RequeueDraft, RequeueReady, Cancel,
              Confirm, ResolveHuman, Archive, Unarchive, inspVars
<1>9. CASE Clock \/ RecoveryStep \/ WorkerStep \/ DispatcherStep \/ UNCHANGED vars
  BY <1>9, RunEdits DEF RunEdit
<1> QED
  BY <1>7, <1>8, <1>9 DEF Next

\* A step that leaves contract and Planner status of every task alone, or takes
\* them back, judges nobody.
LEMMA NobodyJudged ==
  ASSUME \A t \in Task :
           /\ \/ preflightStatus'[t] = preflightStatus[t]
              \/ preflightStatus'[t] \in {"UNINSPECTED", "QUEUED", "INSPECTING"}
           /\ status'[t] = "NEEDS_REVIEW" => status[t] = "NEEDS_REVIEW"
           /\ scopes'[t] = scopes[t] \/ scopes'[t] = {} \/ status[t] = "RUNNING"
  PROVE  JudgedStep
BY DEF JudgedStep, Judged

\* A verdict judges the task its inspection fences, and no other.
LEMMA VerdictJudges ==
  ASSUME PlannerInv, NEW p \in Preflight, NEW closed \in {"FINISHED", "FAILED"},
         NEW verdict \in Verdict, NEW preflight \in {"READY", "FAILED"},
         verdict = "READY" <=> preflight = "READY",
         MayFinish(p), CloseInspection(p, closed, verdict, preflight),
         \A t \in Task \ {inspTask[p]} :
           /\ status'[t] = "NEEDS_REVIEW" => status[t] = "NEEDS_REVIEW"
           /\ scopes'[t] = scopes[t]
  PROVE  JudgedStep
<1>0. TypeInv /\ TypeOK BY DEF PlannerInv, TypeInv
<1>1. inspStatus[p] = "INSPECTING"
  BY DEF MayFinish, InspAfter
<1>2. inspTask[p] \in Task /\ preflightExecution[inspTask[p]] = p
  BY <1>1, ActiveIsQueued DEF InQueue
<1>3. /\ inspStatus'[p] = closed
      /\ inspOutcome'[p] = verdict
      /\ preflightStatus'[inspTask[p]] = preflight
  BY <1>0, <1>2, InspectionTypes DEF CloseInspection, TypeOK
<1>4. ASSUME NEW t \in Task, t # inspTask[p] PROVE ~ Judged(t)
  <2>1. preflightStatus'[t] = PreflightAfter[t]
    BY <1>0, <1>2, <1>4, InspectionTypes DEF CloseInspection, TypeOK
  <2>2. preflightStatus'[t] \in {preflightStatus[t], "UNINSPECTED"}
    BY <2>1 DEF PreflightAfter
  <2> QED
    BY <1>4, <2>2 DEF Judged
<1> QED
  BY <1>1, <1>2, <1>3, <1>4 DEF JudgedStep

\* A task is judged only by the inspection that fences it.
LEMMA JudgedByItsFence == PlannerInv /\ [Next]_vars => JudgedStep
<1> SUFFICES ASSUME PlannerInv, [Next]_vars PROVE JudgedStep
  OBVIOUS
<1>0. TypeInv /\ TypeOK BY DEF PlannerInv, TypeInv
<1>1. \A t \in Task : PreflightAfter[t] \in {preflightStatus[t], "UNINSPECTED"}
  BY DEF PreflightAfter
<1> USE <1>0, NobodyJudged DEF TypeOK
<1>2. CASE PreflightNothing
  BY <1>1, <1>2 DEF PreflightNothing
<1>3. ASSUME NEW S \in SUBSET Task, NEW insp \in [S -> Preflight],
             SchedulePreflight(S, insp)
      PROVE  JudgedStep
  <2>1. /\ preflightStatus' = [t \in Task |->
                                 IF t \in S THEN "QUEUED" ELSE PreflightAfter[t]]
        /\ UNCHANGED <<status, scopes>>
    BY <1>3 DEF SchedulePreflight
  <2> QED
    BY <1>1, <2>1
<1>4. ASSUME NEW t \in Task, UnschedulePreflight(t) PROVE JudgedStep
  BY <1>4 DEF UnschedulePreflight
<1>5. ASSUME NEW p \in Preflight, PreflightClaim(p) PROVE JudgedStep
  BY <1>1, <1>5, InspectionTypes DEF PreflightClaim
<1>6. ASSUME NEW p \in Preflight, NEW S \in SUBSET Scope, PreflightReady(p, S)
      PROVE  JudgedStep
  BY <1>6, VerdictJudges DEF PreflightReady, Verdict
<1>7. ASSUME NEW p \in Preflight, NEW verdict \in {"NEEDS_REVIEW", "FAILED"},
             PreflightReturn(p, verdict)
      PROVE  JudgedStep
  BY <1>7, VerdictJudges DEF PreflightReturn, Verdict
<1>8. ASSUME NEW p \in Preflight, PreflightSplit(p) PROVE JudgedStep
  <2>1. \A t \in Task \ {inspTask[p]} : status'[t] = status[t] \/ status'[t] = "DRAFT"
    BY <1>8 DEF PreflightSplit
  <2>2. /\ MayFinish(p) /\ CloseInspection(p, "FINISHED", "SPLIT", "FAILED")
        /\ UNCHANGED scopes
    BY <1>8 DEF PreflightSplit
  <2> QED
    BY <2>1, <2>2, VerdictJudges DEF Verdict
<1>9. CASE OperatorStep
  BY <1>9 DEF OperatorStep, Enqueue, Update, RequeueDraft, RequeueReady, Cancel,
              Confirm, ResolveHuman, Archive, Unarchive
<1>10. CASE Clock \/ RecoveryStep \/ WorkerStep \/ DispatcherStep \/ UNCHANGED vars
  BY <1>10, RunEdits DEF RunEdit, Contracted
<1> QED
  BY <1>2, <1>3, <1>4, <1>5, <1>6, <1>7, <1>8, <1>9, <1>10 DEF Next, PlannerStep

\* A closed inspection never opens again and keeps its verdict, and a task is
\* judged only by the inspection that fences it, when this one is closed: a late
\* or repeated result changes neither row nor task.
THEOREM VerdictIsFinal == Spec => VerdictFinal
<1>1. PlannerInv /\ TypeInv /\ [Next]_vars => [ClosedStep /\ JudgedStep]_vars
  BY VerdictKept, JudgedByItsFence
<1> QED
  BY <1>1, TypeInvariant, PlannerInvariant, PTL
     DEF Spec, VerdictFinal, ClosedStep, JudgedStep, Closed

\* The step property of ArchivedFrozen.
Finished == {"CONFIRMED", "FAILED", "CANCELLED"}

ArchiveStep ==
  \A t \in archived : status[t] \in Finished =>
    /\ status'[t] = status[t]
    /\ preflightStatus'[t] = preflightStatus[t]
    /\ scopes'[t] = scopes[t]
    /\ verifiedBy'[t] = verifiedBy[t]

\* No command touches a finished task that is archived.
LEMMA ArchiveKept == PlannerInv /\ [Next]_vars => ArchiveStep
<1> SUFFICES ASSUME PlannerInv, [Next]_vars PROVE ArchiveStep
  OBVIOUS
<1>0. TypeInv /\ TypeOK /\ SweptFence BY SweepKeepsFence DEF PlannerInv, TypeInv
<1>1. \A t \in archived : t \in Task
  BY <1>0 DEF TypeOK
<1>2. CASE PlannerStep
  BY <1>0, <1>1, <1>2, PlannerEditsDrafts DEF PlannerEdit, ArchiveStep, Finished, SweptFence
<1>3. CASE Clock \/ RecoveryStep \/ WorkerStep \/ DispatcherStep \/ UNCHANGED vars
  BY <1>0, <1>1, <1>3, RunEdits DEF RunEdit, Contracted, ArchiveStep, Finished
<1>4. CASE OperatorStep
  <2> SUFFICES ASSUME NEW t \in Task,
                      \/ \E D \in SUBSET Task : Enqueue(t, D) \/ Update(t, D)
                      \/ RequeueDraft(t) \/ RequeueReady(t) \/ Cancel(t)
                      \/ Confirm(t) \/ ResolveHuman(t) \/ Archive(t)
                      \/ Unarchive(t)
               PROVE  ArchiveStep
    BY <1>4 DEF OperatorStep
  <2>1. \/ UNCHANGED <<status, preflightStatus, scopes, verifiedBy>>
        \/ /\ t \notin archived \/ status[t] = "ABSENT"
           /\ \A u \in Task \ {t} : /\ status'[u] = status[u]
                                    /\ preflightStatus'[u] = preflightStatus[u]
                                    /\ scopes'[u] = scopes[u]
                                    /\ verifiedBy'[u] = verifiedBy[u]
    BY <1>0 DEF Enqueue, Update, Editable, RequeueDraft, RequeueReady, Cancel,
                Confirm, ResolveHuman, Archive, Unarchive, TypeOK
  <2> QED
    BY <1>1, <2>1 DEF ArchiveStep, Finished
<1> QED
  BY <1>2, <1>3, <1>4 DEF Next

\* Nobody changes a finished task that is archived.
THEOREM ArchivedIsFrozen == Spec => ArchivedFrozen
<1>1. PlannerInv /\ [Next]_vars => [ArchiveStep]_vars
  BY ArchiveKept
<1> QED
  BY <1>1, PlannerInvariant, PTL DEF Spec, ArchivedFrozen, ArchiveStep, Finished

-----------------------------------------------------------------------------
(***************************************************************************)
(* Dependencies.  Acyclicity is what each command that rewires them tests; *)
(* that every dependency exists needs that no task ever disappears, and    *)
(* that a split does not leave anyone waiting for an unknown child.        *)
(***************************************************************************)
LEMMA TasksStay ==
  ASSUME PlannerInv, [Next]_vars
  PROVE  Existing \subseteq Existing'
<1>0. TypeInv /\ TypeOK BY DEF PlannerInv, TypeInv
<1>1. CASE PlannerStep
  BY <1>1, PlannerEditsDrafts DEF PlannerEdit, Existing
<1>2. CASE Clock \/ RecoveryStep \/ WorkerStep \/ DispatcherStep \/ UNCHANGED vars
  BY <1>0, <1>2, RunEdits DEF RunEdit, Contracted, Existing
<1>3. CASE OperatorStep
  BY <1>0, <1>3 DEF OperatorStep, Enqueue, Update, RequeueDraft, RequeueReady,
                    Cancel, Confirm, ResolveHuman, Archive, Unarchive, TypeOK,
                    Existing
<1> QED
  BY <1>1, <1>2, <1>3 DEF Next

\* A split whose rewiring was found acyclic keeps dependencies sound.
LEMMA SplitKeepsSound ==
  ASSUME PlannerInv, DependenciesSound, NEW p \in Preflight, PreflightSplit(p)
  PROVE  DependenciesSound'
<1> DEFINE t == inspTask[p]
<1>0. TypeInv /\ TypeOK BY DEF PlannerInv, TypeInv
<1>1. t \in Task /\ t \in Existing
  BY <1>0 DEF PreflightSplit, MayFinish, TypeInv, TypeOK, RowsNamed, Existing,
              InspAfter
<1>2. PICK kids \in SUBSET (Task \ Existing) :
        /\ \E own \in [kids -> SUBSET ((Existing \cup kids) \ {t})] :
             /\ Acyclic(SplitDependencies(t, kids, own))
             /\ dependsOn' = SplitDependencies(t, kids, own)
        /\ status' = [u \in Task |-> IF u = t THEN "CANCELLED"
                                     ELSE IF u \in kids THEN "DRAFT"
                                     ELSE status[u]]
  BY DEF PreflightSplit
<1>3. PICK own \in [kids -> SUBSET ((Existing \cup kids) \ {t})] :
        /\ Acyclic(SplitDependencies(t, kids, own))
        /\ dependsOn' = SplitDependencies(t, kids, own)
  BY <1>2
<1>4. Existing \cup kids \subseteq Existing'
  BY <1>2 DEF Existing
<1> HIDE DEF t
<1>5. \A u \in Task : dependsOn'[u] \subseteq Existing \cup kids
  BY <1>1, <1>3 DEF SplitDependencies, DependenciesSound
<1>6. Acyclic(dependsOn)'
  BY <1>3 DEF Acyclic
<1> QED
  BY <1>4, <1>5, <1>6 DEF DependenciesSound

\* New dependencies on existing tasks that were found acyclic keep them sound.
LEMMA RewiringKeepsSound ==
  ASSUME PlannerInv, DependenciesSound, NEW t \in Task, NEW D \in SUBSET Task,
         D = dependsOn[t] \/ MayDepend(t, D, Existing),
         dependsOn' = [dependsOn EXCEPT ![t] = D], Existing \subseteq Existing'
  PROVE  DependenciesSound'
<1>0. dependsOn \in [Task -> SUBSET Task]
  BY DEF PlannerInv, TypeInv, TypeOK
<1>1. CASE D = dependsOn[t]
  <2>1. dependsOn' = dependsOn
    BY <1>0, <1>1
  <2> QED
    BY <2>1 DEF DependenciesSound, Acyclic
<1>2. CASE MayDepend(t, D, Existing)
  <2>1. Acyclic(dependsOn)'
    BY <1>2 DEF MayDepend, Acyclic
  <2> QED
    BY <1>0, <1>2, <2>1 DEF DependenciesSound, MayDepend
<1> QED
  BY <1>1, <1>2

\* Every command keeps the dependencies sound.
LEMMA DependenciesKept ==
  ASSUME PlannerInv, DependenciesSound, [Next]_vars
  PROVE  DependenciesSound'
<1>0. Existing \subseteq Existing'
  BY TasksStay
<1>1. CASE UNCHANGED dependsOn
  BY <1>0, <1>1 DEF DependenciesSound, Acyclic
<1>2. CASE PlannerStep
  BY <1>1, <1>2, SplitKeepsSound
     DEF PlannerStep, PreflightNothing, SchedulePreflight, UnschedulePreflight,
         PreflightClaim, PreflightReady, PreflightReturn
<1>3. CASE OperatorStep
  <2>1. ASSUME NEW t \in Task, NEW D \in SUBSET Task, Enqueue(t, D) \/ Update(t, D)
        PROVE  DependenciesSound'
    BY <1>0, <2>1, RewiringKeepsSound DEF Enqueue, Update
  <2> QED
    BY <1>1, <1>3, <2>1
       DEF OperatorStep, RequeueDraft, RequeueReady, Cancel, Confirm,
           ResolveHuman, Archive, Unarchive
<1>4. CASE Clock \/ RecoveryStep \/ WorkerStep \/ DispatcherStep \/ UNCHANGED vars
  BY <1>1, <1>4, RunEdits DEF RunEdit, PlannerInv
<1> QED
  BY <1>2, <1>3, <1>4 DEF Next

\* Enqueue, update and the rewiring of a split keep the dependency graph acyclic
\* and closed over the tasks that exist.
THEOREM DependenciesAreSound == Spec => []DependenciesSound
<1>1. Init => DependenciesSound
  BY DEF Init, DependenciesSound, Acyclic
<1>2. PlannerInv /\ DependenciesSound /\ [Next]_vars => DependenciesSound'
  BY DependenciesKept
<1> QED
  BY <1>1, <1>2, PlannerInvariant, PTL DEF Spec

-----------------------------------------------------------------------------
(***************************************************************************)
(* Limits.  Only scheduling adds to the active inspections, and the sweep  *)
(* it starts with only takes away, so what it counts is an upper bound.    *)
(***************************************************************************)
InspectionsHeld == {p \in Preflight : inspStatus[p] \in InQueue}

\* A step that opens no inspection keeps the limit.
LEMMA FewerInspections ==
  ASSUME PlannerCapacity, InspectionsHeld' \subseteq InspectionsHeld
  PROVE  PlannerCapacity'
<1>1. IsFiniteSet(InspectionsHeld)
  BY IdAssumption, FS_Subset DEF InspectionsHeld
<1>2. /\ Cardinality(InspectionsHeld') <= Cardinality(InspectionsHeld)
      /\ Cardinality(InspectionsHeld') \in Nat
      /\ Cardinality(InspectionsHeld) \in Nat
  BY <1>1, FS_Subset, FS_CardinalityType
<1> QED
  BY <1>2, LimitAssumption DEF PlannerCapacity, InspectionsHeld, InQueue

\* The rows of a schedule are at most as many as its drafts.
LEMMA RowsOfDrafts ==
  ASSUME NEW S \in SUBSET Task, NEW insp \in [S -> Preflight]
  PROVE  LET rows == {insp[t] : t \in S} IN
         /\ IsFiniteSet(rows)
         /\ Cardinality(rows) \in Nat
         /\ Cardinality(S) \in Nat
         /\ Cardinality(rows) <= Cardinality(S)
<1> DEFINE rows == {insp[t] : t \in S}
<1>1. IsFiniteSet(S)
  BY IdAssumption, FS_Subset
<1>2. insp \in Surjection(S, rows)
  BY DEF Surjection
<1> HIDE DEF rows
<1>3. IsFiniteSet(rows) /\ Cardinality(rows) <= Cardinality(S)
  BY <1>1, <1>2, FS_Surjection
<1> QED
  BY <1>1, <1>3, FS_CardinalityType DEF rows

\* A schedule adds no more rows than the slots it has counted as free.
LEMMA ScheduleWithinLimit ==
  ASSUME PlannerInv, PlannerCapacity, NEW S \in SUBSET Task,
         NEW insp \in [S -> Preflight], SchedulePreflight(S, insp)
  PROVE  PlannerCapacity'
<1> DEFINE rows == {insp[t] : t \in S}
           n == Cardinality(ActiveInspections)
           free == IF n < PlannerLimit THEN PlannerLimit - n ELSE 0
           most == IF free < PlannerBatch THEN free ELSE PlannerBatch
<1>0. TypeInv /\ TypeOK BY DEF PlannerInv, TypeInv
<1>1. /\ IsFiniteSet(rows)
      /\ Cardinality(rows) \in Nat
      /\ Cardinality(S) \in Nat
      /\ Cardinality(rows) <= Cardinality(S)
  BY RowsOfDrafts
<1>2. /\ IsFiniteSet(ActiveInspections)
      /\ n \in Nat
  BY IdAssumption, FS_Subset, FS_CardinalityType DEF ActiveInspections
<1>3. n <= PlannerLimit
  <2>1. ActiveInspections \subseteq InspectionsHeld
    BY DEF ActiveInspections, InspectionsHeld, InspAfter, InQueue
  <2>2. IsFiniteSet(InspectionsHeld)
    BY IdAssumption, FS_Subset DEF InspectionsHeld
  <2>3. n <= Cardinality(InspectionsHeld) /\ Cardinality(InspectionsHeld) \in Nat
    BY <2>1, <2>2, FS_Subset, FS_CardinalityType
  <2> QED
    BY <1>2, <2>3, LimitAssumption DEF PlannerCapacity, InspectionsHeld, InQueue
<1>4. Cardinality(S) <= most
  <2>1. Cardinality(S) = most \/ Cardinality(S) < most
    BY DEF SchedulePreflight
  <2>2. most \in Nat
    BY <1>2, LimitAssumption
  <2> QED
    BY <1>1, <2>1, <2>2
<1>5. InspectionsHeld' \subseteq ActiveInspections \cup rows
  <2>1. inspStatus' = [p \in Preflight |->
                         IF p \in rows THEN "QUEUED" ELSE InspAfter[p]]
    BY DEF SchedulePreflight
  <2> HIDE DEF rows
  <2> QED
    BY <2>1 DEF InspectionsHeld, ActiveInspections, InQueue
<1> HIDE DEF rows
<1>6. Cardinality(InspectionsHeld') <= n + Cardinality(rows)
  <2>1. /\ IsFiniteSet(ActiveInspections \cup rows)
        /\ Cardinality(ActiveInspections \cup rows) =
             n + Cardinality(rows) - Cardinality(ActiveInspections \cap rows)
    BY <1>1, <1>2, FS_Union
  <2>2. Cardinality(ActiveInspections \cap rows) \in Nat
    BY <1>2, FS_Intersection, FS_CardinalityType
  <2>3. /\ Cardinality(InspectionsHeld') <= Cardinality(ActiveInspections \cup rows)
        /\ Cardinality(InspectionsHeld') \in Nat
    BY <1>5, <2>1, FS_Subset, FS_CardinalityType
  <2> QED
    BY <1>1, <1>2, <2>1, <2>2, <2>3
<1>7. n + most <= PlannerLimit
  BY <1>2, <1>3, LimitAssumption
<1>8. Cardinality(InspectionsHeld') \in Nat
  BY <1>1, <1>2, <1>5, FS_Union, FS_Subset, FS_CardinalityType
<1>9. most \in Nat
  BY <1>2, LimitAssumption
<1> HIDE DEF n, most
<1>10. Cardinality(InspectionsHeld') <= PlannerLimit
  BY <1>1, <1>2, <1>4, <1>6, <1>7, <1>8, <1>9, LimitAssumption DEF n
<1> QED
  BY <1>10 DEF PlannerCapacity, InspectionsHeld, InQueue

\* Every command keeps the Planner limit.
LEMMA PlannerWithinLimit ==
  ASSUME PlannerInv, PlannerCapacity, [Next]_vars
  PROVE  PlannerCapacity'
<1>0. TypeInv /\ TypeOK BY DEF PlannerInv, TypeInv
<1>1. \A p \in Preflight : InspAfter[p] \in InQueue => inspStatus[p] \in InQueue
  BY DEF InspAfter, InQueue
<1> USE <1>0, <1>1, InspectionTypes DEF TypeOK, InspectionsHeld, InQueue
<1>2. CASE PreflightNothing
  BY <1>2, FewerInspections DEF PreflightNothing
<1>3. ASSUME NEW t \in Task, UnschedulePreflight(t) PROVE PlannerCapacity'
  BY <1>3, FewerInspections DEF UnschedulePreflight
<1>4. ASSUME NEW p \in Preflight, PreflightClaim(p) PROVE PlannerCapacity'
  BY <1>4, FewerInspections DEF PreflightClaim
<1>5. ASSUME NEW p \in Preflight, NEW closed \in {"FINISHED", "FAILED"},
             NEW verdict, NEW preflight,
             CloseInspection(p, closed, verdict, preflight)
      PROVE  PlannerCapacity'
  <2>1. inspStatus' = [InspAfter EXCEPT ![p] = closed]
    BY <1>5 DEF CloseInspection
  <2> QED
    BY <2>1, FewerInspections
<1>6. CASE PlannerStep
  BY <1>2, <1>3, <1>4, <1>5, <1>6, ScheduleWithinLimit
     DEF PlannerStep, PreflightReady, PreflightReturn, PreflightSplit
<1>7. CASE OperatorStep
  BY <1>7, FewerInspections
     DEF OperatorStep, Enqueue, Update, RequeueDraft, RequeueReady, Cancel,
         Confirm, ResolveHuman, Archive, Unarchive, inspVars
<1>8. CASE Clock \/ RecoveryStep \/ WorkerStep \/ DispatcherStep \/ UNCHANGED vars
  BY <1>8, RunEdits, FewerInspections DEF RunEdit
<1> QED
  BY <1>6, <1>7, <1>8 DEF Next

\* Queued and running inspections never exceed the Planner limit.
THEOREM PlannerStaysWithinLimit == Spec => []PlannerCapacity
<1>1. Init => PlannerCapacity
  <2> SUFFICES ASSUME Init PROVE PlannerCapacity
    OBVIOUS
  <2>1. {p \in Preflight : inspStatus[p] \in {"QUEUED", "INSPECTING"}} = {}
    BY DEF Init
  <2> QED
    BY <2>1, FS_EmptySet, LimitAssumption DEF PlannerCapacity
<1>2. PlannerInv /\ PlannerCapacity /\ [Next]_vars => PlannerCapacity'
  BY PlannerWithinLimit
<1> QED
  BY <1>1, <1>2, PlannerInvariant, PTL DEF Spec

-----------------------------------------------------------------------------
(***************************************************************************)
(* The limits of the Workers.  A claim counts on the swept rows, a         *)
(* dispatch on the rows themselves; everything else only takes away.       *)
(***************************************************************************)
LEMMA WithinLimit ==
  ASSUME NEW T \in SUBSET Exec, NEW S \in SUBSET T, NEW limit \in Nat,
         Cardinality(T) <= limit
  PROVE  Cardinality(S) <= limit
<1>1. IsFiniteSet(T)
  BY IdAssumption, FS_Subset
<1>2. /\ Cardinality(S) <= Cardinality(T)
      /\ Cardinality(S) \in Nat
      /\ Cardinality(T) \in Nat
  BY <1>1, FS_Subset, FS_CardinalityType
<1> QED
  BY <1>2

\* One row more than a set below a limit is within it.
LEMMA OneMoreWithinLimit ==
  ASSUME NEW T \in SUBSET Exec, NEW e \in Exec, NEW S \in SUBSET (T \cup {e}),
         NEW limit \in Nat, Cardinality(T) < limit
  PROVE  Cardinality(S) <= limit
<1>1. IsFiniteSet(T)
  BY IdAssumption, FS_Subset
<1>2. Cardinality(T) \in Nat
  BY <1>1, FS_CardinalityType
<1>3. Cardinality(T \cup {e}) <= Cardinality(T) + 1
  <2>1. Cardinality(T \cup {e}) =
          IF e \in T THEN Cardinality(T) ELSE Cardinality(T) + 1
    BY <1>1, FS_AddElement
  <2> QED
    BY <1>2, <2>1
<1>4. Cardinality(T \cup {e}) \in Nat
  BY <1>1, FS_AddElement, FS_CardinalityType
<1> QED
  BY <1>2, <1>3, <1>4, WithinLimit

RunningRows == {e \in Exec : execStatus[e] = "RUNNING"}

\* A step that neither starts nor queues an execution keeps the limits.
LEMMA FewerRunning ==
  ASSUME CapacityRespected,
         \A e \in Exec : execStatus'[e] = "RUNNING" =>
           execStatus[e] = "RUNNING" /\ execTask'[e] = execTask[e],
         Queued' \subseteq Queued
  PROVE  CapacityRespected'
<1>1. Cardinality(RunningRows') <= GlobalLimit
  <2>1. RunningRows' \subseteq RunningRows /\ RunningRows \subseteq Exec
    BY DEF RunningRows
  <2> QED
    BY <2>1, WithinLimit, LimitAssumption DEF CapacityRespected, RunningRows
<1>2. ASSUME NEW p \in Platform
      PROVE  Cardinality(Running(p, execStatus)') <= PlatformLimit[p]
  <2>1. /\ Running(p, execStatus)' \subseteq Running(p, execStatus)
        /\ Running(p, execStatus) \subseteq Exec
    BY DEF Running
  <2>2. Cardinality(Running(p, execStatus)) <= PlatformLimit[p]
    BY DEF CapacityRespected
  <2> QED
    BY <2>1, <2>2, WithinLimit, LimitAssumption
<1>3. Cardinality(Queued') <= QueueLimit
  <2>1. Queued \subseteq Exec
    BY DEF Queued
  <2> QED
    BY <2>1, WithinLimit, LimitAssumption DEF CapacityRespected
<1> QED
  BY <1>1, <1>2, <1>3 DEF CapacityRespected, RunningRows

\* A claim starts one execution where it has counted a free slot after the sweep.
LEMMA ClaimWithinLimit ==
  ASSUME TypeInv, CapacityRespected, NEW e \in Exec, Claim(e)
  PROVE  CapacityRespected'
<1> DEFINE p == PlatformOf[execTask[e]]
           sweptRows == {f \in Exec : SweptExec[f] = "RUNNING"}
<1>0. TypeOK BY DEF TypeInv
<1>1. /\ Cardinality(sweptRows) < GlobalLimit
      /\ Cardinality(Running(p, SweptExec)) < PlatformLimit[p]
      /\ execStatus[e] = "QUEUED"
      /\ execStatus' = [SweptExec EXCEPT ![e] = "RUNNING"]
      /\ execTask' = execTask
  BY DEF Claim, Claimable, SlotFree
<1>2. \A f \in Exec : SweptExec[f] = "RUNNING" => execStatus[f] = "RUNNING"
  BY DEF SweptExec
<1>3. \A f \in Exec : execStatus'[f] = IF f = e THEN "RUNNING" ELSE SweptExec[f]
  BY <1>0, <1>1, SweepTypes
<1>4. Cardinality(RunningRows') <= GlobalLimit
  <2>1. RunningRows' \subseteq sweptRows \cup {e} /\ sweptRows \subseteq Exec
    BY <1>3 DEF RunningRows
  <2> QED
    BY <1>1, <2>1, OneMoreWithinLimit, LimitAssumption
<1>5. ASSUME NEW q \in Platform
      PROVE  Cardinality(Running(q, execStatus)') <= PlatformLimit[q]
  <2>1. CASE q = p
    <3>1. /\ Running(q, execStatus)' \subseteq Running(q, SweptExec) \cup {e}
          /\ Running(q, SweptExec) \subseteq Exec
      BY <1>1, <1>3 DEF Running
    <3> QED
      BY <1>1, <2>1, <3>1, OneMoreWithinLimit, LimitAssumption
  <2>2. CASE q # p
    <3>1. /\ Running(q, execStatus)' \subseteq Running(q, execStatus)
          /\ Running(q, execStatus) \subseteq Exec
      BY <1>1, <1>2, <1>3, <2>2 DEF Running
    <3>2. Cardinality(Running(q, execStatus)) <= PlatformLimit[q]
      BY DEF CapacityRespected
    <3> QED
      BY <3>1, <3>2, WithinLimit, LimitAssumption
  <2> QED
    BY <2>1, <2>2
<1>6. Cardinality(Queued') <= QueueLimit
  <2>1. Queued' \subseteq Queued /\ Queued \subseteq Exec
    BY <1>0, <1>3, SweepTypes DEF Queued
  <2> QED
    BY <2>1, WithinLimit, LimitAssumption DEF CapacityRespected
<1> QED
  BY <1>4, <1>5, <1>6 DEF CapacityRespected, RunningRows

\* The Dispatcher queues no more rows than the queue has room for.
LEMMA DispatchWithinLimit ==
  ASSUME TypeInv, CapacityRespected, NEW t \in Task, NEW e \in Exec, Dispatch(t, e)
  PROVE  CapacityRespected'
<1>0. TypeOK BY DEF TypeInv
<1>1. /\ Cardinality(Queued) < QueueLimit
      /\ execStatus[e] = "ABSENT"
      /\ \A f \in Exec : execStatus'[f] = IF f = e THEN "QUEUED" ELSE execStatus[f]
      /\ \A f \in Exec \ {e} : execTask'[f] = execTask[f]
  BY <1>0 DEF Dispatch, TypeOK
<1>2. Cardinality(Queued') <= QueueLimit
  <2>1. Queued' \subseteq Queued \cup {e} /\ Queued \subseteq Exec
    BY <1>1 DEF Queued
  <2> QED
    BY <1>1, <2>1, OneMoreWithinLimit, LimitAssumption
<1>3. RunningRows' = RunningRows
  BY <1>1 DEF RunningRows
<1>4. \A p \in Platform : Running(p, execStatus)' = Running(p, execStatus)
  BY <1>1 DEF Running
<1> QED
  BY <1>2, <1>3, <1>4 DEF CapacityRespected, RunningRows

\* Every command keeps the limits of the Workers.
LEMMA WorkersWithinLimit ==
  ASSUME TypeInv, CapacityRespected, [Next]_vars
  PROVE  CapacityRespected'
<1>0. TypeOK BY DEF TypeInv
<1>1. \A f \in Exec : /\ SweptExec[f] = "RUNNING" => execStatus[f] = "RUNNING"
                      /\ SweptExec[f] = "QUEUED" => execStatus[f] = "QUEUED"
  BY DEF SweptExec
<1>2. CASE UNCHANGED <<execStatus, execTask>>
  BY <1>2, FewerRunning DEF Queued
<1>3. CASE execStatus' = SweptExec /\ UNCHANGED execTask
  BY <1>1, <1>3, FewerRunning DEF Queued
<1>4. ASSUME NEW e \in Exec, execStatus' = [execStatus EXCEPT ![e] = "FINISHED"],
             UNCHANGED execTask
      PROVE  CapacityRespected'
  BY <1>0, <1>4, FewerRunning DEF Queued, TypeOK
<1>5. CASE RecoveryStep
  BY <1>3, <1>5 DEF RecoveryStep, RecoverWait, RecoverRelease
<1>6. CASE WorkerStep
  BY <1>2, <1>3, <1>4, <1>6, ClaimWithinLimit
     DEF WorkerStep, ClaimNothing, Heartbeat, ProcessEnds, ExtendScope, Finish,
         execVars
<1>7. CASE DispatcherStep
  BY <1>4, <1>7, DispatchWithinLimit DEF DispatcherStep, UnscheduleExecution
<1>8. CASE Clock \/ UNCHANGED vars
  BY <1>2, <1>8
     DEF Clock, HeartbeatLapses, AttemptTimesOut, InspectionLapses, vars, execVars
<1>9. CASE PlannerStep
  BY <1>2, <1>9
     DEF PlannerStep, PreflightNothing, SchedulePreflight, UnschedulePreflight,
         PreflightClaim, PreflightReady, PreflightReturn, PreflightSplit,
         CloseInspection, execVars
<1>10. CASE OperatorStep
  BY <1>2, <1>10
     DEF OperatorStep, Enqueue, Update, RequeueDraft, RequeueReady, Cancel,
         Confirm, ResolveHuman, Archive, Unarchive, execVars
<1> QED
  BY <1>5, <1>6, <1>7, <1>8, <1>9, <1>10 DEF Next

\* Running executions stay within the global and the platform limits, queued ones
\* within the queue limit.
THEOREM WorkersStayWithinLimits == Spec => []CapacityRespected
<1>1. Init => CapacityRespected
  <2> SUFFICES ASSUME Init PROVE CapacityRespected
    OBVIOUS
  <2>1. /\ {e \in Exec : execStatus[e] = "RUNNING"} = {}
        /\ \A p \in Platform : Running(p, execStatus) = {}
        /\ Queued = {}
    BY DEF Init, Running, Queued
  <2> QED
    BY <2>1, FS_EmptySet, LimitAssumption DEF CapacityRespected
<1>2. TypeInv /\ CapacityRespected /\ [Next]_vars => CapacityRespected'
  BY WorkersWithinLimit
<1> QED
  BY <1>1, <1>2, TypeInvariant, PTL DEF Spec

=============================================================================
