-------------------------- MODULE LoopControlHistory --------------------------
(***************************************************************************)
(* What no step may do: QuarantineHeld, ContractStable and ExecutionOrder, *)
(* and what the history of a task leaves in its rows:                      *)
(* EvidenceOfLastAttempt.                                                  *)
(***************************************************************************)
EXTENDS LoopControlCoupling

\* The step property of QuarantineHeld.
QuarantineStep ==
  \A s \in quarantined :
    \/ s \in quarantined' /\ holder'[s] = holder[s]
    \/ /\ holder'[s] = None
       /\ credential[holder[s]] = {}
       /\ recoveryAction'[holder[s]] \in {"requeue", "failed"}

\* A quarantined key is freed by the recovery that has seen the process tree gone,
\* and by nothing else.
LEMMA QuarantineKept == CouplingInv /\ [Next]_vars => QuarantineStep
<1> SUFFICES ASSUME CouplingInv, [Next]_vars PROVE QuarantineStep
  OBVIOUS
<1>0. /\ TypeInv /\ TypeOK
      /\ \A s \in quarantined : s \in Scope /\ holder[s] \in Exec
  BY DEF CouplingInv, TypeInv, TypeOK, QuarantineBacked
<1>1. quarantined \subseteq SweptQuarantine
  BY DEF SweptQuarantine
<1>2. CASE RecoveryStep
  <2>1. ASSUME NEW e \in Exec, RecoverWait(e) PROVE QuarantineStep
    BY <1>1, <2>1 DEF RecoverWait, QuarantineStep
  <2>2. ASSUME NEW e \in Exec, NEW action \in {"requeue", "failed"},
               RecoverRelease(e, action)
        PROVE  QuarantineStep
    <3>1. /\ holder' = Unlock(e)
          /\ quarantined' = SweptQuarantine \ LocksOf(e)
          /\ recoveryAction'[e] = action
          /\ credential[e] = {}
      BY <1>0, <2>2 DEF RecoverRelease, Recoverable, TypeOK
    <3> QED
      BY <1>0, <1>1, <3>1 DEF QuarantineStep, Unlock, LocksOf
  <2> QED
    BY <1>2, <2>1, <2>2 DEF RecoveryStep
<1>3. CASE WorkerStep
  <2>1. CASE ClaimNothing
    BY <1>1, <2>1 DEF ClaimNothing, QuarantineStep
  <2>2. ASSUME NEW e \in Exec, Claim(e) PROVE QuarantineStep
    <3>1. scopes[execTask[e]] \in SUBSET Scope
      BY <1>0, <2>2 DEF Claim, Claimable, TypeInv, TypeOK, RowsNamed
    <3>2. \A s \in scopes[execTask[e]] : holder[s] \notin Exec
      <4>1. ~ Blocked(scopes[execTask[e]], Exec)
        BY <2>2 DEF Claim, Claimable
      <4> QED
        BY <3>1, <4>1, UnblockedIsUnheld
    <3>3. \A s \in quarantined : holder'[s] = holder[s]
      BY <1>0, <2>2, <3>2 DEF Claim, Claimable, Lock
    <3> QED
      BY <1>1, <2>2, <3>3 DEF Claim, Claimable, QuarantineStep
  <2>3. ASSUME NEW e \in Exec, Heartbeat(e) \/ ProcessEnds(e) PROVE QuarantineStep
    BY <2>3 DEF Heartbeat, ProcessEnds, lockVars, QuarantineStep
  <2>4. ASSUME NEW e \in Exec, NEW keys \in SUBSET Scope, ExtendScope(e, keys)
        PROVE  QuarantineStep
    <3>1. \A s \in quarantined : holder[s] # e
      BY <1>0, <2>4, IdAssumption DEF ExtendScope, Reports, CouplingInv, LockLifecycle
    <3>2. \A s \in keys : holder[s] \notin Exec \ {e}
      <4>1. ~ Blocked(keys, Exec \ {e})
        BY <2>4 DEF ExtendScope
      <4> QED
        BY <4>1, UnblockedIsUnheld
    <3> QED
      BY <1>0, <2>4, <3>1, <3>2 DEF ExtendScope, Lock, QuarantineStep
  <2>5. ASSUME NEW e \in Exec, NEW final \in {"SUCCEEDED", "FAILED", "WAITING_HUMAN"},
               NEW verified \in BOOLEAN, Finish(e, final, verified)
        PROVE  QuarantineStep
    <3>1. \A s \in quarantined : holder[s] # e
      BY <1>0, <2>5, IdAssumption DEF Finish, Reports, CouplingInv, LockLifecycle
    <3> QED
      BY <1>0, <2>5, <3>1 DEF Finish, Unlock, LocksOf, QuarantineStep
  <2> QED
    BY <1>3, <2>1, <2>2, <2>3, <2>4, <2>5 DEF WorkerStep
<1>4. CASE Clock \/ DispatcherStep \/ PlannerStep \/ OperatorStep \/ UNCHANGED vars
  <2>1. UNCHANGED lockVars
    <3>1. CASE Clock
      BY <3>1, ClockEdits
    <3>2. CASE DispatcherStep
      BY <3>2 DEF DispatcherStep, Dispatch, UnscheduleExecution
    <3>3. CASE PlannerStep \/ OperatorStep
      BY <1>0, <3>3, PlannerEdits, OperatorEdits DEF TaskEdit
    <3>4. CASE UNCHANGED vars
      BY <3>4 DEF vars
    <3> QED
      BY <1>4, <3>1, <3>2, <3>3, <3>4
  <2> QED
    BY <2>1 DEF lockVars, QuarantineStep
<1> QED
  BY <1>2, <1>3, <1>4 DEF Next

\* A lock leaves quarantine only with the process tree gone and a recovery
\* decision stored, whatever the Operator does to the task meanwhile.
THEOREM QuarantineIsHeld == Spec => QuarantineHeld
<1>1. CouplingInv /\ [Next]_vars => [QuarantineStep]_vars
  BY QuarantineKept
<1> QED
  BY <1>1, CouplingInvariant, PTL DEF Spec, QuarantineHeld, QuarantineStep

-----------------------------------------------------------------------------
\* The step property of ContractStable.
ContractStep ==
  \A t \in Task :
    /\ status[t] = "RUNNING" /\ status'[t] = "RUNNING" => scopes[t] \subseteq scopes'[t]
    /\ status[t] = "QUEUED" => scopes'[t] = scopes[t]

\* No command changes the contract of a queued task or takes a key from that of a
\* running one.
LEMMA ContractKept == TypeInv /\ [Next]_vars => ContractStep
<1> SUFFICES ASSUME TypeInv, [Next]_vars PROVE ContractStep
  OBVIOUS
<1>1. ASSUME NEW e \in Exec, NEW keys \in SUBSET Scope, ExtendScope(e, keys)
      PROVE  ContractStep
  BY <1>1 DEF ExtendScope, ContractStep, TypeInv, TypeOK
<1>2. CASE PlannerStep \/ OperatorStep
  BY <1>2, PlannerEdits, OperatorEdits DEF TaskEdit, ContractStep, Active
<1>3. CASE UNCHANGED scopes
  BY <1>3 DEF ContractStep
<1>4. Clock => UNCHANGED scopes
  BY ClockEdits DEF taskVars
<1>5. RecoveryStep => UNCHANGED scopes
  BY DEF RecoveryStep, RecoverWait, RecoverRelease
<1>6. DispatcherStep => UNCHANGED scopes
  BY DEF DispatcherStep, Dispatch, UnscheduleExecution
<1>7. CASE WorkerStep
  BY <1>1, <1>3, <1>7
     DEF WorkerStep, ClaimNothing, Claim, Claimable, Heartbeat, ProcessEnds, Finish, taskVars
<1>8. CASE UNCHANGED vars
  BY <1>3, <1>8 DEF vars, taskVars
<1> QED
  BY <1>2, <1>3, <1>4, <1>5, <1>6, <1>7, <1>8 DEF Next

\* The contract of a queued task does not change, that of a running one only
\* grows.
THEOREM ContractIsStable == Spec => ContractStable
<1>1. TypeInv /\ [Next]_vars => [ContractStep]_vars
  BY ContractKept
<1> QED
  BY <1>1, TypeInvariant, PTL DEF Spec, ContractStable, ContractStep

-----------------------------------------------------------------------------
\* The step property of ExecutionOrder.
OrderStep ==
  \A e \in Exec :
    /\ execTask[e] # None => execTask'[e] = execTask[e]
    /\ execStatus[e] = "RUNNING" =>
         execStatus'[e] \in {"RUNNING", "FINISHED", "STALLED", "TIMED_OUT"}
    /\ execStatus[e] = "STALLED" => execStatus'[e] \in {"STALLED", "TIMED_OUT"}
    /\ execStatus[e] \in {"FINISHED", "TIMED_OUT"} => execStatus'[e] = execStatus[e]

\* The sweep moves an execution forward only.
LEMMA SweepForward ==
  ASSUME TypeOK, execStatus' = SweptExec, UNCHANGED execTask
  PROVE  OrderStep
BY DEF OrderStep, SweptExec, Swept, Lost, Escalated

\* No command takes an execution back in its life.
LEMMA OrderKept == TypeInv /\ [Next]_vars => OrderStep
<1> SUFFICES ASSUME TypeInv, [Next]_vars PROVE OrderStep
  OBVIOUS
<1>0. TypeOK BY DEF TypeInv
<1>1. CASE UNCHANGED <<execStatus, execTask>>
  BY <1>1 DEF OrderStep
<1>2. CASE RecoveryStep
  BY <1>0, <1>2, SweepForward DEF RecoveryStep, RecoverWait, RecoverRelease
<1>3. CASE WorkerStep
  <2>1. CASE ClaimNothing
    BY <1>0, <2>1, SweepForward DEF ClaimNothing
  <2>2. ASSUME NEW e \in Exec, Claim(e) PROVE OrderStep
    BY <1>0, <2>2, SweepTypes
       DEF Claim, Claimable, OrderStep, SweptExec, Swept, Lost, Escalated
  <2>3. ASSUME NEW e \in Exec, NEW final \in {"SUCCEEDED", "FAILED", "WAITING_HUMAN"},
               NEW verified \in BOOLEAN, Finish(e, final, verified)
        PROVE  OrderStep
    BY <1>0, <2>3 DEF Finish, Reports, OrderStep, TypeOK
  <2> QED
    BY <1>1, <1>3, <2>1, <2>2, <2>3
       DEF WorkerStep, Heartbeat, ProcessEnds, ExtendScope, execVars
<1>4. CASE DispatcherStep
  <2>1. ASSUME NEW t \in Task, NEW e \in Exec, Dispatch(t, e) PROVE OrderStep
    BY <1>0, <2>1 DEF Dispatch, OrderStep, TypeInv, TypeOK, RowsNamed
  <2>2. ASSUME NEW t \in Task, NEW e \in Exec, UnscheduleExecution(t, e)
        PROVE  OrderStep
    BY <1>0, <2>2 DEF UnscheduleExecution, Queued, OrderStep, TypeOK
  <2> QED
    BY <1>4, <2>1, <2>2 DEF DispatcherStep
<1>5. CASE Clock \/ PlannerStep \/ OperatorStep \/ UNCHANGED vars
  BY <1>1, <1>5, ClockEdits, PlannerEdits, OperatorEdits DEF TaskEdit, execVars, vars
<1> QED
  BY <1>2, <1>3, <1>4, <1>5 DEF Next

\* No execution runs twice, and none leaves a final status.
THEOREM ExecutionsMoveForward == Spec => ExecutionOrder
<1>1. TypeInv /\ [Next]_vars => [OrderStep]_vars
  BY OrderKept
<1> QED
  BY <1>1, TypeInvariant, PTL DEF Spec, ExecutionOrder, OrderStep
-----------------------------------------------------------------------------
(***************************************************************************)
(* EvidenceOfLastAttempt is not inductive: a human answer completes a task *)
(* on records it did not check the origin of.  They are those of the       *)
(* current attempt because a claim clears the records of every earlier one *)
(* and a task keeps its agent while it waits.                              *)
(***************************************************************************)
EvidenceOfWaiting ==
  \A t \in Task :
    /\ status[t] = "RUNNING" => verifiedBy[t] = None
    /\ status[t] = "WAITING_HUMAN" /\ verifiedBy[t] # None =>
         verifiedBy[t] = assignedAgent[t]

EvidenceInv == EvidenceOfLastAttempt /\ EvidenceOfWaiting

\* The sweep leaves the records of a lost attempt to its own task.
LEMMA SweepEvidence ==
  ASSUME CouplingInv, EvidenceInv, status' = SweptStatus,
         UNCHANGED <<verifiedBy, assignedAgent>>
  PROVE  EvidenceInv'
BY DEF EvidenceInv, EvidenceOfLastAttempt, EvidenceOfWaiting, SweptStatus,
       Complete

\* A step that leaves the agents and the records alone, and lets no task reach
\* a status that needs them.
LEMMA EvidenceFrame ==
  ASSUME EvidenceInv, UNCHANGED <<verifiedBy, assignedAgent>>,
         \A t \in Task : \/ status'[t] = status[t]
                         \/ status'[t] \notin Complete \cup {"RUNNING", "WAITING_HUMAN"}
  PROVE  EvidenceInv'
BY DEF EvidenceInv, EvidenceOfLastAttempt, EvidenceOfWaiting, Complete

\* Claim, extension and report of a Worker keep the records current.
LEMMA WorkerEvidence ==
  ASSUME CouplingInv, EvidenceInv, RecoveryStep \/ WorkerStep
  PROVE  EvidenceInv'
<1>0. TypeInv /\ TypeOK BY DEF CouplingInv, TypeInv
<1>1. ASSUME NEW e \in Exec, RecoverWait(e) PROVE EvidenceInv'
  BY <1>1, SweepEvidence DEF RecoverWait
<1>2. ASSUME NEW e \in Exec, NEW action \in {"requeue", "failed"},
             RecoverRelease(e, action)
      PROVE  EvidenceInv'
  <2>1. /\ status' = [SweptStatus EXCEPT ![execTask[e]] =
                        IF action = "requeue" THEN "PENDING" ELSE "FAILED"]
        /\ assignedAgent' = [assignedAgent EXCEPT ![execTask[e]] = None]
        /\ UNCHANGED verifiedBy
    BY <1>2 DEF RecoverRelease
  <2>2. \A t \in Task : \/ status'[t] \in {"PENDING", "FAILED"}
                        \/ status'[t] = SweptStatus[t] /\ assignedAgent'[t] = assignedAgent[t]
    BY <1>0, <2>1, SweepTypes DEF TypeOK
  <2> QED
    BY <2>1, <2>2
       DEF EvidenceInv, EvidenceOfLastAttempt, EvidenceOfWaiting, SweptStatus,
           Complete
<1>3. CASE ClaimNothing
  BY <1>3, SweepEvidence DEF ClaimNothing
<1>4. ASSUME NEW e \in Exec, Claim(e) PROVE EvidenceInv'
  <2>1. /\ status' = [SweptStatus EXCEPT ![execTask[e]] = "RUNNING"]
        /\ assignedAgent' = [assignedAgent EXCEPT ![execTask[e]] = e]
        /\ verifiedBy' = [verifiedBy EXCEPT ![execTask[e]] = None]
    BY <1>4 DEF Claim, Claimable
  <2>2. \A t \in Task :
          \/ status'[t] = "RUNNING" /\ verifiedBy'[t] = None
          \/ /\ status'[t] = SweptStatus[t]
             /\ assignedAgent'[t] = assignedAgent[t]
             /\ verifiedBy'[t] = verifiedBy[t]
    BY <1>0, <2>1, SweepTypes DEF TypeOK
  <2> QED
    BY <2>2
       DEF EvidenceInv, EvidenceOfLastAttempt, EvidenceOfWaiting, SweptStatus,
           Complete
<1>5. ASSUME NEW e \in Exec, NEW final \in {"SUCCEEDED", "FAILED", "WAITING_HUMAN"},
             NEW verified \in BOOLEAN, Finish(e, final, verified)
      PROVE  EvidenceInv'
  <2>1. /\ execTask[e] \in Task
        /\ assignedAgent[execTask[e]] = e
    BY <1>0, <1>5
       DEF Finish, Reports, CouplingInv, ExecutionCoupling,
           RunningHoldsContract, TypeInv, TypeOK, RowsNamed
  <2>2. /\ final = "SUCCEEDED" => verified
        /\ status' = [status EXCEPT ![execTask[e]] = final]
        /\ verifiedBy' = [verifiedBy EXCEPT ![execTask[e]] =
                            IF verified THEN e ELSE None]
        /\ UNCHANGED assignedAgent
    BY <1>5 DEF Finish
  <2>3. \A t \in Task \ {execTask[e]} : status'[t] = status[t] /\ verifiedBy'[t] = verifiedBy[t]
    BY <1>0, <2>2 DEF TypeOK
  <2>4. /\ status'[execTask[e]] = final
        /\ verifiedBy'[execTask[e]] = IF verified THEN e ELSE None
    BY <1>0, <2>1, <2>2 DEF TypeOK
  <2> QED
    BY <2>1, <2>2, <2>3, <2>4, IdAssumption
       DEF EvidenceInv, EvidenceOfLastAttempt, EvidenceOfWaiting, Complete
<1>6. CASE UNCHANGED <<status, verifiedBy, assignedAgent>>
  BY <1>6, EvidenceFrame
<1> QED
  BY <1>1, <1>2, <1>3, <1>4, <1>5, <1>6
     DEF RecoveryStep, WorkerStep, Heartbeat, ProcessEnds, ExtendScope, taskVars

\* The Planner writes no verification records and finishes no task.
LEMMA PlannerEvidence ==
  ASSUME TypeInv, EvidenceInv, PlannerStep
  PROVE  EvidenceInv'
<1>0. TypeOK BY DEF TypeInv
<1>1. UNCHANGED <<verifiedBy, assignedAgent>>
  BY DEF PlannerStep, PreflightNothing, SchedulePreflight, UnschedulePreflight,
         PreflightClaim, PreflightReady, PreflightReturn, PreflightSplit,
         CloseInspection
<1>2. \A t \in Task : \/ status'[t] = status[t]
                      \/ status'[t] \notin Complete \cup {"RUNNING", "WAITING_HUMAN"}
  <2>1. ASSUME NEW p \in Preflight, NEW S \in SUBSET Scope, PreflightReady(p, S)
        PROVE  status' = [status EXCEPT ![inspTask[p]] = "PENDING"]
    BY <2>1 DEF PreflightReady
  <2>2. ASSUME NEW p \in Preflight, NEW verdict \in {"NEEDS_REVIEW", "FAILED"},
               PreflightReturn(p, verdict)
        PROVE  status' = [status EXCEPT ![inspTask[p]] = "NEEDS_REVIEW"]
    BY <2>2 DEF PreflightReturn
  <2>3. ASSUME NEW p \in Preflight, PreflightSplit(p)
        PROVE  \A t \in Task : status'[t] \in {"CANCELLED", "DRAFT", status[t]}
    BY <2>3 DEF PreflightSplit
  <2>4. \/ UNCHANGED status
        \/ \E p \in Preflight : \E S \in SUBSET Scope : PreflightReady(p, S)
        \/ \E p \in Preflight : \E verdict \in {"NEEDS_REVIEW", "FAILED"} :
             PreflightReturn(p, verdict)
        \/ \E p \in Preflight : PreflightSplit(p)
    BY DEF PlannerStep, PreflightNothing, SchedulePreflight,
           UnschedulePreflight, PreflightClaim
  <2> QED
    BY <1>0, <2>1, <2>2, <2>3, <2>4 DEF TypeOK, Complete
<1> QED
  BY <1>1, <1>2, EvidenceFrame

\* An answer or a requeue of the Operator keeps the records current.
LEMMA OperatorEvidence ==
  ASSUME TypeInv, EvidenceInv, OperatorStep
  PROVE  EvidenceInv'
<1> SUFFICES ASSUME NEW t \in Task,
                    \/ \E D \in SUBSET Task : Enqueue(t, D) \/ Update(t, D)
                    \/ RequeueDraft(t) \/ RequeueReady(t) \/ Cancel(t)
                    \/ Confirm(t) \/ ResolveHuman(t) \/ Archive(t)
                    \/ Unarchive(t)
             PROVE  EvidenceInv'
  BY DEF OperatorStep
<1> USE DEF TypeInv, TypeOK, EvidenceInv, EvidenceOfLastAttempt,
            EvidenceOfWaiting, Complete
<1>1. CASE \E D \in SUBSET Task : Enqueue(t, D)
  BY <1>1 DEF Enqueue
<1>2. CASE \E D \in SUBSET Task : Update(t, D)
  BY <1>2 DEF Update
<1>3. CASE RequeueDraft(t) \/ RequeueReady(t)
  BY <1>3 DEF RequeueDraft, RequeueReady
<1>4. CASE Cancel(t) \/ Confirm(t)
  BY <1>4 DEF Cancel, Confirm
<1>5. CASE ResolveHuman(t)
  BY <1>5 DEF ResolveHuman, Resolvable
<1>6. CASE Archive(t) \/ Unarchive(t)
  BY <1>6 DEF Archive, Unarchive
<1> QED
  BY <1>1, <1>2, <1>3, <1>4, <1>5, <1>6

\* Every command keeps the records those of the last attempt.
LEMMA EvidenceStep == CouplingInv /\ EvidenceInv /\ [Next]_vars => EvidenceInv'
<1> SUFFICES ASSUME CouplingInv, EvidenceInv, [Next]_vars PROVE EvidenceInv'
  OBVIOUS
<1>0. TypeInv /\ TypeOK BY DEF CouplingInv, TypeInv
<1>1. CASE Clock \/ UNCHANGED vars
  BY <1>1, ClockEdits, EvidenceFrame DEF taskVars, vars
<1>2. CASE DispatcherStep
  <2>1. ASSUME NEW t \in Task, NEW e \in Exec, Dispatch(t, e) PROVE EvidenceInv'
    BY <1>0, <2>1, EvidenceFrame DEF Dispatch, TypeOK, Complete
  <2>2. ASSUME NEW t \in Task, NEW e \in Exec, UnscheduleExecution(t, e)
        PROVE  EvidenceInv'
    BY <1>0, <2>2, EvidenceFrame DEF UnscheduleExecution, TypeOK, Complete
  <2> QED
    BY <1>2, <2>1, <2>2 DEF DispatcherStep
<1> QED
  BY <1>0, <1>1, <1>2, WorkerEvidence, PlannerEvidence, OperatorEvidence DEF Next

\* A task is done only on the records of the attempt it was last assigned to.
THEOREM EvidenceIsCurrent == Spec => []EvidenceOfLastAttempt
<1>1. Init => EvidenceInv
  BY DEF Init, EvidenceInv, EvidenceOfLastAttempt, EvidenceOfWaiting, Complete
<1>2. CouplingInv /\ EvidenceInv /\ [Next]_vars => EvidenceInv'
  BY EvidenceStep
<1>3. EvidenceInv => EvidenceOfLastAttempt
  BY DEF EvidenceInv
<1> QED
  BY <1>1, <1>2, <1>3, CouplingInvariant, PTL DEF Spec
=============================================================================
