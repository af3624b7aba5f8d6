-------------------------- MODULE LoopControlLocks --------------------------
(***************************************************************************)
(* Type correctness of the control plane, and its scope locks: they keep   *)
(* live Workers apart (ScopeExclusion, WritersDisjoint, the refinement of  *)
(* WriteAccess), for every value of the constants that satisfies their     *)
(* assumptions.                                                            *)
(***************************************************************************)
EXTENDS LoopControl, TLAPS

(***************************************************************************)
(* TypeOK is not inductive: a claim copies the contract of the task its    *)
(* execution names into the Worker's credential, and a split the           *)
(* dependencies of the task its inspection names, so these columns must    *)
(* name a task as soon as the row exists.                                  *)
(***************************************************************************)
RowsNamed ==
  /\ \A e \in Exec : execStatus[e] = "ABSENT" <=> execTask[e] = None
  /\ \A p \in Preflight : inspStatus[p] = "ABSENT" <=> inspTask[p] = None

TypeInv == TypeOK /\ RowsNamed

-----------------------------------------------------------------------------
(***************************************************************************)
(* The values a sweep leaves in the rows have the types of the rows.       *)
(***************************************************************************)
LEMMA SweepTypes ==
  ASSUME TypeOK
  PROVE  /\ SweptExec \in [Exec -> ExecStatus]
         /\ SweptRequired \in SUBSET Exec
         /\ SweptQuarantine \in SUBSET Scope
         /\ SweptStatus \in [Task -> TaskStatus]
         /\ \A e \in Exec : SweptExec[e] = "ABSENT" <=> execStatus[e] = "ABSENT"
         /\ \A e \in Exec : SweptExec[e] = "QUEUED" <=> execStatus[e] = "QUEUED"
<1>1. Swept \subseteq Exec
  BY DEF Swept, Lost, Escalated
<1>2. \A e \in Swept : execStatus[e] \in {"RUNNING", "STALLED"}
  BY DEF Swept, Lost, Escalated
<1>3. SweptExec \in [Exec -> ExecStatus]
  BY DEF SweptExec, TypeOK, ExecStatus
<1>4. SweptStatus \in [Task -> TaskStatus]
  BY DEF SweptStatus, TypeOK, TaskStatus
<1>5. /\ SweptRequired \in SUBSET Exec
      /\ SweptQuarantine \in SUBSET Scope
  BY <1>1 DEF SweptRequired, SweptQuarantine, TypeOK
<1> QED
  BY <1>2, <1>3, <1>4, <1>5 DEF SweptExec

\* A released inspection keeps its types.
LEMMA InspectionTypes ==
  ASSUME TypeOK
  PROVE  /\ InspAfter \in [Preflight -> InspStatus]
         /\ OutcomeAfter \in [Preflight -> Verdict \cup {"NONE", "TIMED_OUT"}]
         /\ PreflightAfter \in [Task -> PreflightStatus]
         /\ FenceAfter \in [Task -> Preflight \cup {None}]
         /\ \A p \in Preflight : InspAfter[p] = "ABSENT" <=> inspStatus[p] = "ABSENT"
<1> USE DEF TypeOK
<1>1. InspAfter \in [Preflight -> InspStatus]
  BY DEF InspAfter, InspStatus
<1>2. OutcomeAfter \in [Preflight -> Verdict \cup {"NONE", "TIMED_OUT"}]
  BY DEF OutcomeAfter
<1>3. PreflightAfter \in [Task -> PreflightStatus]
  BY DEF PreflightAfter, PreflightStatus
<1>4. FenceAfter \in [Task -> Preflight \cup {None}]
  BY DEF FenceAfter
<1> QED
  BY <1>1, <1>2, <1>3, <1>4 DEF InspAfter, TimedOut

-----------------------------------------------------------------------------
\* An empty database has its types.
LEMMA TypeInit == Init => TypeInv
BY DEF Init, TypeInv, TypeOK, RowsNamed, TaskStatus, PreflightStatus,
       ExecStatus, InspStatus

\* The clock keeps the types.
LEMMA ClockTypes == TypeInv /\ Clock => TypeInv'
<1> SUFFICES ASSUME TypeInv, Clock PROVE TypeInv'
  OBVIOUS
<1> USE DEF TypeInv, TypeOK, RowsNamed, taskVars, execVars, lockVars, inspVars
<1>1. ASSUME NEW e \in Exec, HeartbeatLapses(e) PROVE TypeInv'
  BY <1>1 DEF HeartbeatLapses
<1>2. ASSUME NEW e \in Exec, AttemptTimesOut(e) PROVE TypeInv'
  BY <1>2 DEF AttemptTimesOut
<1>3. ASSUME NEW p \in Preflight, InspectionLapses(p) PROVE TypeInv'
  BY <1>3 DEF InspectionLapses
<1> QED
  BY <1>1, <1>2, <1>3 DEF Clock

\* The commands of recovery keep the types.
LEMMA RecoveryTypes == TypeInv /\ RecoveryStep => TypeInv'
<1> SUFFICES ASSUME TypeInv, RecoveryStep PROVE TypeInv'
  OBVIOUS
<1>0. TypeOK BY DEF TypeInv
<1> USE SweepTypes, <1>0
    DEF TypeInv, TypeOK, RowsNamed, taskVars, execVars, lockVars, inspVars
<1>1. ASSUME NEW e \in Exec, RecoverWait(e) PROVE TypeInv'
  BY <1>1 DEF RecoverWait
<1>2. ASSUME NEW e \in Exec, NEW action \in {"requeue", "failed"},
             RecoverRelease(e, action)
      PROVE  TypeInv'
  <2>1. Unlock(e) \in [Scope -> Exec \cup {None}]
    BY DEF Unlock
  <2>2. status' \in [Task -> TaskStatus]
    BY <1>2 DEF RecoverRelease, TaskStatus
  <2> QED
    BY <1>2, <2>1, <2>2 DEF RecoverRelease
<1> QED
  BY <1>1, <1>2 DEF RecoveryStep

\* The commands of a Worker keep the types.
LEMMA WorkerTypes == TypeInv /\ WorkerStep => TypeInv'
<1> SUFFICES ASSUME TypeInv, WorkerStep PROVE TypeInv'
  OBVIOUS
<1>0. TypeOK BY DEF TypeInv
<1> USE SweepTypes, <1>0
    DEF TypeInv, TypeOK, RowsNamed, taskVars, execVars, lockVars, inspVars
<1>1. ASSUME ClaimNothing PROVE TypeInv'
  BY <1>1 DEF ClaimNothing
<1>2. ASSUME NEW e \in Exec, Claim(e) PROVE TypeInv'
  <2>1. execTask[e] \in Task
    BY <1>2 DEF Claim, Claimable
  <2>2. holder' \in [Scope -> Exec \cup {None}]
    BY <1>2 DEF Claim, Claimable, Lock
  <2>3. status' \in [Task -> TaskStatus]
    BY <1>2 DEF Claim, Claimable, TaskStatus
  <2>4. /\ execStatus' \in [Exec -> ExecStatus]
        /\ \A f \in Exec : execStatus'[f] = "ABSENT" <=> execTask'[f] = None
    BY <1>2 DEF Claim, Claimable, ExecStatus
  <2>5. credential' \in [Exec -> SUBSET Scope]
    BY <1>2, <2>1 DEF Claim, Claimable
  <2> QED
    BY <1>2, <2>1, <2>2, <2>3, <2>4, <2>5 DEF Claim, Claimable
<1>3. ASSUME NEW e \in Exec, Heartbeat(e) PROVE TypeInv'
  BY <1>3 DEF Heartbeat
<1>4. ASSUME NEW e \in Exec, ProcessEnds(e) PROVE TypeInv'
  BY <1>4 DEF ProcessEnds
<1>5. ASSUME NEW e \in Exec, NEW keys \in SUBSET Scope, ExtendScope(e, keys)
      PROVE  TypeInv'
  <2>1. holder' \in [Scope -> Exec \cup {None}]
    BY <1>5 DEF ExtendScope, Lock
  <2>2. scopes' \in [Task -> SUBSET Scope]
    <3>1. \A x \in Task : scopes[x] \cup keys \in SUBSET Scope
      OBVIOUS
    <3>2. scopes' = [scopes EXCEPT ![execTask[e]] = scopes[execTask[e]] \cup keys]
      BY <1>5 DEF ExtendScope
    <3> QED
      BY <3>1, <3>2
  <2>3. credential' \in [Exec -> SUBSET Scope]
    BY <1>5 DEF ExtendScope
  <2> QED
    BY <1>5, <2>1, <2>2, <2>3 DEF ExtendScope
<1>6. ASSUME NEW e \in Exec, NEW final \in {"SUCCEEDED", "FAILED", "WAITING_HUMAN"},
             NEW verified \in BOOLEAN, Finish(e, final, verified)
      PROVE  TypeInv'
  <2>1. holder' \in [Scope -> Exec \cup {None}]
    BY <1>6 DEF Finish, Unlock
  <2>2. status' \in [Task -> TaskStatus]
    BY <1>6 DEF Finish, TaskStatus
  <2>3. /\ execStatus' \in [Exec -> ExecStatus]
        /\ \A f \in Exec : execStatus'[f] = "ABSENT" <=> execTask'[f] = None
    BY <1>6 DEF Finish, Reports, ExecStatus
  <2>4. verifiedBy' \in [Task -> Exec \cup {None}]
    BY <1>6 DEF Finish
  <2> QED
    BY <1>6, <2>1, <2>2, <2>3, <2>4 DEF Finish
<1> QED
  BY <1>1, <1>2, <1>3, <1>4, <1>5, <1>6 DEF WorkerStep

\* The Dispatcher keeps the types.
LEMMA DispatcherTypes == TypeInv /\ DispatcherStep => TypeInv'
<1> SUFFICES ASSUME TypeInv, DispatcherStep PROVE TypeInv'
  OBVIOUS
<1> USE IdAssumption
    DEF TypeInv, TypeOK, RowsNamed, taskVars, execVars, lockVars, inspVars
<1>1. ASSUME NEW t \in Task, NEW e \in Exec, Dispatch(t, e) PROVE TypeInv'
  BY <1>1 DEF Dispatch, TaskStatus, ExecStatus
<1>2. ASSUME NEW t \in Task, NEW e \in Exec, UnscheduleExecution(t, e)
      PROVE  TypeInv'
  <2>1. execStatus[e] = "QUEUED"
    BY <1>2 DEF UnscheduleExecution, Queued
  <2> QED
    BY <1>2, <2>1 DEF UnscheduleExecution, TaskStatus, ExecStatus
<1> QED
  BY <1>1, <1>2 DEF DispatcherStep

\* Closing an inspection with any verdict leaves its columns typed.
LEMMA ClosingTypes ==
  ASSUME TypeInv, NEW p \in Preflight, NEW closed \in {"FINISHED", "FAILED"},
         NEW verdict \in Verdict, NEW preflight \in {"READY", "FAILED"},
         MayFinish(p), CloseInspection(p, closed, verdict, preflight),
         status' \in [Task -> TaskStatus],
         dependsOn' \in [Task -> SUBSET Task],
         scopes' \in [Task -> SUBSET Scope]
  PROVE  TypeInv'
<1>0. TypeOK BY DEF TypeInv
<1> USE InspectionTypes, IdAssumption, <1>0
    DEF TypeInv, TypeOK, RowsNamed, execVars, lockVars, CloseInspection
<1>1. preflightStatus' \in [Task -> PreflightStatus]
  BY DEF PreflightStatus
<1>2. preflightExecution' \in [Task -> Preflight \cup {None}]
  OBVIOUS
<1>3. /\ inspStatus' \in [Preflight -> InspStatus]
      /\ \A q \in Preflight : inspStatus'[q] = "ABSENT" <=> inspTask'[q] = None
  BY DEF MayFinish, InspStatus
<1>4. inspOutcome' \in [Preflight -> Verdict \cup {"NONE", "TIMED_OUT"}]
  OBVIOUS
<1> QED
  BY <1>1, <1>2, <1>3, <1>4

\* The commands of the Planner keep the types.
LEMMA PlannerTypes == TypeInv /\ PlannerStep => TypeInv'
<1> SUFFICES ASSUME TypeInv, PlannerStep PROVE TypeInv'
  OBVIOUS
<1>0. TypeOK BY DEF TypeInv
<1> USE InspectionTypes, IdAssumption, <1>0
    DEF TypeInv, TypeOK, RowsNamed, taskVars, execVars, lockVars, inspVars
<1>1. ASSUME PreflightNothing PROVE TypeInv'
  BY <1>1 DEF PreflightNothing
<1>2. ASSUME NEW S \in SUBSET Task, NEW insp \in [S -> Preflight],
             SchedulePreflight(S, insp)
      PROVE  TypeInv'
  <2> DEFINE rows == {insp[t] : t \in S}
  <2>1. \A p \in rows : (CHOOSE t \in S : insp[t] = p) \in Task
    OBVIOUS
  <2>2. /\ inspStatus' = [p \in Preflight |->
                           IF p \in rows THEN "QUEUED" ELSE InspAfter[p]]
        /\ inspTask' = [p \in Preflight |->
                          IF p \in rows THEN CHOOSE t \in S : insp[t] = p
                          ELSE inspTask[p]]
        /\ preflightStatus' = [t \in Task |->
                                 IF t \in S THEN "QUEUED" ELSE PreflightAfter[t]]
        /\ preflightExecution' = [t \in Task |->
                                    IF t \in S THEN insp[t] ELSE FenceAfter[t]]
        /\ inspOutcome' = OutcomeAfter
        /\ UNCHANGED <<status, dependsOn, scopes, assignedAgent, verifiedBy,
                       archived, execVars, lockVars, credential, inspLate>>
    BY <1>2 DEF SchedulePreflight
  <2> HIDE DEF rows
  <2>3. /\ inspStatus' \in [Preflight -> InspStatus]
        /\ inspTask' \in [Preflight -> Task \cup {None}]
        /\ \A p \in Preflight : inspStatus'[p] = "ABSENT" <=> inspTask'[p] = None
    BY <2>1, <2>2 DEF InspStatus
  <2>4. /\ preflightStatus' \in [Task -> PreflightStatus]
        /\ preflightExecution' \in [Task -> Preflight \cup {None}]
    BY <2>2 DEF PreflightStatus
  <2> QED
    BY <2>2, <2>3, <2>4
<1>3. ASSUME NEW t \in Task, UnschedulePreflight(t) PROVE TypeInv'
  BY <1>3 DEF UnschedulePreflight, InspStatus, PreflightStatus
<1>4. ASSUME NEW p \in Preflight, PreflightClaim(p) PROVE TypeInv'
  BY <1>4 DEF PreflightClaim, InspStatus, PreflightStatus
<1>5. ASSUME NEW p \in Preflight, NEW S \in SUBSET Scope, PreflightReady(p, S)
      PROVE  TypeInv'
  <2>1. /\ status' \in [Task -> TaskStatus]
        /\ scopes' \in [Task -> SUBSET Scope]
        /\ dependsOn' \in [Task -> SUBSET Task]
    BY <1>5 DEF PreflightReady, TaskStatus
  <2> QED
    BY <1>5, <2>1, ClosingTypes DEF PreflightReady, Verdict
<1>6. ASSUME NEW p \in Preflight, NEW verdict \in {"NEEDS_REVIEW", "FAILED"},
             PreflightReturn(p, verdict)
      PROVE  TypeInv'
  <2>1. /\ status' \in [Task -> TaskStatus]
        /\ scopes' \in [Task -> SUBSET Scope]
        /\ dependsOn' \in [Task -> SUBSET Task]
    BY <1>6 DEF PreflightReturn, TaskStatus
  <2> QED
    BY <1>6, <2>1, ClosingTypes DEF PreflightReturn, Verdict
<1>7. ASSUME NEW p \in Preflight, PreflightSplit(p) PROVE TypeInv'
  <2>1. inspTask[p] \in Task
    BY <1>7 DEF PreflightSplit, MayFinish
  <2>2. dependsOn' \in [Task -> SUBSET Task]
    BY <1>7, <2>1 DEF PreflightSplit, SplitDependencies, Existing
  <2>3. status' \in [Task -> TaskStatus]
    BY <1>7 DEF PreflightSplit, TaskStatus
  <2>4. scopes' \in [Task -> SUBSET Scope]
    BY <1>7 DEF PreflightSplit
  <2>5. MayFinish(p) /\ CloseInspection(p, "FINISHED", "SPLIT", "FAILED")
    BY <1>7 DEF PreflightSplit
  <2>6. "SPLIT" \in Verdict
    BY DEF Verdict
  <2> HIDE DEF TypeInv
  <2> QED
    BY <2>2, <2>3, <2>4, <2>5, <2>6, ClosingTypes
<1> HIDE DEF TypeInv
<1> QED
  BY <1>1, <1>2, <1>3, <1>4, <1>5, <1>6, <1>7 DEF PlannerStep

\* The commands of the Operator keep the types.
LEMMA OperatorTypes == TypeInv /\ OperatorStep => TypeInv'
<1> SUFFICES ASSUME TypeInv, NEW t \in Task,
                    \/ \E D \in SUBSET Task : Enqueue(t, D) \/ Update(t, D)
                    \/ RequeueDraft(t) \/ RequeueReady(t) \/ Cancel(t)
                    \/ Confirm(t) \/ ResolveHuman(t) \/ Archive(t)
                    \/ Unarchive(t)
             PROVE  TypeInv'
  BY DEF OperatorStep
<1> USE DEF TypeInv, TypeOK, RowsNamed, taskVars, execVars, lockVars, inspVars,
            TaskStatus, PreflightStatus
<1>1. CASE \E D \in SUBSET Task : Enqueue(t, D)
  BY <1>1 DEF Enqueue
<1>2. CASE \E D \in SUBSET Task : Update(t, D)
  BY <1>2 DEF Update
<1>3. CASE RequeueDraft(t) \/ RequeueReady(t)
  BY <1>3 DEF RequeueDraft, RequeueReady
<1>4. CASE Cancel(t) \/ Confirm(t) \/ ResolveHuman(t)
  BY <1>4 DEF Cancel, Confirm, ResolveHuman
<1>5. CASE Archive(t) \/ Unarchive(t)
  BY <1>5 DEF Archive, Unarchive
<1> QED
  BY <1>1, <1>2, <1>3, <1>4, <1>5

-----------------------------------------------------------------------------
\* Every row keeps its columns within their types, and names its task from the
\* moment it exists, whatever order the commands of all processes come in.
THEOREM TypeInvariant == Spec => []TypeInv
<1>1. Init => TypeInv
  BY TypeInit
<1>2. TypeInv /\ [Next]_vars => TypeInv'
  <2>1. TypeInv /\ UNCHANGED vars => TypeInv'
    BY DEF TypeInv, TypeOK, RowsNamed, vars, taskVars, execVars, lockVars,
           inspVars
  <2> QED
    BY <2>1, ClockTypes, RecoveryTypes, WorkerTypes, DispatcherTypes,
       PlannerTypes, OperatorTypes DEF Next
<1> QED
  BY <1>1, <1>2, PTL DEF Spec

\* The type invariant of the store holds in every reachable state.
THEOREM TypeCorrect == Spec => []TypeOK
<1>1. TypeInv => TypeOK
  BY DEF TypeInv
<1> QED
  BY <1>1, TypeInvariant, PTL

-----------------------------------------------------------------------------
(***************************************************************************)
(* ScopeExclusion speaks of the rows, WritersDisjoint of the processes.    *)
(* What ties them is that a process never believes more than the rows say: *)
(* whoever deletes a lock row has first seen its process end.  And a       *)
(* process does not start before its execution is claimed.                 *)
(***************************************************************************)
CredentialBacked == \A e \in Exec : credential[e] \subseteq LocksOf(e)

IdleBare ==
  \A e \in Exec : execStatus[e] \in {"ABSENT", "QUEUED"} => credential[e] = {}

LockInv == TypeInv /\ ScopeExclusion /\ CredentialBacked /\ IdleBare

-----------------------------------------------------------------------------
\* The columns LockInv reads, apart from those of TypeInv.
LEMMA LockFrame ==
  ASSUME LockInv, TypeInv', UNCHANGED <<holder, credential>>,
         \A e \in Exec : execStatus'[e] \in {"ABSENT", "QUEUED"} =>
           execStatus[e] \in {"ABSENT", "QUEUED"}
  PROVE  LockInv'
BY DEF LockInv, ScopeExclusion, CredentialBacked, IdleBare, LocksOf

\* Deleting the locks of an execution whose process has ended, or ends.
LEMMA UnlockKeeps ==
  ASSUME LockInv, TypeInv', NEW e \in Exec, holder' = Unlock(e),
         credential' = [credential EXCEPT ![e] = {}],
         \A f \in Exec : execStatus'[f] \in {"ABSENT", "QUEUED"} =>
           execStatus[f] \in {"ABSENT", "QUEUED"}
  PROVE  LockInv'
<1>0. /\ holder \in [Scope -> Exec \cup {None}]
      /\ credential \in [Exec -> SUBSET Scope]
  BY DEF LockInv, TypeInv, TypeOK
<1>1. ScopeExclusion'
  BY <1>0, IdAssumption DEF LockInv, ScopeExclusion, Unlock
<1>2. CredentialBacked'
  BY <1>0, IdAssumption DEF LockInv, CredentialBacked, LocksOf, Unlock
<1>3. IdleBare'
  BY <1>0 DEF LockInv, IdleBare
<1> QED
  BY <1>1, <1>2, <1>3 DEF LockInv

\* Locking keys for e that no other execution blocks.
LEMMA LockKeeps ==
  ASSUME LockInv, NEW e \in Exec, NEW keys \in SUBSET Scope,
         ~ Blocked(keys, Exec \ {e}), holder' = Lock(keys, e),
         credential' = [credential EXCEPT ![e] = credential[e] \cup keys]
  PROVE  ScopeExclusion' /\ CredentialBacked'
<1>0. /\ holder \in [Scope -> Exec \cup {None}]
      /\ credential \in [Exec -> SUBSET Scope]
  BY DEF LockInv, TypeInv, TypeOK
<1>1. \A a \in keys, b \in Scope :
        (<<a, b>> \in Conflict \/ <<b, a>> \in Conflict) /\ holder[b] # None
          => holder[b] = e
  BY <1>0, ConflictAssumption DEF Blocked
<1>2. ScopeExclusion'
  <2> SUFFICES ASSUME NEW a \in Scope, NEW b \in Scope,
                      holder'[a] # None, holder'[b] # None,
                      <<a, b>> \in Conflict
               PROVE  holder'[a] = holder'[b]
    BY DEF ScopeExclusion
  <2>1. \A s \in Scope : holder'[s] = IF s \in keys THEN e ELSE holder[s]
    BY DEF Lock
  <2> QED
    BY <1>1, <2>1 DEF LockInv, ScopeExclusion
<1>3. CredentialBacked'
  <2> SUFFICES ASSUME NEW f \in Exec, NEW s \in credential'[f]
               PROVE  s \in Scope /\ holder'[s] = f
    BY DEF CredentialBacked, LocksOf
  <2>1. CASE s \in keys /\ f = e
    BY <2>1 DEF Lock
  <2>2. CASE s \in credential[f]
    <3>1. s \in Scope /\ holder[s] = f
      BY <2>2 DEF LockInv, CredentialBacked, LocksOf
    <3>2. s \in keys => f = e
      BY <3>1, <1>1, ConflictAssumption, IdAssumption
    <3> QED
      BY <3>1, <3>2 DEF Lock
  <2> QED
    BY <1>0, <2>1, <2>2
<1> QED
  BY <1>2, <1>3

-----------------------------------------------------------------------------
\* A recovery frees the locks of a process that is gone, the sweep keeps them.
LEMMA RecoveryLocks == LockInv /\ TypeInv' /\ RecoveryStep => LockInv'
<1> SUFFICES ASSUME LockInv, TypeInv', RecoveryStep PROVE LockInv'
  OBVIOUS
<1>0. TypeOK BY DEF LockInv, TypeInv
<1>1. ASSUME NEW e \in Exec, RecoverWait(e) PROVE LockInv'
  BY <1>0, <1>1, SweepTypes, LockFrame DEF RecoverWait
<1>2. ASSUME NEW e \in Exec, NEW action \in {"requeue", "failed"},
             RecoverRelease(e, action)
      PROVE  LockInv'
  <2>1. credential' = [credential EXCEPT ![e] = {}]
    BY <1>0, <1>2 DEF RecoverRelease, Recoverable, TypeOK
  <2>2. holder' = Unlock(e) /\ execStatus' = SweptExec
    BY <1>2 DEF RecoverRelease
  <2> QED
    BY <1>0, <2>1, <2>2, SweepTypes, UnlockKeeps
<1> QED
  BY <1>1, <1>2 DEF RecoveryStep

\* A claim gives a process that has not started the whole contract.
LEMMA ClaimGrants ==
  ASSUME LockInv, NEW e \in Exec, Claim(e)
  PROVE  /\ scopes[execTask[e]] \in SUBSET Scope
         /\ ~ Blocked(scopes[execTask[e]], Exec \ {e})
         /\ credential' = [credential EXCEPT ![e] =
                             credential[e] \cup scopes[execTask[e]]]
<1>1. credential[e] = {}
  BY DEF Claim, Claimable, LockInv, IdleBare
<1>2. execTask[e] \in Task
  BY DEF Claim, Claimable, LockInv, TypeInv, TypeOK, RowsNamed
<1> QED
  BY <1>1, <1>2 DEF Claim, Claimable, Blocked, LockInv, TypeInv, TypeOK

\* A claim or an extension is granted what nobody else has, a report frees its own
\* locks.
LEMMA WorkerLocks == LockInv /\ TypeInv' /\ WorkerStep => LockInv'
<1> SUFFICES ASSUME LockInv, TypeInv', WorkerStep PROVE LockInv'
  OBVIOUS
<1>0. TypeInv /\ TypeOK BY DEF LockInv, TypeInv
<1>1. ASSUME ClaimNothing PROVE LockInv'
  BY <1>0, <1>1, SweepTypes, LockFrame DEF ClaimNothing
<1>2. ASSUME NEW e \in Exec, Claim(e) PROVE LockInv'
  <2>1. ScopeExclusion' /\ CredentialBacked'
    BY <1>2, ClaimGrants, LockKeeps DEF Claim, Claimable
  <2>2. IdleBare'
    <3>1. /\ execStatus' = [SweptExec EXCEPT ![e] = "RUNNING"]
          /\ credential' = [credential EXCEPT ![e] = scopes[execTask[e]]]
      BY <1>2 DEF Claim, Claimable
    <3>2. \A f \in Exec : execStatus'[f] \in {"ABSENT", "QUEUED"} =>
            f # e /\ execStatus[f] \in {"ABSENT", "QUEUED"}
      BY <1>0, <3>1, SweepTypes
    <3> QED
      BY <1>0, <3>1, <3>2 DEF LockInv, IdleBare, TypeOK
  <2> QED
    BY <2>1, <2>2 DEF LockInv
<1>3. ASSUME NEW e \in Exec, Heartbeat(e) PROVE LockInv'
  BY <1>3, LockFrame DEF Heartbeat, lockVars
<1>4. ASSUME NEW e \in Exec, ProcessEnds(e) PROVE LockInv'
  BY <1>0, <1>4
     DEF ProcessEnds, LockInv, TypeOK, ScopeExclusion, CredentialBacked,
         IdleBare, LocksOf, execVars, lockVars
<1>5. ASSUME NEW e \in Exec, NEW keys \in SUBSET Scope, ExtendScope(e, keys)
      PROVE  LockInv'
  <2>1. ScopeExclusion' /\ CredentialBacked'
    BY <1>5, LockKeeps DEF ExtendScope
  <2>2. IdleBare'
    BY <1>0, <1>5
       DEF ExtendScope, Reports, LockInv, IdleBare, TypeOK, execVars
  <2> QED
    BY <2>1, <2>2 DEF LockInv
<1>6. ASSUME NEW e \in Exec, NEW final \in {"SUCCEEDED", "FAILED", "WAITING_HUMAN"},
             NEW verified \in BOOLEAN, Finish(e, final, verified)
      PROVE  LockInv'
  BY <1>0, <1>6, UnlockKeeps DEF Finish, TypeOK
<1> QED
  BY <1>1, <1>2, <1>3, <1>4, <1>5, <1>6 DEF WorkerStep

\* A new row of the queue holds nothing yet.
LEMMA DispatcherLocks == LockInv /\ TypeInv' /\ DispatcherStep => LockInv'
<1> SUFFICES ASSUME LockInv, TypeInv', DispatcherStep PROVE LockInv'
  OBVIOUS
<1>0. TypeOK BY DEF LockInv, TypeInv
<1>1. ASSUME NEW t \in Task, NEW e \in Exec, Dispatch(t, e) PROVE LockInv'
  BY <1>0, <1>1, LockFrame DEF Dispatch, TypeOK, lockVars
<1>2. ASSUME NEW t \in Task, NEW e \in Exec, UnscheduleExecution(t, e)
      PROVE  LockInv'
  BY <1>0, <1>2, LockFrame DEF UnscheduleExecution, TypeOK, lockVars
<1> QED
  BY <1>1, <1>2 DEF DispatcherStep
-----------------------------------------------------------------------------
(***************************************************************************)
(* Planner and Operator edit tasks and inspections only, and no task whose *)
(* execution is queued or running.                                         *)
(***************************************************************************)
Active == {"QUEUED", "RUNNING"}

TaskEdit ==
  /\ UNCHANGED <<execVars, lockVars, credential>>
  /\ \A t \in Task :
       IF status[t] \in Active
       THEN /\ status'[t] = status[t]
            /\ preflightStatus'[t] = preflightStatus[t]
            /\ scopes'[t] = scopes[t]
            /\ assignedAgent'[t] = assignedAgent[t]
       ELSE status'[t] \notin Active

\* The Planner touches no lock and no execution.
LEMMA PlannerEdits == TypeInv /\ PlannerStep => TaskEdit
<1> SUFFICES ASSUME TypeInv, PlannerStep PROVE TaskEdit
  OBVIOUS
<1>0. TypeOK BY DEF TypeInv
<1> USE <1>0 DEF TaskEdit, Active
<1>1. \A t \in Task : status[t] # "DRAFT" => PreflightAfter[t] = preflightStatus[t]
  BY DEF PreflightAfter, Released
<1>2. CASE PreflightNothing
  BY <1>1, <1>2 DEF PreflightNothing
<1>3. ASSUME NEW S \in SUBSET Task, NEW insp \in [S -> Preflight],
             SchedulePreflight(S, insp)
      PROVE  TaskEdit
  <2>1. /\ \A t \in S : status[t] = "DRAFT"
        /\ preflightStatus' = [t \in Task |->
                                 IF t \in S THEN "QUEUED" ELSE PreflightAfter[t]]
        /\ UNCHANGED <<status, scopes, assignedAgent, execVars, lockVars,
                       credential>>
    BY <1>3 DEF SchedulePreflight
  <2> QED
    BY <1>1, <2>1
<1>4. ASSUME NEW t \in Task, UnschedulePreflight(t) PROVE TaskEdit
  BY <1>4 DEF UnschedulePreflight, TypeOK
<1>5. ASSUME NEW p \in Preflight, PreflightClaim(p) PROVE TaskEdit
  BY <1>1, <1>5 DEF PreflightClaim, TypeOK
<1>6. ASSUME NEW p \in Preflight, NEW S \in SUBSET Scope, PreflightReady(p, S)
      PROVE  TaskEdit
  BY <1>1, <1>6 DEF PreflightReady, MayFinish, CloseInspection, TypeOK
<1>7. ASSUME NEW p \in Preflight, NEW verdict \in {"NEEDS_REVIEW", "FAILED"},
             PreflightReturn(p, verdict)
      PROVE  TaskEdit
  <2>1. /\ status[inspTask[p]] = "DRAFT"
        /\ status' = [status EXCEPT ![inspTask[p]] = "NEEDS_REVIEW"]
        /\ scopes' = [scopes EXCEPT ![inspTask[p]] = {}]
        /\ preflightStatus' = [PreflightAfter EXCEPT ![inspTask[p]] = "FAILED"]
        /\ UNCHANGED <<assignedAgent, execVars, lockVars, credential>>
    BY <1>7 DEF PreflightReturn, MayFinish, CloseInspection
  <2> QED
    BY <1>1, <2>1 DEF TypeOK
<1>8. ASSUME NEW p \in Preflight, PreflightSplit(p) PROVE TaskEdit
  <2>1. PICK kids \in SUBSET (Task \ Existing) :
          status' = [u \in Task |-> IF u = inspTask[p] THEN "CANCELLED"
                                    ELSE IF u \in kids THEN "DRAFT"
                                    ELSE status[u]]
    BY <1>8 DEF PreflightSplit
  <2>2. \A u \in kids : status[u] = "ABSENT"
    BY DEF Existing
  <2>3. /\ status[inspTask[p]] = "DRAFT"
        /\ preflightStatus' = [PreflightAfter EXCEPT ![inspTask[p]] = "FAILED"]
        /\ UNCHANGED <<scopes, assignedAgent, execVars, lockVars, credential>>
    BY <1>8 DEF PreflightSplit, MayFinish, CloseInspection
  <2> QED
    BY <1>1, <2>1, <2>2, <2>3
<1> HIDE DEF TaskEdit
<1> QED
  BY <1>2, <1>3, <1>4, <1>5, <1>6, <1>7, <1>8 DEF PlannerStep

\* The Operator touches no lock and no execution.
LEMMA OperatorEdits == TypeInv /\ OperatorStep => TaskEdit
<1> SUFFICES ASSUME TypeInv, NEW t \in Task,
                    \/ \E D \in SUBSET Task : Enqueue(t, D) \/ Update(t, D)
                    \/ RequeueDraft(t) \/ RequeueReady(t) \/ Cancel(t)
                    \/ Confirm(t) \/ ResolveHuman(t) \/ Archive(t)
                    \/ Unarchive(t)
             PROVE  TaskEdit
  BY DEF OperatorStep
<1> USE DEF TypeInv, TypeOK, TaskEdit, Active
<1>1. CASE \E D \in SUBSET Task : Enqueue(t, D)
  BY <1>1 DEF Enqueue
<1>2. CASE \E D \in SUBSET Task : Update(t, D)
  BY <1>2 DEF Update, Editable
<1>3. CASE RequeueDraft(t) \/ RequeueReady(t)
  BY <1>3 DEF RequeueDraft, RequeueReady
<1>4. CASE Cancel(t) \/ Confirm(t) \/ ResolveHuman(t)
  BY <1>4 DEF Cancel, Confirm, ResolveHuman
<1>5. CASE Archive(t) \/ Unarchive(t)
  BY <1>5 DEF Archive, Unarchive
<1> QED
  BY <1>1, <1>2, <1>3, <1>4, <1>5

\* Time passing writes nothing but the three columns of overrun clocks.
LEMMA ClockEdits ==
  Clock => UNCHANGED <<taskVars, execStatus, execTask, recoveryRequired,
                       recoveryAction, lockVars, credential>>
BY DEF Clock, HeartbeatLapses, AttemptTimesOut, InspectionLapses, execVars

-----------------------------------------------------------------------------
\* At first nothing is locked.
LEMMA LockInit == Init => LockInv
<1> SUFFICES ASSUME Init PROVE LockInv
  OBVIOUS
<1>1. TypeInv
  BY TypeInit
<1>2. ScopeExclusion /\ CredentialBacked /\ IdleBare
  BY DEF Init, ScopeExclusion, CredentialBacked, IdleBare
<1> QED
  BY <1>1, <1>2 DEF LockInv

\* Every command keeps the lock invariant.
LEMMA LockStep == LockInv /\ TypeInv' /\ [Next]_vars => LockInv'
<1> SUFFICES ASSUME LockInv, TypeInv', [Next]_vars PROVE LockInv'
  OBVIOUS
<1>0. TypeInv BY DEF LockInv
<1>1. CASE Clock
  BY <1>1, ClockEdits, LockFrame DEF lockVars
<1>2. CASE RecoveryStep
  BY <1>2, RecoveryLocks
<1>3. CASE WorkerStep
  BY <1>3, WorkerLocks
<1>4. CASE DispatcherStep
  BY <1>4, DispatcherLocks
<1>5. CASE PlannerStep \/ OperatorStep
  <2>1. TaskEdit
    BY <1>0, <1>5, PlannerEdits, OperatorEdits
  <2> QED
    BY <2>1, LockFrame DEF TaskEdit, execVars, lockVars
<1>6. CASE UNCHANGED vars
  BY <1>6, LockFrame DEF vars, execVars, lockVars
<1> QED
  BY <1>1, <1>2, <1>3, <1>4, <1>5, <1>6 DEF Next

\* The inductive invariant of the scope locks.
THEOREM LockInvariant == Spec => []LockInv
<1> QED
  BY LockInit, LockStep, TypeInvariant, PTL DEF Spec

\* Whatever the order of claims, extensions, sweeps, recoveries and reports,
\* locks of different executions never conflict: for any number of tasks and
\* executions and any symmetric, reflexive conflict relation of keys.
THEOREM LocksExclude == Spec => []ScopeExclusion
<1>1. LockInv => ScopeExclusion
  BY DEF LockInv
<1> QED
  BY <1>1, LockInvariant, PTL

\* Two live Worker processes never believe they may write conflicting scopes.
THEOREM WritersApart == Spec => []WritersDisjoint
<1>1. LockInv => WritersDisjoint
  <2> SUFFICES ASSUME LockInv, NEW e \in Exec, NEW f \in Exec,
                      NEW a \in credential[e], NEW b \in credential[f],
                      <<a, b>> \in Conflict
               PROVE  e = f
    BY DEF WritersDisjoint
  <2>1. /\ a \in Scope /\ holder[a] = e
        /\ b \in Scope /\ holder[b] = f
    BY DEF LockInv, CredentialBacked, LocksOf
  <2> QED
    BY <2>1, IdAssumption DEF LockInv, ScopeExclusion
<1> QED
  BY <1>1, LockInvariant, PTL

-----------------------------------------------------------------------------
\* What no other execution blocks, no other live process may write.
LEMMA UnblockedIsFree ==
  ASSUME LockInv, NEW e \in Exec, NEW keys \in SUBSET Scope,
         ~ Blocked(keys, Exec \ {e})
  PROVE  ~ Access!Clashes(keys, e)
BY DEF Blocked, Access!Clashes, LockInv, CredentialBacked, LocksOf

\* Every command grants, gives back or leaves access as WriteAccess allows.
LEMMA AccessStep == LockInv /\ [Next]_vars => [Access!Next]_credential
<1> SUFFICES ASSUME LockInv, [Next]_vars, credential' # credential
             PROVE  Access!Next
  OBVIOUS
<1>0. TypeInv /\ TypeOK BY DEF LockInv, TypeInv
<1>1. CASE Clock
  BY <1>1, ClockEdits
<1>2. CASE RecoveryStep
  BY <1>2 DEF RecoveryStep, RecoverWait, RecoverRelease
<1>3. CASE WorkerStep
  <2>1. ASSUME NEW e \in Exec, NEW keys \in SUBSET Scope,
               ~ Blocked(keys, Exec \ {e}),
               credential' = [credential EXCEPT ![e] = credential[e] \cup keys]
        PROVE  Access!Next
    BY <2>1, UnblockedIsFree DEF Access!Next, Access!Grant
  <2>2. ASSUME NEW e \in Exec, credential' = [credential EXCEPT ![e] = {}]
        PROVE  Access!Next
    BY <2>2 DEF Access!Next, Access!GiveUp
  <2>3. ASSUME NEW e \in Exec, Claim(e) PROVE Access!Next
    BY <2>1, <2>3, ClaimGrants
  <2>4. ASSUME NEW e \in Exec, NEW keys \in SUBSET Scope, ExtendScope(e, keys)
        PROVE  Access!Next
    BY <2>1, <2>4 DEF ExtendScope
  <2>5. ASSUME NEW e \in Exec, ProcessEnds(e) PROVE Access!Next
    BY <2>2, <2>5 DEF ProcessEnds
  <2>6. ASSUME NEW e \in Exec, NEW final \in {"SUCCEEDED", "FAILED", "WAITING_HUMAN"},
               NEW verified \in BOOLEAN, Finish(e, final, verified)
        PROVE  Access!Next
    BY <2>2, <2>6 DEF Finish
  <2> QED
    BY <1>3, <2>3, <2>4, <2>5, <2>6 DEF WorkerStep, ClaimNothing, Heartbeat
<1>4. CASE DispatcherStep
  BY <1>4 DEF DispatcherStep, Dispatch, UnscheduleExecution
<1>5. CASE PlannerStep \/ OperatorStep
  BY <1>0, <1>5, PlannerEdits, OperatorEdits DEF TaskEdit
<1>6. CASE UNCHANGED vars
  BY <1>6 DEF vars
<1> QED
  BY <1>1, <1>2, <1>3, <1>4, <1>5, <1>6 DEF Next

\* The control plane implements WriteAccess: write access is granted only by
\* claim and extension, free of what any other live process has, and ends only
\* with the process it was given to.
THEOREM LocksImplementWriteAccess == Spec => ImplementsWriteAccess
<1>1. Init => Access!Init
  BY DEF Init, Access!Init
<1>2. LockInv /\ [Next]_vars => [Access!Next]_credential
  BY AccessStep
<1> QED
  BY <1>1, <1>2, LockInvariant, PTL
     DEF Spec, ImplementsWriteAccess, Access!Spec

=============================================================================
