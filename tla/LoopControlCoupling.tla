------------------------- MODULE LoopControlCoupling -------------------------
(***************************************************************************)
(* Tasks, executions and locks agree: LockLifecycle, ExecutionCoupling,    *)
(* QuarantineHeld and ContractStable, for every value of the constants.    *)
(***************************************************************************)
EXTENDS LoopControlLocks

(***************************************************************************)
(* LockLifecycle and ExecutionCoupling need each other: a sweep moves a    *)
(* task out of RUNNING only if it is assigned to the lost execution, and a *)
(* claim may lock the contract for its execution only if that one has no   *)
(* lock yet.  A quarantined key without a holder would turn the next lock  *)
(* on it into a quarantined one, so there must be none.                    *)
(***************************************************************************)
QuarantineBacked == \A s \in quarantined : holder[s] # None

CouplingInv ==
  TypeInv /\ LockLifecycle /\ ExecutionCoupling /\ QuarantineBacked

-----------------------------------------------------------------------------
\* An execution that is absent or queued holds no lock, so no claim finds
\* locks of its own.
LEMMA IdleHoldsNothing ==
  ASSUME CouplingInv, NEW e \in Exec, execStatus[e] \in {"ABSENT", "QUEUED"}
  PROVE  LocksOf(e) = {}
BY IdAssumption DEF CouplingInv, LockLifecycle, LocksOf

\* What the sweep leaves of CouplingInv, in the swept rows.
SweptCoupled ==
  /\ \A e \in Exec : SweptExec[e] \in Active =>
       /\ SweptExec[e] = execStatus[e]
       /\ SweptStatus[execTask[e]] = SweptExec[e]
  /\ \A t \in Task : SweptStatus[t] \in Active =>
       /\ SweptStatus[t] = status[t]
       /\ \E e \in Exec : execTask[e] = t /\ SweptExec[e] = SweptStatus[t]
  /\ \A s \in Scope : holder[s] # None =>
       IF s \in SweptQuarantine
       THEN SweptExec[holder[s]] \in {"STALLED", "TIMED_OUT"} /\ holder[s] \in SweptRequired
       ELSE SweptExec[holder[s]] = "RUNNING"
  /\ \A s \in SweptQuarantine : holder[s] # None

\* The sweep leaves the three tables coupled.
LEMMA SweepCouples == CouplingInv => SweptCoupled
<1> SUFFICES ASSUME CouplingInv PROVE SweptCoupled
  OBVIOUS
<1>0. TypeInv /\ TypeOK BY DEF CouplingInv, TypeInv
<1> USE <1>0
<1>1. \A e \in Exec : execStatus[e] \in Active => execTask[e] \in Task
  BY DEF TypeInv, TypeOK, RowsNamed, Active
<1>2. ASSUME NEW e \in Exec, SweptExec[e] \in Active
      PROVE  /\ e \notin Swept
             /\ SweptExec[e] = execStatus[e]
             /\ SweptStatus[execTask[e]] = SweptExec[e]
  <2>1. e \notin Swept /\ SweptExec[e] = execStatus[e]
    BY <1>2 DEF SweptExec, Active
  <2>2. execTask[e] \in Task /\ status[execTask[e]] = execStatus[e]
    BY <1>1, <1>2, <2>1 DEF CouplingInv, ExecutionCoupling, OneActiveExecution, Active
  <2>3. status[execTask[e]] = "RUNNING" => assignedAgent[execTask[e]] = e
    BY <2>2 DEF CouplingInv, ExecutionCoupling, RunningHoldsContract
  <2> QED
    BY <2>1, <2>2, <2>3 DEF SweptStatus, Swept
<1>3. ASSUME NEW t \in Task, SweptStatus[t] \in Active
      PROVE  /\ SweptStatus[t] = status[t]
             /\ \E e \in Exec : execTask[e] = t /\ SweptExec[e] = SweptStatus[t]
  <2>1. SweptStatus[t] = status[t]
    BY <1>3 DEF SweptStatus, Active
  <2>2. PICK e \in Exec : execTask[e] = t /\ execStatus[e] = status[t]
    BY <1>3, <2>1
       DEF CouplingInv, ExecutionCoupling, ActiveTaskHasExecution, Active
  <2>3. e \notin Swept
    <3>1. CASE status[t] = "RUNNING"
      BY <2>1, <2>2, <3>1
         DEF CouplingInv, ExecutionCoupling, RunningHoldsContract, SweptStatus,
             Swept, Escalated
    <3>2. CASE status[t] = "QUEUED"
      BY <2>2, <3>2 DEF Swept, Lost, Escalated
    <3> QED
      BY <1>3, <2>1, <3>1, <3>2 DEF Active
  <2> QED
    BY <2>1, <2>2, <2>3 DEF SweptExec
<1>4. ASSUME NEW s \in Scope, holder[s] # None
      PROVE  IF s \in SweptQuarantine
             THEN /\ SweptExec[holder[s]] \in {"STALLED", "TIMED_OUT"}
                  /\ holder[s] \in SweptRequired
             ELSE SweptExec[holder[s]] = "RUNNING"
  <2>1. holder[s] \in Exec
    BY <1>4 DEF TypeOK
  <2>2. CASE holder[s] \in Swept
    BY <2>1, <2>2 DEF SweptQuarantine, SweptExec, SweptRequired
  <2>3. CASE holder[s] \notin Swept
    BY <1>4, <2>1, <2>3
       DEF CouplingInv, LockLifecycle, SweptQuarantine, SweptExec, SweptRequired
  <2> QED
    BY <2>2, <2>3
<1>5. ASSUME NEW s \in SweptQuarantine PROVE holder[s] # None
  BY <1>5, IdAssumption
     DEF CouplingInv, QuarantineBacked, SweptQuarantine, Swept, Lost, Escalated
<1> QED
  BY <1>2, <1>3, <1>4, <1>5 DEF SweptCoupled
-----------------------------------------------------------------------------
\* The part of LockLifecycle that ExecutionCoupling does not imply.
LocksAccounted ==
  \A s \in Scope : holder[s] # None =>
    IF s \in quarantined
    THEN execStatus[holder[s]] \in {"STALLED", "TIMED_OUT"} /\ holder[s] \in recoveryRequired
    ELSE execStatus[holder[s]] = "RUNNING"

\* What CouplingInv' comes down to.
LEMMA CouplingParts ==
  ASSUME TypeInv', LocksAccounted', OneActiveExecution', RunningHoldsContract',
         ActiveTaskHasExecution', QuarantineBacked'
  PROVE  CouplingInv'
<1>1. TypeOK'
  BY DEF TypeInv
<1>2. ExecutionCoupling'
  BY DEF ExecutionCoupling
<1>3. LockLifecycle'
  BY <1>1
     DEF TypeOK, LockLifecycle, LocksAccounted, OneActiveExecution,
         RunningHoldsContract
<1> QED
  BY <1>2, <1>3 DEF CouplingInv

\* The sweep alone: every committed claim that claims nothing, and a recorded
\* decision to wait.
LEMMA SweepKeeps ==
  ASSUME CouplingInv, TypeInv',
         execStatus' = SweptExec, recoveryRequired' = SweptRequired,
         quarantined' = SweptQuarantine, status' = SweptStatus,
         UNCHANGED <<preflightStatus, scopes, assignedAgent, execTask, holder>>
  PROVE  CouplingInv'
<1>1. SweptCoupled
  BY SweepCouples
<1>2. LocksAccounted' /\ QuarantineBacked'
  BY <1>1 DEF SweptCoupled, LocksAccounted, QuarantineBacked
<1>3. OneActiveExecution'
  <2> SUFFICES ASSUME NEW e \in Exec, SweptExec[e] \in Active
               PROVE  /\ SweptStatus[execTask[e]] = SweptExec[e]
                      /\ preflightStatus[execTask[e]] = "READY"
                      /\ \A f \in Exec \ {e} : execTask[f] = execTask[e] =>
                           SweptExec[f] \notin Active
    BY DEF OneActiveExecution, Active
  <2> QED
    BY <1>1
       DEF SweptCoupled, CouplingInv, ExecutionCoupling, OneActiveExecution, Active
<1>4. RunningHoldsContract'
  BY <1>1
     DEF SweptCoupled, RunningHoldsContract, CouplingInv, ExecutionCoupling,
         Active, LocksOf
<1>5. ActiveTaskHasExecution'
  BY <1>1 DEF SweptCoupled, ActiveTaskHasExecution, Active
<1> QED
  BY <1>2, <1>3, <1>4, <1>5, CouplingParts

\* Recovering e frees its locks and nothing that is active.
LEMMA ReleaseCoupling ==
  ASSUME CouplingInv, TypeInv', NEW e \in Exec,
         NEW action \in {"requeue", "failed"}, RecoverRelease(e, action)
  PROVE  CouplingInv'
<1> DEFINE t == execTask[e]
<1>0. TypeInv /\ TypeOK /\ SweptCoupled
  BY SweepCouples DEF CouplingInv, TypeInv
<1>1. /\ LocksOf(e) \cap SweptQuarantine # {}
      /\ SweptStatus[t] = "WAITING_HUMAN"
      /\ holder' = Unlock(e)
      /\ quarantined' = SweptQuarantine \ LocksOf(e)
      /\ recoveryRequired' = SweptRequired \ {e}
      /\ execStatus' = SweptExec
      /\ status' = [SweptStatus EXCEPT ![t] =
                      IF action = "requeue" THEN "PENDING" ELSE "FAILED"]
      /\ assignedAgent' = [assignedAgent EXCEPT ![t] = None]
      /\ UNCHANGED <<preflightStatus, scopes, execTask>>
  BY DEF RecoverRelease, Recoverable
<1>2. SweptExec[e] \in {"STALLED", "TIMED_OUT"}
  BY <1>0, <1>1, IdAssumption DEF SweptCoupled, LocksOf
<1>3. \A f \in Exec : SweptExec[f] \in Active => f # e /\ execTask[f] # t
  BY <1>0, <1>1, <1>2 DEF SweptCoupled, Active
<1>4. \A f \in Exec : SweptExec[f] \in Active => execTask[f] \in Task
  BY <1>0 DEF SweptCoupled, TypeInv, TypeOK, RowsNamed, Active
<1>5. \A s \in Scope : holder'[s] # None => holder[s] # e /\ holder'[s] = holder[s]
  BY <1>1 DEF Unlock
<1>6. SweptQuarantine \subseteq Scope
  BY <1>0, SweepTypes
<1>7. \A s \in SweptQuarantine : s \notin LocksOf(e) => holder'[s] = holder[s]
  BY <1>1, <1>6 DEF LocksOf, Unlock
<1>8. LocksAccounted' /\ QuarantineBacked'
  BY <1>0, <1>1, <1>5, <1>6, <1>7
     DEF SweptCoupled, LocksAccounted, QuarantineBacked, LocksOf
<1>9. OneActiveExecution'
  <2> SUFFICES ASSUME NEW f \in Exec, SweptExec[f] \in Active
               PROVE  /\ status'[execTask[f]] = SweptExec[f]
                      /\ preflightStatus[execTask[f]] = "READY"
                      /\ \A g \in Exec \ {f} : execTask[g] = execTask[f] =>
                           SweptExec[g] \notin Active
    BY <1>1 DEF OneActiveExecution, Active
  <2>1. status'[execTask[f]] = SweptStatus[execTask[f]]
    BY <1>0, <1>1, <1>3, <1>4, SweepTypes
  <2> QED
    BY <1>0, <2>1
       DEF SweptCoupled, CouplingInv, ExecutionCoupling, OneActiveExecution, Active
<1>10. RunningHoldsContract'
  <2> SUFFICES ASSUME NEW f \in Exec, SweptExec[f] = "RUNNING"
               PROVE  /\ assignedAgent'[execTask[f]] = f
                      /\ LocksOf(f)' = scopes[execTask[f]]
    BY <1>1 DEF RunningHoldsContract
  <2>1. f # e /\ execTask[f] # t /\ execTask[f] \in Task /\ execStatus[f] = "RUNNING"
    BY <1>0, <1>3, <1>4 DEF SweptCoupled, Active
  <2>2. LocksOf(f)' = LocksOf(f)
    BY <1>1, <2>1, IdAssumption DEF LocksOf, Unlock
  <2> QED
    BY <1>0, <1>1, <2>1, <2>2
       DEF CouplingInv, ExecutionCoupling, RunningHoldsContract, TypeOK
<1>11. ActiveTaskHasExecution'
  <2> SUFFICES ASSUME NEW u \in Task, status'[u] \in Active
               PROVE  \E f \in Exec : execTask[f] = u /\ SweptExec[f] = status'[u]
    BY <1>1 DEF ActiveTaskHasExecution, Active
  <2>1. status'[u] = SweptStatus[u]
    BY <1>0, <1>1, SweepTypes DEF Active
  <2> QED
    BY <1>0, <2>1 DEF SweptCoupled
<1> QED
  BY <1>8, <1>9, <1>10, <1>11, CouplingParts

\* An unblocked key has no holder, and is not quarantined.
LEMMA UnblockedIsUnheld ==
  ASSUME CouplingInv, NEW E, NEW keys \in SUBSET Scope, ~ Blocked(keys, E),
         NEW s \in keys
  PROVE  holder[s] \notin E
BY ConflictAssumption DEF Blocked

\* A claim finds its task QUEUED with no other active execution, and locks the
\* contract for an execution without locks.
LEMMA ClaimCoupling ==
  ASSUME CouplingInv, TypeInv', NEW e \in Exec, Claim(e)
  PROVE  CouplingInv'
<1> DEFINE t == execTask[e]
<1>0. TypeInv /\ TypeOK /\ SweptCoupled
  BY SweepCouples DEF CouplingInv, TypeInv
<1>1. /\ execStatus[e] = "QUEUED"
      /\ status[t] = "QUEUED"
      /\ preflightStatus[t] = "READY"
      /\ ~ Blocked(scopes[t], Exec)
      /\ execStatus' = [SweptExec EXCEPT ![e] = "RUNNING"]
      /\ recoveryRequired' = SweptRequired
      /\ holder' = Lock(scopes[t], e)
      /\ quarantined' = SweptQuarantine
      /\ status' = [SweptStatus EXCEPT ![t] = "RUNNING"]
      /\ assignedAgent' = [assignedAgent EXCEPT ![t] = e]
      /\ UNCHANGED <<preflightStatus, scopes, execTask>>
  BY DEF Claim, Claimable
<1>2. t \in Task /\ scopes[t] \in SUBSET Scope
  BY <1>0, <1>1 DEF TypeInv, TypeOK, RowsNamed
<1>3. /\ execStatus'[e] = "RUNNING"
      /\ \A f \in Exec \ {e} : execStatus'[f] = SweptExec[f]
      /\ status'[t] = "RUNNING"
      /\ \A u \in Task \ {t} : status'[u] = SweptStatus[u]
  BY <1>0, <1>1, <1>2, SweepTypes
<1>4. \A f \in Exec \ {e} : SweptExec[f] \in Active =>
        execTask[f] # t /\ execTask[f] \in Task /\ execStatus[f] = SweptExec[f]
  BY <1>0, <1>1
     DEF SweptCoupled, CouplingInv, ExecutionCoupling, OneActiveExecution,
         TypeInv, TypeOK, RowsNamed, Active
<1>5. \A s \in scopes[t] : holder[s] = None
  BY <1>0, <1>1, <1>2, UnblockedIsUnheld DEF TypeOK
<1>6. \A s \in Scope : holder'[s] = IF s \in scopes[t] THEN e ELSE holder[s]
  BY <1>1 DEF Lock
<1>7. LocksOf(e)' = scopes[t]
  BY <1>1, <1>2, <1>6, IdleHoldsNothing DEF LocksOf
<1>8. \A f \in Exec \ {e} : LocksOf(f)' = LocksOf(f)
  BY <1>5, <1>6, IdAssumption DEF LocksOf
<1>9. LocksAccounted' /\ QuarantineBacked'
  <2>1. \A s \in SweptQuarantine : s \in Scope /\ s \notin scopes[t]
    BY <1>0, <1>5, SweepTypes DEF SweptCoupled
  <2>2. QuarantineBacked'
    BY <1>0, <1>1, <1>6, <2>1 DEF SweptCoupled, QuarantineBacked
  <2>3. LocksAccounted'
    <3> SUFFICES ASSUME NEW s \in Scope, holder'[s] # None
                 PROVE  IF s \in SweptQuarantine
                        THEN /\ execStatus'[holder'[s]] \in {"STALLED", "TIMED_OUT"}
                             /\ holder'[s] \in SweptRequired
                        ELSE execStatus'[holder'[s]] = "RUNNING"
      BY <1>1 DEF LocksAccounted
    <3>1. CASE s \in scopes[t]
      BY <1>3, <1>6, <2>1, <3>1
    <3>2. CASE s \notin scopes[t]
      <4>1. holder'[s] = holder[s] /\ holder[s] # e /\ holder[s] \in Exec
        BY <1>0, <1>1, <1>6, <3>2, IdleHoldsNothing DEF LocksOf, TypeOK
      <4> QED
        BY <1>0, <1>3, <4>1 DEF SweptCoupled
    <3> QED
      BY <3>1, <3>2
  <2> QED
    BY <2>2, <2>3
<1>10. OneActiveExecution'
  <2> SUFFICES ASSUME NEW f \in Exec, execStatus'[f] \in Active
               PROVE  /\ status'[execTask[f]] = execStatus'[f]
                      /\ preflightStatus[execTask[f]] = "READY"
                      /\ \A g \in Exec \ {f} : execTask[g] = execTask[f] =>
                           execStatus'[g] \notin Active
    BY <1>1 DEF OneActiveExecution, Active
  <2>1. CASE f = e
    BY <1>1, <1>3, <1>4, <2>1
  <2>2. CASE f # e
    BY <1>0, <1>3, <1>4, <2>2
       DEF SweptCoupled, CouplingInv, ExecutionCoupling, OneActiveExecution, Active
  <2> QED
    BY <2>1, <2>2
<1>11. RunningHoldsContract'
  <2> SUFFICES ASSUME NEW f \in Exec, execStatus'[f] = "RUNNING"
               PROVE  /\ assignedAgent'[execTask[f]] = f
                      /\ LocksOf(f)' = scopes[execTask[f]]
    BY <1>1 DEF RunningHoldsContract
  <2>1. CASE f = e
    BY <1>0, <1>1, <1>2, <1>7, <2>1 DEF TypeOK
  <2>2. CASE f # e
    BY <1>0, <1>1, <1>3, <1>4, <1>8, <2>2
       DEF CouplingInv, ExecutionCoupling, RunningHoldsContract, TypeOK, Active
  <2> QED
    BY <2>1, <2>2
<1>12. ActiveTaskHasExecution'
  <2> SUFFICES ASSUME NEW u \in Task, status'[u] \in Active
               PROVE  \E f \in Exec : execTask[f] = u /\ execStatus'[f] = status'[u]
    BY <1>1 DEF ActiveTaskHasExecution, Active
  <2>1. CASE u = t
    BY <1>3, <2>1
  <2>2. CASE u # t
    BY <1>0, <1>3, <2>2 DEF SweptCoupled
  <2> QED
    BY <2>1, <2>2
<1> QED
  BY <1>9, <1>10, <1>11, <1>12, CouplingParts

\* An extension adds the same keys to the contract and to the locks.
LEMMA ExtendCoupling ==
  ASSUME CouplingInv, TypeInv', NEW e \in Exec, NEW keys \in SUBSET Scope,
         ExtendScope(e, keys)
  PROVE  CouplingInv'
<1> DEFINE t == execTask[e]
<1>0. TypeInv /\ TypeOK
  BY DEF CouplingInv, TypeInv
<1>1. /\ execStatus[e] = "RUNNING"
      /\ keys \cap scopes[t] = {}
      /\ ~ Blocked(keys, Exec \ {e})
      /\ scopes' = [scopes EXCEPT ![t] = scopes[t] \cup keys]
      /\ holder' = Lock(keys, e)
      /\ UNCHANGED <<status, preflightStatus, assignedAgent, execStatus,
                     execTask, recoveryRequired, quarantined>>
  BY DEF ExtendScope, Reports, execVars
<1>2. t \in Task /\ LocksOf(e) = scopes[t]
  BY <1>0, <1>1
     DEF TypeInv, TypeOK, RowsNamed, CouplingInv, ExecutionCoupling,
         RunningHoldsContract
<1>3. \A s \in keys : holder[s] = None
  BY <1>0, <1>1, <1>2, UnblockedIsUnheld DEF TypeOK, LocksOf
<1>4. \A s \in Scope : holder'[s] = IF s \in keys THEN e ELSE holder[s]
  BY <1>1 DEF Lock
<1>5. \A s \in quarantined : s \in Scope /\ s \notin keys
  BY <1>0, <1>3 DEF CouplingInv, QuarantineBacked, TypeOK
<1>6. LocksAccounted' /\ QuarantineBacked'
  BY <1>1, <1>4, <1>5
     DEF CouplingInv, LockLifecycle, QuarantineBacked, LocksAccounted
<1>7. OneActiveExecution' /\ ActiveTaskHasExecution'
  BY <1>1
     DEF CouplingInv, ExecutionCoupling, OneActiveExecution,
         ActiveTaskHasExecution
<1>8. RunningHoldsContract'
  <2> SUFFICES ASSUME NEW f \in Exec, execStatus[f] = "RUNNING"
               PROVE  /\ assignedAgent[execTask[f]] = f
                      /\ LocksOf(f)' = scopes'[execTask[f]]
    BY <1>1 DEF RunningHoldsContract
  <2>1. assignedAgent[execTask[f]] = f /\ LocksOf(f) = scopes[execTask[f]]
    BY DEF CouplingInv, ExecutionCoupling, RunningHoldsContract
  <2>2. CASE f = e
    <3>1. LocksOf(e)' = LocksOf(e) \cup keys
      BY <1>3, <1>4 DEF LocksOf
    <3> QED
      BY <1>0, <1>1, <1>2, <2>1, <2>2, <3>1 DEF TypeOK
  <2>3. CASE f # e
    <3>1. LocksOf(f)' = LocksOf(f)
      BY <1>3, <1>4, <2>3, IdAssumption DEF LocksOf
    <3>2. execTask[f] # t
      BY <1>1, <2>3 DEF CouplingInv, ExecutionCoupling, OneActiveExecution
    <3> QED
      BY <1>0, <1>1, <1>2, <2>1, <3>1, <3>2
         DEF TypeInv, TypeOK, RowsNamed
  <2> QED
    BY <2>2, <2>3
<1> QED
  BY <1>6, <1>7, <1>8, CouplingParts

\* An accepted report closes the execution and drops its locks in one step.
LEMMA FinishCoupling ==
  ASSUME CouplingInv, TypeInv', NEW e \in Exec,
         NEW final \in {"SUCCEEDED", "FAILED", "WAITING_HUMAN"},
         NEW verified \in BOOLEAN, Finish(e, final, verified)
  PROVE  CouplingInv'
<1> DEFINE t == execTask[e]
<1>0. TypeInv /\ TypeOK
  BY DEF CouplingInv, TypeInv
<1>1. /\ execStatus[e] = "RUNNING"
      /\ status' = [status EXCEPT ![t] = final]
      /\ execStatus' = [execStatus EXCEPT ![e] = "FINISHED"]
      /\ holder' = Unlock(e)
      /\ quarantined' = quarantined \ LocksOf(e)
      /\ UNCHANGED <<preflightStatus, scopes, assignedAgent, execTask,
                     recoveryRequired>>
  BY DEF Finish, Reports
<1>2. t \in Task
  BY <1>0, <1>1 DEF TypeInv, TypeOK, RowsNamed
<1>3. \A f \in Exec : execStatus'[f] \in Active =>
        /\ f # e
        /\ execStatus'[f] = execStatus[f]
        /\ execTask[f] # t /\ execTask[f] \in Task
        /\ status'[execTask[f]] = status[execTask[f]]
  <2> SUFFICES ASSUME NEW f \in Exec, execStatus'[f] \in Active
               PROVE  /\ f # e
                      /\ execStatus'[f] = execStatus[f]
                      /\ execTask[f] # t /\ execTask[f] \in Task
                      /\ status'[execTask[f]] = status[execTask[f]]
    OBVIOUS
  <2>1. f # e /\ execStatus'[f] = execStatus[f]
    BY <1>0, <1>1 DEF TypeOK, Active
  <2>2. execTask[f] # t
    BY <1>1, <2>1
       DEF CouplingInv, ExecutionCoupling, OneActiveExecution, Active
  <2>3. execTask[f] \in Task
    BY <1>0, <2>1 DEF TypeInv, TypeOK, RowsNamed, Active
  <2> QED
    BY <1>0, <1>1, <2>1, <2>2, <2>3 DEF TypeOK
<1>4. \A s \in Scope : holder'[s] # None => holder[s] # e /\ holder'[s] = holder[s]
  BY <1>1 DEF Unlock
<1>5. \A s \in quarantined' : s \in Scope /\ holder'[s] = holder[s]
  BY <1>0, <1>1 DEF TypeOK, LocksOf, Unlock
<1>6. LocksAccounted' /\ QuarantineBacked'
  <2>1. \A s \in Scope : holder'[s] # None =>
          /\ holder[s] \in Exec \ {e}
          /\ s \in quarantined' <=> s \in quarantined
    BY <1>0, <1>1, <1>4 DEF TypeOK, LocksOf
  <2>2. \A s \in Scope : holder'[s] # None => execStatus'[holder'[s]] = execStatus[holder[s]]
    BY <1>0, <1>1, <1>4, <2>1 DEF TypeOK
  <2> QED
    BY <1>1, <1>4, <1>5, <2>1, <2>2
       DEF CouplingInv, LockLifecycle, QuarantineBacked, LocksAccounted
<1>7. OneActiveExecution'
  <2> SUFFICES ASSUME NEW f \in Exec, execStatus'[f] \in Active
               PROVE  /\ status'[execTask[f]] = execStatus'[f]
                      /\ preflightStatus[execTask[f]] = "READY"
                      /\ \A g \in Exec \ {f} : execTask[g] = execTask[f] =>
                           execStatus'[g] \notin Active
    BY <1>1 DEF OneActiveExecution, Active
  <2> QED
    BY <1>3 DEF CouplingInv, ExecutionCoupling, OneActiveExecution, Active
<1>8. RunningHoldsContract'
  <2> SUFFICES ASSUME NEW f \in Exec, execStatus'[f] = "RUNNING"
               PROVE  /\ assignedAgent[execTask[f]] = f
                      /\ LocksOf(f)' = scopes[execTask[f]]
    BY <1>1 DEF RunningHoldsContract
  <2>1. f # e /\ execStatus[f] = "RUNNING"
    BY <1>3 DEF Active
  <2>2. LocksOf(f)' = LocksOf(f)
    BY <1>1, <2>1, IdAssumption DEF LocksOf, Unlock
  <2> QED
    BY <2>1, <2>2 DEF CouplingInv, ExecutionCoupling, RunningHoldsContract
<1>9. ActiveTaskHasExecution'
  <2> SUFFICES ASSUME NEW u \in Task, status'[u] \in Active
               PROVE  \E f \in Exec : execTask[f] = u /\ execStatus'[f] = status'[u]
    BY <1>1 DEF ActiveTaskHasExecution, Active
  <2>1. u # t /\ status'[u] = status[u]
    BY <1>0, <1>1, <1>2 DEF TypeOK, Active
  <2>2. PICK f \in Exec : execTask[f] = u /\ execStatus[f] = status[u]
    BY <2>1 DEF CouplingInv, ExecutionCoupling, ActiveTaskHasExecution, Active
  <2> QED
    BY <1>0, <1>1, <2>1, <2>2 DEF TypeOK
<1> QED
  BY <1>6, <1>7, <1>8, <1>9, CouplingParts

\* Dispatch queues the only active execution of a PENDING task.
LEMMA DispatchCoupling ==
  ASSUME CouplingInv, TypeInv', NEW t \in Task, NEW e \in Exec, Dispatch(t, e)
  PROVE  CouplingInv'
<1>0. TypeInv /\ TypeOK
  BY DEF CouplingInv, TypeInv
<1>1. /\ status[t] = "PENDING"
      /\ preflightStatus[t] = "READY"
      /\ execStatus[e] = "ABSENT"
      /\ execStatus' = [execStatus EXCEPT ![e] = "QUEUED"]
      /\ execTask' = [execTask EXCEPT ![e] = t]
      /\ status' = [status EXCEPT ![t] = "QUEUED"]
      /\ UNCHANGED <<preflightStatus, scopes, assignedAgent, recoveryRequired,
                     holder, quarantined>>
  BY DEF Dispatch, Candidate, lockVars
<1>2. /\ execStatus'[e] = "QUEUED" /\ execTask'[e] = t /\ status'[t] = "QUEUED"
      /\ \A f \in Exec \ {e} : execStatus'[f] = execStatus[f] /\ execTask'[f] = execTask[f]
      /\ \A u \in Task \ {t} : status'[u] = status[u]
  BY <1>0, <1>1 DEF TypeOK
<1>3. \A f \in Exec \ {e} : execStatus[f] \in Active =>
        execTask[f] # t /\ execTask[f] \in Task
  BY <1>0, <1>1
     DEF CouplingInv, ExecutionCoupling, OneActiveExecution, TypeInv, TypeOK,
         RowsNamed, Active
<1>4. \A s \in Scope : holder[s] # None => holder[s] \in Exec \ {e}
  BY <1>0, <1>1, IdleHoldsNothing DEF TypeOK, LocksOf
<1>5. LocksAccounted' /\ QuarantineBacked'
  BY <1>1, <1>2, <1>4
     DEF CouplingInv, LockLifecycle, QuarantineBacked, LocksAccounted
<1>6. OneActiveExecution'
  <2> SUFFICES ASSUME NEW f \in Exec, execStatus'[f] \in Active
               PROVE  /\ status'[execTask'[f]] = execStatus'[f]
                      /\ preflightStatus[execTask'[f]] = "READY"
                      /\ \A g \in Exec \ {f} : execTask'[g] = execTask'[f] =>
                           execStatus'[g] \notin Active
    BY <1>1 DEF OneActiveExecution, Active
  <2>1. CASE f = e
    BY <1>1, <1>2, <1>3, <2>1
  <2>2. CASE f # e
    BY <1>1, <1>2, <1>3, <2>2
       DEF CouplingInv, ExecutionCoupling, OneActiveExecution, Active
  <2> QED
    BY <2>1, <2>2
<1>7. RunningHoldsContract'
  <2>1. \A f \in Exec : execStatus'[f] = "RUNNING" =>
          f # e /\ execStatus[f] = "RUNNING" /\ execTask'[f] = execTask[f]
    BY <1>2
  <2> QED
    BY <1>1, <2>1
       DEF CouplingInv, ExecutionCoupling, RunningHoldsContract, LocksOf
<1>8. ActiveTaskHasExecution'
  <2> SUFFICES ASSUME NEW u \in Task, status'[u] \in Active
               PROVE  \E f \in Exec : execTask'[f] = u /\ execStatus'[f] = status'[u]
    BY DEF ActiveTaskHasExecution, Active
  <2>1. CASE u = t
    BY <1>2, <2>1
  <2>2. CASE u # t
    <3>1. PICK f \in Exec : execTask[f] = u /\ execStatus[f] = status[u]
      BY <1>2, <2>2
         DEF CouplingInv, ExecutionCoupling, ActiveTaskHasExecution, Active
    <3>2. f # e
      BY <1>1, <1>2, <2>2, <3>1 DEF Active
    <3> QED
      BY <1>2, <2>2, <3>1, <3>2
  <2> QED
    BY <2>1, <2>2
<1> QED
  BY <1>5, <1>6, <1>7, <1>8, CouplingParts

\* Withdrawing the one queued execution of a task leaves it with none.
LEMMA UnscheduleCoupling ==
  ASSUME CouplingInv, TypeInv', NEW t \in Task, NEW e \in Exec,
         UnscheduleExecution(t, e)
  PROVE  CouplingInv'
<1>0. TypeInv /\ TypeOK
  BY DEF CouplingInv, TypeInv
<1>1. /\ status[t] = "QUEUED"
      /\ execStatus[e] = "QUEUED" /\ execTask[e] = t
      /\ execStatus' = [execStatus EXCEPT ![e] = "FINISHED"]
      /\ status' = [status EXCEPT ![t] = "PENDING"]
      /\ UNCHANGED <<preflightStatus, scopes, assignedAgent, execTask,
                     recoveryRequired, holder, quarantined>>
  BY DEF UnscheduleExecution, Queued, lockVars
<1>2. \A f \in Exec : execStatus'[f] \in Active =>
        f # e /\ execStatus[f] = execStatus'[f] /\ execTask[f] # t /\ execTask[f] \in Task
  BY <1>0, <1>1
     DEF CouplingInv, ExecutionCoupling, OneActiveExecution, TypeInv, TypeOK,
         RowsNamed, Active
<1>3. \A s \in Scope : holder[s] # None => holder[s] \in Exec \ {e}
  BY <1>0, <1>1, IdleHoldsNothing DEF TypeOK, LocksOf
<1>4. LocksAccounted' /\ QuarantineBacked'
  BY <1>0, <1>1, <1>3
     DEF CouplingInv, LockLifecycle, QuarantineBacked, LocksAccounted, TypeOK
<1>5. OneActiveExecution'
  <2> SUFFICES ASSUME NEW f \in Exec, execStatus'[f] \in Active
               PROVE  /\ status'[execTask[f]] = execStatus'[f]
                      /\ preflightStatus[execTask[f]] = "READY"
                      /\ \A g \in Exec \ {f} : execTask[g] = execTask[f] =>
                           execStatus'[g] \notin Active
    BY <1>1 DEF OneActiveExecution, Active
  <2> QED
    BY <1>0, <1>1, <1>2
       DEF CouplingInv, ExecutionCoupling, OneActiveExecution, TypeOK, Active
<1>6. RunningHoldsContract'
  BY <1>1, <1>2
     DEF CouplingInv, ExecutionCoupling, RunningHoldsContract, LocksOf, Active
<1>7. ActiveTaskHasExecution'
  <2> SUFFICES ASSUME NEW u \in Task, status'[u] \in Active
               PROVE  \E f \in Exec : execTask[f] = u /\ execStatus'[f] = status'[u]
    BY <1>1 DEF ActiveTaskHasExecution, Active
  <2>1. u # t /\ status'[u] = status[u]
    BY <1>0, <1>1 DEF TypeOK, Active
  <2> QED
    BY <1>0, <1>1, <2>1
       DEF CouplingInv, ExecutionCoupling, ActiveTaskHasExecution, TypeOK, Active
<1> QED
  BY <1>4, <1>5, <1>6, <1>7, CouplingParts

\* Planner, Operator and clock do not reach what CouplingInv is about.
LEMMA EditCoupling ==
  ASSUME CouplingInv, TypeInv', TaskEdit
  PROVE  CouplingInv'
<1>0. TypeInv /\ TypeOK
  BY DEF CouplingInv, TypeInv
<1>1. /\ UNCHANGED <<execStatus, execTask, recoveryRequired, holder, quarantined>>
      /\ \A f \in Exec : execStatus[f] \in Active =>
           /\ execTask[f] \in Task
           /\ status[execTask[f]] = execStatus[f]
           /\ status'[execTask[f]] = status[execTask[f]]
           /\ preflightStatus'[execTask[f]] = preflightStatus[execTask[f]]
           /\ scopes'[execTask[f]] = scopes[execTask[f]]
           /\ assignedAgent'[execTask[f]] = assignedAgent[execTask[f]]
  BY <1>0
     DEF TaskEdit, execVars, lockVars, CouplingInv, ExecutionCoupling,
         OneActiveExecution, TypeInv, TypeOK, RowsNamed, Active
<1>2. LocksAccounted' /\ QuarantineBacked'
  BY <1>1 DEF CouplingInv, LockLifecycle, QuarantineBacked, LocksAccounted
<1>3. OneActiveExecution'
  BY <1>1 DEF CouplingInv, ExecutionCoupling, OneActiveExecution, Active
<1>4. RunningHoldsContract'
  BY <1>1
     DEF CouplingInv, ExecutionCoupling, RunningHoldsContract, LocksOf, Active
<1>5. ActiveTaskHasExecution'
  BY <1>1 DEF TaskEdit, CouplingInv, ExecutionCoupling, ActiveTaskHasExecution, Active
<1> QED
  BY <1>2, <1>3, <1>4, <1>5, CouplingParts

\* The invariant depends on these columns alone.
LEMMA CouplingFrame ==
  ASSUME CouplingInv, TypeInv',
         UNCHANGED <<taskVars, execStatus, execTask, recoveryRequired, lockVars>>
  PROVE  CouplingInv'
BY DEF CouplingInv, LockLifecycle, ExecutionCoupling, OneActiveExecution,
       RunningHoldsContract, ActiveTaskHasExecution, QuarantineBacked, LocksOf,
       taskVars, lockVars

-----------------------------------------------------------------------------
\* An empty database is coupled.
LEMMA CouplingInit == Init => CouplingInv
<1> SUFFICES ASSUME Init PROVE CouplingInv
  OBVIOUS
<1>1. TypeInv
  BY TypeInit
<1>2. LockLifecycle /\ ExecutionCoupling /\ QuarantineBacked
  BY DEF Init, LockLifecycle, ExecutionCoupling, OneActiveExecution,
         RunningHoldsContract, ActiveTaskHasExecution, QuarantineBacked
<1> QED
  BY <1>1, <1>2 DEF CouplingInv

\* Every command keeps tasks, executions and locks coupled.
LEMMA CouplingStep == CouplingInv /\ TypeInv' /\ [Next]_vars => CouplingInv'
<1> SUFFICES ASSUME CouplingInv, TypeInv', [Next]_vars PROVE CouplingInv'
  OBVIOUS
<1>0. TypeInv BY DEF CouplingInv
<1>1. CASE Clock
  BY <1>1, ClockEdits, CouplingFrame
<1>2. CASE RecoveryStep
  <2>1. ASSUME NEW e \in Exec, RecoverWait(e) PROVE CouplingInv'
    BY <2>1, SweepKeeps DEF RecoverWait
  <2> QED
    BY <1>2, <2>1, ReleaseCoupling DEF RecoveryStep
<1>3. CASE WorkerStep
  <2>1. CASE ClaimNothing
    BY <2>1, SweepKeeps DEF ClaimNothing
  <2>2. ASSUME NEW e \in Exec, Heartbeat(e) \/ ProcessEnds(e) PROVE CouplingInv'
    BY <2>2, CouplingFrame DEF Heartbeat, ProcessEnds, execVars
  <2> QED
    BY <1>3, <2>1, <2>2, ClaimCoupling, ExtendCoupling, FinishCoupling
       DEF WorkerStep
<1>4. CASE DispatcherStep
  BY <1>4, DispatchCoupling, UnscheduleCoupling DEF DispatcherStep
<1>5. CASE PlannerStep \/ OperatorStep
  BY <1>0, <1>5, PlannerEdits, OperatorEdits, EditCoupling
<1>6. CASE UNCHANGED vars
  BY <1>6, CouplingFrame DEF vars, execVars
<1> QED
  BY <1>1, <1>2, <1>3, <1>4, <1>5, <1>6 DEF Next

\* The inductive invariant of tasks, executions and locks.
THEOREM CouplingInvariant == Spec => []CouplingInv
<1> QED
  BY CouplingInit, CouplingStep, TypeInvariant, PTL DEF Spec

\* Every lock has a row that will release it: the RUNNING execution of a
\* RUNNING task, or a lost execution that still needs recovery.
THEOREM LocksHaveOwners == Spec => []LockLifecycle
<1>1. CouplingInv => LockLifecycle
  BY DEF CouplingInv
<1> QED
  BY <1>1, CouplingInvariant, PTL

\* A task has at most one active execution, agrees with it, and while it runs
\* the locks are those of the contract.
THEOREM TasksMatchExecutions == Spec => []ExecutionCoupling
<1>1. CouplingInv => ExecutionCoupling
  BY DEF CouplingInv
<1> QED
  BY <1>1, CouplingInvariant, PTL
=============================================================================
