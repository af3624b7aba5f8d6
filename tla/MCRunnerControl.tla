--------------------------- MODULE MCRunnerControl ---------------------------
(***************************************************************************)
(* Instances of RunnerControl for TLC.                                     *)
(***************************************************************************)
EXTENDS RunnerControl, MCLoopControl

MCRank == [t \in Task |-> IF t = t1 THEN 1 ELSE 2]

\* Two published tasks with conflicting or disjoint keys.
RunnerMCInit ==
  /\ \E S \in {{module}, {fileA}} :
       Published(Task, [t \in Task |-> IF t = t1 THEN S ELSE {fileB}],
                 NoDependency)
  /\ RunnerInit

\* Everything about executions but the Operator's edits.
RunnerMCNext ==
  \/ RunnerProcess
  \/ ProcessStep
  \/ /\ \/ \E e \in Exec : HeartbeatLapses(e)
        \/ RecoveryStep
        \/ ClaimNothing
        \/ DispatcherStep
     /\ UNCHANGED runnerVars

RunnerMCSpec == RunnerMCInit /\ [][RunnerMCNext]_<<vars, runnerVars>>

\* Scheduler, Runner, Worker and Planner processes left to themselves, on two
\* published tasks with the same key or on an empty database.  No heartbeat
\* lapses: ReadyTasksFinish is about executions that are not lost.  One draft is
\* enough for InspectionsEnd: SPLIT makes another.
ServiceInit ==
  /\ \E T \in {{}, Task} : Published(T, [t \in Task |-> {fileA}], NoDependency)
  /\ RunnerInit

ServiceNext ==
  \/ RunnerProcess
  \/ \E w \in Processes :
       \/ WorkerClaims(w) \/ WorkerFinishes(w) \/ WorkerDies(w)
       \/ PlannerClaims(w) \/ PlannerFinishes(w)
       \/ ProcessLost(w)
  \/ /\ \/ \E t \in Task, e \in Exec : Dispatch(t, e)
        \/ ScheduleCycle
        \/ \E p \in Preflight : InspectionLapses(p)
        \/ Enqueue(t1, {})
     /\ UNCHANGED runnerVars

ServiceSpec == ServiceInit /\ [][ServiceNext]_<<vars, runnerVars>> /\ Fairness

\* The same, with Workers that are lost.
LossNext ==
  \/ ServiceNext
  \/ (\E e \in Exec : HeartbeatLapses(e)) /\ UNCHANGED runnerVars

LossSpec == ServiceInit /\ [][LossNext]_<<vars, runnerVars>> /\ Fairness
=============================================================================
