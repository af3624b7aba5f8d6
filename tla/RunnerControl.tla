---------------------------- MODULE RunnerControl ----------------------------
(***************************************************************************)
(* The Runner (runner/agent_runtime.py) over the control plane: it reads   *)
(* both queues, starts a Worker or Planner process for each candidate that *)
(* fits the free slots, and stops its processes when it ends itself.  It   *)
(* writes nothing to the database; its processes do, by the commands of    *)
(* LoopControl.                                                            *)
(*                                                                         *)
(* A process is <<n, x>>: started by the n-th Runner for execution x.  It  *)
(* first claims x, and goes on only if it was given the claim.             *)
(***************************************************************************)
EXTENDS LoopControl

CONSTANTS
  Rank,       \* the order of tasks by priority, created_at, id
  MaxLives    \* bound of the model: how often a Runner is started

ASSUME RankAssumption ==
  /\ Rank \in [Task -> Nat]
  /\ \A t, u \in Task : Rank[t] = Rank[u] => t = u
ASSUME LivesAssumption == MaxLives \in Nat
\* Ids of executions and inspections are UUIDs; active_children is keyed by
\* either.
ASSUME RowAssumption == Exec \cap Preflight = {}

VARIABLES
  runner,      \* state of the Runner process
  life,        \* how many Runners have been started
  candidates,  \* the snapshot it has read and not acted on
  children,    \* active_children: what it believes it has running
  started,     \* processes that have not sent their claim yet
  working      \* processes whose claim was accepted

runnerVars == <<runner, life, candidates, children, started, working>>

RunnerTypeOK ==
  /\ runner \in {"DOWN", "UP", "STOPPING"}
  /\ life \in 0..MaxLives
  /\ candidates \subseteq Exec \cup Preflight
  /\ children \subseteq Exec \cup Preflight
  /\ started \subseteq (1..MaxLives) \X (Exec \cup Preflight)
  /\ working \subseteq (1..MaxLives) \X (Exec \cup Preflight)

Processes == started \cup working

RunnerInit ==
  /\ runner = "DOWN"
  /\ life = 0
  /\ candidates = {}
  /\ children = {}
  /\ started = {}
  /\ working = {}

-----------------------------------------------------------------------------
(***************************************************************************)
(* queue_snapshot: one read of both queues and of the rows that use slots. *)
(***************************************************************************)
\* The rows of S that come before x, when S holds rows about tasks.
Before(x, S, task) == {y \in S : Rank[task[y]] < Rank[task[x]]}

PlannerRows ==
  {p \in Preflight : /\ inspStatus[p] = "QUEUED"
                     /\ status[inspTask[p]] = "DRAFT"
                     /\ preflightStatus[inspTask[p]] = "QUEUED"}

WorkerRows ==
  {e \in Exec : execStatus[e] = "QUEUED" /\ status[execTask[e]] = "QUEUED"}

\* A wrong PlannerCandidates, with the slots left by queued rows too, which are
\* those for scheduling.
PlannerCandidatesOfAvailable ==
  LET active == {p \in Preflight : inspStatus[p] = "INSPECTING"} IN
  {p \in PlannerRows :
     Cardinality(Before(p, PlannerRows, inspTask)) + Cardinality(active)
       + Cardinality(PlannerRows) < PlannerLimit}

\* The first rows, as many as launch slots are left by active inspections.
PlannerCandidates ==
  LET active == {p \in Preflight : inspStatus[p] = "INSPECTING"} IN
  {p \in PlannerRows :
     Cardinality(Before(p, PlannerRows, inspTask)) + Cardinality(active)
       < PlannerLimit}

\* The rows their platform has room for, after the earlier ones of it.
Fitting ==
  {e \in WorkerRows :
     LET p == PlatformOf[execTask[e]] IN
     Cardinality({f \in Before(e, WorkerRows, execTask) :
                    PlatformOf[execTask[f]] = p})
       + Cardinality(Running(p, execStatus)) < PlatformLimit[p]}

\* The first of these, as many as RUNNING rows leave of the global limit.  A
\* RUNNING row counts whether or not its Worker is alive: the snapshot does
\* not sweep.
WorkerCandidates ==
  LET running == {e \in Exec : execStatus[e] = "RUNNING"} IN
  {e \in Fitting :
     Cardinality(Before(e, Fitting, execTask)) + Cardinality(running)
       < GlobalLimit}

Observe ==
  /\ runner = "UP"
  /\ candidates = {}
  /\ candidates' = PlannerCandidates \cup WorkerCandidates
  /\ UNCHANGED <<vars, runner, life, children, started, working>>

-----------------------------------------------------------------------------
(***************************************************************************)
(* The processes it starts and stops.                                      *)
(***************************************************************************)
\* A wrong Reaped: a child that has exited is never forgotten.
ReapedNever == children

\* _reap_children: the children that have not exited.
Reaped == {x \in children : <<life, x>> \in Processes}

\* _launch_ai_workers.  What happened since the snapshot is not looked at; a
\* candidate that is a child already is left out.
Launch ==
  /\ runner = "UP"
  /\ candidates # {}
  /\ started' = started \cup {<<life, x>> : x \in candidates \ Reaped}
  /\ children' = Reaped \cup candidates
  /\ candidates' = {}
  /\ UNCHANGED <<vars, runner, life, working>>

\* An error while it reads the queues or launches (an unknown route, a database
\* that does not answer), a stop request or a signal ends the loop; some of
\* the candidates may have been launched before.
BeginStop ==
  /\ runner = "UP"
  /\ \E S \in SUBSET (candidates \ Reaped) :
       /\ started' = started \cup {<<life, x>> : x \in S}
       /\ children' = Reaped \cup S
  /\ runner' = "STOPPING"
  /\ candidates' = {}
  /\ UNCHANGED <<vars, life, working>>

\* _stop_children ends a child.  Of a Worker only its own process is sure to
\* be gone: the process tree that holds the credential may outlive it.
StopChild(x) ==
  /\ runner = "STOPPING"
  /\ x \in children
  /\ <<life, x>> \in Processes
  /\ started' = started \ {<<life, x>>}
  /\ working' = working \ {<<life, x>>}
  /\ \/ UNCHANGED vars
     \/ x \in Exec /\ <<life, x>> \in working /\ ProcessEnds(x)
  /\ UNCHANGED <<runner, life, candidates, children>>

EndRunner ==
  /\ runner = "STOPPING"
  /\ \A x \in children : <<life, x>> \notin Processes
  /\ runner' = "DOWN"
  /\ children' = {}
  /\ UNCHANGED <<vars, life, candidates, started, working>>

\* The Runner is killed: its children live on and nobody knows them.
RunnerCrash ==
  /\ runner # "DOWN"
  /\ runner' = "DOWN"
  /\ candidates' = {}
  /\ children' = {}
  /\ UNCHANGED <<vars, life, started, working>>

\* serve_runner, by hand or by the Supervisor; one Runner at a time.
StartRunner ==
  /\ runner = "DOWN"
  /\ life < MaxLives
  /\ runner' = "UP"
  /\ life' = life + 1
  /\ UNCHANGED <<vars, candidates, children, started, working>>

RunnerProcess ==
  \/ Observe
  \/ Launch
  \/ BeginStop
  \/ \E x \in Exec \cup Preflight : StopChild(x)
  \/ EndRunner
  \/ RunnerCrash
  \/ StartRunner

-----------------------------------------------------------------------------
(***************************************************************************)
(* The commands of the processes.                                          *)
(***************************************************************************)
\* The claim of process w is its first command.  One that is refused ends the
\* process: with an error, rolled back, if the row is not QUEUED, else with
\* SLOT_FULL, NO_TASK or CONFLICT after the sweep.
WorkerClaims(w) ==
  LET e == w[2] IN
  /\ w \in started /\ e \in Exec
  /\ started' = started \ {w}
  /\ \/ Claim(e) /\ working' = working \cup {w}
     \/ execStatus[e] = "QUEUED" /\ ~ Claimable(e) /\ ClaimNothing
        /\ UNCHANGED working
     \/ execStatus[e] # "QUEUED" /\ UNCHANGED <<vars, working>>
  /\ UNCHANGED <<runner, life, candidates, children>>

\* Heartbeats and extensions of a Worker whose claim was accepted.
WorkerWorks(w) ==
  LET e == w[2] IN
  /\ w \in working /\ e \in Exec
  /\ Heartbeat(e) \/ \E keys \in SUBSET Scope : ExtendScope(e, keys)
  /\ UNCHANGED runnerVars

WorkerFinishes(w) ==
  LET e == w[2] IN
  /\ w \in working /\ e \in Exec
  /\ \E final \in {"SUCCEEDED", "FAILED", "WAITING_HUMAN"},
        verified \in BOOLEAN : Finish(e, final, verified)
  /\ working' = working \ {w}
  /\ UNCHANGED <<runner, life, candidates, children, started>>

\* A Worker ends without an accepted report, with its process tree or before
\* it.
WorkerDies(w) ==
  LET e == w[2] IN
  /\ w \in working /\ e \in Exec
  /\ ProcessEnds(e) \/ UNCHANGED vars
  /\ working' = working \ {w}
  /\ UNCHANGED <<runner, life, candidates, children, started>>

TreeEnds(e) ==
  /\ \A w \in working : w[2] # e
  /\ ProcessEnds(e)
  /\ UNCHANGED runnerVars

\* The claim of a Planner process, which sweeps in any case.
PlannerClaims(w) ==
  LET p == w[2] IN
  /\ w \in started /\ p \in Preflight
  /\ started' = started \ {w}
  /\ \/ PreflightClaim(p) /\ working' = working \cup {w}
     \/ inspStatus[p] # "QUEUED" /\ PreflightNothing /\ UNCHANGED working
  /\ UNCHANGED <<runner, life, candidates, children>>

\* The verdict of a Planner process ends it, accepted or refused.
PlannerFinishes(w) ==
  LET p == w[2] IN
  /\ w \in working /\ p \in Preflight
  /\ \/ \E S \in SUBSET Scope : PreflightReady(p, S)
     \/ \E verdict \in {"NEEDS_REVIEW", "FAILED"} : PreflightReturn(p, verdict)
     \/ PreflightSplit(p)
     \/ ~ MayFinish(p) /\ UNCHANGED vars
  /\ working' = working \ {w}
  /\ UNCHANGED <<runner, life, candidates, children, started>>

\* A process ends before its claim, or a Planner before its verdict.
ProcessLost(w) ==
  /\ w \in started \/ (w \in working /\ w[2] \in Preflight)
  /\ started' = started \ {w}
  /\ working' = working \ {w}
  /\ UNCHANGED <<vars, runner, life, candidates, children>>

ProcessStep ==
  \/ \E w \in Processes :
       \/ WorkerClaims(w)
       \/ WorkerWorks(w)
       \/ WorkerFinishes(w)
       \/ WorkerDies(w)
       \/ PlannerClaims(w)
       \/ PlannerFinishes(w)
       \/ ProcessLost(w)
  \/ \E e \in Exec : TreeEnds(e)

-----------------------------------------------------------------------------
\* What the Scheduler, the Operator and time do goes on beside the Runner: the
\* Scheduler queues, the Operator may withdraw, edit, answer and recover.
BesideRunner ==
  /\ \/ Clock
     \/ RecoveryStep
     \/ ClaimNothing
     \/ DispatcherStep
     \/ PreflightNothing
     \/ \E S \in SUBSET Task : \E insp \in [S -> Preflight] :
          SchedulePreflight(S, insp)
     \/ \E t \in Task : UnschedulePreflight(t)
     \/ OperatorStep
  /\ UNCHANGED runnerVars

RunnerNext == RunnerProcess \/ ProcessStep \/ BesideRunner

RunnerSpec == Init /\ RunnerInit /\ [][RunnerNext]_<<vars, runnerVars>>

-----------------------------------------------------------------------------
\* The Scheduler's Planner cycle.  The bound of the model on inspections is no
\* bound of the code: when too few ids are left the cycle sweeps all the same.
ScheduleCycle ==
  \/ \E S \in SUBSET Task : \E insp \in [S -> Preflight] :
       SchedulePreflight(S, insp)
  \/ /\ Cardinality({p \in Preflight : inspStatus[p] = "ABSENT"}) < PlannerLimit
     /\ PreflightNothing

\* The loop of the Runner goes on, a Supervisor restarts a Runner that is down, a
\* Worker ends some day (its runtime has a deadline).  A process may die before
\* its claim, but not every one started for a row does.  An inspection has a
\* deadline, which passes.
Fairness ==
  /\ WF_<<vars, runnerVars>>(Observe)
  /\ WF_<<vars, runnerVars>>(Launch)
  /\ WF_<<vars, runnerVars>>(StartRunner)
  /\ WF_<<vars, runnerVars>>(EndRunner)
  /\ \A x \in Exec \cup Preflight : WF_<<vars, runnerVars>>(StopChild(x))
  /\ \A w \in (1..MaxLives) \X (Exec \cup Preflight) :
       /\ SF_<<vars, runnerVars>>(WorkerClaims(w) \/ PlannerClaims(w))
       /\ WF_<<vars, runnerVars>>(WorkerFinishes(w) \/ WorkerDies(w))
       /\ WF_<<vars, runnerVars>>(PlannerFinishes(w))
  /\ \A p \in Preflight :
       WF_<<vars, runnerVars>>(InspectionLapses(p) /\ UNCHANGED runnerVars)

\* The Scheduler's timers, each of which runs only with its setting:
\* scheduler.execution.scheduled and scheduler.preflight.scheduled.  Both are
\* false in the configuration as delivered, so they are premises of what rests
\* on them; without them only a command of the Operator starts a cycle.
ExecutionScheduled ==
  WF_<<vars, runnerVars>>(\E t \in Task, e \in Exec :
                            Dispatch(t, e) /\ UNCHANGED runnerVars)

PreflightScheduled == WF_<<vars, runnerVars>>(ScheduleCycle /\ UNCHANGED runnerVars)

\* At most one process works on an execution or an inspection, though a Runner
\* that was killed leaves unclaimed processes behind and its successor starts
\* others for the same rows: the claim of the row decides.
OneProcessPerRow ==
  \A v, w \in working : v[2] = w[2] => v = w

\* A process works on a row only after its claim, so the row is not in the queue
\* any more.
WorkingHasClaimed ==
  \A w \in working :
    /\ w[2] \in Exec => execStatus[w[2]] \notin {"ABSENT", "QUEUED"}
    /\ w[2] \in Preflight => inspStatus[w[2]] \notin {"ABSENT", "QUEUED"}

\* No Worker is lost: a RUNNING execution has its process, and its clocks have
\* not run out.
NobodyLost ==
  \A e \in Exec : execStatus[e] = "RUNNING" =>
    e \notin stale \cup overdue /\ \E w \in working : w[2] = e

\* A published task whose dependencies are complete gets its result in the end,
\* whatever conflicts, full slots, refused claims and Runner restarts come
\* between, if execution is scheduled, the Runner stays up at last and no Worker
\* is lost.
ReadyTasksFinish ==
  ExecutionScheduled /\ <>[](runner = "UP") /\ []NobodyLost =>
    \A t \in Task :
      (status[t] = "PENDING" /\ DependenciesReady(t))
        ~> (status[t] \in {"SUCCEEDED", "FAILED", "WAITING_HUMAN"})

\* recovery.py: an execution that can no longer be shown to be alive is removed
\* from the active capacity.  In particular one that waits in the queue does not
\* wait for ever for the slot of a Worker that is gone.
LostFreesCapacity ==
  ExecutionScheduled /\ PreflightScheduled /\ <>[](runner = "UP") =>
    \A e, f \in Exec :
      (/\ execStatus[e] = "RUNNING" /\ e \in stale /\ credential[e] = {}
       /\ execStatus[f] = "QUEUED")
        ~> (execStatus[e] # "RUNNING" \/ execStatus[f] # "QUEUED")

\* Every inspection that was queued is closed in the end, by its verdict or by a
\* timeout the Scheduler sweeps: no dead Planner process and no Runner restart
\* leaves a draft fenced for good, if the Planner cycle is scheduled.
InspectionsEnd ==
  PreflightScheduled /\ <>[](runner = "UP") =>
    \A p \in Preflight :
      (inspStatus[p] \in {"QUEUED", "INSPECTING"})
        ~> (inspStatus[p] \in {"FINISHED", "FAILED", "TIMED_OUT"})
=============================================================================
