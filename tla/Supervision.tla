---------------------------- MODULE Supervision ----------------------------
(***************************************************************************)
(* Who starts and stops the resident services: the Supervisor looks after  *)
(* the Runner in cycles (supervisor/main.py, common/components.py), the    *)
(* scheduled health check looks after the Supervisor                       *)
(* (supervisor/health_run.py, common/health.py), and the Dashboard does    *)
(* both on request (client/dashboard_server.py), with the same functions   *)
(* and at the same time.  Dashboard and Scheduler are services like the    *)
(* Runner, managed one after the other in each cycle.                      *)
(***************************************************************************)
EXTENDS ServiceFiles

CONSTANT MaxRequests  \* bound of the model: actions asked of the Dashboard

ASSUME RequestsAssumption == MaxRequests \in Nat

VARIABLES
  installed, \* the health check is installed as a scheduled task
  asked,     \* the services the Dashboard may be asked about
  enabled,   \* service-control.json: the services that are to run
  requests,  \* Dashboard actions so far
  at,        \* where a manager is in its work
  on,        \* the service it works on
  goal,      \* what it wants of it
  recorded,  \* the PID it has read and works with
  launched,  \* the process it has started
  disturbed, \* a live instance has lost its PID file to somebody else
  mistaken   \* the services for which a stranger has been killed

managerVars == <<at, on, goal, recorded, launched>>
givenVars == <<installed, asked>>
switchVars == <<givenVars, enabled, requests>>
historyVars == <<disturbed, mistaken>>
supervisionVars == <<serviceVars, switchVars, managerVars, historyVars>>

\* Each Supervisor process, a health check (its lock admits one at a time) and
\* the Dashboard (likewise).
Manager == SupervisorPid \cup {"health", "dashboard"}

SupervisionTypeOK ==
  /\ pidFile \in [Service -> Pid \cup {None, 0}]
  /\ beatFile \in [Service -> Pid \cup {None}]
  /\ stopFile \in [Service -> Pid \cup {None}]
  /\ \A s \in Service :
       {pidFile[s], beatFile[s], stopFile[s]} \subseteq PidOf(s) \cup {None, 0}
  /\ fresh \subseteq Service
  /\ life \in [Pid -> Life]
  /\ faults \in 0..MaxFaults
  /\ installed \in BOOLEAN
  /\ asked \subseteq Service
  /\ enabled \subseteq Service
  /\ requests \in 0..MaxRequests
  /\ at \in [Manager -> {"idle", "look", "stopping", "ending", "start", "waiting",
                      "done"}]
  /\ on \in [Manager -> Service]
  /\ goal \in [Manager -> {"start", "restart", "stop"}]
  /\ recorded \in [Manager -> Pid \cup {None}]
  /\ launched \in [Manager -> Pid \cup {None}]
  /\ disturbed \in BOOLEAN
  /\ mistaken \subseteq Service

SupervisionInit ==
  /\ FilesInit
  /\ installed \in BOOLEAN
  /\ asked \in SUBSET Service
  /\ enabled = Service
  /\ requests = 0
  /\ at = [m \in Manager |-> "idle"]
  /\ on = [m \in Manager |-> "runner"]
  /\ goal = [m \in Manager |-> "start"]
  /\ recorded = [m \in Manager |-> None]
  /\ launched = [m \in Manager |-> None]
  /\ disturbed = FALSE
  /\ mistaken = {}

\* A Supervisor works while its process runs; the other two are there always.
Works(m) == m \in SupervisorPid => life[m] = "running"

\* On to another place in the same job.
Goes(m, place) ==
  /\ at' = [at EXCEPT ![m] = place]
  /\ UNCHANGED <<on, goal, recorded, launched>>

Forgotten(m) ==
  /\ at' = [at EXCEPT ![m] = "idle"]
  /\ on' = [on EXCEPT ![m] = "runner"]
  /\ goal' = [goal EXCEPT ![m] = "start"]
  /\ recorded' = [recorded EXCEPT ![m] = None]
  /\ launched' = [launched EXCEPT ![m] = None]

Begins(m, s, g) ==
  /\ at[m] = "idle"
  /\ at' = [at EXCEPT ![m] = "look"]
  /\ on' = [on EXCEPT ![m] = s]
  /\ goal' = [goal EXCEPT ![m] = g]
  /\ recorded' = [recorded EXCEPT ![m] = Recorded(s)]
  /\ UNCHANGED <<launched, fileVars, life, historyVars>>

\* The job is over; a cycle of the Supervisor ends with its heartbeat.
EndsJob(m) ==
  /\ at[m] = "done" /\ Works(m)
  /\ IF m \in SupervisorPid THEN WriteBeat(m) ELSE UNCHANGED fileVars
  /\ Forgotten(m)
  /\ UNCHANGED <<life, faults, switchVars, historyVars>>

-----------------------------------------------------------------------------
(***************************************************************************)
(* Beginning.                                                              *)
(***************************************************************************)
\* A wrong GoalNow: the switch is not read again.
GoalEver == "start"

GoalNow == IF "runner" \in enabled THEN "start" ELSE "stop"

\* serve_supervisor: its switch and its stop request, then ensure_component.
SupervisorBegins(m) ==
  /\ m \in SupervisorPid /\ Works(m)
  /\ stopFile["supervisor"] # m
  /\ "supervisor" \in enabled
  /\ Begins(m, "runner", GoalNow)
  /\ UNCHANGED <<switchVars, faults>>

\* The other way to leave the loop: the request, or the switch.
SupervisorLeaves(m) ==
  /\ m \in SupervisorPid /\ at[m] = "idle"
  /\ \/ SeesStop(m)
     \/ /\ life[m] = "running"
        /\ "supervisor" \notin enabled
        /\ life' = [life EXCEPT ![m] = "closing"]
        /\ UNCHANGED <<fileVars, faults>>
  /\ UNCHANGED <<switchVars, managerVars, historyVars>>

\* health_run.main, when it has something to do or believes so.
HealthBegins ==
  /\ installed
  /\ "supervisor" \in enabled
  /\ IF Healthy("supervisor", Recorded("supervisor")) THEN Fault ELSE UNCHANGED faults
  /\ Begins("health", "supervisor", "start")
  /\ UNCHANGED switchVars

\* _handle_service_action: the switch is set first.
DashboardSwitches(s, g) ==
  /\ s \in asked /\ at["dashboard"] = "idle"
  /\ requests < MaxRequests
  /\ requests' = requests + 1
  /\ enabled' = IF g = "stop" THEN enabled \ {s} ELSE enabled \cup {s}
  /\ UNCHANGED givenVars

DashboardBegins(s, g) ==
  /\ DashboardSwitches(s, g)
  /\ IF s = "supervisor" /\ g = "start" /\ Healthy(s, Recorded(s))
     THEN UNCHANGED <<managerVars, fileVars, life, historyVars>>
     ELSE Begins("dashboard", s,
                 IF s = "runner" /\ g = "restart" /\ Recorded(s) = None
                 THEN "start" ELSE g)
  /\ UNCHANGED faults

-----------------------------------------------------------------------------
(***************************************************************************)
(* ensure_component and request_component_stop, for the Runner.            *)
(***************************************************************************)
\* What follows when the old instance is gone and its files are cleared: to
\* restart the Runner the Dashboard calls ensure_component afresh.
AfterClear(m) ==
  CASE goal[m] = "stop" -> Goes(m, "done")
    [] goal[m] = "restart" /\ on[m] = "runner" ->
         /\ goal' = [goal EXCEPT ![m] = "start"]
         /\ recorded' = [recorded EXCEPT ![m] =
                            IF pidFile'["runner"] \in Pid THEN pidFile'["runner"]
                            ELSE None]
         /\ at' = [at EXCEPT ![m] = "look"]
         /\ UNCHANGED <<on, launched>>
    [] OTHER -> Goes(m, "start")

\* Files of an instance the manager has not seen may go with them.
Disturbs(m) == recorded[m] = None /\ Recorded(on[m]) # None

\* The instance is healthy, or its PID belongs to nobody one may stop, or the
\* question who it is has no answer (a fault).
LeavesAlone(m) ==
  LET p == recorded[m] IN
  /\ at[m] = "look" /\ on[m] = "runner" /\ Works(m)
  /\ \/ goal[m] = "start" /\ Healthy("runner", Recorded("runner")) /\ UNCHANGED faults
     \/ p # None /\ Alive(p) /\ (IF OfService(p) THEN Fault ELSE UNCHANGED faults)
  /\ Goes(m, "done")
  /\ UNCHANGED <<fileVars, life, switchVars, historyVars>>

Gone(p) == p \in Pid => ~ Alive(p)

\* Nothing runs under the recorded PID: what is left of it goes.
ClearsGone(m) ==
  /\ at[m] = "look" /\ on[m] = "runner" /\ Works(m)
  /\ ~ (goal[m] = "start" /\ Healthy("runner", Recorded("runner")))
  /\ Gone(recorded[m])
  /\ Clear("runner", recorded[m])
  /\ disturbed' = (disturbed \/ Disturbs(m))
  /\ AfterClear(m)
  /\ UNCHANGED <<life, faults, switchVars, mistaken>>

\* A live instance that is not healthy, or not wanted; or the question who it
\* is had no answer the first time (a fault).
AsksToStop(m) ==
  LET p == recorded[m] IN
  /\ at[m] = "look" /\ on[m] = "runner" /\ Works(m)
  /\ p # None /\ OfService(p)
  /\ IF goal[m] = "start" /\ Healthy("runner", Recorded("runner")) THEN Fault
     ELSE UNCHANGED faults
  /\ RequestStop("runner", p)
  /\ Goes(m, "stopping")
  /\ UNCHANGED <<life, switchVars, historyVars>>

\* The wait for it ends with the process, for either service.
SeesGone(m) ==
  /\ at[m] \in {"stopping", "ending"} /\ Works(m)
  /\ ~ Alive(recorded[m])
  /\ Clear(on[m], recorded[m])
  /\ AfterClear(m)
  /\ UNCHANGED <<life, faults, switchVars, historyVars>>

\* A wrong Confirmed: whoever has the number now.
ConfirmedUnasked(p) == TRUE

Confirmed(p) == OfService(p)

\* ... or after a time: forced, when a service is to be replaced.  SIGTERM is
\* TerminateProcess here, there is no cleanup.
KillsOld(m) ==
  LET p == recorded[m] IN
  /\ at[m] = "stopping" /\ on[m] = "runner" /\ Works(m)
  /\ goal[m] # "stop"
  /\ Alive(p) /\ Confirmed(p)
  /\ life' = [life EXCEPT ![p] = "none"]
  /\ mistaken' = IF life[p] = "stranger" THEN mistaken \cup {"runner"} ELSE mistaken
  /\ Goes(m, "ending")
  /\ UNCHANGED <<fileVars, faults, switchVars, disturbed>>

\* The old one is there still, or not known, or its number has gone to another.
GivesUpStopping(m) ==
  LET p == recorded[m] IN
  /\ at[m] \in {"stopping", "ending"} /\ Works(m) /\ Alive(p)
  /\ \/ at[m] = "ending" /\ UNCHANGED faults
     \/ /\ at[m] = "stopping" /\ on[m] = "runner"
        /\ IF goal[m] = "stop" \/ life[p] = "stranger" THEN UNCHANGED faults ELSE Fault
  /\ Goes(m, "done")
  /\ UNCHANGED <<fileVars, life, switchVars, historyVars>>

-----------------------------------------------------------------------------
(***************************************************************************)
(* start_server and stop_previous_process, for the Supervisor.             *)
(***************************************************************************)
\* Only a process that is shown to be a Supervisor is asked to stop ...
AsksSupervisor(m) ==
  LET p == recorded[m] IN
  /\ at[m] = "look" /\ on[m] = "supervisor"
  /\ p # None /\ OfService(p)
  /\ RequestStop("supervisor", p)
  /\ Goes(m, "stopping")
  /\ UNCHANGED <<life, faults, switchVars, historyVars>>

\* ... but the files of one that is not shown to be go in any case: it has
\* ended, or is a stranger, or the question has no answer (a fault).
ClearsSupervisor(m) ==
  LET p == recorded[m] IN
  /\ at[m] = "look" /\ on[m] = "supervisor"
  /\ IF p # None /\ OfService(p) THEN Fault ELSE UNCHANGED faults
  /\ Clear("supervisor", p)
  /\ disturbed' = (disturbed \/ Disturbs(m) \/ (p # None /\ OfService(p)))
  /\ AfterClear(m)
  /\ UNCHANGED <<life, switchVars, mistaken>>

\* After five seconds, without asking again whose PID it is.
KillsSupervisor(m) ==
  LET p == recorded[m] IN
  /\ at[m] = "stopping" /\ on[m] = "supervisor"
  /\ Alive(p)
  /\ life' = [life EXCEPT ![p] = "none"]
  /\ mistaken' = IF life[p] = "stranger" THEN mistaken \cup {"supervisor"} ELSE mistaken
  /\ Goes(m, "ending")
  /\ UNCHANGED <<fileVars, faults, switchVars, disturbed>>

-----------------------------------------------------------------------------
(***************************************************************************)
(* start_component and start_server, and the wait for the new instance.    *)
(***************************************************************************)
\* start_component removes a request to stop; the other has done so.
Launches(m, p) ==
  /\ at[m] = "start" /\ Works(m)
  /\ p \in PidOf(on[m]) /\ life[p] = "none"
  /\ p \in SupervisorPid => at[p] = "idle"
  /\ life' = [life EXCEPT ![p] = "starting"]
  /\ stopFile' = Unlinked(stopFile, on[m])
  /\ launched' = [launched EXCEPT ![m] = p]
  /\ at' = [at EXCEPT ![m] = "waiting"]
  /\ UNCHANGED <<pidFile, beatFile, fresh, faults, switchVars, on, goal, recorded,
                 historyVars>>

\* The new process is healthy, or has ended; or the time is up (a fault: a
\* start that is slow).
EndsWait(m) ==
  LET p == launched[m] IN
  /\ at[m] = "waiting" /\ Works(m)
  /\ IF Healthy(on[m], p) \/ ~ OfService(p) THEN UNCHANGED faults ELSE Fault
  /\ Goes(m, "done")
  /\ UNCHANGED <<fileVars, life, switchVars, historyVars>>

FailsToLaunch(m) ==
  /\ at[m] = "start" /\ Works(m)
  /\ Fault
  /\ Goes(m, "done")
  /\ UNCHANGED <<fileVars, life, switchVars, historyVars>>

\* The code of a Supervisor that is no longer running goes no further.
Stops(m) ==
  /\ ~ Works(m) /\ at[m] # "idle"
  /\ Forgotten(m)
  /\ UNCHANGED <<serviceVars, switchVars, historyVars>>

-----------------------------------------------------------------------------
\* A service by itself.
ServiceStep(p) ==
  /\ \/ ClaimService(p)
     \/ p \in RunnerPid /\ SeesStop(p)
     \/ RunnerBeats(p)
     \/ CloseService(p)
  /\ UNCHANGED <<switchVars, managerVars, historyVars>>

\* What nobody owes: a crash, a program that gives a number free.
Breakdown ==
  /\ \/ \E p \in Pid : Crash(p) \/ StrangerEnds(p)
     \/ \E s \in Service : BeatGrowsOld(s)
  /\ UNCHANGED <<switchVars, managerVars, historyVars>>

\* The rest of a job.
JobStep(m) ==
  \/ LeavesAlone(m) \/ ClearsGone(m) \/ AsksToStop(m) \/ SeesGone(m)
  \/ KillsOld(m) \/ GivesUpStopping(m)
  \/ AsksSupervisor(m) \/ ClearsSupervisor(m) \/ KillsSupervisor(m)
  \/ \E p \in Pid : Launches(m, p)
  \/ FailsToLaunch(m)
  \/ EndsWait(m)
  \/ EndsJob(m)
  \/ Stops(m)

SupervisionNext ==
  \/ \E p \in Pid : ServiceStep(p)
  \/ Breakdown
  \/ \E m \in Manager : JobStep(m)
  \/ \E m \in SupervisorPid : SupervisorBegins(m) \/ SupervisorLeaves(m)
  \/ HealthBegins
  \/ \E s \in Service, g \in {"start", "restart", "stop"} : DashboardBegins(s, g)

SupervisionSpec == SupervisionInit /\ [][SupervisionNext]_supervisionVars

\* Processes go on, the health check comes again and again, and a job is carried
\* to its end.
SupervisionFairness ==
  /\ \A p \in Pid : WF_supervisionVars(ServiceStep(p))
  /\ \A m \in Manager : WF_supervisionVars(JobStep(m))
  /\ \A m \in SupervisorPid :
       WF_supervisionVars(SupervisorBegins(m)) /\ WF_supervisionVars(SupervisorLeaves(m))
  /\ WF_supervisionVars(HealthBegins)

SupervisedSpec == SupervisionSpec /\ SupervisionFairness

-----------------------------------------------------------------------------
\* A running service is the one its PID file names, so there is one at most,
\* whatever crashes, restarts and reused numbers come between, unless a manager
\* has removed the file of an instance it did not see, or could not identify.
InstanceRecorded ==
  \A p \in Pid :
    p \in Instances(ServiceOf(p)) => pidFile[ServiceOf(p)] = p \/ disturbed

\* The managers of the Runner end no other program that has got its number.
NoStrangerKilled == "runner" \notin mistaken

\* Some other program has the number in the Runner's PID file: ensure_component
\* answers BLOCKED and does nothing as long as it lives.
Blocked == \E p \in RunnerPid : life[p] = "stranger" /\ Recorded("runner") = p

\* With both services switched on and nothing disturbed the Runner comes back for
\* good, whether it, its Supervisor or its manager's job broke off, if there is a
\* health check or a Supervisor that stays, and if no other program keeps the
\* recorded PID for ever.  The number of a Supervisor needs no such premise.
RunnerComesBack ==
  /\ <>[](enabled = Service) /\ [](~ disturbed)
  /\ []<>(~ Blocked)
  /\ installed \/ <>[](Instances("supervisor") # {})
  =>
    <>[](\E p \in RunnerPid : Healthy("runner", p))

\* A service that stays switched off ends, the Runner if it has a Supervisor, the
\* Supervisor in any case.
SwitchesObeyed ==
  /\ /\ <>[](enabled = {"supervisor"}) /\ [](~ disturbed)
     /\ installed \/ <>[](Instances("supervisor") # {})
     => <>[](Instances("runner") = {})
  /\ <>[]("supervisor" \notin enabled) => <>[](Instances("supervisor") = {})
=============================================================================
