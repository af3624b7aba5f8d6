-------------------------- MODULE SupervisionProofs --------------------------
(***************************************************************************)
(* Theorems of the resident services and their managers (Supervision): a   *)
(* running service is the one its PID file names, and a manager of the     *)
(* Runner ends no stranger.                                                *)
(***************************************************************************)
EXTENDS MCSupervision, TLAPS

-----------------------------------------------------------------------------
\* What a manager works with is a PID of the service it works on, and when it waits
\* for an instance to end it knows which.
RecordsFit ==
  \A m \in Manager :
    /\ recorded[m] \in PidOf(on[m]) \cup {None}
    /\ at[m] \in {"stopping", "ending"} => recorded[m] # None

SupervisionInv ==
  SupervisionTypeOK /\ RecordsFit /\ InstanceRecorded /\ NoStrangerKilled

\* What SupervisionTypeOK says, in parts.
FilesOK ==
  /\ pidFile \in [Service -> Pid \cup {None, 0}]
  /\ beatFile \in [Service -> Pid \cup {None}]
  /\ stopFile \in [Service -> Pid \cup {None}]
  /\ fresh \subseteq Service

FilesFit ==
  \A s \in Service :
    {pidFile[s], beatFile[s], stopFile[s]} \subseteq PidOf(s) \cup {None, 0}

LivesOK ==
  /\ life \in [Pid -> Life] /\ faults \in 0..MaxFaults
  /\ installed \in BOOLEAN /\ asked \subseteq Service /\ enabled \subseteq Service
  /\ requests \in 0..MaxRequests
  /\ disturbed \in BOOLEAN /\ mistaken \subseteq Service

Place == {"idle", "look", "stopping", "ending", "start", "waiting", "done"}

ManagersOK ==
  /\ at \in [Manager -> Place]
  /\ on \in [Manager -> Service]
  /\ goal \in [Manager -> {"start", "restart", "stop"}]
  /\ recorded \in [Manager -> Pid \cup {None}]
  /\ launched \in [Manager -> Pid \cup {None}]

\* The parts are the whole.
LEMMA TypeParts == SupervisionTypeOK <=> FilesOK /\ FilesFit /\ LivesOK /\ ManagersOK
  BY DEF SupervisionTypeOK, FilesOK, FilesFit, LivesOK, ManagersOK, Place

\* A service goes on or breaks down without its managers.
ManagersStand == UNCHANGED <<switchVars, managerVars, historyVars>>

\* The two services, and their processes.
LEMMA Services ==
  /\ "supervisor" \in Service /\ "runner" \in Service
  /\ \A s \in Service : s = "supervisor" \/ s = "runner"
  /\ \A p \in Pid : ServiceOf(p) \in Service /\ p \in PidOf(ServiceOf(p))
  /\ \A p \in Pid : p # None /\ p # 0
  /\ \A s \in Service : PidOf(s) \subseteq Pid /\ \A p \in PidOf(s) : ServiceOf(p) = s
  /\ SupervisorPid \subseteq Pid /\ SupervisorPid \subseteq Manager
  /\ \A p \in SupervisorPid : ServiceOf(p) = "supervisor"
  /\ \A p \in RunnerPid : ServiceOf(p) = "runner"
  /\ "health" \in Manager /\ "dashboard" \in Manager
  BY PidAssumption DEF Service, ServiceOf, PidOf, Pid, Manager

\* The three ways on from a cleared instance.
LEMMA AfterClearIs ==
  ASSUME NEW m \in Manager, AfterClear(m)
  PROVE  \/ Goes(m, "done") \/ Goes(m, "start")
         \/ /\ on[m] = "runner" /\ goal[m] = "restart"
            /\ goal' = [goal EXCEPT ![m] = "start"]
            /\ recorded' = [recorded EXCEPT ![m] =
                               IF pidFile'["runner"] \in Pid THEN pidFile'["runner"] ELSE None]
            /\ at' = [at EXCEPT ![m] = "look"]
            /\ UNCHANGED <<on, launched>>
  BY Zenon DEF AfterClear

\* The files are those of processes.
LEMMA FilesKept ==
  ASSUME FilesOK, ManagersOK, [SupervisionNext]_supervisionVars
  PROVE  FilesOK'
<1> USE Services
    DEF FilesOK, ManagersOK, ManagersStand, fileVars, serviceVars, managerVars, givenVars,
        switchVars, historyVars
<1>1. ASSUME NEW p \in Pid, ClaimService(p), ManagersStand
      PROVE  FilesOK'
  BY <1>1 DEF ClaimService, Free, Unlinked
<1>2. ASSUME NEW p \in Pid, SeesStop(p), ManagersStand
      PROVE  FilesOK'
  BY <1>2 DEF SeesStop
<1>3. ASSUME NEW p \in Pid, RunnerBeats(p), ManagersStand
      PROVE  FilesOK'
  BY <1>3 DEF RunnerBeats, WriteBeat
<1>4. ASSUME NEW p \in Pid, CloseService(p), ManagersStand
      PROVE  FilesOK'
  BY <1>4 DEF CloseService, Unlinked
<1>5. ASSUME NEW p \in Pid, StrangerEnds(p), ManagersStand
      PROVE  FilesOK'
  BY <1>5 DEF StrangerEnds
<1>6. ASSUME NEW p \in Pid, Crash(p), ManagersStand
      PROVE  FilesOK'
  BY <1>6 DEF Crash, Fault, OfService, Free
<1>7. ASSUME NEW s \in Service, BeatGrowsOld(s), ManagersStand
      PROVE  FilesOK'
  BY <1>7 DEF BeatGrowsOld, Fault
<1>8. ASSUME NEW m \in Manager, LeavesAlone(m)
      PROVE  FilesOK'
  BY <1>8 DEF LeavesAlone, Fault, Goes
<1>9. ASSUME NEW m \in Manager, ClearsGone(m)
      PROVE  FilesOK'
  BY <1>9 DEF ClearsGone, Clear, Owns, Unlinked, Gone, Alive, Disturbs, Recorded, Goes
<1>10. ASSUME NEW m \in Manager, AsksToStop(m)
      PROVE  FilesOK'
  BY <1>10 DEF AsksToStop, Fault, RequestStop, Goes
<1>11. ASSUME NEW m \in Manager, SeesGone(m)
      PROVE  FilesOK'
  BY <1>11 DEF SeesGone, Clear, Owns, Unlinked, Alive, Goes
<1>12. ASSUME NEW m \in Manager, KillsOld(m)
      PROVE  FilesOK'
  BY <1>12 DEF KillsOld, Confirmed, OfService, Goes
<1>13. ASSUME NEW m \in Manager, GivesUpStopping(m)
      PROVE  FilesOK'
  BY <1>13 DEF GivesUpStopping, Fault, Goes
<1>14. ASSUME NEW m \in Manager, AsksSupervisor(m)
      PROVE  FilesOK'
  BY <1>14 DEF AsksSupervisor, RequestStop, Goes
<1>15. ASSUME NEW m \in Manager, ClearsSupervisor(m)
      PROVE  FilesOK'
  BY <1>15
    DEF ClearsSupervisor, Fault, OfService, Clear, Owns, Unlinked, Disturbs, Recorded, Goes
<1>16. ASSUME NEW m \in Manager, KillsSupervisor(m)
      PROVE  FilesOK'
  BY <1>16 DEF KillsSupervisor, Goes
<1>17. ASSUME NEW m \in Manager, NEW p \in Pid, Launches(m, p)
      PROVE  FilesOK'
  BY <1>17 DEF Launches, Unlinked
<1>18. ASSUME NEW m \in Manager, FailsToLaunch(m)
      PROVE  FilesOK'
  BY <1>18 DEF FailsToLaunch, Fault, Goes
<1>19. ASSUME NEW m \in Manager, EndsWait(m)
      PROVE  FilesOK'
  BY <1>19 DEF EndsWait, Fault, Goes
<1>20. ASSUME NEW m \in Manager, EndsJob(m)
      PROVE  FilesOK'
  BY <1>20 DEF EndsJob, WriteBeat, Forgotten
<1>21. ASSUME NEW m \in Manager, Stops(m)
      PROVE  FilesOK'
  BY <1>21 DEF Stops, Forgotten
<1>22. ASSUME NEW m \in SupervisorPid, SupervisorBegins(m)
      PROVE  FilesOK'
  BY <1>22 DEF SupervisorBegins, Begins, GoalNow, Recorded
<1>23. ASSUME NEW m \in SupervisorPid, SupervisorLeaves(m)
      PROVE  FilesOK'
  BY <1>23 DEF SupervisorLeaves, SeesStop
<1>24. ASSUME HealthBegins
      PROVE  FilesOK'
  BY <1>24 DEF HealthBegins, Fault, Begins, Recorded
<1>25. ASSUME NEW s \in Service, NEW g \in {"start", "restart", "stop"}, DashboardBegins(s, g)
      PROVE  FilesOK'
  BY <1>25 DEF DashboardBegins, DashboardSwitches, Begins, Recorded
<1>26. CASE UNCHANGED supervisionVars
  BY <1>26 DEF supervisionVars
<1> HIDE DEF FilesOK, ManagersOK, ManagersStand, fileVars, serviceVars, managerVars,
       givenVars, switchVars, historyVars
<1> QED
  BY ONLY [SupervisionNext]_supervisionVars, <1>1, <1>2, <1>3, <1>4, <1>5, <1>6, <1>7, <1>8,
       <1>9, <1>10, <1>11, <1>12, <1>13, <1>14, <1>15, <1>16, <1>17, <1>18, <1>19, <1>20,
       <1>21, <1>22, <1>23, <1>24, <1>25, <1>26
     DEF SupervisionNext, ServiceStep, Breakdown, JobStep, ManagersStand

\* A manager asks the process to stop whose PID it has read.
LEMMA FilesFitKept ==
  ASSUME FilesOK, FilesFit, ManagersOK, RecordsFit, [SupervisionNext]_supervisionVars
  PROVE  FilesFit'
<1> USE Services
    DEF FilesOK, FilesFit, ManagersOK, RecordsFit, ManagersStand, fileVars, serviceVars,
        managerVars, givenVars, switchVars, historyVars
<1>1. ASSUME NEW p \in Pid, ClaimService(p), ManagersStand
      PROVE  FilesFit'
  BY <1>1 DEF ClaimService, Free, Unlinked
<1>2. ASSUME NEW p \in Pid, SeesStop(p), ManagersStand
      PROVE  FilesFit'
  BY <1>2 DEF SeesStop
<1>3. ASSUME NEW p \in Pid, RunnerBeats(p), ManagersStand
      PROVE  FilesFit'
  BY <1>3 DEF RunnerBeats, WriteBeat
<1>4. ASSUME NEW p \in Pid, CloseService(p), ManagersStand
      PROVE  FilesFit'
  BY <1>4 DEF CloseService, Unlinked
<1>5. ASSUME NEW p \in Pid, StrangerEnds(p), ManagersStand
      PROVE  FilesFit'
  BY <1>5 DEF StrangerEnds
<1>6. ASSUME NEW p \in Pid, Crash(p), ManagersStand
      PROVE  FilesFit'
  BY <1>6 DEF Crash, Fault, OfService, Free
<1>7. ASSUME NEW s \in Service, BeatGrowsOld(s), ManagersStand
      PROVE  FilesFit'
  BY <1>7 DEF BeatGrowsOld, Fault
<1>8. ASSUME NEW m \in Manager, LeavesAlone(m)
      PROVE  FilesFit'
  BY <1>8 DEF LeavesAlone, Fault, Goes
<1>9. ASSUME NEW m \in Manager, ClearsGone(m)
      PROVE  FilesFit'
  BY <1>9 DEF ClearsGone, Clear, Owns, Unlinked, Gone, Alive, Disturbs, Recorded, Goes
<1>10. ASSUME NEW m \in Manager, AsksToStop(m)
      PROVE  FilesFit'
  BY <1>10 DEF AsksToStop, Fault, RequestStop, Goes
<1>11. ASSUME NEW m \in Manager, SeesGone(m)
      PROVE  FilesFit'
  BY <1>11 DEF SeesGone, Clear, Owns, Unlinked, Alive, Goes
<1>12. ASSUME NEW m \in Manager, KillsOld(m)
      PROVE  FilesFit'
  BY <1>12 DEF KillsOld, Confirmed, OfService, Goes
<1>13. ASSUME NEW m \in Manager, GivesUpStopping(m)
      PROVE  FilesFit'
  BY <1>13 DEF GivesUpStopping, Fault, Goes
<1>14. ASSUME NEW m \in Manager, AsksSupervisor(m)
      PROVE  FilesFit'
  BY <1>14 DEF AsksSupervisor, RequestStop, Goes
<1>15. ASSUME NEW m \in Manager, ClearsSupervisor(m)
      PROVE  FilesFit'
  BY <1>15
    DEF ClearsSupervisor, Fault, OfService, Clear, Owns, Unlinked, Disturbs, Recorded, Goes
<1>16. ASSUME NEW m \in Manager, KillsSupervisor(m)
      PROVE  FilesFit'
  BY <1>16 DEF KillsSupervisor, Goes
<1>17. ASSUME NEW m \in Manager, NEW p \in Pid, Launches(m, p)
      PROVE  FilesFit'
  BY <1>17 DEF Launches, Unlinked
<1>18. ASSUME NEW m \in Manager, FailsToLaunch(m)
      PROVE  FilesFit'
  BY <1>18 DEF FailsToLaunch, Fault, Goes
<1>19. ASSUME NEW m \in Manager, EndsWait(m)
      PROVE  FilesFit'
  BY <1>19 DEF EndsWait, Fault, Goes
<1>20. ASSUME NEW m \in Manager, EndsJob(m)
      PROVE  FilesFit'
  BY <1>20 DEF EndsJob, WriteBeat, Forgotten
<1>21. ASSUME NEW m \in Manager, Stops(m)
      PROVE  FilesFit'
  BY <1>21 DEF Stops, Forgotten
<1>22. ASSUME NEW m \in SupervisorPid, SupervisorBegins(m)
      PROVE  FilesFit'
  BY <1>22 DEF SupervisorBegins, Begins, GoalNow, Recorded
<1>23. ASSUME NEW m \in SupervisorPid, SupervisorLeaves(m)
      PROVE  FilesFit'
  BY <1>23 DEF SupervisorLeaves, SeesStop
<1>24. ASSUME HealthBegins
      PROVE  FilesFit'
  BY <1>24 DEF HealthBegins, Fault, Begins, Recorded
<1>25. ASSUME NEW s \in Service, NEW g \in {"start", "restart", "stop"}, DashboardBegins(s, g)
      PROVE  FilesFit'
  BY <1>25 DEF DashboardBegins, DashboardSwitches, Begins, Recorded
<1>26. CASE UNCHANGED supervisionVars
  BY <1>26 DEF supervisionVars
<1> HIDE DEF FilesOK, FilesFit, ManagersOK, RecordsFit, ManagersStand, fileVars,
       serviceVars, managerVars, givenVars, switchVars, historyVars
<1> QED
  BY ONLY [SupervisionNext]_supervisionVars, <1>1, <1>2, <1>3, <1>4, <1>5, <1>6, <1>7, <1>8,
       <1>9, <1>10, <1>11, <1>12, <1>13, <1>14, <1>15, <1>16, <1>17, <1>18, <1>19, <1>20,
       <1>21, <1>22, <1>23, <1>24, <1>25, <1>26
     DEF SupervisionNext, ServiceStep, Breakdown, JobStep, ManagersStand

\* Processes, switches and bounds keep their types.
LEMMA LivesKept ==
  ASSUME LivesOK, [SupervisionNext]_supervisionVars
  PROVE  LivesOK'
<1> USE Services, FaultsAssumption, RequestsAssumption
    DEF LivesOK, Life, ManagersStand, fileVars, serviceVars, managerVars, givenVars,
        switchVars, historyVars
<1>1. ASSUME NEW p \in Pid, ClaimService(p), ManagersStand
      PROVE  LivesOK'
  BY <1>1 DEF ClaimService, Free, Unlinked
<1>2. ASSUME NEW p \in Pid, SeesStop(p), ManagersStand
      PROVE  LivesOK'
  BY <1>2 DEF SeesStop
<1>3. ASSUME NEW p \in Pid, RunnerBeats(p), ManagersStand
      PROVE  LivesOK'
  BY <1>3 DEF RunnerBeats, WriteBeat
<1>4. ASSUME NEW p \in Pid, CloseService(p), ManagersStand
      PROVE  LivesOK'
  BY <1>4 DEF CloseService, Unlinked
<1>5. ASSUME NEW p \in Pid, StrangerEnds(p), ManagersStand
      PROVE  LivesOK'
  BY <1>5 DEF StrangerEnds
<1>6. ASSUME NEW p \in Pid, Crash(p), ManagersStand
      PROVE  LivesOK'
  BY <1>6 DEF Crash, Fault, OfService, Free
<1>7. ASSUME NEW s \in Service, BeatGrowsOld(s), ManagersStand
      PROVE  LivesOK'
  BY <1>7 DEF BeatGrowsOld, Fault
<1>8. ASSUME NEW m \in Manager, LeavesAlone(m)
      PROVE  LivesOK'
  BY <1>8 DEF LeavesAlone, Fault, Goes
<1>9. ASSUME NEW m \in Manager, ClearsGone(m)
      PROVE  LivesOK'
  BY <1>9 DEF ClearsGone, Clear, Owns, Unlinked, Gone, Alive, Disturbs, Recorded, Goes
<1>10. ASSUME NEW m \in Manager, AsksToStop(m)
      PROVE  LivesOK'
  BY <1>10 DEF AsksToStop, Fault, RequestStop, Goes
<1>11. ASSUME NEW m \in Manager, SeesGone(m)
      PROVE  LivesOK'
  BY <1>11 DEF SeesGone, Clear, Owns, Unlinked, Alive, Goes
<1>12. ASSUME NEW m \in Manager, KillsOld(m)
      PROVE  LivesOK'
  BY <1>12 DEF KillsOld, Confirmed, OfService, Goes
<1>13. ASSUME NEW m \in Manager, GivesUpStopping(m)
      PROVE  LivesOK'
  BY <1>13 DEF GivesUpStopping, Fault, Goes
<1>14. ASSUME NEW m \in Manager, AsksSupervisor(m)
      PROVE  LivesOK'
  BY <1>14 DEF AsksSupervisor, RequestStop, Goes
<1>15. ASSUME NEW m \in Manager, ClearsSupervisor(m)
      PROVE  LivesOK'
  BY <1>15
    DEF ClearsSupervisor, Fault, OfService, Clear, Owns, Unlinked, Disturbs, Recorded, Goes
<1>16. ASSUME NEW m \in Manager, KillsSupervisor(m)
      PROVE  LivesOK'
  BY <1>16 DEF KillsSupervisor, Goes
<1>17. ASSUME NEW m \in Manager, NEW p \in Pid, Launches(m, p)
      PROVE  LivesOK'
  BY <1>17 DEF Launches, Unlinked
<1>18. ASSUME NEW m \in Manager, FailsToLaunch(m)
      PROVE  LivesOK'
  BY <1>18 DEF FailsToLaunch, Fault, Goes
<1>19. ASSUME NEW m \in Manager, EndsWait(m)
      PROVE  LivesOK'
  BY <1>19 DEF EndsWait, Fault, Goes
<1>20. ASSUME NEW m \in Manager, EndsJob(m)
      PROVE  LivesOK'
  BY <1>20 DEF EndsJob, WriteBeat, Forgotten
<1>21. ASSUME NEW m \in Manager, Stops(m)
      PROVE  LivesOK'
  BY <1>21 DEF Stops, Forgotten
<1>22. ASSUME NEW m \in SupervisorPid, SupervisorBegins(m)
      PROVE  LivesOK'
  BY <1>22 DEF SupervisorBegins, Begins, GoalNow, Recorded
<1>23. ASSUME NEW m \in SupervisorPid, SupervisorLeaves(m)
      PROVE  LivesOK'
  BY <1>23 DEF SupervisorLeaves, SeesStop
<1>24. ASSUME HealthBegins
      PROVE  LivesOK'
  BY <1>24 DEF HealthBegins, Fault, Begins, Recorded
<1>25. ASSUME NEW s \in Service, NEW g \in {"start", "restart", "stop"}, DashboardBegins(s, g)
      PROVE  LivesOK'
  BY <1>25 DEF DashboardBegins, DashboardSwitches, Begins, Recorded
<1>26. CASE UNCHANGED supervisionVars
  BY <1>26 DEF supervisionVars
<1> HIDE DEF LivesOK, Life, ManagersStand, fileVars, serviceVars, managerVars, givenVars,
       switchVars, historyVars
<1> QED
  BY ONLY [SupervisionNext]_supervisionVars, <1>1, <1>2, <1>3, <1>4, <1>5, <1>6, <1>7, <1>8,
       <1>9, <1>10, <1>11, <1>12, <1>13, <1>14, <1>15, <1>16, <1>17, <1>18, <1>19, <1>20,
       <1>21, <1>22, <1>23, <1>24, <1>25, <1>26
     DEF SupervisionNext, ServiceStep, Breakdown, JobStep, ManagersStand

\* The managers keep their places and what they know.
LEMMA ManagersKept ==
  ASSUME FilesOK, ManagersOK, [SupervisionNext]_supervisionVars
  PROVE  ManagersOK'
<1> USE Services, AfterClearIs
    DEF FilesOK, ManagersOK, Place, ManagersStand, fileVars, serviceVars, managerVars,
        givenVars, switchVars, historyVars
<1>1. ASSUME NEW p \in Pid, ClaimService(p), ManagersStand
      PROVE  ManagersOK'
  BY <1>1 DEF ClaimService, Free, Unlinked
<1>2. ASSUME NEW p \in Pid, SeesStop(p), ManagersStand
      PROVE  ManagersOK'
  BY <1>2 DEF SeesStop
<1>3. ASSUME NEW p \in Pid, RunnerBeats(p), ManagersStand
      PROVE  ManagersOK'
  BY <1>3 DEF RunnerBeats, WriteBeat
<1>4. ASSUME NEW p \in Pid, CloseService(p), ManagersStand
      PROVE  ManagersOK'
  BY <1>4 DEF CloseService, Unlinked
<1>5. ASSUME NEW p \in Pid, StrangerEnds(p), ManagersStand
      PROVE  ManagersOK'
  BY <1>5 DEF StrangerEnds
<1>6. ASSUME NEW p \in Pid, Crash(p), ManagersStand
      PROVE  ManagersOK'
  BY <1>6 DEF Crash, Fault, OfService, Free
<1>7. ASSUME NEW s \in Service, BeatGrowsOld(s), ManagersStand
      PROVE  ManagersOK'
  BY <1>7 DEF BeatGrowsOld, Fault
<1>8. ASSUME NEW m \in Manager, LeavesAlone(m)
      PROVE  ManagersOK'
  BY <1>8 DEF LeavesAlone, Fault, Goes
<1>9. ASSUME NEW m \in Manager, ClearsGone(m)
      PROVE  ManagersOK'
  BY <1>9 DEF ClearsGone, Clear, Owns, Unlinked, Gone, Alive, Disturbs, Recorded, Goes
<1>10. ASSUME NEW m \in Manager, AsksToStop(m)
      PROVE  ManagersOK'
  BY <1>10 DEF AsksToStop, Fault, RequestStop, Goes
<1>11. ASSUME NEW m \in Manager, SeesGone(m)
      PROVE  ManagersOK'
  BY <1>11 DEF SeesGone, Clear, Owns, Unlinked, Alive, Goes
<1>12. ASSUME NEW m \in Manager, KillsOld(m)
      PROVE  ManagersOK'
  BY <1>12 DEF KillsOld, Confirmed, OfService, Goes
<1>13. ASSUME NEW m \in Manager, GivesUpStopping(m)
      PROVE  ManagersOK'
  BY <1>13 DEF GivesUpStopping, Fault, Goes
<1>14. ASSUME NEW m \in Manager, AsksSupervisor(m)
      PROVE  ManagersOK'
  BY <1>14 DEF AsksSupervisor, RequestStop, Goes
<1>15. ASSUME NEW m \in Manager, ClearsSupervisor(m)
      PROVE  ManagersOK'
  BY <1>15
    DEF ClearsSupervisor, Fault, OfService, Clear, Owns, Unlinked, Disturbs, Recorded, Goes
<1>16. ASSUME NEW m \in Manager, KillsSupervisor(m)
      PROVE  ManagersOK'
  BY <1>16 DEF KillsSupervisor, Goes
<1>17. ASSUME NEW m \in Manager, NEW p \in Pid, Launches(m, p)
      PROVE  ManagersOK'
  BY <1>17 DEF Launches, Unlinked
<1>18. ASSUME NEW m \in Manager, FailsToLaunch(m)
      PROVE  ManagersOK'
  BY <1>18 DEF FailsToLaunch, Fault, Goes
<1>19. ASSUME NEW m \in Manager, EndsWait(m)
      PROVE  ManagersOK'
  BY <1>19 DEF EndsWait, Fault, Goes
<1>20. ASSUME NEW m \in Manager, EndsJob(m)
      PROVE  ManagersOK'
  BY <1>20 DEF EndsJob, WriteBeat, Forgotten
<1>21. ASSUME NEW m \in Manager, Stops(m)
      PROVE  ManagersOK'
  BY <1>21 DEF Stops, Forgotten
<1>22. ASSUME NEW m \in SupervisorPid, SupervisorBegins(m)
      PROVE  ManagersOK'
  BY <1>22 DEF SupervisorBegins, Begins, GoalNow, Recorded
<1>23. ASSUME NEW m \in SupervisorPid, SupervisorLeaves(m)
      PROVE  ManagersOK'
  BY <1>23 DEF SupervisorLeaves, SeesStop
<1>24. ASSUME HealthBegins
      PROVE  ManagersOK'
  BY <1>24 DEF HealthBegins, Fault, Begins, Recorded
<1>25. ASSUME NEW s \in Service, NEW g \in {"start", "restart", "stop"}, DashboardBegins(s, g)
      PROVE  ManagersOK'
  BY <1>25 DEF DashboardBegins, DashboardSwitches, Begins, Recorded
<1>26. CASE UNCHANGED supervisionVars
  BY <1>26 DEF supervisionVars
<1> HIDE DEF FilesOK, ManagersOK, Place, ManagersStand, fileVars, serviceVars, managerVars,
       givenVars, switchVars, historyVars
<1> QED
  BY ONLY [SupervisionNext]_supervisionVars, <1>1, <1>2, <1>3, <1>4, <1>5, <1>6, <1>7, <1>8,
       <1>9, <1>10, <1>11, <1>12, <1>13, <1>14, <1>15, <1>16, <1>17, <1>18, <1>19, <1>20,
       <1>21, <1>22, <1>23, <1>24, <1>25, <1>26
     DEF SupervisionNext, ServiceStep, Breakdown, JobStep, ManagersStand

\* A PID is read from the file of the service, and an instance is awaited by its PID.
LEMMA RecordsKept ==
  ASSUME FilesOK, FilesFit, ManagersOK, RecordsFit, [SupervisionNext]_supervisionVars
  PROVE  RecordsFit'
<1> USE Services, AfterClearIs
    DEF FilesOK, FilesFit, ManagersOK, Place, RecordsFit, ManagersStand, fileVars,
        serviceVars, managerVars, givenVars, switchVars, historyVars
<1>1. ASSUME NEW p \in Pid, ClaimService(p), ManagersStand
      PROVE  RecordsFit'
  BY <1>1 DEF ClaimService, Free, Unlinked
<1>2. ASSUME NEW p \in Pid, SeesStop(p), ManagersStand
      PROVE  RecordsFit'
  BY <1>2 DEF SeesStop
<1>3. ASSUME NEW p \in Pid, RunnerBeats(p), ManagersStand
      PROVE  RecordsFit'
  BY <1>3 DEF RunnerBeats, WriteBeat
<1>4. ASSUME NEW p \in Pid, CloseService(p), ManagersStand
      PROVE  RecordsFit'
  BY <1>4 DEF CloseService, Unlinked
<1>5. ASSUME NEW p \in Pid, StrangerEnds(p), ManagersStand
      PROVE  RecordsFit'
  BY <1>5 DEF StrangerEnds
<1>6. ASSUME NEW p \in Pid, Crash(p), ManagersStand
      PROVE  RecordsFit'
  BY <1>6 DEF Crash, Fault, OfService, Free
<1>7. ASSUME NEW s \in Service, BeatGrowsOld(s), ManagersStand
      PROVE  RecordsFit'
  BY <1>7 DEF BeatGrowsOld, Fault
<1>8. ASSUME NEW m \in Manager, LeavesAlone(m)
      PROVE  RecordsFit'
  BY <1>8 DEF LeavesAlone, Fault, Goes
<1>9. ASSUME NEW m \in Manager, ClearsGone(m)
      PROVE  RecordsFit'
  BY <1>9 DEF ClearsGone, Clear, Owns, Unlinked, Gone, Alive, Disturbs, Recorded, Goes
<1>10. ASSUME NEW m \in Manager, AsksToStop(m)
      PROVE  RecordsFit'
  BY <1>10 DEF AsksToStop, Fault, RequestStop, Goes
<1>11. ASSUME NEW m \in Manager, SeesGone(m)
      PROVE  RecordsFit'
  BY <1>11 DEF SeesGone, Clear, Owns, Unlinked, Alive, Goes
<1>12. ASSUME NEW m \in Manager, KillsOld(m)
      PROVE  RecordsFit'
  BY <1>12 DEF KillsOld, Confirmed, OfService, Goes
<1>13. ASSUME NEW m \in Manager, GivesUpStopping(m)
      PROVE  RecordsFit'
  BY <1>13 DEF GivesUpStopping, Fault, Goes
<1>14. ASSUME NEW m \in Manager, AsksSupervisor(m)
      PROVE  RecordsFit'
  BY <1>14 DEF AsksSupervisor, RequestStop, Goes
<1>15. ASSUME NEW m \in Manager, ClearsSupervisor(m)
      PROVE  RecordsFit'
  BY <1>15
    DEF ClearsSupervisor, Fault, OfService, Clear, Owns, Unlinked, Disturbs, Recorded, Goes
<1>16. ASSUME NEW m \in Manager, KillsSupervisor(m)
      PROVE  RecordsFit'
  BY <1>16 DEF KillsSupervisor, Goes
<1>17. ASSUME NEW m \in Manager, NEW p \in Pid, Launches(m, p)
      PROVE  RecordsFit'
  BY <1>17 DEF Launches, Unlinked
<1>18. ASSUME NEW m \in Manager, FailsToLaunch(m)
      PROVE  RecordsFit'
  BY <1>18 DEF FailsToLaunch, Fault, Goes
<1>19. ASSUME NEW m \in Manager, EndsWait(m)
      PROVE  RecordsFit'
  BY <1>19 DEF EndsWait, Fault, Goes
<1>20. ASSUME NEW m \in Manager, EndsJob(m)
      PROVE  RecordsFit'
  BY <1>20 DEF EndsJob, WriteBeat, Forgotten
<1>21. ASSUME NEW m \in Manager, Stops(m)
      PROVE  RecordsFit'
  BY <1>21 DEF Stops, Forgotten
<1>22. ASSUME NEW m \in SupervisorPid, SupervisorBegins(m)
      PROVE  RecordsFit'
  BY <1>22 DEF SupervisorBegins, Begins, GoalNow, Recorded
<1>23. ASSUME NEW m \in SupervisorPid, SupervisorLeaves(m)
      PROVE  RecordsFit'
  BY <1>23 DEF SupervisorLeaves, SeesStop
<1>24. ASSUME HealthBegins
      PROVE  RecordsFit'
  BY <1>24 DEF HealthBegins, Fault, Begins, Recorded
<1>25. ASSUME NEW s \in Service, NEW g \in {"start", "restart", "stop"}, DashboardBegins(s, g)
      PROVE  RecordsFit'
  BY <1>25 DEF DashboardBegins, DashboardSwitches, Begins, Recorded
<1>26. CASE UNCHANGED supervisionVars
  BY <1>26 DEF supervisionVars
<1> HIDE DEF FilesOK, FilesFit, ManagersOK, Place, RecordsFit, ManagersStand, fileVars,
       serviceVars, managerVars, givenVars, switchVars, historyVars
<1> QED
  BY ONLY [SupervisionNext]_supervisionVars, <1>1, <1>2, <1>3, <1>4, <1>5, <1>6, <1>7, <1>8,
       <1>9, <1>10, <1>11, <1>12, <1>13, <1>14, <1>15, <1>16, <1>17, <1>18, <1>19, <1>20,
       <1>21, <1>22, <1>23, <1>24, <1>25, <1>26
     DEF SupervisionNext, ServiceStep, Breakdown, JobStep, ManagersStand

\* A file is cleared that is of nobody, of a process that has ended, or disturbs.
LEMMA InstanceKept ==
  ASSUME SupervisionTypeOK, RecordsFit, InstanceRecorded, [SupervisionNext]_supervisionVars
  PROVE  InstanceRecorded'
<1> USE Services
    DEF SupervisionTypeOK, RecordsFit, InstanceRecorded, Instances, ManagersStand, fileVars,
        serviceVars, managerVars, givenVars, switchVars, historyVars
<1>1. ASSUME NEW p \in Pid, ClaimService(p), ManagersStand
      PROVE  InstanceRecorded'
  BY <1>1 DEF ClaimService, Free, Unlinked
<1>2. ASSUME NEW p \in Pid, SeesStop(p), ManagersStand
      PROVE  InstanceRecorded'
  BY <1>2 DEF SeesStop
<1>3. ASSUME NEW p \in Pid, RunnerBeats(p), ManagersStand
      PROVE  InstanceRecorded'
  BY <1>3 DEF RunnerBeats, WriteBeat
<1>4. ASSUME NEW p \in Pid, CloseService(p), ManagersStand
      PROVE  InstanceRecorded'
  BY <1>4 DEF CloseService, Unlinked
<1>5. ASSUME NEW p \in Pid, StrangerEnds(p), ManagersStand
      PROVE  InstanceRecorded'
  BY <1>5 DEF StrangerEnds
<1>6. ASSUME NEW p \in Pid, Crash(p), ManagersStand
      PROVE  InstanceRecorded'
  BY <1>6 DEF Crash, Fault, OfService, Free
<1>7. ASSUME NEW s \in Service, BeatGrowsOld(s), ManagersStand
      PROVE  InstanceRecorded'
  BY <1>7 DEF BeatGrowsOld, Fault
<1>8. ASSUME NEW m \in Manager, LeavesAlone(m)
      PROVE  InstanceRecorded'
  BY <1>8 DEF LeavesAlone, Fault, Goes
<1>9. ASSUME NEW m \in Manager, ClearsGone(m)
      PROVE  InstanceRecorded'
  <2> SUFFICES ASSUME NEW p \in Pid, p \in Instances(ServiceOf(p))', ~ disturbed'
               PROVE  pidFile'[ServiceOf(p)] = p
    BY DEF InstanceRecorded
  <2>1. p \in Instances(ServiceOf(p)) /\ ~ disturbed /\ ~ Disturbs(m) /\ on[m] = "runner"
    BY <1>9 DEF ClearsGone
  <2>2. pidFile[ServiceOf(p)] = p /\ life[p] # "none"
    BY <2>1
  <2>3. CASE ServiceOf(p) = "supervisor"
    BY <1>9, <2>2, <2>3 DEF ClearsGone, Clear, Unlinked
  <2>4. CASE ServiceOf(p) = "runner"
    <3>1. recorded[m] # None
      BY <2>1, <2>2, <2>4 DEF Disturbs, Recorded
    <3>2. recorded[m] # p
      BY <1>9, <2>2 DEF ClearsGone, Gone, Alive
    <3>3. ~ Owns(recorded[m], "runner", pidFile)
      BY <2>2, <2>4, <3>1, <3>2 DEF Owns
    <3> QED
      BY <1>9, <2>2, <2>4, <3>3 DEF ClearsGone, Clear
  <2> QED
    BY <2>3, <2>4
<1>10. ASSUME NEW m \in Manager, AsksToStop(m)
      PROVE  InstanceRecorded'
  BY <1>10 DEF AsksToStop, Fault, RequestStop, Goes
<1>11. ASSUME NEW m \in Manager, SeesGone(m)
      PROVE  InstanceRecorded'
  BY <1>11 DEF SeesGone, Clear, Owns, Unlinked, Alive, Goes
<1>12. ASSUME NEW m \in Manager, KillsOld(m)
      PROVE  InstanceRecorded'
  BY <1>12 DEF KillsOld, Confirmed, OfService, Goes
<1>13. ASSUME NEW m \in Manager, GivesUpStopping(m)
      PROVE  InstanceRecorded'
  BY <1>13 DEF GivesUpStopping, Fault, Goes
<1>14. ASSUME NEW m \in Manager, AsksSupervisor(m)
      PROVE  InstanceRecorded'
  BY <1>14 DEF AsksSupervisor, RequestStop, Goes
<1>15. ASSUME NEW m \in Manager, ClearsSupervisor(m)
      PROVE  InstanceRecorded'
  <2> SUFFICES ASSUME NEW p \in Pid, p \in Instances(ServiceOf(p))', ~ disturbed'
               PROVE  pidFile'[ServiceOf(p)] = p
    BY DEF InstanceRecorded
  <2>1. /\ p \in Instances(ServiceOf(p)) /\ ~ disturbed
        /\ ~ Disturbs(m) /\ on[m] = "supervisor"
        /\ recorded[m] # None => ~ OfService(recorded[m])
    BY <1>15 DEF ClearsSupervisor
  <2>2. pidFile[ServiceOf(p)] = p /\ OfService(p)
    BY <2>1 DEF OfService
  <2>3. CASE ServiceOf(p) = "runner"
    BY <1>15, <2>2, <2>3 DEF ClearsSupervisor, Clear, Unlinked
  <2>4. CASE ServiceOf(p) = "supervisor"
    <3>1. recorded[m] # None
      BY <2>1, <2>2, <2>4 DEF Disturbs, Recorded
    <3>2. ~ Owns(recorded[m], "supervisor", pidFile)
      BY <2>1, <2>2, <2>4, <3>1 DEF Owns
    <3> QED
      BY <1>15, <2>2, <2>4, <3>2 DEF ClearsSupervisor, Clear
  <2> QED
    BY <2>3, <2>4
<1>16. ASSUME NEW m \in Manager, KillsSupervisor(m)
      PROVE  InstanceRecorded'
  BY <1>16 DEF KillsSupervisor, Goes
<1>17. ASSUME NEW m \in Manager, NEW p \in Pid, Launches(m, p)
      PROVE  InstanceRecorded'
  BY <1>17 DEF Launches, Unlinked
<1>18. ASSUME NEW m \in Manager, FailsToLaunch(m)
      PROVE  InstanceRecorded'
  BY <1>18 DEF FailsToLaunch, Fault, Goes
<1>19. ASSUME NEW m \in Manager, EndsWait(m)
      PROVE  InstanceRecorded'
  BY <1>19 DEF EndsWait, Fault, Goes
<1>20. ASSUME NEW m \in Manager, EndsJob(m)
      PROVE  InstanceRecorded'
  BY <1>20 DEF EndsJob, WriteBeat, Forgotten
<1>21. ASSUME NEW m \in Manager, Stops(m)
      PROVE  InstanceRecorded'
  BY <1>21 DEF Stops, Forgotten
<1>22. ASSUME NEW m \in SupervisorPid, SupervisorBegins(m)
      PROVE  InstanceRecorded'
  BY <1>22 DEF SupervisorBegins, Begins, GoalNow, Recorded
<1>23. ASSUME NEW m \in SupervisorPid, SupervisorLeaves(m)
      PROVE  InstanceRecorded'
  BY <1>23 DEF SupervisorLeaves, SeesStop
<1>24. ASSUME HealthBegins
      PROVE  InstanceRecorded'
  BY <1>24 DEF HealthBegins, Fault, Begins, Recorded
<1>25. ASSUME NEW s \in Service, NEW g \in {"start", "restart", "stop"}, DashboardBegins(s, g)
      PROVE  InstanceRecorded'
  BY <1>25 DEF DashboardBegins, DashboardSwitches, Begins, Recorded
<1>26. CASE UNCHANGED supervisionVars
  BY <1>26 DEF supervisionVars
<1> HIDE DEF SupervisionTypeOK, RecordsFit, InstanceRecorded, Instances, ManagersStand,
       fileVars, serviceVars, managerVars, givenVars, switchVars, historyVars
<1> QED
  BY ONLY [SupervisionNext]_supervisionVars, <1>1, <1>2, <1>3, <1>4, <1>5, <1>6, <1>7, <1>8,
       <1>9, <1>10, <1>11, <1>12, <1>13, <1>14, <1>15, <1>16, <1>17, <1>18, <1>19, <1>20,
       <1>21, <1>22, <1>23, <1>24, <1>25, <1>26
     DEF SupervisionNext, ServiceStep, Breakdown, JobStep, ManagersStand

\* The manager of the Runner asks again whose PID it is.
LEMMA StrangersSpared ==
  ASSUME SupervisionTypeOK, NoStrangerKilled, [SupervisionNext]_supervisionVars
  PROVE  NoStrangerKilled'
<1> USE Services
    DEF SupervisionTypeOK, NoStrangerKilled, ManagersStand, fileVars, serviceVars,
        managerVars, givenVars, switchVars, historyVars
<1>1. ASSUME NEW p \in Pid, ClaimService(p), ManagersStand
      PROVE  NoStrangerKilled'
  BY <1>1 DEF ClaimService, Free, Unlinked
<1>2. ASSUME NEW p \in Pid, SeesStop(p), ManagersStand
      PROVE  NoStrangerKilled'
  BY <1>2 DEF SeesStop
<1>3. ASSUME NEW p \in Pid, RunnerBeats(p), ManagersStand
      PROVE  NoStrangerKilled'
  BY <1>3 DEF RunnerBeats, WriteBeat
<1>4. ASSUME NEW p \in Pid, CloseService(p), ManagersStand
      PROVE  NoStrangerKilled'
  BY <1>4 DEF CloseService, Unlinked
<1>5. ASSUME NEW p \in Pid, StrangerEnds(p), ManagersStand
      PROVE  NoStrangerKilled'
  BY <1>5 DEF StrangerEnds
<1>6. ASSUME NEW p \in Pid, Crash(p), ManagersStand
      PROVE  NoStrangerKilled'
  BY <1>6 DEF Crash, Fault, OfService, Free
<1>7. ASSUME NEW s \in Service, BeatGrowsOld(s), ManagersStand
      PROVE  NoStrangerKilled'
  BY <1>7 DEF BeatGrowsOld, Fault
<1>8. ASSUME NEW m \in Manager, LeavesAlone(m)
      PROVE  NoStrangerKilled'
  BY <1>8 DEF LeavesAlone, Fault, Goes
<1>9. ASSUME NEW m \in Manager, ClearsGone(m)
      PROVE  NoStrangerKilled'
  BY <1>9 DEF ClearsGone, Clear, Owns, Unlinked, Gone, Alive, Disturbs, Recorded, Goes
<1>10. ASSUME NEW m \in Manager, AsksToStop(m)
      PROVE  NoStrangerKilled'
  BY <1>10 DEF AsksToStop, Fault, RequestStop, Goes
<1>11. ASSUME NEW m \in Manager, SeesGone(m)
      PROVE  NoStrangerKilled'
  BY <1>11 DEF SeesGone, Clear, Owns, Unlinked, Alive, Goes
<1>12. ASSUME NEW m \in Manager, KillsOld(m)
      PROVE  NoStrangerKilled'
  BY <1>12 DEF KillsOld, Confirmed, OfService, Goes
<1>13. ASSUME NEW m \in Manager, GivesUpStopping(m)
      PROVE  NoStrangerKilled'
  BY <1>13 DEF GivesUpStopping, Fault, Goes
<1>14. ASSUME NEW m \in Manager, AsksSupervisor(m)
      PROVE  NoStrangerKilled'
  BY <1>14 DEF AsksSupervisor, RequestStop, Goes
<1>15. ASSUME NEW m \in Manager, ClearsSupervisor(m)
      PROVE  NoStrangerKilled'
  BY <1>15
    DEF ClearsSupervisor, Fault, OfService, Clear, Owns, Unlinked, Disturbs, Recorded, Goes
<1>16. ASSUME NEW m \in Manager, KillsSupervisor(m)
      PROVE  NoStrangerKilled'
  BY <1>16 DEF KillsSupervisor, Goes
<1>17. ASSUME NEW m \in Manager, NEW p \in Pid, Launches(m, p)
      PROVE  NoStrangerKilled'
  BY <1>17 DEF Launches, Unlinked
<1>18. ASSUME NEW m \in Manager, FailsToLaunch(m)
      PROVE  NoStrangerKilled'
  BY <1>18 DEF FailsToLaunch, Fault, Goes
<1>19. ASSUME NEW m \in Manager, EndsWait(m)
      PROVE  NoStrangerKilled'
  BY <1>19 DEF EndsWait, Fault, Goes
<1>20. ASSUME NEW m \in Manager, EndsJob(m)
      PROVE  NoStrangerKilled'
  BY <1>20 DEF EndsJob, WriteBeat, Forgotten
<1>21. ASSUME NEW m \in Manager, Stops(m)
      PROVE  NoStrangerKilled'
  BY <1>21 DEF Stops, Forgotten
<1>22. ASSUME NEW m \in SupervisorPid, SupervisorBegins(m)
      PROVE  NoStrangerKilled'
  BY <1>22 DEF SupervisorBegins, Begins, GoalNow, Recorded
<1>23. ASSUME NEW m \in SupervisorPid, SupervisorLeaves(m)
      PROVE  NoStrangerKilled'
  BY <1>23 DEF SupervisorLeaves, SeesStop
<1>24. ASSUME HealthBegins
      PROVE  NoStrangerKilled'
  BY <1>24 DEF HealthBegins, Fault, Begins, Recorded
<1>25. ASSUME NEW s \in Service, NEW g \in {"start", "restart", "stop"}, DashboardBegins(s, g)
      PROVE  NoStrangerKilled'
  BY <1>25 DEF DashboardBegins, DashboardSwitches, Begins, Recorded
<1>26. CASE UNCHANGED supervisionVars
  BY <1>26 DEF supervisionVars
<1> HIDE DEF SupervisionTypeOK, NoStrangerKilled, ManagersStand, fileVars, serviceVars,
       managerVars, givenVars, switchVars, historyVars
<1> QED
  BY ONLY [SupervisionNext]_supervisionVars, <1>1, <1>2, <1>3, <1>4, <1>5, <1>6, <1>7, <1>8,
       <1>9, <1>10, <1>11, <1>12, <1>13, <1>14, <1>15, <1>16, <1>17, <1>18, <1>19, <1>20,
       <1>21, <1>22, <1>23, <1>24, <1>25, <1>26
     DEF SupervisionNext, ServiceStep, Breakdown, JobStep, ManagersStand

\* Before anything runs, no file names anybody.
LEMMA SupervisionInvStarts == SupervisionInit => SupervisionInv
<1> SUFFICES ASSUME SupervisionInit PROVE SupervisionInv
  OBVIOUS
<1> USE Services DEF SupervisionInit, FilesInit
<1>1. SupervisionTypeOK
  <2>1. FilesOK /\ FilesFit
    BY DEF FilesOK, FilesFit
  <2>2. LivesOK
    <3>1. life \in [Pid -> Life] /\ faults \in 0..MaxFaults /\ requests \in 0..MaxRequests
      BY FaultsAssumption, RequestsAssumption DEF Life
    <3> QED
      BY <3>1 DEF LivesOK
  <2>3. ManagersOK
    BY DEF ManagersOK, Place
  <2> QED
    BY <2>1, <2>2, <2>3, TypeParts
<1>2. RecordsFit
  BY DEF RecordsFit
<1>3. InstanceRecorded /\ NoStrangerKilled
  BY DEF InstanceRecorded, Instances, NoStrangerKilled
<1> QED
  BY <1>1, <1>2, <1>3 DEF SupervisionInv

\* Every step of a service or a manager keeps the invariant.
LEMMA SupervisionInvKept ==
  SupervisionInv /\ [SupervisionNext]_supervisionVars => SupervisionInv'
<1> SUFFICES ASSUME SupervisionInv, [SupervisionNext]_supervisionVars PROVE SupervisionInv'
  OBVIOUS
<1> USE DEF SupervisionInv
<1>1. SupervisionTypeOK'
  BY TypeParts, FilesKept, FilesFitKept, LivesKept, ManagersKept
     DEF SupervisionTypeOK, FilesOK, FilesFit, LivesOK, ManagersOK, Place
<1>2. RecordsFit' /\ InstanceRecorded' /\ NoStrangerKilled'
  BY TypeParts, RecordsKept, InstanceKept, StrangersSpared
<1> QED
  BY <1>1, <1>2

\* The inductive invariant of the services and their managers.
THEOREM SupervisionInvariant == SupervisionSpec => []SupervisionInv
  BY SupervisionInvStarts, SupervisionInvKept, PTL DEF SupervisionSpec

\* The files name processes of their service, the bounds hold.
THEOREM SupervisionTypeCorrect == SupervisionSpec => []SupervisionTypeOK
<1>1. SupervisionInv => SupervisionTypeOK
  BY DEF SupervisionInv
<1> QED
  BY <1>1, SupervisionInvariant, PTL

\* A running service is the one its PID file names, unless a manager has removed the
\* file of an instance it did not see or could not identify.
THEOREM RunningIsRecorded == SupervisionSpec => []InstanceRecorded
<1>1. SupervisionInv => InstanceRecorded
  BY DEF SupervisionInv
<1> QED
  BY <1>1, SupervisionInvariant, PTL

\* So there is one instance of a service at most.
OneInstance ==
  \A s \in Service : \A p, q \in Instances(s) : p = q \/ disturbed

\* No two instances of a service run, under the same exception.
THEOREM ServicesAreSingle == SupervisionSpec => []OneInstance
<1>1. SupervisionInv => OneInstance
  BY Services DEF SupervisionInv, InstanceRecorded, OneInstance, Instances
<1> QED
  BY <1>1, SupervisionInvariant, PTL

\* The managers of the Runner end no program that has got its number.
THEOREM StrangersLive == SupervisionSpec => []NoStrangerKilled
<1>1. SupervisionInv => NoStrangerKilled
  BY DEF SupervisionInv
<1> QED
  BY <1>1, SupervisionInvariant, PTL

-----------------------------------------------------------------------------
(***************************************************************************)
(* The scenes of the run begin with services that are up.                  *)
(***************************************************************************)
\* A scene with one instance of a service at most names it in the files.
LEMMA UpIsRecorded ==
  ASSUME NEW S \in SUBSET Pid,
         \A p, q \in S : ServiceOf(p) = ServiceOf(q) => p = q,
         UpWith(S), installed \in BOOLEAN, asked \subseteq Service, faults \in 0..MaxFaults
  PROVE  SupervisionInv
<1> DEFINE up(s) == {p \in S : ServiceOf(p) = s}
           named == [s \in Service |-> IF up(s) = {} THEN None ELSE CHOOSE p \in up(s) : TRUE]
<1> USE Services
<1>1. \A s \in Service : named[s] = None \/ named[s] \in PidOf(s)
  <2>1. ASSUME NEW s \in Service, up(s) # {} PROVE named[s] \in up(s)
    BY <2>1
  <2>2. ASSUME NEW s \in Service PROVE up(s) \subseteq PidOf(s)
    OBVIOUS
  <2> QED
    BY <2>1, <2>2
<1>2. \A p \in S : named[ServiceOf(p)] = p
  <2>1. ASSUME NEW p \in S PROVE up(ServiceOf(p)) = {p}
    OBVIOUS
  <2> QED
    BY <2>1
<1>3. pidFile = named /\ beatFile = named
  BY DEF UpWith
<1> HIDE DEF named
<1>4. SupervisionTypeOK
  <2>1. FilesOK /\ FilesFit
    <3>1. named \in [Service -> Pid \cup {None}]
      BY <1>1 DEF named
    <3>2. \A s \in Service : stopFile[s] = None
      BY DEF UpWith
    <3>3. FilesOK
      BY <1>3, <3>1 DEF FilesOK, UpWith
    <3> QED
      BY <1>1, <1>3, <3>2, <3>3 DEF FilesFit
  <2>2. LivesOK
    <3>1. life \in [Pid -> Life] /\ requests \in 0..MaxRequests
      BY RequestsAssumption DEF UpWith, Life
    <3> QED
      BY <3>1 DEF LivesOK, UpWith
  <2>3. ManagersOK
    BY DEF ManagersOK, Place, UpWith
  <2> QED
    BY <2>1, <2>2, <2>3, TypeParts
<1>5. RecordsFit
  BY DEF RecordsFit, UpWith
<1>6. InstanceRecorded
  <2>1. ASSUME NEW p \in Pid, p \in Instances(ServiceOf(p)) PROVE p \in S
    BY <2>1 DEF Instances, UpWith
  <2> QED
    BY <1>2, <1>3, <2>1 DEF InstanceRecorded
<1>7. NoStrangerKilled
  BY DEF NoStrangerKilled, UpWith
<1> QED
  BY <1>4, <1>5, <1>6, <1>7 DEF SupervisionInv

\* In the scenes too a running service is the one its PID file names, and no stranger
\* is killed.
THEOREM ScenesAreRecorded ==
  ASSUME s1 \in SupervisorPid, r1 \in RunnerPid
  PROVE  SceneSpec => [](InstanceRecorded /\ NoStrangerKilled)
<1>1. Boot => SupervisionInv
  BY SupervisionInvStarts DEF Boot
<1>2. Shared => SupervisionInv
  <2>1. 0 \in 0..MaxFaults
    BY FaultsAssumption
  <2> QED
    BY <2>1, Services, UpIsRecorded DEF Shared
<1>3. Served => SupervisionInv
  <2>1. MaxFaults \in 0..MaxFaults
    BY FaultsAssumption
  <2>2. ServiceOf(s1) # ServiceOf(r1) /\ {s1, r1} \in SUBSET Pid
    BY Services DEF Pid
  <2>3. Served => SupervisionInv
    BY <2>1, <2>2, Services, UpIsRecorded DEF Served
  <2> QED
    BY <2>3
<1>4. SceneInit => SupervisionInv
  BY <1>1, <1>2, <1>3 DEF SceneInit
<1>5. SupervisionInv => InstanceRecorded /\ NoStrangerKilled
  BY DEF SupervisionInv
<1> QED
  BY <1>4, <1>5, SupervisionInvKept, PTL DEF SceneSpec

=============================================================================
