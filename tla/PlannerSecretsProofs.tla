------------------------- MODULE PlannerSecretsProofs -------------------------
(***************************************************************************)
(* Theorems of a Planner process (PlannerRun), of the secret store         *)
(* (SecretStore) and of the provider client that reads from it             *)
(* (ProviderClient).                                                       *)
(***************************************************************************)
EXTENDS MCPlannerSecrets, TLAPS

-----------------------------------------------------------------------------
(***************************************************************************)
(* The Planner process.                                                    *)
(*                                                                         *)
(* The heart of the argument is that the main thread's last report cannot  *)
(* be refused: the guard has been left, so no other command is under way,  *)
(* and then the controller's copy of row_version is the row's own.         *)
(***************************************************************************)
\* The limits, as the places of the program keep them.
WithinLimits ==
  /\ pc \in {"start", "enter", "attempt", "launch"} => attempt <= MaxRetries
  /\ pc = "step" => step < MaxSteps

\* A verdict is reported once the model has delivered one, and an inspection that
\* is open has no outcome yet; an accepted report has been recorded.
Decided ==
  /\ pc \in {"verdict", "finish"} => outcome # "NONE"
  /\ row \in {"QUEUED", "INSPECTING"} => recorded = "NONE"
  /\ printed # "NONE" => row \notin {"QUEUED", "INSPECTING"} /\ recorded = printed
  /\ pc \in {"finish", "fail"} /\ call["main"] = "done" =>
       row \notin {"QUEUED", "INSPECTING"} /\ recorded = Reported

\* Where no command is under way: in the main thread between its commands, and in
\* the heartbeat thread when it does not run.
Quiet ==
  /\ pc \in {"start", "launch", "model", "leave", "ended"} => call["main"] = "none"
  /\ thread = "off" => call["thread"] = "none"
  /\ pc \in {"start", "enter"} => thread = "off"
  /\ pc = "start" => row = "QUEUED"
  /\ pc = "fail" \/ (pc = "finish" /\ runtime = "agent") => thread = "off" \/ disturbed

\* The one answer that has the row's version is that of caller x.
HeldBy(x) ==
  /\ call[x] = "done"
  /\ current = {x}
  /\ \A y \in Caller \ {x} : call[y] # "done"

\* The row's version is the controller's, or in the one answer under way.
VersionKnown ==
  ~ disturbed /\ row = "INSPECTING" =>
    \/ "controller" \in current /\ \A x \in Caller : call[x] # "done"
    \/ \E x \in Caller : HeldBy(x)

\* The report of a failure carries the row's version.
LastReportAccepted ==
  ~ disturbed /\ row = "INSPECTING" /\ pc = "fail" =>
    call["main"] = "none" \/ (call["main"] = "sent" /\ "main" \in current)

\* A recorded verdict leaves the process nothing but to hear of it and to leave.
OverOnceRecorded ==
  recorded \in Verdict =>
    \/ disturbed
    \/ pc \in {"finish", "fail"} /\ call["main"] = "done"
    \/ (pc = "ended" \/ (pc = "leave" /\ runtime = "codex")) /\ printed # "NONE"

PlannerRunInv ==
  /\ PlannerTypeOK
  /\ WithinLimits
  /\ Decided
  /\ Quiet
  /\ VersionKnown
  /\ LastReportAccepted
  /\ OverOnceRecorded
  /\ InspectionClosed

\* The two threads, as elements.
LEMMA CallersAre == "main" \in Caller /\ "thread" \in Caller
  BY DEF Caller

\* The process begins before any command, attempt or outcome.
LEMMA PlannerRunInvStarts == PlannerInit => PlannerRunInv
<1> SUFFICES ASSUME PlannerInit PROVE PlannerRunInv
  OBVIOUS
<1>1. call["main"] = "none" /\ call["thread"] = "none"
  BY DEF PlannerInit, Caller
<1>2. PlannerTypeOK
  <2>1. call \in [Caller -> {"none", "sent", "done", "failed"}]
    BY DEF PlannerInit
  <2>2. attempt \in 0..(MaxRetries + 1) /\ step \in 0..MaxSteps
    BY PlannerLimits DEF PlannerInit
  <2> QED
    BY <2>1, <2>2 DEF PlannerInit, PlannerTypeOK, BeatPoint
<1>3. WithinLimits /\ Decided /\ Quiet
  BY <1>1, PlannerLimits DEF PlannerInit, WithinLimits, Decided, Quiet
<1>4. VersionKnown /\ LastReportAccepted /\ OverOnceRecorded /\ InspectionClosed
  BY
    DEF PlannerInit, Verdict, VersionKnown, LastReportAccepted, OverOnceRecorded,
        InspectionClosed
<1> QED
  BY <1>2, <1>3, <1>4 DEF PlannerRunInv

\* Commands are sent, answered, refused, lost and heard.
LEMMA CallKept ==
  ASSUME PlannerTypeOK, [PlannerNext]_plannerVars
  PROVE  call' \in [Caller -> {"none", "sent", "done", "failed"}]
<1> USE CallersAre DEF PlannerTypeOK, rowVars, modelVars, callVars
<1>1. ASSUME NEW x \in Caller, HeartbeatCommand(x) PROVE call' \in [Caller -> {"none",
     "sent", "done", "failed"}]
  BY <1>1 DEF HeartbeatCommand, IsBeat, Refuse
<1>2. CASE FinishCommand
  BY <1>2 DEF FinishCommand, Replayed, Refuse, Reported
<1>3. ASSUME NEW x \in Caller, CallLost(x) PROVE call' \in [Caller -> {"none", "sent",
     "done", "failed"}]
  BY <1>3 DEF CallLost
<1>4. CASE ThreadBeats
  BY <1>4 DEF ThreadBeats, Send
<1>5. CASE ThreadHears
  BY <1>5 DEF ThreadHears, KeepVersion
<1>6. CASE ThreadStops
  BY <1>6 DEF ThreadStops
<1>7. CASE ClaimInspection
  BY <1>7 DEF ClaimInspection, GoTo
<1>8. CASE MainBeats
  BY <1>8 DEF MainBeats, Send, RaiseAt, AttemptError, AttemptsLeft, FirstPoint, GoTo
<1>9. CASE MainBeatFails
  BY <1>9 DEF MainBeatFails, RaiseAt, AttemptError, AttemptsLeft, FirstPoint, GoTo
<1>10. CASE Enter
  BY <1>10 DEF Enter, Beat, KeepVersion, FirstPoint, GoTo
<1>11. CASE BeginAttempt
  BY <1>11 DEF BeginAttempt, Beat, KeepVersion, GoTo
<1>12. CASE BeginStep
  BY <1>12 DEF BeginStep, Beat, KeepVersion, AttemptError, AttemptsLeft, FirstPoint, GoTo
<1>13. CASE RunTool
  BY <1>13 DEF RunTool, Beat, KeepVersion, AttemptError, AttemptsLeft, FirstPoint, GoTo
<1>14. CASE LaunchCodex
  BY <1>14 DEF LaunchCodex, GoTo
<1>15. CASE ModelAnswers
  BY <1>15 DEF ModelAnswers, AttemptError, AttemptsLeft, FirstPoint, GoTo
<1>16. CASE ModelGivenUp
  BY <1>16 DEF ModelGivenUp, AttemptError, AttemptsLeft, FirstPoint, GoTo
<1>17. CASE VerdictStands
  BY <1>17 DEF VerdictStands, Beat, KeepVersion, GoTo
<1>18. CASE LeaveGuard
  BY <1>18 DEF LeaveGuard, Joined, GoTo
<1>19. CASE SendVerdict
  BY <1>19 DEF SendVerdict, Send
<1>20. CASE FinishAccepted
  BY <1>20 DEF FinishAccepted, AfterReport, Reported, GoTo
<1>21. CASE FinishFails
  BY <1>21 DEF FinishFails, AttemptError, AttemptsLeft, FirstPoint, GoTo
<1>22. CASE Interrupted
  BY <1>22 DEF Interrupted, GoTo
<1>23. CASE TimesOut
  BY <1>23 DEF TimesOut
<1>24. CASE VersionRaised
  BY <1>24 DEF VersionRaised
<1>25. CASE DeadlinePasses
  BY <1>25 DEF DeadlinePasses
<1>26. CASE UNCHANGED plannerVars
  BY <1>26 DEF plannerVars
<1>27. CASE InterruptEnds
  BY <1>27 DEF InterruptEnds, GoTo
<1> HIDE DEF PlannerTypeOK, rowVars, modelVars, callVars
<1> QED
  BY ONLY [PlannerNext]_plannerVars, <1>1, <1>2, <1>3, <1>4, <1>5, <1>6, <1>7, <1>8, <1>9,
       <1>10, <1>11, <1>12, <1>13, <1>14, <1>15, <1>16, <1>17, <1>18, <1>19, <1>20, <1>21,
       <1>22, <1>23, <1>24, <1>25, <1>26, <1>27
    DEF PlannerNext, MainStep, ThreadStep, CallStep

\* Only callers and the controller hold a copy of the version.
LEMMA CurrentKept ==
  ASSUME PlannerTypeOK, [PlannerNext]_plannerVars
  PROVE  current' \subseteq Caller \cup {"controller"}
<1> USE CallersAre DEF PlannerTypeOK, rowVars, modelVars, callVars
<1>1. ASSUME NEW x \in Caller, HeartbeatCommand(x) PROVE current' \subseteq Caller \cup
     {"controller"}
  BY <1>1 DEF HeartbeatCommand, IsBeat, Refuse
<1>2. CASE FinishCommand
  BY <1>2 DEF FinishCommand, Replayed, Refuse, Reported
<1>3. ASSUME NEW x \in Caller, CallLost(x) PROVE current' \subseteq Caller \cup
     {"controller"}
  BY <1>3 DEF CallLost
<1>4. CASE ThreadBeats
  BY <1>4 DEF ThreadBeats, Send
<1>5. CASE ThreadHears
  BY <1>5 DEF ThreadHears, KeepVersion
<1>6. CASE ThreadStops
  BY <1>6 DEF ThreadStops
<1>7. CASE ClaimInspection
  BY <1>7 DEF ClaimInspection, GoTo
<1>8. CASE MainBeats
  BY <1>8 DEF MainBeats, Send, RaiseAt, AttemptError, AttemptsLeft, FirstPoint, GoTo
<1>9. CASE MainBeatFails
  BY <1>9 DEF MainBeatFails, RaiseAt, AttemptError, AttemptsLeft, FirstPoint, GoTo
<1>10. CASE Enter
  BY <1>10 DEF Enter, Beat, KeepVersion, FirstPoint, GoTo
<1>11. CASE BeginAttempt
  BY <1>11 DEF BeginAttempt, Beat, KeepVersion, GoTo
<1>12. CASE BeginStep
  BY <1>12 DEF BeginStep, Beat, KeepVersion, AttemptError, AttemptsLeft, FirstPoint, GoTo
<1>13. CASE RunTool
  BY <1>13 DEF RunTool, Beat, KeepVersion, AttemptError, AttemptsLeft, FirstPoint, GoTo
<1>14. CASE LaunchCodex
  BY <1>14 DEF LaunchCodex, GoTo
<1>15. CASE ModelAnswers
  BY <1>15 DEF ModelAnswers, AttemptError, AttemptsLeft, FirstPoint, GoTo
<1>16. CASE ModelGivenUp
  BY <1>16 DEF ModelGivenUp, AttemptError, AttemptsLeft, FirstPoint, GoTo
<1>17. CASE VerdictStands
  BY <1>17 DEF VerdictStands, Beat, KeepVersion, GoTo
<1>18. CASE LeaveGuard
  BY <1>18 DEF LeaveGuard, Joined, GoTo
<1>19. CASE SendVerdict
  BY <1>19 DEF SendVerdict, Send
<1>20. CASE FinishAccepted
  BY <1>20 DEF FinishAccepted, AfterReport, Reported, GoTo
<1>21. CASE FinishFails
  BY <1>21 DEF FinishFails, AttemptError, AttemptsLeft, FirstPoint, GoTo
<1>22. CASE Interrupted
  BY <1>22 DEF Interrupted, GoTo
<1>23. CASE TimesOut
  BY <1>23 DEF TimesOut
<1>24. CASE VersionRaised
  BY <1>24 DEF VersionRaised
<1>25. CASE DeadlinePasses
  BY <1>25 DEF DeadlinePasses
<1>26. CASE UNCHANGED plannerVars
  BY <1>26 DEF plannerVars
<1>27. CASE InterruptEnds
  BY <1>27 DEF InterruptEnds, GoTo
<1> HIDE DEF PlannerTypeOK, rowVars, modelVars, callVars
<1> QED
  BY ONLY [PlannerNext]_plannerVars, <1>1, <1>2, <1>3, <1>4, <1>5, <1>6, <1>7, <1>8, <1>9,
       <1>10, <1>11, <1>12, <1>13, <1>14, <1>15, <1>16, <1>17, <1>18, <1>19, <1>20, <1>21,
       <1>22, <1>23, <1>24, <1>25, <1>26, <1>27
    DEF PlannerNext, MainStep, ThreadStep, CallStep

\* attempt is compared with MaxRetries, and step with MaxSteps, before they are raised.
LEMMA LimitsKept ==
  ASSUME PlannerTypeOK, WithinLimits, [PlannerNext]_plannerVars
  PROVE  attempt' \in 0..(MaxRetries + 1) /\ step' \in 0..MaxSteps /\ WithinLimits'
<1> USE PlannerLimits
    DEF PlannerTypeOK, WithinLimits, BeatPoint, rowVars, modelVars, callVars
<1>1. ASSUME NEW x \in Caller, HeartbeatCommand(x) PROVE attempt' \in 0..(MaxRetries + 1) /\
     step' \in 0..MaxSteps /\ WithinLimits'
  BY <1>1 DEF HeartbeatCommand, IsBeat, Refuse
<1>2. CASE FinishCommand
  BY <1>2 DEF FinishCommand, Replayed, Refuse, Reported
<1>3. ASSUME NEW x \in Caller, CallLost(x) PROVE attempt' \in 0..(MaxRetries + 1) /\ step'
     \in 0..MaxSteps /\ WithinLimits'
  BY <1>3 DEF CallLost
<1>4. CASE ThreadBeats
  BY <1>4 DEF ThreadBeats, Send
<1>5. CASE ThreadHears
  BY <1>5 DEF ThreadHears, KeepVersion
<1>6. CASE ThreadStops
  BY <1>6 DEF ThreadStops
<1>7. CASE ClaimInspection
  BY <1>7 DEF ClaimInspection, GoTo
<1>8. CASE MainBeats
  BY <1>8 DEF MainBeats, Send, RaiseAt, AttemptError, AttemptsLeft, FirstPoint, GoTo
<1>9. CASE MainBeatFails
  BY <1>9 DEF MainBeatFails, RaiseAt, AttemptError, AttemptsLeft, FirstPoint, GoTo
<1>10. CASE Enter
  BY <1>10 DEF Enter, Beat, KeepVersion, FirstPoint, GoTo
<1>11. CASE BeginAttempt
  BY <1>11 DEF BeginAttempt, Beat, KeepVersion, GoTo
<1>12. CASE BeginStep
  BY <1>12 DEF BeginStep, Beat, KeepVersion, AttemptError, AttemptsLeft, FirstPoint, GoTo
<1>13. CASE RunTool
  BY <1>13 DEF RunTool, Beat, KeepVersion, AttemptError, AttemptsLeft, FirstPoint, GoTo
<1>14. CASE LaunchCodex
  BY <1>14 DEF LaunchCodex, GoTo
<1>15. CASE ModelAnswers
  BY <1>15 DEF ModelAnswers, AttemptError, AttemptsLeft, FirstPoint, GoTo
<1>16. CASE ModelGivenUp
  BY <1>16 DEF ModelGivenUp, AttemptError, AttemptsLeft, FirstPoint, GoTo
<1>17. CASE VerdictStands
  BY <1>17 DEF VerdictStands, Beat, KeepVersion, GoTo
<1>18. CASE LeaveGuard
  BY <1>18 DEF LeaveGuard, Joined, GoTo
<1>19. CASE SendVerdict
  BY <1>19 DEF SendVerdict, Send
<1>20. CASE FinishAccepted
  BY <1>20 DEF FinishAccepted, AfterReport, Reported, GoTo
<1>21. CASE FinishFails
  BY <1>21 DEF FinishFails, AttemptError, AttemptsLeft, FirstPoint, GoTo
<1>22. CASE Interrupted
  BY <1>22 DEF Interrupted, GoTo
<1>23. CASE TimesOut
  BY <1>23 DEF TimesOut
<1>24. CASE VersionRaised
  BY <1>24 DEF VersionRaised
<1>25. CASE DeadlinePasses
  BY <1>25 DEF DeadlinePasses
<1>26. CASE UNCHANGED plannerVars
  BY <1>26 DEF plannerVars
<1>27. CASE InterruptEnds
  BY <1>27 DEF InterruptEnds, GoTo
<1> HIDE DEF PlannerTypeOK, WithinLimits, BeatPoint, rowVars, modelVars, callVars
<1> QED
  BY ONLY [PlannerNext]_plannerVars, <1>1, <1>2, <1>3, <1>4, <1>5, <1>6, <1>7, <1>8, <1>9,
       <1>10, <1>11, <1>12, <1>13, <1>14, <1>15, <1>16, <1>17, <1>18, <1>19, <1>20, <1>21,
       <1>22, <1>23, <1>24, <1>25, <1>26, <1>27
    DEF PlannerNext, MainStep, ThreadStep, CallStep

\* All variables of the process keep their types.
LEMMA PlannerTypesKept ==
  ASSUME PlannerTypeOK, WithinLimits, [PlannerNext]_plannerVars
  PROVE  PlannerTypeOK'
<1> USE CallKept, CurrentKept, LimitsKept
    DEF PlannerTypeOK, BeatPoint, Verdict, rowVars, modelVars, callVars
<1>1. ASSUME NEW x \in Caller, HeartbeatCommand(x) PROVE PlannerTypeOK'
  BY <1>1 DEF HeartbeatCommand, IsBeat, Refuse
<1>2. CASE FinishCommand
  BY <1>2 DEF FinishCommand, Replayed, Refuse, Reported
<1>3. ASSUME NEW x \in Caller, CallLost(x) PROVE PlannerTypeOK'
  BY <1>3 DEF CallLost
<1>4. CASE ThreadBeats
  BY <1>4 DEF ThreadBeats, Send
<1>5. CASE ThreadHears
  <2>1. runtime' \in {"agent", "codex"} /\ row' \in {"QUEUED", "INSPECTING", "FINISHED",
       "TAKEN"} /\ recorded' \in Verdict \cup {"NONE", "TIMED_OUT"}
    BY <1>5 DEF ThreadHears, KeepVersion
  <2>2. pc' \in BeatPoint \cup {"start", "launch", "model", "leave", "finish", "fail",
       "ended"}
    BY <1>5 DEF ThreadHears, KeepVersion
  <2>3. outcome' \in Verdict \cup {"NONE"} /\ printed' \in Verdict \cup {"NONE"} /\ late'
       \in BOOLEAN
    BY <1>5 DEF ThreadHears, KeepVersion
  <2>4. guardError' \in BOOLEAN /\ thread' \in {"off", "on", "stopping"} /\ disturbed' \in
       BOOLEAN
    BY <1>5 DEF ThreadHears, KeepVersion
  <2> QED
    BY CallKept, CurrentKept, LimitsKept, <2>1, <2>2, <2>3, <2>4
<1>6. CASE ThreadStops
  BY <1>6 DEF ThreadStops
<1>7. CASE ClaimInspection
  <2>1. runtime' \in {"agent", "codex"} /\ row' \in {"QUEUED", "INSPECTING", "FINISHED",
       "TAKEN"} /\ recorded' \in Verdict \cup {"NONE", "TIMED_OUT"}
    BY <1>7 DEF ClaimInspection, GoTo
  <2>2. pc' \in BeatPoint \cup {"start", "launch", "model", "leave", "finish", "fail",
       "ended"}
    BY <1>7 DEF ClaimInspection, GoTo
  <2>3. outcome' \in Verdict \cup {"NONE"} /\ printed' \in Verdict \cup {"NONE"} /\ late'
       \in BOOLEAN
    BY <1>7 DEF ClaimInspection, GoTo
  <2>4. guardError' \in BOOLEAN /\ thread' \in {"off", "on", "stopping"} /\ disturbed' \in
       BOOLEAN
    BY <1>7 DEF ClaimInspection, GoTo
  <2> QED
    BY CallKept, CurrentKept, LimitsKept, <2>1, <2>2, <2>3, <2>4
<1>8. CASE MainBeats
  BY <1>8 DEF MainBeats, Send, RaiseAt, AttemptError, AttemptsLeft, FirstPoint, GoTo
<1>9. CASE MainBeatFails
  BY <1>9 DEF MainBeatFails, RaiseAt, AttemptError, AttemptsLeft, FirstPoint, GoTo
<1>10. CASE Enter
  BY <1>10 DEF Enter, Beat, KeepVersion, FirstPoint, GoTo
<1>11. CASE BeginAttempt
  BY <1>11 DEF BeginAttempt, Beat, KeepVersion, GoTo
<1>12. CASE BeginStep
  BY <1>12 DEF BeginStep, Beat, KeepVersion, AttemptError, AttemptsLeft, FirstPoint, GoTo
<1>13. CASE RunTool
  BY <1>13 DEF RunTool, Beat, KeepVersion, AttemptError, AttemptsLeft, FirstPoint, GoTo
<1>14. CASE LaunchCodex
  <2>1. runtime' \in {"agent", "codex"} /\ row' \in {"QUEUED", "INSPECTING", "FINISHED",
       "TAKEN"} /\ recorded' \in Verdict \cup {"NONE", "TIMED_OUT"}
    BY <1>14 DEF LaunchCodex, GoTo
  <2>2. pc' \in BeatPoint \cup {"start", "launch", "model", "leave", "finish", "fail",
       "ended"}
    BY <1>14 DEF LaunchCodex, GoTo
  <2>3. outcome' \in Verdict \cup {"NONE"} /\ printed' \in Verdict \cup {"NONE"} /\ late'
       \in BOOLEAN
    BY <1>14 DEF LaunchCodex, GoTo
  <2>4. guardError' \in BOOLEAN /\ thread' \in {"off", "on", "stopping"} /\ disturbed' \in
       BOOLEAN
    BY <1>14 DEF LaunchCodex, GoTo
  <2> QED
    BY CallKept, CurrentKept, LimitsKept, <2>1, <2>2, <2>3, <2>4
<1>15. CASE ModelAnswers
  BY <1>15 DEF ModelAnswers, AttemptError, AttemptsLeft, FirstPoint, GoTo
<1>16. CASE ModelGivenUp
  BY <1>16 DEF ModelGivenUp, AttemptError, AttemptsLeft, FirstPoint, GoTo
<1>17. CASE VerdictStands
  BY <1>17 DEF VerdictStands, Beat, KeepVersion, GoTo
<1>18. CASE LeaveGuard
  <2>1. runtime' \in {"agent", "codex"} /\ row' \in {"QUEUED", "INSPECTING", "FINISHED",
       "TAKEN"} /\ recorded' \in Verdict \cup {"NONE", "TIMED_OUT"}
    BY <1>18 DEF LeaveGuard, Joined, GoTo
  <2>2. pc' \in BeatPoint \cup {"start", "launch", "model", "leave", "finish", "fail",
       "ended"}
    BY <1>18 DEF LeaveGuard, Joined, GoTo
  <2>3. outcome' \in Verdict \cup {"NONE"} /\ printed' \in Verdict \cup {"NONE"} /\ late'
       \in BOOLEAN
    BY <1>18 DEF LeaveGuard, Joined, GoTo
  <2>4. guardError' \in BOOLEAN /\ thread' \in {"off", "on", "stopping"} /\ disturbed' \in
       BOOLEAN
    BY <1>18 DEF LeaveGuard, Joined, GoTo
  <2> QED
    BY CallKept, CurrentKept, LimitsKept, <2>1, <2>2, <2>3, <2>4
<1>19. CASE SendVerdict
  BY <1>19 DEF SendVerdict, Send
<1>20. CASE FinishAccepted
  BY <1>20 DEF FinishAccepted, AfterReport, Reported, GoTo
<1>21. CASE FinishFails
  BY <1>21 DEF FinishFails, AttemptError, AttemptsLeft, FirstPoint, GoTo
<1>22. CASE Interrupted
  BY <1>22 DEF Interrupted, GoTo
<1>23. CASE TimesOut
  BY <1>23 DEF TimesOut
<1>24. CASE VersionRaised
  BY <1>24 DEF VersionRaised
<1>25. CASE DeadlinePasses
  BY <1>25 DEF DeadlinePasses
<1>26. CASE UNCHANGED plannerVars
  BY <1>26 DEF plannerVars
<1>27. CASE InterruptEnds
  BY <1>27 DEF InterruptEnds, GoTo
<1> HIDE DEF PlannerTypeOK, BeatPoint, Verdict, rowVars, modelVars, callVars
<1> QED
  BY ONLY [PlannerNext]_plannerVars, <1>1, <1>2, <1>3, <1>4, <1>5, <1>6, <1>7, <1>8, <1>9,
       <1>10, <1>11, <1>12, <1>13, <1>14, <1>15, <1>16, <1>17, <1>18, <1>19, <1>20, <1>21,
       <1>22, <1>23, <1>24, <1>25, <1>26, <1>27
    DEF PlannerNext, MainStep, ThreadStep, CallStep

\* Outcomes: what is reported, recorded and printed agree.
LEMMA DecidedKept ==
  ASSUME PlannerTypeOK, Decided, Quiet, [PlannerNext]_plannerVars
  PROVE  Decided'
<1> USE
    DEF PlannerTypeOK, Decided, Quiet, BeatPoint, Caller, Verdict, Reported, rowVars,
        modelVars, callVars
<1>1. ASSUME NEW x \in Caller, HeartbeatCommand(x) PROVE Decided'
  BY <1>1 DEF HeartbeatCommand, IsBeat, Refuse
<1>2. CASE FinishCommand
  BY <1>2 DEF FinishCommand, Replayed, Refuse, Reported
<1>3. ASSUME NEW x \in Caller, CallLost(x) PROVE Decided'
  BY <1>3 DEF CallLost
<1>4. CASE ThreadBeats
  BY <1>4 DEF ThreadBeats, Send
<1>5. CASE ThreadHears
  BY <1>5 DEF ThreadHears, KeepVersion
<1>6. CASE ThreadStops
  BY <1>6 DEF ThreadStops
<1>7. CASE ClaimInspection
  BY <1>7 DEF ClaimInspection, GoTo
<1>8. CASE MainBeats
  BY <1>8 DEF MainBeats, Send, RaiseAt, AttemptError, AttemptsLeft, FirstPoint, GoTo
<1>9. CASE MainBeatFails
  BY <1>9 DEF MainBeatFails, RaiseAt, AttemptError, AttemptsLeft, FirstPoint, GoTo
<1>10. CASE Enter
  BY <1>10 DEF Enter, Beat, KeepVersion, FirstPoint, GoTo
<1>11. CASE BeginAttempt
  BY <1>11 DEF BeginAttempt, Beat, KeepVersion, GoTo
<1>12. CASE BeginStep
  BY <1>12 DEF BeginStep, Beat, KeepVersion, AttemptError, AttemptsLeft, FirstPoint, GoTo
<1>13. CASE RunTool
  BY <1>13 DEF RunTool, Beat, KeepVersion, AttemptError, AttemptsLeft, FirstPoint, GoTo
<1>14. CASE LaunchCodex
  BY <1>14 DEF LaunchCodex, GoTo
<1>15. CASE ModelAnswers
  BY <1>15 DEF ModelAnswers, AttemptError, AttemptsLeft, FirstPoint, GoTo
<1>16. CASE ModelGivenUp
  BY <1>16 DEF ModelGivenUp, AttemptError, AttemptsLeft, FirstPoint, GoTo
<1>17. CASE VerdictStands
  BY <1>17 DEF VerdictStands, Beat, KeepVersion, GoTo
<1>18. CASE LeaveGuard
  BY <1>18 DEF LeaveGuard, Joined, GoTo
<1>19. CASE SendVerdict
  BY <1>19 DEF SendVerdict, Send
<1>20. CASE FinishAccepted
  BY <1>20 DEF FinishAccepted, AfterReport, Reported, GoTo
<1>21. CASE FinishFails
  BY <1>21 DEF FinishFails, AttemptError, AttemptsLeft, FirstPoint, GoTo
<1>22. CASE Interrupted
  BY <1>22 DEF Interrupted, GoTo
<1>23. CASE TimesOut
  BY <1>23 DEF TimesOut
<1>24. CASE VersionRaised
  BY <1>24 DEF VersionRaised
<1>25. CASE DeadlinePasses
  BY <1>25 DEF DeadlinePasses
<1>26. CASE UNCHANGED plannerVars
  BY <1>26 DEF plannerVars
<1>27. CASE InterruptEnds
  BY <1>27 DEF InterruptEnds, GoTo
<1> HIDE DEF PlannerTypeOK, Decided, Quiet, BeatPoint, Caller, Verdict, Reported, rowVars,
       modelVars, callVars
<1> QED
  BY ONLY [PlannerNext]_plannerVars, <1>1, <1>2, <1>3, <1>4, <1>5, <1>6, <1>7, <1>8, <1>9,
       <1>10, <1>11, <1>12, <1>13, <1>14, <1>15, <1>16, <1>17, <1>18, <1>19, <1>20, <1>21,
       <1>22, <1>23, <1>24, <1>25, <1>26, <1>27
    DEF PlannerNext, MainStep, ThreadStep, CallStep

\* The places where no command is under way stay quiet.
LEMMA QuietKept ==
  ASSUME PlannerTypeOK, Quiet, [PlannerNext]_plannerVars
  PROVE  Quiet'
<1> USE DEF PlannerTypeOK, Quiet, BeatPoint, Caller, Verdict, rowVars, modelVars, callVars
<1>1. ASSUME NEW x \in Caller, HeartbeatCommand(x) PROVE Quiet'
  BY <1>1 DEF HeartbeatCommand, IsBeat, Refuse
<1>2. CASE FinishCommand
  BY <1>2 DEF FinishCommand, Replayed, Refuse, Reported
<1>3. ASSUME NEW x \in Caller, CallLost(x) PROVE Quiet'
  BY <1>3 DEF CallLost
<1>4. CASE ThreadBeats
  BY <1>4 DEF ThreadBeats, Send
<1>5. CASE ThreadHears
  BY <1>5 DEF ThreadHears, KeepVersion
<1>6. CASE ThreadStops
  BY <1>6 DEF ThreadStops
<1>7. CASE ClaimInspection
  BY <1>7 DEF ClaimInspection, GoTo
<1>8. CASE MainBeats
  BY <1>8 DEF MainBeats, Send, RaiseAt, AttemptError, AttemptsLeft, FirstPoint, GoTo
<1>9. CASE MainBeatFails
  BY <1>9 DEF MainBeatFails, RaiseAt, AttemptError, AttemptsLeft, FirstPoint, GoTo
<1>10. CASE Enter
  BY <1>10 DEF Enter, Beat, KeepVersion, FirstPoint, GoTo
<1>11. CASE BeginAttempt
  BY <1>11 DEF BeginAttempt, Beat, KeepVersion, GoTo
<1>12. CASE BeginStep
  BY <1>12 DEF BeginStep, Beat, KeepVersion, AttemptError, AttemptsLeft, FirstPoint, GoTo
<1>13. CASE RunTool
  BY <1>13 DEF RunTool, Beat, KeepVersion, AttemptError, AttemptsLeft, FirstPoint, GoTo
<1>14. CASE LaunchCodex
  BY <1>14 DEF LaunchCodex, GoTo
<1>15. CASE ModelAnswers
  BY <1>15 DEF ModelAnswers, AttemptError, AttemptsLeft, FirstPoint, GoTo
<1>16. CASE ModelGivenUp
  BY <1>16 DEF ModelGivenUp, AttemptError, AttemptsLeft, FirstPoint, GoTo
<1>17. CASE VerdictStands
  BY <1>17 DEF VerdictStands, Beat, KeepVersion, GoTo
<1>18. CASE LeaveGuard
  BY <1>18 DEF LeaveGuard, Joined, GoTo
<1>19. CASE SendVerdict
  BY <1>19 DEF SendVerdict, Send
<1>20. CASE FinishAccepted
  BY <1>20 DEF FinishAccepted, AfterReport, Reported, GoTo
<1>21. CASE FinishFails
  BY <1>21 DEF FinishFails, AttemptError, AttemptsLeft, FirstPoint, GoTo
<1>22. CASE Interrupted
  BY <1>22 DEF Interrupted, GoTo
<1>23. CASE TimesOut
  BY <1>23 DEF TimesOut
<1>24. CASE VersionRaised
  BY <1>24 DEF VersionRaised
<1>25. CASE DeadlinePasses
  BY <1>25 DEF DeadlinePasses
<1>26. CASE UNCHANGED plannerVars
  BY <1>26 DEF plannerVars
<1>27. CASE InterruptEnds
  BY <1>27 DEF InterruptEnds, GoTo
<1> HIDE DEF PlannerTypeOK, Quiet, BeatPoint, Caller, Verdict, rowVars, modelVars, callVars
<1> QED
  BY ONLY [PlannerNext]_plannerVars, <1>1, <1>2, <1>3, <1>4, <1>5, <1>6, <1>7, <1>8, <1>9,
       <1>10, <1>11, <1>12, <1>13, <1>14, <1>15, <1>16, <1>17, <1>18, <1>19, <1>20, <1>21,
       <1>22, <1>23, <1>24, <1>25, <1>26, <1>27
    DEF PlannerNext, MainStep, ThreadStep, CallStep

\* An accepted command moves the row's version into its answer, and hearing the
\* answer moves it to the controller; a second answer is never under way.
LEMMA VersionKept ==
  ASSUME PlannerTypeOK, Decided, Quiet, VersionKnown, [PlannerNext]_plannerVars
  PROVE  VersionKnown'
<1> USE
    DEF PlannerTypeOK, Quiet, VersionKnown, HeldBy, BeatPoint, Caller, rowVars, modelVars,
        callVars
<1>1. ASSUME NEW x \in Caller, HeartbeatCommand(x) PROVE VersionKnown'
  BY <1>1 DEF HeartbeatCommand, IsBeat, Refuse
<1>2. CASE FinishCommand
  BY <1>2 DEF FinishCommand, Replayed, Refuse, Reported
<1>3. ASSUME NEW x \in Caller, CallLost(x) PROVE VersionKnown'
  BY <1>3 DEF CallLost
<1>4. CASE ThreadBeats
  BY <1>4 DEF ThreadBeats, Send
<1>5. CASE ThreadHears
  BY <1>5 DEF ThreadHears, KeepVersion
<1>6. CASE ThreadStops
  BY <1>6 DEF ThreadStops
<1>7. CASE ClaimInspection
  BY <1>7 DEF ClaimInspection, GoTo
<1>8. CASE MainBeats
  BY <1>8 DEF MainBeats, Send, RaiseAt, AttemptError, AttemptsLeft, FirstPoint, GoTo
<1>9. CASE MainBeatFails
  BY <1>9 DEF MainBeatFails, RaiseAt, AttemptError, AttemptsLeft, FirstPoint, GoTo
<1>10. CASE Enter
  BY <1>10 DEF Enter, Beat, KeepVersion, FirstPoint, GoTo
<1>11. CASE BeginAttempt
  BY <1>11 DEF BeginAttempt, Beat, KeepVersion, GoTo
<1>12. CASE BeginStep
  BY <1>12 DEF BeginStep, Beat, KeepVersion, AttemptError, AttemptsLeft, FirstPoint, GoTo
<1>13. CASE RunTool
  BY <1>13 DEF RunTool, Beat, KeepVersion, AttemptError, AttemptsLeft, FirstPoint, GoTo
<1>14. CASE LaunchCodex
  BY <1>14 DEF LaunchCodex, GoTo
<1>15. CASE ModelAnswers
  BY <1>15 DEF ModelAnswers, AttemptError, AttemptsLeft, FirstPoint, GoTo
<1>16. CASE ModelGivenUp
  BY <1>16 DEF ModelGivenUp, AttemptError, AttemptsLeft, FirstPoint, GoTo
<1>17. CASE VerdictStands
  BY <1>17 DEF VerdictStands, Beat, KeepVersion, GoTo
<1>18. CASE LeaveGuard
  BY <1>18 DEF LeaveGuard, Joined, GoTo
<1>19. CASE SendVerdict
  BY <1>19 DEF SendVerdict, Send
<1>20. CASE FinishAccepted
  BY <1>20 DEF FinishAccepted, Decided
<1>21. CASE FinishFails
  BY <1>21 DEF FinishFails, AttemptError, AttemptsLeft, FirstPoint, GoTo
<1>22. CASE Interrupted
  BY <1>22 DEF Interrupted, GoTo
<1>23. CASE TimesOut
  BY <1>23 DEF TimesOut
<1>24. CASE VersionRaised
  BY <1>24 DEF VersionRaised
<1>25. CASE DeadlinePasses
  BY <1>25 DEF DeadlinePasses
<1>26. CASE UNCHANGED plannerVars
  BY <1>26 DEF plannerVars
<1>27. CASE InterruptEnds
  BY <1>27 DEF InterruptEnds, GoTo
<1> HIDE DEF PlannerTypeOK, Quiet, VersionKnown, HeldBy, BeatPoint, Caller, rowVars,
       modelVars, callVars
<1> QED
  BY ONLY [PlannerNext]_plannerVars, <1>1, <1>2, <1>3, <1>4, <1>5, <1>6, <1>7, <1>8, <1>9,
       <1>10, <1>11, <1>12, <1>13, <1>14, <1>15, <1>16, <1>17, <1>18, <1>19, <1>20, <1>21,
       <1>22, <1>23, <1>24, <1>25, <1>26, <1>27
    DEF PlannerNext, MainStep, ThreadStep, CallStep

\* fail is reached with no command of the main thread under way and, undisturbed,
\* without the heartbeat thread: so its report takes the version along.
LEMMA ReportKept ==
  ASSUME PlannerTypeOK, Decided, Quiet, VersionKnown, LastReportAccepted,
       [PlannerNext]_plannerVars
  PROVE  LastReportAccepted'
<1> USE
    DEF PlannerTypeOK, Decided, Quiet, VersionKnown, HeldBy, LastReportAccepted, BeatPoint,
        Caller, rowVars, modelVars, callVars
<1>1. ASSUME NEW x \in Caller, HeartbeatCommand(x) PROVE LastReportAccepted'
  BY <1>1 DEF HeartbeatCommand, IsBeat, Refuse
<1>2. CASE FinishCommand
  BY <1>2 DEF FinishCommand, Replayed, Refuse, Reported
<1>3. ASSUME NEW x \in Caller, CallLost(x) PROVE LastReportAccepted'
  BY <1>3 DEF CallLost
<1>4. CASE ThreadBeats
  BY <1>4 DEF ThreadBeats, Send
<1>5. CASE ThreadHears
  BY <1>5 DEF ThreadHears, KeepVersion
<1>6. CASE ThreadStops
  BY <1>6 DEF ThreadStops
<1>7. CASE ClaimInspection
  BY <1>7 DEF ClaimInspection, GoTo
<1>8. CASE MainBeats
  BY <1>8 DEF MainBeats, Send, RaiseAt, AttemptError, AttemptsLeft, FirstPoint, GoTo
<1>9. CASE MainBeatFails
  BY <1>9 DEF MainBeatFails, RaiseAt, AttemptError, AttemptsLeft, FirstPoint, GoTo
<1>10. CASE Enter
  BY <1>10 DEF Enter, Beat, KeepVersion, FirstPoint, GoTo
<1>11. CASE BeginAttempt
  BY <1>11 DEF BeginAttempt, Beat, KeepVersion, GoTo
<1>12. CASE BeginStep
  BY <1>12 DEF BeginStep, Beat, KeepVersion, AttemptError, AttemptsLeft, FirstPoint, GoTo
<1>13. CASE RunTool
  BY <1>13 DEF RunTool, Beat, KeepVersion, AttemptError, AttemptsLeft, FirstPoint, GoTo
<1>14. CASE LaunchCodex
  BY <1>14 DEF LaunchCodex, GoTo
<1>15. CASE ModelAnswers
  BY <1>15 DEF ModelAnswers, AttemptError, AttemptsLeft, FirstPoint, GoTo
<1>16. CASE ModelGivenUp
  BY <1>16 DEF ModelGivenUp, AttemptError, AttemptsLeft, FirstPoint, GoTo
<1>17. CASE VerdictStands
  BY <1>17 DEF VerdictStands, Beat, KeepVersion, GoTo
<1>18. CASE LeaveGuard
  BY <1>18 DEF LeaveGuard, Joined, GoTo
<1>19. CASE SendVerdict
  BY <1>19 DEF SendVerdict, Send
<1>20. CASE FinishAccepted
  BY <1>20 DEF FinishAccepted, AfterReport, Reported, GoTo
<1>21. CASE FinishFails
  BY <1>21 DEF FinishFails, AttemptError, AttemptsLeft, FirstPoint, GoTo
<1>22. CASE Interrupted
  BY <1>22 DEF Interrupted, GoTo
<1>23. CASE TimesOut
  BY <1>23 DEF TimesOut
<1>24. CASE VersionRaised
  BY <1>24 DEF VersionRaised
<1>25. CASE DeadlinePasses
  BY <1>25 DEF DeadlinePasses
<1>26. CASE UNCHANGED plannerVars
  BY <1>26 DEF plannerVars
<1>27. CASE InterruptEnds
  BY <1>27 DEF InterruptEnds, GoTo
<1> HIDE DEF PlannerTypeOK, Decided, Quiet, VersionKnown, HeldBy, LastReportAccepted,
       BeatPoint, Caller, rowVars, modelVars, callVars
<1> QED
  BY ONLY [PlannerNext]_plannerVars, <1>1, <1>2, <1>3, <1>4, <1>5, <1>6, <1>7, <1>8, <1>9,
       <1>10, <1>11, <1>12, <1>13, <1>14, <1>15, <1>16, <1>17, <1>18, <1>19, <1>20, <1>21,
       <1>22, <1>23, <1>24, <1>25, <1>26, <1>27
    DEF PlannerNext, MainStep, ThreadStep, CallStep

\* A recorded verdict is heard, then the guard is left for the last time.
LEMMA OverKept ==
  ASSUME PlannerTypeOK, Decided, Quiet, OverOnceRecorded, [PlannerNext]_plannerVars
  PROVE  OverOnceRecorded'
<1> USE
    DEF PlannerTypeOK, Decided, Quiet, OverOnceRecorded, BeatPoint, Verdict, Caller,
        Reported, rowVars, modelVars, callVars
<1>1. ASSUME NEW x \in Caller, HeartbeatCommand(x) PROVE OverOnceRecorded'
  BY <1>1 DEF HeartbeatCommand, IsBeat, Refuse
<1>2. CASE FinishCommand
  BY <1>2 DEF FinishCommand, Replayed, Refuse, Reported
<1>3. ASSUME NEW x \in Caller, CallLost(x) PROVE OverOnceRecorded'
  BY <1>3 DEF CallLost
<1>4. CASE ThreadBeats
  BY <1>4 DEF ThreadBeats, Send
<1>5. CASE ThreadHears
  BY <1>5 DEF ThreadHears, KeepVersion
<1>6. CASE ThreadStops
  BY <1>6 DEF ThreadStops
<1>7. CASE ClaimInspection
  BY <1>7 DEF ClaimInspection, GoTo
<1>8. CASE MainBeats
  BY <1>8 DEF MainBeats, Send, RaiseAt, AttemptError, AttemptsLeft, FirstPoint, GoTo
<1>9. CASE MainBeatFails
  BY <1>9 DEF MainBeatFails, RaiseAt, AttemptError, AttemptsLeft, FirstPoint, GoTo
<1>10. CASE Enter
  BY <1>10 DEF Enter, Beat, KeepVersion, FirstPoint, GoTo
<1>11. CASE BeginAttempt
  BY <1>11 DEF BeginAttempt, Beat, KeepVersion, GoTo
<1>12. CASE BeginStep
  BY <1>12 DEF BeginStep, Beat, KeepVersion, AttemptError, AttemptsLeft, FirstPoint, GoTo
<1>13. CASE RunTool
  BY <1>13 DEF RunTool, Beat, KeepVersion, AttemptError, AttemptsLeft, FirstPoint, GoTo
<1>14. CASE LaunchCodex
  BY <1>14 DEF LaunchCodex, GoTo
<1>15. CASE ModelAnswers
  BY <1>15 DEF ModelAnswers, AttemptError, AttemptsLeft, FirstPoint, GoTo
<1>16. CASE ModelGivenUp
  BY <1>16 DEF ModelGivenUp, AttemptError, AttemptsLeft, FirstPoint, GoTo
<1>17. CASE VerdictStands
  BY <1>17 DEF VerdictStands, Beat, KeepVersion, GoTo
<1>18. CASE LeaveGuard
  BY <1>18 DEF LeaveGuard, Joined, GoTo
<1>19. CASE SendVerdict
  BY <1>19 DEF SendVerdict, Send
<1>20. CASE FinishAccepted
  <2>1. printed' # "NONE"
    BY <1>20 DEF FinishAccepted
  <2>2. pc' = "ended" \/ (pc' = "leave" /\ runtime' = "codex")
    BY <1>20 DEF FinishAccepted, AfterReport, GoTo
  <2> QED
    BY <2>1, <2>2
<1>21. CASE FinishFails
  BY <1>21 DEF FinishFails, AttemptError, AttemptsLeft, FirstPoint, GoTo
<1>22. CASE Interrupted
  BY <1>22 DEF Interrupted, GoTo
<1>23. CASE TimesOut
  BY <1>23 DEF TimesOut
<1>24. CASE VersionRaised
  BY <1>24 DEF VersionRaised
<1>25. CASE DeadlinePasses
  BY <1>25 DEF DeadlinePasses
<1>26. CASE UNCHANGED plannerVars
  BY <1>26 DEF plannerVars
<1>27. CASE InterruptEnds
  BY <1>27 DEF InterruptEnds, GoTo
<1> HIDE DEF PlannerTypeOK, Decided, Quiet, OverOnceRecorded, BeatPoint, Verdict, Caller,
       Reported, rowVars, modelVars, callVars
<1> QED
  BY ONLY [PlannerNext]_plannerVars, <1>1, <1>2, <1>3, <1>4, <1>5, <1>6, <1>7, <1>8, <1>9,
       <1>10, <1>11, <1>12, <1>13, <1>14, <1>15, <1>16, <1>17, <1>18, <1>19, <1>20, <1>21,
       <1>22, <1>23, <1>24, <1>25, <1>26, <1>27
    DEF PlannerNext, MainStep, ThreadStep, CallStep

\* The process ends at a refused claim, after an accepted report, or disturbed.
LEMMA ClosedKept ==
  ASSUME PlannerTypeOK, Decided, Quiet, LastReportAccepted, InspectionClosed,
       [PlannerNext]_plannerVars
  PROVE  InspectionClosed'
<1> USE
    DEF PlannerTypeOK, Decided, Quiet, LastReportAccepted, InspectionClosed, BeatPoint,
        Caller, rowVars, modelVars, callVars
<1>1. ASSUME NEW x \in Caller, HeartbeatCommand(x) PROVE InspectionClosed'
  BY <1>1 DEF HeartbeatCommand, IsBeat, Refuse
<1>2. CASE FinishCommand
  BY <1>2 DEF FinishCommand, Replayed, Refuse, Reported
<1>3. ASSUME NEW x \in Caller, CallLost(x) PROVE InspectionClosed'
  BY <1>3 DEF CallLost
<1>4. CASE ThreadBeats
  BY <1>4 DEF ThreadBeats, Send
<1>5. CASE ThreadHears
  BY <1>5 DEF ThreadHears, KeepVersion
<1>6. CASE ThreadStops
  BY <1>6 DEF ThreadStops
<1>7. CASE ClaimInspection
  BY <1>7 DEF ClaimInspection, GoTo
<1>8. CASE MainBeats
  BY <1>8 DEF MainBeats, Send, RaiseAt, AttemptError, AttemptsLeft, FirstPoint, GoTo
<1>9. CASE MainBeatFails
  BY <1>9 DEF MainBeatFails, RaiseAt, AttemptError, AttemptsLeft, FirstPoint, GoTo
<1>10. CASE Enter
  BY <1>10 DEF Enter, Beat, KeepVersion, FirstPoint, GoTo
<1>11. CASE BeginAttempt
  BY <1>11 DEF BeginAttempt, Beat, KeepVersion, GoTo
<1>12. CASE BeginStep
  BY <1>12 DEF BeginStep, Beat, KeepVersion, AttemptError, AttemptsLeft, FirstPoint, GoTo
<1>13. CASE RunTool
  BY <1>13 DEF RunTool, Beat, KeepVersion, AttemptError, AttemptsLeft, FirstPoint, GoTo
<1>14. CASE LaunchCodex
  BY <1>14 DEF LaunchCodex, GoTo
<1>15. CASE ModelAnswers
  BY <1>15 DEF ModelAnswers, AttemptError, AttemptsLeft, FirstPoint, GoTo
<1>16. CASE ModelGivenUp
  BY <1>16 DEF ModelGivenUp, AttemptError, AttemptsLeft, FirstPoint, GoTo
<1>17. CASE VerdictStands
  BY <1>17 DEF VerdictStands, Beat, KeepVersion, GoTo
<1>18. CASE LeaveGuard
  BY <1>18 DEF LeaveGuard, Joined, GoTo
<1>19. CASE SendVerdict
  BY <1>19 DEF SendVerdict, Send
<1>20. CASE FinishAccepted
  BY <1>20 DEF FinishAccepted, AfterReport, Reported, GoTo
<1>21. CASE FinishFails
  BY <1>21 DEF FinishFails, AttemptError, AttemptsLeft, FirstPoint, GoTo
<1>22. CASE Interrupted
  BY <1>22 DEF Interrupted, GoTo
<1>23. CASE TimesOut
  BY <1>23 DEF TimesOut
<1>24. CASE VersionRaised
  BY <1>24 DEF VersionRaised
<1>25. CASE DeadlinePasses
  BY <1>25 DEF DeadlinePasses
<1>26. CASE UNCHANGED plannerVars
  BY <1>26 DEF plannerVars
<1>27. CASE InterruptEnds
  BY <1>27 DEF InterruptEnds, GoTo
<1> HIDE DEF PlannerTypeOK, Decided, Quiet, LastReportAccepted, InspectionClosed, BeatPoint,
       Caller, rowVars, modelVars, callVars
<1> QED
  BY ONLY [PlannerNext]_plannerVars, <1>1, <1>2, <1>3, <1>4, <1>5, <1>6, <1>7, <1>8, <1>9,
       <1>10, <1>11, <1>12, <1>13, <1>14, <1>15, <1>16, <1>17, <1>18, <1>19, <1>20, <1>21,
       <1>22, <1>23, <1>24, <1>25, <1>26, <1>27
    DEF PlannerNext, MainStep, ThreadStep, CallStep

\* Every step of the process keeps the invariant.
LEMMA PlannerRunInvKept == PlannerRunInv /\ [PlannerNext]_plannerVars => PlannerRunInv'
  BY PlannerTypesKept, LimitsKept, DecidedKept, QuietKept, VersionKept, ReportKept,
       OverKept,
     ClosedKept DEF PlannerRunInv

\* The inductive invariant of a Planner process.
THEOREM PlannerRunInvariant == PlannerSpec => []PlannerRunInv
  BY PlannerRunInvStarts, PlannerRunInvKept, PTL DEF PlannerSpec

\* Attempts and model steps never exceed their limits, and all else keeps its type.
THEOREM PlannerTypeCorrect == PlannerSpec => []PlannerTypeOK
<1>1. PlannerRunInv => PlannerTypeOK
  BY DEF PlannerRunInv
<1> QED
  BY <1>1, PlannerRunInvariant, PTL

\* A process that ends has closed its inspection, unless an answer was lost, others
\* raised the version, or the heartbeat thread outlived its join.
THEOREM EndedRunIsClosed == PlannerSpec => []InspectionClosed
<1>1. PlannerRunInv => InspectionClosed
  BY DEF PlannerRunInv
<1> QED
  BY <1>1, PlannerRunInvariant, PTL

\* The outcome the process prints is the one the database holds.
THEOREM PrintedOutcomeIsRecorded == PlannerSpec => []PrintedIsRecorded
<1>1. PlannerRunInv => PrintedIsRecorded
  BY DEF PlannerRunInv, Decided, PrintedIsRecorded
<1> QED
  BY <1>1, PlannerRunInvariant, PTL

\* NoAttemptAfterVerdict, of one step.
NoAttemptAfterVerdictStep == attempt' # attempt /\ recorded \in Verdict => disturbed

\* An attempt begins at the places attempt and launch alone, where no report is heard.
LEMMA AttemptsBeforeVerdict ==
  PlannerRunInv /\ [PlannerNext]_plannerVars => [NoAttemptAfterVerdictStep]_plannerVars
<1> SUFFICES ASSUME PlannerRunInv, PlannerNext, attempt' # attempt, recorded \in Verdict
             PROVE  disturbed
  BY DEF NoAttemptAfterVerdictStep
<1>1. pc \in {"attempt", "launch"}
  <2>1. CASE MainStep
    BY <2>1
      DEF MainStep, ClaimInspection, MainBeats, MainBeatFails, Enter, BeginAttempt,
          BeginStep,
         RunTool, LaunchCodex, ModelGivenUp, VerdictStands, LeaveGuard, SendVerdict,
         FinishAccepted, FinishFails, Beat, modelVars
  <2>2. CASE ModelAnswers \/ Interrupted \/ InterruptEnds \/ TimesOut \/ VersionRaised
             \/ DeadlinePasses
    BY <2>2
      DEF ModelAnswers, Interrupted, InterruptEnds, TimesOut, VersionRaised, DeadlinePasses,
          modelVars
  <2>3. CASE ThreadStep \/ \E x \in Caller : CallStep(x)
    BY <2>3
      DEF ThreadStep, ThreadBeats, ThreadHears, ThreadStops, CallStep, HeartbeatCommand,
         FinishCommand, CallLost, modelVars
  <2> QED
    BY <2>1, <2>2, <2>3 DEF PlannerNext
<1> QED
  BY <1>1 DEF PlannerRunInv, OverOnceRecorded

\* With a verdict recorded no further attempt begins, unless the answer was lost.
THEOREM VerdictEndsAttempts == PlannerSpec => NoAttemptAfterVerdict
  BY PlannerRunInvariant, AttemptsBeforeVerdict, PTL
  DEF PlannerSpec, NoAttemptAfterVerdict, NoAttemptAfterVerdictStep

-----------------------------------------------------------------------------
(***************************************************************************)
(* The secret store.                                                       *)
(*                                                                         *)
(* Every place of an operation says what is stored there: by the lock only *)
(* the operation itself has changed it, or another process has, and then   *)
(* the operation is marked as interfered with.                             *)
(***************************************************************************)
\* An operation keeps its request until it is over, and each place belongs to one
\* kind of operation.
RequestPlaces ==
  \A c \in Client :
    /\ at[c] # "idle" => request[c] \in Request
    /\ at[c] \in {"stage", "commit", "check", "restore", "unstage"} =>
         request[c].kind \in {"set", "rotate"}
    /\ at[c] = "verify" => request[c].kind # "delete"
    /\ at[c] \in {"remove", "confirm"} => request[c].kind = "delete"

\* What may be stored when every replacement is checked with the provider.
Vetted == Accepted \cup {Garbled, Nobody}

\* With every replacement checked, what is stored, or was, is vetted, and a
\* candidate that gets as far as the commit has been accepted.
AllVetted ==
  ~ unasked =>
    /\ entry \in Vetted
    /\ \A c \in Client :
         /\ before[c] \in Vetted
         /\ at[c] # "idle" /\ request[c].kind \in {"set", "rotate"} => request[c].connect
         /\ at[c] \in {"commit", "check"} => request[c].key \in Accepted

\* What an operation of c that nobody has interfered with has left so far.
Untouched(c) ==
  /\ at[c] \in {"stage", "verify", "commit"} => entry = before[c]
  /\ at[c] = "restore" => result[c] \in {"INVALID", "UNAVAILABLE"}
  /\ at[c] = "unstage" =>
       /\ result[c] = "OK" => entry = request[c].key
       /\ result[c] \in {"INVALID", "CONFLICT"} => entry = before[c]

\* No candidate entry before it is staged, nor in an operation that stages none.
NotYetStaged(c) ==
  /\ at[c] \in {"read", "stage", "remove", "confirm"} => c \notin staged
  /\ at[c] = "verify" /\ request[c].kind = "verify" => c \notin staged

EffectsKnown ==
  \A c \in Client : NotYetStaged(c) /\ (c \in interfered \/ Untouched(c))

\* The event does not claim too much.
EventHolds == event = "VALID" => entry \in Accepted

\* What the one operation under way, whose event is not told yet, has made of it.
EventDue(c) ==
  /\ at[c] \in {"wait", "read", "stage", "verify", "commit", "remove"}
       \/ (at[c] \in {"unstage", "tell"} /\ result[c] # "OK") => EventHolds
  /\ at[c] \in {"stage", "verify", "commit"} => entry = before[c]
  /\ at[c] \in {"commit", "check"} /\ request[c].connect => request[c].key \in Accepted
  /\ at[c] = "check" => entry = request[c].key
  /\ at[c] = "confirm" => entry = Nobody
  /\ at[c] \in {"unstage", "tell"} /\ result[c] = "OK" /\ request[c].kind # "delete"
       /\ request[c].connect => entry \in Accepted
  /\ at[c] # "restore"

\* One request at a time, from the Dashboard alone, and no call has failed.
EventTracked ==
  ~ blurred /\ breaks = 0 =>
    /\ \A c, d \in Client : at[c] # "idle" /\ at[d] # "idle" => c = d
    /\ \A c \in Client : at[c] # "idle" => home[c] = "dashboard" /\ EventDue(c)
    /\ (\A c \in Client : at[c] = "idle") => EventHolds

SecretInv ==
  SecretTypeOK /\ RequestPlaces /\ AllVetted /\ EffectsKnown /\ EventTracked

\* What a request carries depends on its kind.
LEMMA RequestKinds ==
  ASSUME NEW r \in Request
  PROVE  /\ r.kind \in {"set", "rotate", "verify", "delete"}
         /\ r.kind \in {"set", "rotate"} => r.key \in Key
         /\ r.kind # "delete" => r.connect \in BOOLEAN
  BY DEF Request

\* The store begins with an accepted key or none, and no operation.
LEMMA SecretInvStarts == SecretStart /\ requests \in 0..MaxRequests => SecretInv
<1> SUFFICES ASSUME SecretStart, requests \in 0..MaxRequests PROVE SecretInv
  OBVIOUS
<1> USE KeyAssumption, RequestAssumption DEF SecretStart
<1>1. SecretTypeOK
  <2>1. home \in [Client -> Home] /\ at \in [Client -> Inside \cup {"idle", "wait", "tell"}]
    OBVIOUS
  <2>2. request \in [Client -> Request \cup {Nobody}] /\ before \in [Client -> Stored]
    BY DEF Stored
  <2>3. result \in [Client -> {"OK", "INVALID", "CONFLICT", "UNAVAILABLE"}]
        /\ lock \in [Home -> Client \cup {Nobody}]
    OBVIOUS
  <2>4. entry \in Stored /\ staged \subseteq Client /\ interfered \subseteq Client
    BY DEF Stored
  <2>5. breaks \in 0..MaxBreaks /\ \A c \in Client : at[c] \notin Inside
    BY DEF Inside
  <2> QED
    BY <2>1, <2>2, <2>3, <2>4, <2>5 DEF SecretTypeOK
<1>2. RequestPlaces /\ AllVetted /\ EffectsKnown
  BY DEF RequestPlaces, AllVetted, Vetted, EffectsKnown, NotYetStaged, Untouched
<1>3. EventTracked
  BY DEF EventTracked, EventHolds
<1> QED
  BY <1>1, <1>2, <1>3 DEF SecretInv

\* An operation moves along the places of its kind.
LEMMA RequestPlacesKept ==
  ASSUME SecretTypeOK, RequestPlaces, [SecretNext]_secretVars
  PROVE  RequestPlaces'
<1> USE RequestKinds DEF SecretTypeOK, RequestPlaces, historyVars, boundVars
<1>1. ASSUME NEW c \in Client, TakesLock(c) PROVE RequestPlaces'
  BY <1>1 DEF TakesLock, Free, GoesTo
<1>2. ASSUME NEW c \in Client, ReadsOld(c) PROVE RequestPlaces'
  BY <1>2 DEF ReadsOld, Onward, GoesTo, Ends, Released, StoresNothing, Works, Breaks
<1>3. ASSUME NEW c \in Client, Stages(c) PROVE RequestPlaces'
  BY <1>3 DEF Stages, GoesTo, Fails, StoresNothing, Works, Breaks
<1>4. ASSUME NEW c \in Client, Verifies(c) PROVE RequestPlaces'
  BY <1>4 DEF Verifies, Passed, GoesTo, Fails, Ends, Released, StoresNothing
<1>5. ASSUME NEW c \in Client, Commits(c) PROVE RequestPlaces'
  BY <1>5 DEF Commits, Stores, StoresNothing, GoesTo, Fails, Works, Breaks
<1>6. ASSUME NEW c \in Client, Checks(c) PROVE RequestPlaces'
  BY <1>6 DEF Checks, ReadBack, StoresNothing, GoesTo, Fails, Works, Breaks
<1>7. ASSUME NEW c \in Client, Restores(c) PROVE RequestPlaces'
  BY <1>7 DEF Restores, RolledBack, Stores, StoresNothing, GoesTo, Fails, Works, Breaks
<1>8. ASSUME NEW c \in Client, Unstages(c) PROVE RequestPlaces'
  BY <1>8 DEF Unstages, StoresNothing, GoesTo, Ends, Released, Works, Breaks
<1>9. ASSUME NEW c \in Client, Removes(c) PROVE RequestPlaces'
  BY <1>9 DEF Removes, Stores, StoresNothing, GoesTo, Ends, Released, Works, Breaks
<1>10. ASSUME NEW c \in Client, Confirms(c) PROVE RequestPlaces'
  BY <1>10 DEF Confirms, StoresNothing, GoesTo, Ends, Released, Works, Breaks
<1>11. ASSUME NEW c \in Client, Tells(c) PROVE RequestPlaces'
  BY <1>11 DEF Tells, EventAfter, EventOf, Forgotten
<1>12. ASSUME NEW c \in Client, NEW r \in Request, Asks(c, r) PROVE RequestPlaces'
  BY <1>12 DEF Asks, GoesTo
<1>13. ASSUME NEW p \in Home, Crashes(p) PROVE RequestPlaces'
  BY <1>13 DEF Crashes, Forgotten, Breaks
<1>14. CASE UNCHANGED secretVars
  BY <1>14 DEF secretVars, operationVars
<1> HIDE DEF SecretTypeOK, RequestPlaces, historyVars, boundVars
<1> QED
  BY ONLY [SecretNext]_secretVars, <1>1, <1>2, <1>3, <1>4, <1>5, <1>6, <1>7, <1>8, <1>9,
       <1>10, <1>11, <1>12, <1>13, <1>14
    DEF SecretNext, Step

\* The lock of a process is taken when free and released by its holder alone.
LEMMA SecretTypesKept ==
  ASSUME SecretTypeOK, RequestPlaces, [SecretNext]_secretVars
  PROVE  SecretTypeOK'
<1> USE KeyAssumption, RequestAssumption, RequestKinds
    DEF SecretTypeOK, RequestPlaces, Stored, Inside, historyVars, boundVars
<1>1. ASSUME NEW c \in Client, TakesLock(c) PROVE SecretTypeOK'
  BY <1>1 DEF TakesLock, Free, GoesTo
<1>2. ASSUME NEW c \in Client, ReadsOld(c) PROVE SecretTypeOK'
  BY <1>2 DEF ReadsOld, Onward, GoesTo, Ends, Released, StoresNothing, Works, Breaks
<1>3. ASSUME NEW c \in Client, Stages(c) PROVE SecretTypeOK'
  BY <1>3 DEF Stages, GoesTo, Fails, StoresNothing, Works, Breaks
<1>4. ASSUME NEW c \in Client, Verifies(c) PROVE SecretTypeOK'
  BY <1>4 DEF Verifies, Passed, GoesTo, Fails, Ends, Released, StoresNothing
<1>5. ASSUME NEW c \in Client, Commits(c) PROVE SecretTypeOK'
  BY <1>5 DEF Commits, Stores, StoresNothing, GoesTo, Fails, Works, Breaks
<1>6. ASSUME NEW c \in Client, Checks(c) PROVE SecretTypeOK'
  BY <1>6 DEF Checks, ReadBack, StoresNothing, GoesTo, Fails, Works, Breaks
<1>7. ASSUME NEW c \in Client, Restores(c) PROVE SecretTypeOK'
  BY <1>7 DEF Restores, RolledBack, Stores, StoresNothing, GoesTo, Fails, Works, Breaks
<1>8. ASSUME NEW c \in Client, Unstages(c) PROVE SecretTypeOK'
  BY <1>8 DEF Unstages, StoresNothing, GoesTo, Ends, Released, Works, Breaks
<1>9. ASSUME NEW c \in Client, Removes(c) PROVE SecretTypeOK'
  BY <1>9 DEF Removes, Stores, StoresNothing, GoesTo, Ends, Released, Works, Breaks
<1>10. ASSUME NEW c \in Client, Confirms(c) PROVE SecretTypeOK'
  BY <1>10 DEF Confirms, StoresNothing, GoesTo, Ends, Released, Works, Breaks
<1>11. ASSUME NEW c \in Client, Tells(c) PROVE SecretTypeOK'
  BY <1>11 DEF Tells, EventAfter, EventOf, Forgotten
<1>12. ASSUME NEW c \in Client, NEW r \in Request, Asks(c, r) PROVE SecretTypeOK'
  BY <1>12 DEF Asks, GoesTo
<1>13. ASSUME NEW p \in Home, Crashes(p) PROVE SecretTypeOK'
  BY <1>13 DEF Crashes, Forgotten, Breaks
<1>14. CASE UNCHANGED secretVars
  BY <1>14 DEF secretVars, operationVars
<1> HIDE DEF SecretTypeOK, RequestPlaces, Stored, Inside, historyVars, boundVars
<1> QED
  BY ONLY [SecretNext]_secretVars, <1>1, <1>2, <1>3, <1>4, <1>5, <1>6, <1>7, <1>8, <1>9,
       <1>10, <1>11, <1>12, <1>13, <1>14
    DEF SecretNext, Step

\* Commit writes an accepted candidate, rollback what was stored before.
LEMMA VettedKept ==
  ASSUME SecretTypeOK, RequestPlaces, AllVetted, [SecretNext]_secretVars
  PROVE  AllVetted'
<1> USE KeyAssumption, RequestKinds
    DEF SecretTypeOK, RequestPlaces, AllVetted, Vetted, historyVars, boundVars
<1>1. ASSUME NEW c \in Client, TakesLock(c) PROVE AllVetted'
  BY <1>1 DEF TakesLock, Free, GoesTo
<1>2. ASSUME NEW c \in Client, ReadsOld(c) PROVE AllVetted'
  BY <1>2 DEF ReadsOld, Onward, GoesTo, Ends, Released, StoresNothing, Works, Breaks
<1>3. ASSUME NEW c \in Client, Stages(c) PROVE AllVetted'
  BY <1>3 DEF Stages, GoesTo, Fails, StoresNothing, Works, Breaks
<1>4. ASSUME NEW c \in Client, Verifies(c) PROVE AllVetted'
  BY <1>4 DEF Verifies, Passed, GoesTo, Fails, Ends, Released, StoresNothing
<1>5. ASSUME NEW c \in Client, Commits(c) PROVE AllVetted'
  BY <1>5 DEF Commits, Stores, StoresNothing, GoesTo, Fails, Works, Breaks
<1>6. ASSUME NEW c \in Client, Checks(c) PROVE AllVetted'
  BY <1>6 DEF Checks, ReadBack, StoresNothing, GoesTo, Fails, Works, Breaks
<1>7. ASSUME NEW c \in Client, Restores(c) PROVE AllVetted'
  BY <1>7 DEF Restores, RolledBack, Stores, StoresNothing, GoesTo, Fails, Works, Breaks
<1>8. ASSUME NEW c \in Client, Unstages(c) PROVE AllVetted'
  BY <1>8 DEF Unstages, StoresNothing, GoesTo, Ends, Released, Works, Breaks
<1>9. ASSUME NEW c \in Client, Removes(c) PROVE AllVetted'
  BY <1>9 DEF Removes, Stores, StoresNothing, GoesTo, Ends, Released, Works, Breaks
<1>10. ASSUME NEW c \in Client, Confirms(c) PROVE AllVetted'
  BY <1>10 DEF Confirms, StoresNothing, GoesTo, Ends, Released, Works, Breaks
<1>11. ASSUME NEW c \in Client, Tells(c) PROVE AllVetted'
  BY <1>11 DEF Tells, EventAfter, EventOf, Forgotten
<1>12. ASSUME NEW c \in Client, NEW r \in Request, Asks(c, r) PROVE AllVetted'
  BY <1>12 DEF Asks, GoesTo
<1>13. ASSUME NEW p \in Home, Crashes(p) PROVE AllVetted'
  BY <1>13 DEF Crashes, Forgotten, Breaks
<1>14. CASE UNCHANGED secretVars
  BY <1>14 DEF secretVars, operationVars
<1> HIDE DEF SecretTypeOK, RequestPlaces, AllVetted, Vetted, historyVars, boundVars
<1> QED
  BY ONLY [SecretNext]_secretVars, <1>1, <1>2, <1>3, <1>4, <1>5, <1>6, <1>7, <1>8, <1>9,
       <1>10, <1>11, <1>12, <1>13, <1>14
    DEF SecretNext, Step

\* Whoever else stores something is of another process, and marks the operation.
LEMMA EffectsKept ==
  ASSUME SecretTypeOK, RequestPlaces, EffectsKnown, [SecretNext]_secretVars
  PROVE  EffectsKnown'
<1> USE KeyAssumption, RequestKinds
    DEF SecretTypeOK, RequestPlaces, EffectsKnown, NotYetStaged, Untouched, Inside,
        historyVars, boundVars
<1>1. ASSUME NEW c \in Client, TakesLock(c) PROVE EffectsKnown'
  BY <1>1 DEF TakesLock, Free, GoesTo
<1>2. ASSUME NEW c \in Client, ReadsOld(c) PROVE EffectsKnown'
  BY <1>2 DEF ReadsOld, Onward, GoesTo, Ends, Released, StoresNothing, Works, Breaks
<1>3. ASSUME NEW c \in Client, Stages(c) PROVE EffectsKnown'
  BY <1>3 DEF Stages, GoesTo, Fails, StoresNothing, Works, Breaks
<1>4. ASSUME NEW c \in Client, Verifies(c) PROVE EffectsKnown'
  BY <1>4 DEF Verifies, Passed, GoesTo, Fails, Ends, Released, StoresNothing
<1>5. ASSUME NEW c \in Client, Commits(c) PROVE EffectsKnown'
  BY <1>5 DEF Commits, Stores, StoresNothing, GoesTo, Fails, Works, Breaks
<1>6. ASSUME NEW c \in Client, Checks(c) PROVE EffectsKnown'
  BY <1>6 DEF Checks, ReadBack, StoresNothing, GoesTo, Fails, Works, Breaks
<1>7. ASSUME NEW c \in Client, Restores(c) PROVE EffectsKnown'
  BY <1>7 DEF Restores, RolledBack, Stores, StoresNothing, GoesTo, Fails, Works, Breaks
<1>8. ASSUME NEW c \in Client, Unstages(c) PROVE EffectsKnown'
  BY <1>8 DEF Unstages, StoresNothing, GoesTo, Ends, Released, Works, Breaks
<1>9. ASSUME NEW c \in Client, Removes(c) PROVE EffectsKnown'
  BY <1>9 DEF Removes, Stores, StoresNothing, GoesTo, Ends, Released, Works, Breaks
<1>10. ASSUME NEW c \in Client, Confirms(c) PROVE EffectsKnown'
  BY <1>10 DEF Confirms, StoresNothing, GoesTo, Ends, Released, Works, Breaks
<1>11. ASSUME NEW c \in Client, Tells(c) PROVE EffectsKnown'
  BY <1>11 DEF Tells, EventAfter, EventOf, Forgotten
<1>12. ASSUME NEW c \in Client, NEW r \in Request, Asks(c, r) PROVE EffectsKnown'
  BY <1>12 DEF Asks, GoesTo
<1>13. ASSUME NEW p \in Home, Crashes(p) PROVE EffectsKnown'
  BY <1>13 DEF Crashes, Forgotten, Breaks
<1>14. CASE UNCHANGED secretVars
  BY <1>14 DEF secretVars, operationVars
<1> HIDE DEF SecretTypeOK, RequestPlaces, EffectsKnown, NotYetStaged, Untouched, Inside,
       historyVars, boundVars
<1> QED
  BY ONLY [SecretNext]_secretVars, <1>1, <1>2, <1>3, <1>4, <1>5, <1>6, <1>7, <1>8, <1>9,
       <1>10, <1>11, <1>12, <1>13, <1>14
    DEF SecretNext, Step

\* The one operation under way, from the Dashboard, tells its event at its end.
LEMMA TrackedKept ==
  ASSUME SecretTypeOK, RequestPlaces, EventTracked, [SecretNext]_secretVars
  PROVE  EventTracked'
<1> USE KeyAssumption, RequestAssumption, RequestKinds
    DEF SecretTypeOK, RequestPlaces, EventTracked, EventDue, EventHolds, Inside,
        historyVars, boundVars
<1>1. ASSUME NEW c \in Client, TakesLock(c) PROVE EventTracked'
  BY <1>1 DEF TakesLock, Free, GoesTo
<1>2. ASSUME NEW c \in Client, ReadsOld(c) PROVE EventTracked'
  BY <1>2 DEF ReadsOld, Onward, GoesTo, Ends, Released, StoresNothing, Works, Breaks
<1>3. ASSUME NEW c \in Client, Stages(c) PROVE EventTracked'
  BY <1>3 DEF Stages, GoesTo, Fails, StoresNothing, Works, Breaks
<1>4. ASSUME NEW c \in Client, Verifies(c) PROVE EventTracked'
  BY <1>4 DEF Verifies, Passed, GoesTo, Fails, Ends, Released, StoresNothing
<1>5. ASSUME NEW c \in Client, Commits(c) PROVE EventTracked'
  BY <1>5 DEF Commits, Stores, StoresNothing, GoesTo, Fails, Works, Breaks
<1>6. ASSUME NEW c \in Client, Checks(c) PROVE EventTracked'
  BY <1>6 DEF Checks, ReadBack, StoresNothing, GoesTo, Fails, Works, Breaks
<1>7. ASSUME NEW c \in Client, Restores(c) PROVE EventTracked'
  BY <1>7 DEF Restores, RolledBack, Stores, StoresNothing, GoesTo, Fails, Works, Breaks
<1>8. ASSUME NEW c \in Client, Unstages(c) PROVE EventTracked'
  BY <1>8 DEF Unstages, StoresNothing, GoesTo, Ends, Released, Works, Breaks
<1>9. ASSUME NEW c \in Client, Removes(c) PROVE EventTracked'
  BY <1>9 DEF Removes, Stores, StoresNothing, GoesTo, Ends, Released, Works, Breaks
<1>10. ASSUME NEW c \in Client, Confirms(c) PROVE EventTracked'
  BY <1>10 DEF Confirms, StoresNothing, GoesTo, Ends, Released, Works, Breaks
<1>11. ASSUME NEW c \in Client, Tells(c) PROVE EventTracked'
  BY <1>11 DEF Tells, EventAfter, EventOf, Forgotten
<1>12. ASSUME NEW c \in Client, NEW r \in Request, Asks(c, r) PROVE EventTracked'
  BY <1>12 DEF Asks, GoesTo, Home
<1>13. ASSUME NEW p \in Home, Crashes(p) PROVE EventTracked'
  BY <1>13 DEF Crashes, Forgotten, Breaks
<1>14. CASE UNCHANGED secretVars
  BY <1>14 DEF secretVars, operationVars
<1> HIDE DEF SecretTypeOK, RequestPlaces, EventTracked, EventDue, EventHolds, Inside,
       historyVars, boundVars
<1> QED
  BY ONLY [SecretNext]_secretVars, <1>1, <1>2, <1>3, <1>4, <1>5, <1>6, <1>7, <1>8, <1>9,
       <1>10, <1>11, <1>12, <1>13, <1>14
    DEF SecretNext, Step

\* Every step of the store keeps the invariant.
LEMMA SecretInvKept == SecretInv /\ [SecretNext]_secretVars => SecretInv'
  BY SecretTypesKept, RequestPlacesKept, VettedKept, EffectsKept, TrackedKept DEF SecretInv

\* The inductive invariant of the secret store.
THEOREM SecretInvariant == SecretSpec => []SecretInv
<1>1. SecretInit => SecretInv
  <2>1. requests = 0 => requests \in 0..MaxRequests
    BY RequestAssumption
  <2> QED
    BY <2>1, SecretInvStarts DEF SecretInit
<1> QED
  BY <1>1, SecretInvKept, PTL DEF SecretSpec

\* In each process the one operation past its first call holds the lock.
THEOREM OneOperationInside == SecretSpec => []SecretTypeOK
<1>1. SecretInv => SecretTypeOK
  BY DEF SecretInv
<1> QED
  BY <1>1, SecretInvariant, PTL

\* If every replacement asks for the connection check, no refused value is ever
\* stored, be it by the replacement or by its rollback.
THEOREM RefusedIsNeverStored == SecretSpec => []OnlyAccepted
<1>1. SecretInv => OnlyAccepted
  BY DEF SecretInv, AllVetted, Vetted, OnlyAccepted
<1> QED
  BY <1>1, SecretInvariant, PTL

\* A provider is shown as valid, with a connection check, only with an accepted value.
THEOREM ShownValidIsAccepted == SecretSpec => []StatusIsCurrent
<1>1. SecretInv => StatusIsCurrent
  BY DEF SecretInv, EventTracked, EventHolds, StatusIsCurrent, ProviderStatus
<1> QED
  BY <1>1, SecretInvariant, PTL

\* What ReportIsTrue says of one operation and one step.
ReportIsTrueOf(c) ==
  at[c] \in Inside /\ at'[c] = "tell" /\ breaks' = breaks /\ c \notin interfered =>
    /\ c \notin staged'
    /\ result'[c] \in {"INVALID", "CONFLICT"} => entry' = before'[c]
    /\ result'[c] = "OK" =>
         entry' = CASE request[c].kind \in {"set", "rotate"} -> request[c].key
                    [] request[c].kind = "verify" -> before[c]
                    [] request[c].kind = "delete" -> Nobody

\* An operation reports from the places read, verify, unstage and confirm alone; a
\* step of another operation does not move it.
LEMMA ReportsAreTrue ==
  ASSUME SecretInv, SecretNext, NEW c \in Client
  PROVE  ReportIsTrueOf(c)
<1> SUFFICES ASSUME at[c] \in Inside, at'[c] = "tell", breaks' = breaks, c \notin interfered
             PROVE  ReportIsTrueOf(c)
  BY DEF ReportIsTrueOf
<1> USE RequestKinds, RequestAssumption
    DEF SecretInv, SecretTypeOK, RequestPlaces, EffectsKnown, NotYetStaged, Untouched,
         Inside,
        boundVars, historyVars, ReportIsTrueOf
<1>1. PICK d \in Client : Step(d) \/ \E r \in Request : Asks(d, r)
  <2>1. breaks \in Nat
    OBVIOUS
  <2>2. ASSUME NEW p \in Home, Crashes(p) PROVE FALSE
    BY ONLY <2>1, <2>2, breaks' = breaks DEF Crashes, Breaks
  <2> QED
    BY ONLY <2>2, SecretNext DEF SecretNext
<1>2. d = c
  <2> SUFFICES ASSUME d # c PROVE at'[c] = at[c]
    OBVIOUS
  <2>1. CASE TakesLock(d) \/ ReadsOld(d) \/ Removes(d) \/ Confirms(d) \/ Tells(d)
    BY <2>1 DEF TakesLock, ReadsOld, Removes, Confirms, Tells, GoesTo, Ends, Forgotten
  <2>2. CASE Stages(d) \/ Verifies(d) \/ Commits(d)
    BY <2>2 DEF Stages, Verifies, Commits, GoesTo, Fails, Ends
  <2>3. CASE Checks(d) \/ Restores(d) \/ Unstages(d)
    BY <2>3 DEF Checks, Restores, Unstages, GoesTo, Fails, Ends
  <2>4. CASE \E r \in Request : Asks(d, r)
    BY <2>4 DEF Asks, GoesTo
  <2> QED
    BY <1>1, <2>1, <2>2, <2>3, <2>4 DEF Step
<1>3. CASE ReadsOld(c)
  BY <1>3 DEF ReadsOld, Onward, GoesTo, Ends, StoresNothing, Works, Breaks
<1>4. CASE Verifies(c)
  BY <1>4 DEF Verifies, GoesTo, Fails, Ends, StoresNothing
<1>5. CASE Unstages(c)
  BY <1>5 DEF Unstages, Ends, GoesTo, StoresNothing, Works, Breaks
<1>6. CASE Confirms(c)
  BY <1>6 DEF Confirms, Ends, GoesTo, StoresNothing, Works, Breaks
<1>7. CASE Removes(c)
  BY <1>7 DEF Removes, GoesTo, Ends, Works, Breaks
<1>8. ReadsOld(c) \/ Verifies(c) \/ Unstages(c) \/ Confirms(c) \/ Removes(c)
  BY <1>1, <1>2
    DEF Step, TakesLock, Stages, Commits, Checks, Restores, Tells, Asks, GoesTo, Fails
<1> QED
  BY <1>3, <1>4, <1>5, <1>6, <1>7, <1>8

\* What an operation reports is what it has done.
THEOREM ReportsAreTheTruth == SecretSpec => ReportIsTrue
<1>1. SecretInv /\ [SecretNext]_secretVars => [\A c \in Client :
     ReportIsTrueOf(c)]_secretVars
  BY ReportsAreTrue DEF ReportIsTrueOf
<1> QED
  BY <1>1, SecretInvariant, PTL DEF SecretSpec, ReportIsTrue, ReportIsTrueOf

-----------------------------------------------------------------------------
(***************************************************************************)
(* The provider client.                                                    *)
(***************************************************************************)
\* Nobody deletes the key, every replacement is checked, and no call has failed: what
\* is stored, what a replacement would restore and what the thread holds is accepted.
KeyStaysGood ==
  ~ unasked /\ ~ withdrawn /\ breaks = 0 =>
    /\ entry \in Accepted
    /\ \A c \in Client :
         /\ at[c] # "idle" => request[c].kind # "delete"
         /\ at[c] \in Inside \ {"read"} => before[c] \in Accepted
    /\ clientAt \in {"ready", "sent", "resting"} => held \in Accepted
    /\ answer # "human"

\* A request not sent yet is within the limit.
TriesLeft == clientAt \in {"reading", "ready", "resting"} => tries <= MaxRequestRetries

ClientInv == SecretInv /\ ClientTypeOK /\ TriesLeft /\ KeyStaysGood

\* The process of the provider thread begins with a stored key.
LEMMA ClientInvStarts ==
  SecretStart /\ entry # Nobody /\ requests \in 0..MaxRequests /\ ClientInit => ClientInv
<1> SUFFICES ASSUME SecretStart, entry # Nobody, requests \in 0..MaxRequests, ClientInit
             PROVE  ClientInv
  OBVIOUS
<1> USE KeyAssumption, RetriesAssumption DEF SecretStart, ClientInit
<1>1. SecretInv
  BY SecretInvStarts
<1>2. ClientTypeOK /\ TriesLeft
  <2>1. tries \in 0..(MaxRequestRetries + 1) /\ TriesLeft
    BY DEF TriesLeft
  <2> QED
    BY <2>1 DEF ClientTypeOK, Stored
<1>3. KeyStaysGood
  BY DEF KeyStaysGood, Inside
<1> QED
  BY <1>1, <1>2, <1>3 DEF ClientInv

\* Beside its own call the thread changes nothing of the store but the bound of calls
\* that fail.
LEMMA ReadKeepsStore == SecretInv /\ ReadsKey => SecretInv'
<1> SUFFICES ASSUME SecretInv, ReadsKey PROVE SecretInv'
  OBVIOUS
<1> USE DEF ReadsKey, Works, Breaks, operationVars, historyVars, SecretInv
<1>1. SecretTypeOK'
  BY RequestAssumption DEF SecretTypeOK
<1>2. RequestPlaces'
  BY DEF RequestPlaces
<1>3. AllVetted'
  BY DEF AllVetted
<1>4. EffectsKnown'
  BY DEF EffectsKnown, NotYetStaged, Untouched
<1>5. EventTracked'
  <2>1. breaks' = 0 => breaks = 0
    BY RequestAssumption DEF SecretTypeOK
  <2> QED
    BY <2>1 DEF EventTracked, EventDue, EventHolds
<1> HIDE DEF ReadsKey, SecretInv
<1> QED
  BY <1>1, <1>2, <1>3, <1>4, <1>5 DEF SecretInv

\* The store goes on: without a deletion and without a failing call, what is stored
\* and what a rollback would restore stays accepted.
LEMMA StoreKeepsKeyGood ==
  ASSUME SecretInv, KeyStaysGood, [StoreMoves]_<<clientVars, secretVars>>
  PROVE  KeyStaysGood'
<1> USE KeyAssumption, RequestAssumption, RequestKinds
    DEF SecretInv, SecretTypeOK, RequestPlaces, AllVetted, EffectsKnown, Untouched,
         KeyStaysGood, Inside,
        boundVars, historyVars, operationVars
<1>1. ASSUME NEW c \in Client, Step(c), StoreMoves PROVE KeyStaysGood'
  <2>1. CASE TakesLock(c)
    <3>1. \A d \in Client : at'[d] = IF d = c THEN "read" ELSE at[d]
      BY <2>1 DEF TakesLock, GoesTo
    <3>2. UNCHANGED <<entry, request, before, unasked, breaks, clientAt, held, answer>> /\
         at[c] = "wait"
      BY <1>1, <2>1 DEF StoreMoves, TakesLock
    <3>3. withdrawn => withdrawn'
      BY <1>1 DEF StoreMoves
    <3> QED
      BY ONLY KeyStaysGood, <3>1, <3>2, <3>3 DEF KeyStaysGood, Inside
  <2>2. CASE ReadsOld(c)
    <3>1. /\ \A d \in Client \ {c} : at'[d] = at[d] /\ before'[d] = before[d]
          /\ before'[c] = entry /\ at[c] = "read" /\ at'[c] # "idle"
      BY <2>2 DEF ReadsOld, Onward, GoesTo, Ends
    <3>2. UNCHANGED <<entry, request, unasked, clientAt, held, answer>>
      BY <1>1, <2>2 DEF StoreMoves, ReadsOld, StoresNothing
    <3>3. withdrawn => withdrawn'
      BY <1>1 DEF StoreMoves
    <3>4. breaks' = 0 => breaks = 0
      <4>1. breaks \in Nat
        OBVIOUS
      <4>2. breaks' = breaks \/ breaks' = breaks + 1
        BY ONLY <2>2 DEF ReadsOld, Works, Breaks
      <4> QED
        BY ONLY <4>1, <4>2
    <3> QED
      BY ONLY KeyStaysGood, <3>1, <3>2, <3>3, <3>4 DEF KeyStaysGood, Inside
  <2>7. CASE Stages(c)
    BY <1>1, <2>7 DEF StoreMoves, Stages, GoesTo, Fails, StoresNothing, Works, Breaks
  <2>8. CASE Verifies(c)
    <3>1. /\ \A d \in Client \ {c} : at'[d] = at[d]
          /\ at[c] = "verify" /\ at'[c] # "idle"
      BY <2>8 DEF Verifies, GoesTo, Fails, Ends
    <3>2. UNCHANGED <<entry, request, before, unasked, breaks, clientAt, held, answer>>
      BY <1>1, <2>8 DEF StoreMoves, Verifies, StoresNothing
    <3>3. withdrawn => withdrawn'
      BY <1>1 DEF StoreMoves
    <3> QED
      BY ONLY KeyStaysGood, <3>1, <3>2, <3>3 DEF KeyStaysGood, Inside
  <2>3. CASE Commits(c) \/ Checks(c)
    BY <1>1, <2>3
      DEF StoreMoves, Commits, Checks, Stores, GoesTo, Fails, StoresNothing, Works, Breaks
  <2>4. CASE Restores(c) \/ Unstages(c)
    BY <1>1, <2>4
      DEF StoreMoves, Restores, RolledBack, Unstages, Stores, GoesTo, Fails, Ends,
         StoresNothing, Works, Breaks
  <2>5. CASE Removes(c) \/ Confirms(c)
    BY <1>1, <2>5
      DEF StoreMoves, Removes, Confirms, Stores, GoesTo, Ends, StoresNothing, Works, Breaks
  <2>6. CASE Tells(c)
    BY <1>1, <2>6 DEF StoreMoves, Tells, Forgotten
  <2> QED
    BY ONLY <1>1, <2>1, <2>2, <2>3, <2>4, <2>5, <2>6, <2>7, <2>8 DEF Step
<1>2. ASSUME NEW c \in Client, NEW r \in Request, Asks(c, r), StoreMoves PROVE KeyStaysGood'
  BY <1>2 DEF StoreMoves, Asks, GoesTo
<1>3. ASSUME NEW p \in Home, Crashes(p), StoreMoves PROVE KeyStaysGood'
  BY <1>3 DEF StoreMoves, Crashes, Breaks
<1>4. CASE UNCHANGED <<clientVars, secretVars>>
  BY <1>4 DEF clientVars, secretVars
<1>5. StoreMoves => SecretNext
  BY DEF StoreMoves
<1> HIDE DEF KeyStaysGood
<1> QED
  BY ONLY [StoreMoves]_<<clientVars, secretVars>>, <1>1, <1>2, <1>3, <1>4, <1>5
    DEF SecretNext

\* The thread: what it sends is what it has read.
LEMMA ClientKeepsKeyGood ==
  ASSUME SecretInv, ClientTypeOK, KeyStaysGood, CallBegins \/ RequestStep \/ ProcessExits
  PROVE  KeyStaysGood'
<1> USE KeyAssumption, RequestAssumption
    DEF SecretInv, SecretTypeOK, ClientTypeOK, KeyStaysGood, secretVars, boundVars,
         historyVars, operationVars
<1>1. CASE ReadsKey
  BY <1>1 DEF ReadsKey, Answers, Works, Breaks
<1>2. CASE CannotAsk \/ Sends \/ Accepts \/ RefusesKey \/ Disturbed \/ Rests
  BY <1>2 DEF CannotAsk, Sends, Accepts, RefusesKey, Disturbed, Rests, Answers
<1>3. CASE CallBegins \/ ProcessExits
  BY <1>3 DEF CallBegins, ProcessExits
<1> QED
  BY <1>1, <1>2, <1>3 DEF RequestStep

\* tries is compared with MaxRequestRetries before a request is sent again.
LEMMA ClientTypesKept ==
  ASSUME SecretInv, ClientTypeOK, TriesLeft, [ClientNext]_<<clientVars, secretVars>>
  PROVE  ClientTypeOK' /\ TriesLeft'
<1> USE RetriesAssumption DEF SecretInv, SecretTypeOK, ClientTypeOK, TriesLeft, Stored
<1>1. CASE CallBegins \/ ReadsKey \/ CannotAsk
  BY <1>1 DEF CallBegins, ReadsKey, CannotAsk, Answers
<1>2. CASE Sends \/ Accepts \/ RefusesKey
  BY <1>2 DEF Sends, NextTry, Accepts, RefusesKey, Answers
<1>3. CASE Disturbed \/ Rests \/ ProcessExits
  BY <1>3 DEF Disturbed, Spent, Rests, ProcessExits, Answers
<1>4. CASE StoreMoves
  BY <1>4 DEF StoreMoves
<1>5. CASE UNCHANGED <<clientVars, secretVars>>
  BY <1>5 DEF clientVars
<1> HIDE DEF ClientTypeOK, TriesLeft
<1> QED
  BY ONLY [ClientNext]_<<clientVars, secretVars>>, <1>1, <1>2, <1>3, <1>4, <1>5
    DEF ClientNext, RequestStep

\* Every step of the thread and of the store keeps the invariant.
LEMMA ClientInvKept == ClientInv /\ [ClientNext]_<<clientVars, secretVars>> => ClientInv'
<1> SUFFICES ASSUME ClientInv, [ClientNext]_<<clientVars, secretVars>> PROVE ClientInv'
  OBVIOUS
<1> USE DEF ClientInv
<1>1. SecretInv'
  <2>1. CASE ReadsKey
    BY <2>1, ReadKeepsStore
  <2>2. CASE UNCHANGED secretVars \/ StoreMoves
    BY <2>2, SecretInvKept DEF StoreMoves
  <2> QED
    BY <2>1, <2>2
      DEF ClientNext, CallBegins, RequestStep, CannotAsk, Sends, Accepts, RefusesKey,
       Disturbed, Rests, ProcessExits
<1>2. ClientTypeOK' /\ TriesLeft'
  BY ClientTypesKept
<1>3. KeyStaysGood'
  BY StoreKeepsKeyGood, ClientKeepsKeyGood DEF ClientNext
<1> QED
  BY <1>1, <1>2, <1>3

\* The inductive invariant of the provider client.
THEOREM ClientInvariant == ClientSpec => []ClientInv
  BY ClientInvStarts, ClientInvKept, PTL DEF ClientSpec

\* A call sends no more requests than the retries allow.
THEOREM CallsAreBounded == ClientSpec => []ClientTypeOK
<1>1. ClientInv => ClientTypeOK
  BY DEF ClientInv
<1> QED
  BY <1>1, ClientInvariant, PTL

\* Replacing the key sends no task to a human.
THEOREM ReplacingNeedsNoHuman == ClientSpec => []HumanForCause
<1>1. ClientInv => HumanForCause
  BY DEF ClientInv, KeyStaysGood, HumanForCause
<1> QED
  BY <1>1, ClientInvariant, PTL

-----------------------------------------------------------------------------
(***************************************************************************)
(* The parts side by side, as the run has them.                            *)
(***************************************************************************)
\* Each part keeps its invariant whichever part moves; that of the provider client
\* speaks of the store too, so it goes with the client's own part.
PartsInv ==
  PlannerRunInv /\ SecretInv /\ ClientTypeOK /\ (part = "client" => ClientInv)

\* Whichever part is to move, all begin in their invariants.
LEMMA PartsInvStarts == MaxRequests # 0 /\ PartInit => PartsInv
<1> SUFFICES ASSUME MaxRequests # 0, PartInit PROVE PartsInv
  OBVIOUS
<1>1. SecretStart /\ requests \in 0..MaxRequests /\ ClientInit /\ PlannerInit
  BY RequestAssumption DEF PartInit, SecretInit
<1>2. part = "client" => entry # Nobody
  BY DEF PartInit
<1>3. ClientTypeOK
  <2>1. tries \in 0..(MaxRequestRetries + 1)
    BY <1>1, RetriesAssumption DEF ClientInit
  <2> QED
    BY <1>1, <2>1 DEF ClientInit, ClientTypeOK, Stored
<1> QED
  BY <1>1, <1>2, <1>3, PlannerRunInvStarts, SecretInvStarts, ClientInvStarts DEF PartsInv

\* A step of one part leaves the others their invariants.
LEMMA PartsInvKept ==
  PartsInv
  /\ [PlannerPart(PlannerNext) \/ SecretPart(SecretNext) \/ ClientPart(ClientNext)]_partVars
  => PartsInv'
<1> SUFFICES ASSUME PartsInv,
                    [PlannerPart(PlannerNext) \/ SecretPart(SecretNext)
                       \/ ClientPart(ClientNext)]_partVars
             PROVE  PartsInv'
  OBVIOUS
<1>1. [PlannerNext]_plannerVars
  BY DEF PlannerPart, SecretPart, ClientPart, partVars
<1>2. PlannerRunInv'
  BY <1>1, PlannerRunInvKept DEF PartsInv
<1>3. CASE part = "client"
  <2>1. [ClientNext]_<<clientVars, secretVars>> /\ part' = part
    BY <1>3 DEF PlannerPart, SecretPart, ClientPart, partVars
  <2>2. ClientInv'
    BY <1>3, <2>1, ClientInvKept DEF PartsInv
  <2> QED
    BY <1>2, <2>2 DEF PartsInv, ClientInv
<1>4. CASE part # "client"
  <2>1. [SecretNext]_secretVars /\ part' = part /\ UNCHANGED clientVars
    BY <1>4 DEF PlannerPart, SecretPart, ClientPart, partVars
  <2>2. SecretInv'
    BY <2>1, SecretInvKept DEF PartsInv
  <2>3. ClientTypeOK'
    BY <2>1 DEF PartsInv, ClientTypeOK, clientVars
  <2> QED
    BY <1>2, <1>4, <2>1, <2>2, <2>3 DEF PartsInv
<1> QED
  BY <1>3, <1>4

\* Planner process, secret store and provider client keep their types, their limits
\* and the one holder of each lock.
THEOREM PartsKeepTypes ==
  ASSUME MaxRequests # 0
  PROVE  PartSpec => []PartsTypeOK
<1>1. PartInit => PartsInv
  BY PartsInvStarts
<1>2. PartsInv => PartsTypeOK
  BY DEF PartsInv, PartsTypeOK, PlannerRunInv, SecretInv
<1> QED
  BY <1>1, <1>2, PartsInvKept, PTL DEF PartSpec

=============================================================================
