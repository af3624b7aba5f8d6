-------------------------- MODULE WorkerRunProofs ---------------------------
(***************************************************************************)
(* Both runtimes keep the contract of a Worker process: the self-hosted    *)
(* agent (AgentRun) for any limits of attempts, model steps and tools, and *)
(* it stops writing when its execution is taken away; the Codex CLI        *)
(* (CodexRun) as long as its buffer has room for the events of a whole     *)
(* attempt.  And both keep their limits.                                   *)
(***************************************************************************)
EXTENDS AgentRun, CodexRun, TLAPS

\* An attempt is begun only if one is left.
AttemptsLeft ==
  /\ attempt \in Nat
  /\ pc = "claimed" => attempt = 0
  /\ pc = "begin" => attempt <= MaxRetries

\* The row is finished by the last command of the process.
ReportIsLast == row = "FINISHED" => pc \in {"exit", "ended"}

\* The process is at work: it has neither reported nor gone.
AtWork == row # "FINISHED" /\ pc \notin {"exit", "ended"}

-----------------------------------------------------------------------------
(***************************************************************************)
(* The self-hosted agent runtime.                                          *)
(***************************************************************************)
\* What the retry rests on: in an attempt that has written, the counter knows
\* of it, or the error that ended it does not allow a retry.
WritesKnown ==
  /\ InAttempt /\ written # {} => count # 0 \/ (pc = "judge" /\ error = "fatal")
  /\ pc \in {"claimed", "begin"} => written = {}

\* A write after the loss is followed by no other: the next beat is refused.
LossStopsTools ==
  /\ lostWrites \in {0, 1}
  /\ lostWrites = 1 => row # "RUNNING" /\ pc # "run"

AgentInv ==
  /\ count \in Nat
  /\ WritesKnown
  /\ AttemptsLeft
  /\ ReportIsLast
  /\ LossStopsTools

\* Before its first attempt the agent has written nothing.
LEMMA AgentInit_Inv == AgentInit => AgentInv
  BY RetriesAssumption
  DEF AgentInit, RunInit, AgentInv, WritesKnown, AttemptsLeft, ReportIsLast,
      LossStopsTools, InAttempt

\* Every action of the runtime keeps the invariant.
LEMMA AgentStep_Inv ==
  ASSUME AgentInv, [AgentNext]_agentVars
  PROVE  AgentInv'
<1> USE RetriesAssumption DEF AgentInv, WritesKnown, AttemptsLeft, ReportIsLast,
      LossStopsTools, InAttempt, GoTo, Conclude, Raise, modelVars, diskVars
<1>1. CASE UNCHANGED agentVars
  BY <1>1 DEF agentVars, runVars
<1>2. CASE HostStep /\ UNCHANGED <<modelVars, diskVars>>
  <2>1. CASE Unusable BY <1>2, <2>1 DEF Unusable
  <2>2. CASE Misrouted BY <1>2, <2>2 DEF Misrouted
  <2>3. CASE EnterGuard BY <1>2, <2>3 DEF EnterGuard
  <2>4. CASE LeaveGuard BY <1>2, <2>4 DEF LeaveGuard
  <2>5. CASE Report BY <1>2, <2>5 DEF Report
  <2> QED BY <1>2, <2>1, <2>2, <2>3, <2>4, <2>5 DEF HostStep
<1>3. CASE BeginAttempt BY <1>3 DEF BeginAttempt
<1>4. CASE Ask BY <1>4 DEF Ask
<1>5. CASE AskAgain BY <1>5 DEF AskAgain
<1>6. CASE AskNot BY <1>6 DEF AskNot
<1>7. CASE WaitExpires BY <1>7 DEF WaitExpires
<1>8. CASE BeforeTool BY <1>8 DEF BeforeTool, Passes
<1>9. CASE ToolReads BY <1>9 DEF ToolReads
<1>10. CASE ToolWrites BY <1>10 DEF ToolWrites, DiskWritten
<1>11. CASE ToolBreaks BY <1>11 DEF ToolBreaks, DiskWritten
<1>12. CASE ToolNeedsApproval BY <1>12 DEF ToolNeedsApproval
<1>13. CASE AfterTool BY <1>13 DEF AfterTool
<1>14. CASE Concludes BY <1>14 DEF Concludes
<1>15. CASE GivesUp BY <1>15 DEF GivesUp
<1>16. CASE FailsForGood BY <1>16 DEF FailsForGood
<1>17. CASE Retries BY <1>17 DEF Retries, Retryable
<1>18. CASE Abort BY <1>18 DEF Abort
<1>19. CASE DeadlinePasses BY <1>19 DEF DeadlinePasses, runVars
<1>20. CASE ProviderAnswers
  <2>1. CASE AnswersError BY <1>20, <2>1 DEF ProviderAnswers, AnswersError
  <2>2. CASE AnswersTooLate BY <1>20, <2>2 DEF ProviderAnswers, AnswersTooLate
  <2>3. CASE AnswersCalls BY <1>20, <2>3 DEF ProviderAnswers, AnswersCalls
  <2>4. CASE AnswersFinal BY <1>20, <2>4 DEF ProviderAnswers, AnswersFinal
  <2>5. CASE AnswersBadFinal BY <1>20, <2>5 DEF ProviderAnswers, AnswersBadFinal
  <2> QED BY <1>20, <2>1, <2>2, <2>3, <2>4, <2>5 DEF ProviderAnswers
<1>21. CASE Interrupted BY <1>21 DEF Interrupted
<1>22. CASE AgentExits BY <1>22 DEF AgentExits, ProcessExits
<1>23. CASE Outside /\ UNCHANGED <<modelVars, diskVars>>
  BY <1>23 DEF Outside, Sweep, BeatRefused, BeatFails
<1> HIDE DEF AgentInv
<1> QED
  BY <1>1, <1>2, <1>3, <1>4, <1>5, <1>6, <1>7, <1>8, <1>9, <1>10, <1>11, <1>12,
     <1>13, <1>14, <1>15, <1>16, <1>17, <1>18, <1>19, <1>20, <1>21, <1>22, <1>23
  DEF AgentNext, MainStep

-----------------------------------------------------------------------------
\* The provers must be told that InAttempt is TRUE or FALSE.
LEMMA IsFalse == ASSUME NEW b \in BOOLEAN, ~ b PROVE b = FALSE
  OBVIOUS

\* The same of the next state.
LEMMA NoLongerInAttempt == ASSUME ~ InAttempt' PROVE InAttempt' = FALSE
<1>1. InAttempt' \in BOOLEAN BY DEF InAttempt
<1> QED BY <1>1, IsFalse

\* The four things a step can be for the contract.
LEMMA AgentStepsOfContract ==
  ASSUME attempt' = attempt,
         written # {} => written' # {}
  PROVE  /\ (AtWork /\ AtWork' /\ (InAttempt' <=> InAttempt) /\ written' = written)
              => UNCHANGED Contract!contractVars
         /\ (AtWork /\ AtWork' /\ InAttempt /\ InAttempt')
              => [Contract!Write]_(Contract!contractVars)
         /\ (AtWork /\ AtWork' /\ InAttempt /\ ~ InAttempt') => Contract!Stop
         /\ (AtWork /\ row' # "FINISHED" /\ pc' \in {"exit", "ended"} /\ written' = written)
              => Contract!Quit
<1>1. ASSUME AtWork, AtWork', InAttempt' <=> InAttempt, written' = written
      PROVE  UNCHANGED Contract!contractVars
  BY <1>1 DEF AtWork, InAttempt, Contract!contractVars
<1>2. ASSUME AtWork, AtWork', InAttempt, InAttempt'
      PROVE  [Contract!Write]_(Contract!contractVars)
  <2>1. CASE written' # {}
    BY <1>2, <2>1 DEF AtWork, InAttempt, Contract!Write
  <2>2. CASE written' = {}
    BY <1>1, <1>2, <2>2
  <2> QED BY <2>1, <2>2
<1>3. ASSUME AtWork, AtWork', InAttempt, ~ InAttempt'
      PROVE  Contract!Stop
  <2>1. InAttempt' = FALSE BY <1>3, NoLongerInAttempt
  <2>2. (written' # {}) \in {written # {}, TRUE}
    <3>1. CASE written' # {} BY <3>1, Zenon
    <3>2. CASE written' = {}
      <4>1. (written' # {}) = (written # {}) BY <3>2, Zenon
      <4> QED BY <4>1, Zenon
    <3> QED BY <3>1, <3>2
  <2> QED BY <1>3, <2>1, <2>2, Zenon DEF AtWork, Contract!Stop
<1>4. ASSUME AtWork, row' # "FINISHED", pc' \in {"exit", "ended"}, written' = written
      PROVE  Contract!Quit
  <2>1. ~ InAttempt' BY <1>4 DEF InAttempt
  <2>2. InAttempt' = FALSE BY <2>1, NoLongerInAttempt
  <2>3. (written' # {}) = (written # {}) BY ONLY <1>4, Zenon
  <2> QED BY <1>4, <2>2, <2>3, Zenon DEF AtWork, Contract!Quit
<1> QED BY <1>1, <1>2, <1>3, <1>4

\* Every action of the runtime is one of these.
LEMMA AgentStep_Contract ==
  ASSUME AgentInv, [AgentNext]_agentVars
  PROVE  [Contract!Next]_(Contract!contractVars)
<1> USE DEF AgentInv, ReportIsLast, AtWork, InAttempt, GoTo, Conclude, Raise,
      modelVars, diskVars
<1> DEFINE Still == AtWork /\ AtWork' /\ (InAttempt' <=> InAttempt) /\ written' = written
           Inside == AtWork /\ AtWork' /\ InAttempt /\ InAttempt'
           Stopped == AtWork /\ AtWork' /\ InAttempt /\ ~ InAttempt'
           Gone == AtWork /\ row' # "FINISHED" /\ pc' \in {"exit", "ended"}
                     /\ written' = written
           Simple == /\ attempt' = attempt /\ (written # {} => written' # {})
                     /\ Still \/ Inside \/ Stopped \/ Gone
<1>0. ASSUME Simple PROVE [Contract!Next]_(Contract!contractVars)
  <2> HIDE DEF AtWork, InAttempt
  <2> QED BY <1>0, AgentStepsOfContract DEF Contract!Next
<1>1. CASE UNCHANGED agentVars
  BY <1>1 DEF agentVars, runVars, Contract!contractVars
<1>2. CASE HostStep /\ UNCHANGED <<modelVars, diskVars>>
  <2>1. CASE Unusable BY <1>0, <1>2, <2>1 DEF Unusable
  <2>2. CASE Misrouted BY <1>0, <1>2, <2>2 DEF Misrouted
  <2>3. CASE EnterGuard BY <1>0, <1>2, <2>3 DEF EnterGuard
  <2>4. CASE LeaveGuard BY <1>0, <1>2, <2>4 DEF LeaveGuard
  <2>5. CASE Report
    <3>1. CASE row' = "FINISHED"
      BY <1>2, <2>5, <3>1 DEF Report, Contract!Next, Contract!Report
    <3>2. CASE row' # "FINISHED"
      BY <1>0, <1>2, <2>5, <3>2 DEF Report
    <3> QED BY <3>1, <3>2
  <2> QED BY <1>2, <2>1, <2>2, <2>3, <2>4, <2>5 DEF HostStep
<1>3. CASE BeginAttempt
  <2>1. CASE attempt' = attempt + 1 /\ pc' = "ask"
    BY <1>3, <2>1 DEF BeginAttempt, WritesKnown, AttemptsLeft, Contract!Next, Contract!Begin
  <2>2. CASE attempt' = attempt /\ pc' = "abort"
    BY <1>0, <1>3, <2>2 DEF BeginAttempt
  <2> QED BY <1>3, <2>1, <2>2 DEF BeginAttempt
<1>4. CASE Ask BY <1>0, <1>4 DEF Ask
<1>5. CASE AskAgain BY <1>0, <1>5 DEF AskAgain
<1>6. CASE AskNot BY <1>0, <1>6 DEF AskNot
<1>7. CASE WaitExpires BY <1>0, <1>7 DEF WaitExpires
<1>8. CASE BeforeTool BY <1>0, <1>8 DEF BeforeTool
<1>9. CASE ToolReads BY <1>0, <1>9 DEF ToolReads
<1>10. CASE ToolWrites BY <1>0, <1>10 DEF ToolWrites, DiskWritten
<1>11. CASE ToolBreaks BY <1>0, <1>11 DEF ToolBreaks, DiskWritten
<1>12. CASE ToolNeedsApproval BY <1>0, <1>12 DEF ToolNeedsApproval
<1>13. CASE AfterTool BY <1>0, <1>13 DEF AfterTool
<1>14. CASE Concludes BY <1>0, <1>14 DEF Concludes
<1>15. CASE GivesUp BY <1>0, <1>15 DEF GivesUp
<1>16. CASE FailsForGood BY <1>0, <1>16 DEF FailsForGood
<1>17. CASE Retries BY <1>0, <1>17 DEF Retries
<1>18. CASE Abort BY <1>0, <1>18 DEF Abort
<1>19. CASE DeadlinePasses BY <1>0, <1>19 DEF DeadlinePasses, runVars
<1>20. CASE ProviderAnswers
  BY <1>0, <1>20 DEF ProviderAnswers, AnswersError, AnswersTooLate, AnswersCalls,
    AnswersFinal, AnswersBadFinal
<1>21. CASE Interrupted BY <1>0, <1>21 DEF Interrupted
<1>22. CASE AgentExits
  <2>1. CASE AtWork
    BY <1>0, <1>22, <2>1 DEF AgentExits, ProcessExits
  <2>2. CASE ~ AtWork
    BY <1>22, <2>2 DEF AgentExits, ProcessExits, Contract!contractVars
  <2> QED BY <2>1, <2>2
<1>23. CASE Outside /\ UNCHANGED <<modelVars, diskVars>>
  BY <1>23 DEF Outside, Sweep, BeatRefused, BeatFails, Contract!contractVars
<1> QED
  BY <1>1, <1>2, <1>3, <1>4, <1>5, <1>6, <1>7, <1>8, <1>9, <1>10, <1>11, <1>12,
     <1>13, <1>14, <1>15, <1>16, <1>17, <1>18, <1>19, <1>20, <1>21, <1>22, <1>23
  DEF AgentNext, MainStep

-----------------------------------------------------------------------------
\* The inductive invariant of the agent.
LEMMA AgentInvariant == AgentSpec => []AgentInv
<1>1. AgentInv /\ [AgentNext]_agentVars => AgentInv'
  BY AgentStep_Inv
<1> QED BY AgentInit_Inv, <1>1, PTL DEF AgentSpec

\* The runtime keeps the contract of a Worker process, whatever the limits: in
\* particular no attempt follows one that has written something.
THEOREM AgentImplementsContract == AgentSpec => AgentKeepsContract
<1>1. AgentInit => Contract!Init
  BY DEF AgentInit, RunInit, Contract!Init, InAttempt
<1>2. AgentInv /\ [AgentNext]_agentVars => [Contract!Next]_(Contract!contractVars)
  BY AgentStep_Contract
<1> QED BY <1>1, <1>2, AgentInvariant, PTL DEF AgentSpec, AgentKeepsContract, Contract!Spec

\* When the execution is taken away at most one tool still writes.
THEOREM AgentStopsWriting == AgentSpec => []OneWriteAfterLoss
<1>1. AgentInv => OneWriteAfterLoss
  BY DEF AgentInv, LossStopsTools, OneWriteAfterLoss
<1> QED BY <1>1, AgentInvariant, PTL

-----------------------------------------------------------------------------
(***************************************************************************)
(* The agent's limits.  The side effects of an attempt are counted against *)
(* the tool calls the model steps so far have had room for.                *)
(***************************************************************************)
\* An attempt under way has a number, and a tool has a call left to run for.
CallsLeft ==
  /\ InAttempt => attempt # 0
  /\ pc \in {"tool", "run", "after"} => calls # 0

\* AgentTypeOK in parts: the flags, and the rest but for the counter.
AgentFlags ==
  guardError \in BOOLEAN /\ beating \in BOOLEAN /\ late \in BOOLEAN /\ repairing \in BOOLEAN

AgentTypes ==
  /\ pc \in Label
  /\ row \in {"RUNNING", "LOST", "FINISHED"}
  /\ report \in Final \cup {"NONE"}
  /\ result \in Final
  /\ attempt \in 0..(MaxRetries + 1)
  /\ step \in 0..MaxSteps
  /\ calls \in 0..MaxCalls
  /\ provider \in {"idle", "busy", "hung"}
  /\ error \in {"none", "transient", "human", "fatal"}
  /\ written \subseteq 1..(MaxRetries + 1)
  /\ AttemptsLeft
  /\ CallsLeft

\* Writes and calls to come do not exceed the calls of the steps so far.
CountBounded ==
  /\ count \in Nat
  /\ count <= step * MaxCalls
  /\ pc = "wait" /\ ~ repairing => count + MaxCalls <= step * MaxCalls
  /\ pc \in {"tool", "run"} => count + calls <= step * MaxCalls
  /\ pc = "after" => count + calls <= step * MaxCalls + 1

\* What is needed of products.
LEMMA InNat == ASSUME NEW a \in Nat, NEW b \in Nat PROVE a * b \in Nat /\ 0 * b = 0
  OBVIOUS

\* One step more has room for MaxCalls calls more.
LEMMA OneMore == ASSUME NEW a \in Nat PROVE (a + 1) * MaxCalls = a * MaxCalls + MaxCalls
  BY StepsAssumption

\* What has room for m has room for c of them.
LEMMA RoomLeft ==
  ASSUME NEW n \in Nat, NEW m \in Nat, NEW p \in Nat, n + m <= p, NEW c \in 1..m
  PROVE  n + c <= p /\ n <= p
  OBVIOUS

\* The steps so far have room for no more calls than all steps.
LEMMA StepsBound == ASSUME NEW a \in 0..MaxSteps PROVE a * MaxCalls <= MaxSteps * MaxCalls
<1>1. MaxSteps - a \in Nat /\ MaxCalls \in Nat
  BY StepsAssumption
<1>2. (MaxSteps - a) * MaxCalls \in Nat
  BY <1>1, InNat
<1>3. (MaxSteps - a) * MaxCalls = MaxSteps * MaxCalls - a * MaxCalls
  BY StepsAssumption
<1> QED
  BY <1>1, <1>2, <1>3, StepsAssumption

\* Flags are set and cleared.
LEMMA AgentFlagsKept ==
  ASSUME AgentFlags, [AgentNext]_agentVars
  PROVE  AgentFlags'
<1> USE DEF AgentFlags, GoTo, Conclude, Raise, modelVars, diskVars
<1>1. CASE UNCHANGED agentVars
  BY <1>1 DEF agentVars, runVars
<1>2. CASE HostStep /\ UNCHANGED <<modelVars, diskVars>>
  <2>1. CASE Unusable BY <1>2, <2>1 DEF Unusable
  <2>2. CASE Misrouted BY <1>2, <2>2 DEF Misrouted
  <2>3. CASE EnterGuard BY <1>2, <2>3 DEF EnterGuard, Passes, Fails
  <2>4. CASE LeaveGuard BY <1>2, <2>4 DEF LeaveGuard, Passes, Fails
  <2>5. CASE Report BY <1>2, <2>5 DEF Report
  <2> QED BY <1>2, <2>1, <2>2, <2>3, <2>4, <2>5 DEF HostStep
<1>3. CASE BeginAttempt BY <1>3 DEF BeginAttempt, Passes, Fails
<1>4. CASE Ask BY <1>4 DEF Ask, StepLeft
<1>5. CASE AskAgain BY <1>5 DEF AskAgain, Passes, Fails
<1>6. CASE AskNot BY <1>6 DEF AskNot
<1>7. CASE WaitExpires BY <1>7 DEF WaitExpires
<1>8. CASE BeforeTool BY <1>8 DEF BeforeTool, Passes, Fails
<1>9. CASE ToolReads BY <1>9 DEF ToolReads
<1>10. CASE ToolWrites BY <1>10 DEF ToolWrites, DiskWritten
<1>11. CASE ToolBreaks BY <1>11 DEF ToolBreaks, DiskWritten
<1>12. CASE ToolNeedsApproval BY <1>12 DEF ToolNeedsApproval
<1>13. CASE AfterTool BY <1>13 DEF AfterTool, Passes, Fails
<1>14. CASE Concludes BY <1>14 DEF Concludes
<1>15. CASE GivesUp BY <1>15 DEF GivesUp
<1>16. CASE FailsForGood BY <1>16 DEF FailsForGood
<1>17. CASE Retries BY <1>17 DEF Retries, Passes, Fails, Retryable
<1>18. CASE Abort BY <1>18 DEF Abort
<1>19. CASE DeadlinePasses BY <1>19 DEF DeadlinePasses, runVars
<1>20. CASE ProviderAnswers
  <2>1. CASE AnswersError BY <1>20, <2>1 DEF ProviderAnswers, AnswersError, Passes, Fails
  <2>2. CASE AnswersTooLate BY <1>20, <2>2 DEF ProviderAnswers, AnswersTooLate
  <2>3. CASE AnswersCalls BY <1>20, <2>3 DEF ProviderAnswers, AnswersCalls
  <2>4. CASE AnswersFinal BY <1>20, <2>4 DEF ProviderAnswers, AnswersFinal, Passes, Fails
  <2>5. CASE AnswersBadFinal BY <1>20, <2>5 DEF ProviderAnswers, AnswersBadFinal
  <2> QED BY <1>20, <2>1, <2>2, <2>3, <2>4, <2>5 DEF ProviderAnswers
<1>21. CASE Interrupted BY <1>21 DEF Interrupted
<1>22. CASE AgentExits BY <1>22 DEF AgentExits, ProcessExits
<1>23. CASE Outside /\ UNCHANGED <<modelVars, diskVars>>
  BY <1>23 DEF Outside, Sweep, BeatRefused, BeatFails
<1> HIDE DEF AgentFlags
<1> QED
  BY ONLY [AgentNext]_agentVars, <1>1, <1>2, <1>3, <1>4, <1>5, <1>6, <1>7, <1>8, <1>9,
       <1>10, <1>11, <1>12, <1>13, <1>14, <1>15, <1>16, <1>17, <1>18, <1>19, <1>20, <1>21,
       <1>22, <1>23
  DEF AgentNext, MainStep

\* Every action keeps the types and the limits of attempts, steps and calls.
LEMMA AgentTypesKept ==
  ASSUME AgentTypes, [AgentNext]_agentVars
  PROVE  AgentTypes'
<1> USE RetriesAssumption, StepsAssumption
    DEF AgentTypes, AttemptsLeft, CallsLeft, InAttempt, Label, Final, GoTo, Conclude,
      Raise, modelVars, diskVars
<1>1. CASE UNCHANGED agentVars
  BY <1>1 DEF agentVars, runVars
<1>2. CASE HostStep /\ UNCHANGED <<modelVars, diskVars>>
  <2>1. CASE Unusable BY <1>2, <2>1 DEF Unusable
  <2>2. CASE Misrouted BY <1>2, <2>2 DEF Misrouted
  <2>3. CASE EnterGuard BY <1>2, <2>3 DEF EnterGuard, Passes, Fails
  <2>4. CASE LeaveGuard BY <1>2, <2>4 DEF LeaveGuard, Passes, Fails
  <2>5. CASE Report BY <1>2, <2>5 DEF Report
  <2> QED BY <1>2, <2>1, <2>2, <2>3, <2>4, <2>5 DEF HostStep
<1>3. CASE BeginAttempt BY <1>3 DEF BeginAttempt, Passes, Fails
<1>4. CASE Ask BY <1>4 DEF Ask, StepLeft
<1>5. CASE AskAgain BY <1>5 DEF AskAgain, Passes, Fails
<1>6. CASE AskNot BY <1>6 DEF AskNot
<1>7. CASE WaitExpires BY <1>7 DEF WaitExpires
<1>8. CASE BeforeTool BY <1>8 DEF BeforeTool, Passes, Fails
<1>9. CASE ToolReads BY <1>9 DEF ToolReads
<1>10. CASE ToolWrites BY <1>10 DEF ToolWrites, DiskWritten
<1>11. CASE ToolBreaks
  <2>1. attempt \in 1..(MaxRetries + 1)
    BY <1>11 DEF ToolBreaks
  <2>2. written' \subseteq 1..(MaxRetries + 1)
    BY <1>11, <2>1 DEF ToolBreaks, DiskWritten
  <2> QED
    BY <1>11, <2>2 DEF ToolBreaks
<1>12. CASE ToolNeedsApproval BY <1>12 DEF ToolNeedsApproval
<1>13. CASE AfterTool BY <1>13 DEF AfterTool, Passes, Fails
<1>14. CASE Concludes BY <1>14 DEF Concludes
<1>15. CASE GivesUp BY <1>15 DEF GivesUp
<1>16. CASE FailsForGood BY <1>16 DEF FailsForGood
<1>17. CASE Retries BY <1>17 DEF Retries, Passes, Fails, Retryable
<1>18. CASE Abort BY <1>18 DEF Abort
<1>19. CASE DeadlinePasses BY <1>19 DEF DeadlinePasses, runVars
<1>20. CASE ProviderAnswers
  <2>1. CASE AnswersError BY <1>20, <2>1 DEF ProviderAnswers, AnswersError, Passes, Fails
  <2>2. CASE AnswersTooLate BY <1>20, <2>2 DEF ProviderAnswers, AnswersTooLate
  <2>3. CASE AnswersCalls BY <1>20, <2>3 DEF ProviderAnswers, AnswersCalls
  <2>4. CASE AnswersFinal BY <1>20, <2>4 DEF ProviderAnswers, AnswersFinal, Passes, Fails
  <2>5. CASE AnswersBadFinal BY <1>20, <2>5 DEF ProviderAnswers, AnswersBadFinal
  <2> QED BY <1>20, <2>1, <2>2, <2>3, <2>4, <2>5 DEF ProviderAnswers
<1>21. CASE Interrupted BY <1>21 DEF Interrupted
<1>22. CASE AgentExits BY <1>22 DEF AgentExits, ProcessExits
<1>23. CASE Outside /\ UNCHANGED <<modelVars, diskVars>>
  BY <1>23 DEF Outside, Sweep, BeatRefused, BeatFails
<1> HIDE DEF AgentTypes
<1> QED
  BY ONLY [AgentNext]_agentVars, <1>1, <1>2, <1>3, <1>4, <1>5, <1>6, <1>7, <1>8, <1>9,
       <1>10, <1>11, <1>12, <1>13, <1>14, <1>15, <1>16, <1>17, <1>18, <1>19, <1>20, <1>21,
       <1>22, <1>23
  DEF AgentNext, MainStep

\* A write uses up the call it is made for, and a model step brings new ones.
LEMMA CountKept ==
  ASSUME AgentTypes, CountBounded, [AgentNext]_agentVars
  PROVE  CountBounded'
<1> USE StepsAssumption
    DEF CountBounded, AgentTypes, CallsLeft, GoTo, Conclude, Raise,
      modelVars, diskVars
<1>1. CASE UNCHANGED agentVars
  BY <1>1 DEF agentVars, runVars
<1>2. CASE HostStep /\ UNCHANGED <<modelVars, diskVars>>
  <2>1. CASE Unusable BY <1>2, <2>1 DEF Unusable
  <2>2. CASE Misrouted BY <1>2, <2>2 DEF Misrouted
  <2>3. CASE EnterGuard BY <1>2, <2>3 DEF EnterGuard, Passes, Fails
  <2>4. CASE LeaveGuard BY <1>2, <2>4 DEF LeaveGuard, Passes, Fails
  <2>5. CASE Report BY <1>2, <2>5 DEF Report
  <2> QED BY <1>2, <2>1, <2>2, <2>3, <2>4, <2>5 DEF HostStep
<1>3. CASE BeginAttempt
  BY <1>3, InNat DEF BeginAttempt
<1>4. CASE Ask
  <2>1. step' = step + 1 /\ step \in Nat /\ count' = count /\ pc' = "wait"
    BY <1>4 DEF Ask
  <2>2. step' * MaxCalls = step * MaxCalls + MaxCalls
    BY <2>1, OneMore
  <2>3. step * MaxCalls \in Nat
    BY <2>1, InNat
  <2> QED
    BY <2>1, <2>2, <2>3
<1>5. CASE AskAgain BY <1>5 DEF AskAgain, Passes, Fails
<1>6. CASE AskNot BY <1>6 DEF AskNot
<1>7. CASE WaitExpires BY <1>7 DEF WaitExpires
<1>8. CASE BeforeTool BY <1>8 DEF BeforeTool, Passes, Fails
<1>9. CASE ToolReads BY <1>9 DEF ToolReads
<1>10. CASE ToolWrites BY <1>10 DEF ToolWrites, DiskWritten
<1>11. CASE ToolBreaks BY <1>11 DEF ToolBreaks, DiskWritten
<1>12. CASE ToolNeedsApproval BY <1>12 DEF ToolNeedsApproval
<1>13. CASE AfterTool BY <1>13 DEF AfterTool, Passes, Fails
<1>14. CASE Concludes BY <1>14 DEF Concludes
<1>15. CASE GivesUp BY <1>15 DEF GivesUp
<1>16. CASE FailsForGood BY <1>16 DEF FailsForGood
<1>17. CASE Retries BY <1>17 DEF Retries, Passes, Fails, Retryable
<1>18. CASE Abort BY <1>18 DEF Abort
<1>19. CASE DeadlinePasses BY <1>19 DEF DeadlinePasses, runVars
<1>20. CASE ProviderAnswers
  <2>1. CASE AnswersError BY <1>20, <2>1 DEF ProviderAnswers, AnswersError, Passes, Fails
  <2>2. CASE AnswersTooLate BY <1>20, <2>2 DEF ProviderAnswers, AnswersTooLate
  <2>3. CASE AnswersCalls
    <3>1. calls' \in 1..MaxCalls /\ pc' = "tool" /\ UNCHANGED <<count, step, repairing>>
      BY <1>20, <2>3 DEF ProviderAnswers, AnswersCalls
    <3>2. count + MaxCalls <= step * MaxCalls /\ step * MaxCalls \in Nat
      BY <1>20, <2>3, InNat DEF ProviderAnswers, AnswersCalls
    <3>3. count' + calls' <= step' * MaxCalls /\ count' <= step' * MaxCalls
      BY <3>1, <3>2, RoomLeft
    <3> QED
      BY <3>1, <3>3
  <2>4. CASE AnswersFinal BY <1>20, <2>4 DEF ProviderAnswers, AnswersFinal, Passes, Fails
  <2>5. CASE AnswersBadFinal BY <1>20, <2>5 DEF ProviderAnswers, AnswersBadFinal
  <2> QED BY <1>20, <2>1, <2>2, <2>3, <2>4, <2>5 DEF ProviderAnswers
<1>21. CASE Interrupted BY <1>21 DEF Interrupted
<1>22. CASE AgentExits BY <1>22 DEF AgentExits, ProcessExits
<1>23. CASE Outside /\ UNCHANGED <<modelVars, diskVars>>
  BY <1>23 DEF Outside, Sweep, BeatRefused, BeatFails
<1> HIDE DEF CountBounded, AgentTypes
<1> QED
  BY ONLY [AgentNext]_agentVars, <1>1, <1>2, <1>3, <1>4, <1>5, <1>6, <1>7, <1>8, <1>9,
       <1>10, <1>11, <1>12, <1>13, <1>14, <1>15, <1>16, <1>17, <1>18, <1>19, <1>20, <1>21,
       <1>22, <1>23
  DEF AgentNext, MainStep

\* Attempts, model steps, tool calls and side effects keep their limits.
THEOREM AgentTypeCorrect == AgentSpec => []AgentTypeOK
<1>1. AgentInit => AgentFlags /\ AgentTypes /\ CountBounded
  <2> SUFFICES ASSUME AgentInit PROVE AgentFlags /\ AgentTypes /\ CountBounded
    OBVIOUS
  <2> USE RetriesAssumption, StepsAssumption DEF AgentInit, RunInit
  <2>1. AgentFlags /\ AgentTypes
    <3>1. AgentFlags
      BY DEF AgentFlags
    <3>2. attempt \in 0..(MaxRetries + 1) /\ step \in 0..MaxSteps /\ calls \in 0..MaxCalls
      OBVIOUS
    <3> QED
      BY <3>1, <3>2 DEF AgentTypes, Label, Final, AttemptsLeft, CallsLeft, InAttempt
  <2>2. step * MaxCalls = 0
    BY InNat
  <2>3. CountBounded
    BY <2>2 DEF CountBounded
  <2> QED
    BY <2>1, <2>3
<1>2. AgentFlags /\ AgentTypes /\ CountBounded /\ [AgentNext]_agentVars
      => AgentFlags' /\ AgentTypes' /\ CountBounded'
  BY AgentFlagsKept, AgentTypesKept, CountKept
<1>3. AgentFlags /\ AgentTypes /\ CountBounded /\ AgentInv => AgentTypeOK
  <2> SUFFICES ASSUME AgentFlags, AgentTypes, CountBounded, AgentInv PROVE AgentTypeOK
    OBVIOUS
  <2>1. count \in 0..(MaxSteps * MaxCalls)
    <3>1. step * MaxCalls <= MaxSteps * MaxCalls
      BY StepsBound DEF AgentTypes
    <3>2. step * MaxCalls \in Nat /\ MaxSteps * MaxCalls \in Nat
      BY InNat, StepsAssumption DEF AgentTypes
    <3> QED
      BY <3>1, <3>2 DEF CountBounded
  <2>2. lostWrites \in Nat
    BY DEF AgentInv, LossStopsTools
  <2> QED
    BY <2>1, <2>2 DEF AgentFlags, AgentTypes, AgentTypeOK, RunTypeOK
<1> QED
  BY <1>1, <1>2, <1>3, AgentInvariant, PTL DEF AgentSpec

-----------------------------------------------------------------------------
(***************************************************************************)
(* The Codex CLI runtime.                                                  *)
(***************************************************************************)
Shows(s) == \E i \in DOMAIN s : s[i] = "write"

\* Every event is in the pipe, in the buffer, or dropped.
EventsCounted ==
  /\ output \in Seq({"write", "text"})
  /\ piped \in Seq({"write", "text"})
  /\ produced \in Nat
  /\ Len(output) + Len(piped) <= produced

\* What the attempt has written shows in the buffer or is still to come, unless
\* the buffer has dropped something.
WritesShow == attempt \in wrote => Truncated \/ Shows(output) \/ Shows(piped)

\* The output of an attempt that is not marked is judged as a whole.
JudgedWhole ==
  pc = "read" /\ attempt \notin incomplete => piped = << >> /\ ~ Truncated

\* What the retry rests on: an attempt that wrote is the last, or marked.
RetriesKnow ==
  /\ \A n \in wrote : n \in Nat /\ n <= attempt
  /\ \A n \in wrote : n < attempt => n \in incomplete
  /\ pc \in {"claimed", "begin"} => wrote \subseteq incomplete

\* The codex process is gone before the next attempt, and before the report.
ProcessGone ==
  /\ cli \in BOOLEAN
  /\ pc \in {"claimed", "begin", "join", "read", "closing", "report"} => ~ cli

CodexInv ==
  /\ EventsCounted
  /\ WritesShow
  /\ JudgedWhole
  /\ RetriesKnow
  /\ ProcessGone
  /\ AttemptsLeft
  /\ ReportIsLast

\* Empty sequences show nothing.
LEMMA EmptyEvents ==
  /\ << >> \in Seq({"write", "text"})
  /\ Len(<< >>) = 0
  /\ ~ Shows(<< >>)
BY DEF Shows

\* Before its first attempt the codex process has written nothing.
LEMMA CodexInit_Inv == CodexInit => CodexInv
<1> SUFFICES ASSUME CodexInit PROVE CodexInv
  OBVIOUS
<1> USE DEF CodexInit, RunInit
<1>1. EventsCounted
  BY EmptyEvents DEF EventsCounted
<1> QED
  BY <1>1, RetriesAssumption
  DEF CodexInv, WritesShow, JudgedWhole, RetriesKnow, ProcessGone, AttemptsLeft, ReportIsLast

\* What is appended is there, and what was there stays.
LEMMA AppendShows ==
  ASSUME NEW s \in Seq({"write", "text"}), NEW e \in {"write", "text"}
  PROVE  /\ Append(s, e) \in Seq({"write", "text"})
         /\ Len(Append(s, e)) = Len(s) + 1
         /\ e = "write" => Shows(Append(s, e))
         /\ Shows(s) => Shows(Append(s, e))
<1> DEFINE t == Append(s, e)
<1>1. /\ t \in Seq({"write", "text"})
      /\ Len(t) = Len(s) + 1
      /\ Len(s) + 1 \in DOMAIN t /\ t[Len(s) + 1] = e
      /\ \A i \in DOMAIN s : i \in DOMAIN t /\ t[i] = s[i]
  OBVIOUS
<1> HIDE DEF t
<1>2. (e = "write" => Shows(t)) /\ (Shows(s) => Shows(t))
  BY <1>1 DEF Shows
<1> QED BY <1>1, <1>2 DEF t

\* What is shown is the first event or in the rest.
LEMMA HeadOrTail ==
  ASSUME NEW s \in Seq({"write", "text"}), s # << >>
  PROVE  /\ Head(s) \in {"write", "text"}
         /\ Tail(s) \in Seq({"write", "text"})
         /\ Len(Tail(s)) = Len(s) - 1
         /\ Len(s) >= 1
         /\ Shows(s) => Head(s) = "write" \/ Shows(Tail(s))
<1>1. /\ Head(s) \in {"write", "text"}
      /\ Tail(s) \in Seq({"write", "text"})
      /\ Len(Tail(s)) = Len(s) - 1
      /\ Len(s) >= 1
      /\ Head(s) = s[1]
  OBVIOUS
<1>2. ASSUME NEW i \in DOMAIN s, s[i] = "write", i # 1
      PROVE  Shows(Tail(s))
  <2>1. i - 1 \in DOMAIN Tail(s) /\ Tail(s)[i - 1] = s[i]
    BY <1>1, <1>2
  <2> QED BY <1>2, <2>1 DEF Shows
<1>3. Shows(s) => Head(s) = "write" \/ Shows(Tail(s))
  BY <1>1, <1>2 DEF Shows
<1> QED BY <1>1, <1>3

\* The pipe takes the event.
LEMMA CliProduces_Inv ==
  ASSUME CodexInv, NEW event \in {"write", "text"}, CliProduces(event)
  PROVE  CodexInv'
<1> USE DEF CliProduces, runVars
<1>1. /\ piped' \in Seq({"write", "text"})
      /\ Len(piped') = Len(piped) + 1
      /\ event = "write" => Shows(piped')
      /\ Shows(piped) => Shows(piped')
  BY AppendShows DEF CodexInv, EventsCounted
<1>2. Len(output) \in Nat /\ Len(piped) \in Nat
  BY DEF CodexInv, EventsCounted
<1>3. EventsCounted'
  BY <1>1, <1>2 DEF CodexInv, EventsCounted
<1>4. Truncated' <=> Truncated
  BY <1>1, <1>2 DEF CodexInv, EventsCounted, Truncated
<1>5. WritesShow'
  BY <1>1, <1>4 DEF CodexInv, WritesShow
<1>6. JudgedWhole'
  BY DEF CodexInv, ProcessGone, JudgedWhole
<1>7. RetriesKnow'
  BY RetriesAssumption DEF CodexInv, ProcessGone, RetriesKnow, AttemptsLeft
<1> QED
  BY <1>3, <1>5, <1>6, <1>7 DEF CodexInv, ProcessGone, AttemptsLeft, ReportIsLast

\* The buffer takes the event from the pipe; if it drops one, it is truncated.
LEMMA ReaderTakes_Inv ==
  ASSUME CodexInv, ReaderTakes
  PROVE  CodexInv'
<1> USE DEF ReaderTakes, runVars
<1> DEFINE event == Head(piped)
           longer == Append(output, event)
<1>1. /\ event \in {"write", "text"}
      /\ piped' \in Seq({"write", "text"})
      /\ Len(piped') = Len(piped) - 1
      /\ Len(piped) >= 1
      /\ Shows(piped) => event = "write" \/ Shows(piped')
  BY HeadOrTail DEF CodexInv, EventsCounted
<1>2. Len(output) \in Nat /\ Len(piped) \in Nat
  BY DEF CodexInv, EventsCounted
<1>3. /\ longer \in Seq({"write", "text"})
      /\ Len(longer) = Len(output) + 1
      /\ event = "write" => Shows(longer)
      /\ Shows(output) => Shows(longer)
  BY <1>1, AppendShows DEF CodexInv, EventsCounted
<1>4. output' = longer \/ output' = Tail(longer)
  BY DEF Bounded
<1> HIDE DEF event, longer
<1>5. CASE output' = longer
  <2>1. EventsCounted'
    BY <1>1, <1>2, <1>3, <1>5 DEF CodexInv, EventsCounted
  <2>2. Truncated' <=> Truncated
    BY <1>1, <1>2, <1>3, <1>5 DEF CodexInv, EventsCounted, Truncated
  <2>3. WritesShow'
    BY <1>1, <1>3, <1>5, <2>2 DEF CodexInv, WritesShow
  <2> QED BY <2>1, <2>3 DEF CodexInv, JudgedWhole, RetriesKnow, ProcessGone, AttemptsLeft, ReportIsLast
<1>6. CASE output' = Tail(longer)
  <2>1. output' \in Seq({"write", "text"}) /\ Len(output') = Len(output)
    BY <1>2, <1>3, <1>6
  <2>2. EventsCounted' /\ Truncated'
    BY <1>1, <1>2, <2>1 DEF CodexInv, EventsCounted, Truncated
  <2>3. WritesShow'
    BY <2>2 DEF WritesShow
  <2> QED BY <2>2, <2>3 DEF CodexInv, JudgedWhole, RetriesKnow, ProcessGone, AttemptsLeft, ReportIsLast
<1> QED BY <1>4, <1>5, <1>6

\* The attempt begins with nothing in pipe and buffer.
LEMMA CodexBegins_Inv ==
  ASSUME CodexInv, CodexBegins
  PROVE  CodexInv'
<1> USE RetriesAssumption DEF CodexBegins, GoTo
<1>1. attempt \in Nat
  BY DEF CodexInv, AttemptsLeft
<1>2. CASE attempt' = attempt + 1 /\ piped' = << >> /\ output' = << >> /\ produced' = 0
  <2>1. EventsCounted'
    BY <1>2, EmptyEvents DEF EventsCounted
  <2>2. attempt' \notin wrote'
    BY <1>1, <1>2 DEF CodexInv, RetriesKnow
  <2>3. WritesShow' /\ JudgedWhole'
    BY <2>2 DEF WritesShow, JudgedWhole
  <2>4. RetriesKnow'
    BY <1>1, <1>2 DEF CodexInv, RetriesKnow
  <2>5. ProcessGone'
    BY DEF CodexInv, ProcessGone
  <2>6. AttemptsLeft'
    BY <1>1, <1>2 DEF CodexInv, AttemptsLeft
  <2>7. ReportIsLast'
    BY DEF CodexInv, ReportIsLast
  <2> QED BY <2>1, <2>3, <2>4, <2>5, <2>6, <2>7 DEF CodexInv
<1>3. CASE UNCHANGED <<attempt, cli, orphan, piped, output, produced, ending>> /\ pc' = "abort"
  BY <1>3
  DEF CodexInv, EventsCounted, WritesShow, Truncated, JudgedWhole, RetriesKnow, ProcessGone,
      AttemptsLeft, ReportIsLast
<1> QED BY <1>2, <1>3

\* A retry follows only what shows no write: nothing was written, or the attempt
\* is marked.
LEMMA CodexRetries_Inv ==
  ASSUME CodexInv, CodexRetries
  PROVE  CodexInv'
<1> USE DEF CodexRetries, GoTo
<1>1. attempt \in wrote => attempt \in incomplete
  BY DEF CodexInv, WritesShow, JudgedWhole, CodexRetryable, SideEffects, Shows
<1>2. wrote \subseteq incomplete
  BY <1>1 DEF CodexInv, RetriesKnow, AttemptsLeft
<1> QED
  BY <1>2
  DEF CodexInv, EventsCounted, WritesShow, Truncated, JudgedWhole, RetriesKnow, ProcessGone,
      AttemptsLeft, ReportIsLast, CodexRetryable, cliVars

\* Every action of the runtime keeps the invariant.
LEMMA CodexStep_Inv ==
  ASSUME CodexInv, [CodexNext]_codexVars
  PROVE  CodexInv'
<1> USE RetriesAssumption
    DEF CodexInv, EventsCounted, WritesShow, Truncated, JudgedWhole, RetriesKnow,
        ProcessGone, AttemptsLeft, ReportIsLast, GoTo, Conclude, cliVars, runVars
<1>1. CASE UNCHANGED codexVars
  BY <1>1 DEF codexVars
<1>2. CASE HostStep /\ UNCHANGED cliVars
  <2>1. CASE Unusable BY <1>2, <2>1 DEF Unusable
  <2>2. CASE Misrouted BY <1>2, <2>2 DEF Misrouted
  <2>3. CASE EnterGuard BY <1>2, <2>3 DEF EnterGuard
  <2>4. CASE LeaveGuard BY <1>2, <2>4 DEF LeaveGuard
  <2>5. CASE Report BY <1>2, <2>5 DEF Report
  <2> QED BY <1>2, <2>1, <2>2, <2>3, <2>4, <2>5 DEF HostStep
<1>3. CASE SeesExit BY <1>3 DEF SeesExit
<1>4. CASE SeesError BY <1>4 DEF SeesError
<1>5. CASE KillAttempt BY <1>5 DEF KillAttempt, TreeEnds, KillEnds, OrphanStays, Survives
<1>6. CASE JoinReaders BY <1>6 DEF JoinReaders, ReaderEnded
<1>7. CASE CodexConcludes BY <1>7 DEF CodexConcludes
<1>8. CASE CodexFailsForGood BY <1>8 DEF CodexFailsForGood
<1>9. CASE CodexGivesUp BY <1>9 DEF CodexGivesUp
<1>10. CASE CodexAbort BY <1>10 DEF CodexAbort, TreeEnds, KillEnds, OrphanStays, Survives
<1>11. CASE CodexDeadline BY <1>11 DEF CodexDeadline
<1>12. CASE CodexInterrupted BY <1>12 DEF CodexInterrupted
<1>13. ASSUME NEW e \in {"ok", "bad", "auth"}, CliExits(e) PROVE CodexInv'
  BY <1>13 DEF CliExits, OrphanStays
<1>14. CASE OrphanEnds BY <1>14 DEF OrphanEnds
<1>15. CASE Outside /\ UNCHANGED cliVars
  BY <1>15 DEF Outside, Sweep, BeatRefused, BeatFails
<1>16. CASE ProcessExits /\ UNCHANGED cliVars
  BY <1>16 DEF ProcessExits
<1> HIDE DEF CodexInv
<1> QED
  BY <1>1, <1>2, <1>3, <1>4, <1>5, <1>6, <1>7, <1>8, <1>9, <1>10, <1>11, <1>12, <1>13,
     <1>14, <1>15, <1>16, CodexBegins_Inv, CodexRetries_Inv, CliProduces_Inv, ReaderTakes_Inv
  DEF CodexNext, CodexMainStep

-----------------------------------------------------------------------------
\* The contract's view of the runtime.
Active == cli \/ pc \in {"poll", "kill", "join"}

\* Neither its end nor its report.
SamePhase ==
  /\ row' = "FINISHED" <=> row = "FINISHED"
  /\ pc' \in {"exit", "ended"} <=> pc \in {"exit", "ended"}

\* Nothing that is known to have been written is forgotten.
Remembers == attempt' = attempt /\ KnownWrites \subseteq KnownWrites'

\* While an attempt is active a step may write or stop it, or both.
Working == Remembers /\ SamePhase /\ Active

\* While none is, a step is nothing to the contract but the end of the run.
Waiting == Remembers /\ SamePhase /\ ~ Active /\ ~ Active' /\ KnownWrites' \subseteq KnownWrites

Quitting ==
  /\ Remembers
  /\ AtWork /\ row' # "FINISHED" /\ pc' \in {"exit", "ended"}
  /\ Active' => Active

\* Such steps are steps of the contract.
LEMMA CodexStepsOfContract ==
  ASSUME Working \/ Waiting \/ Quitting
  PROVE  [CodexContract!Next]_(CodexContract!contractVars)
<1> USE DEF Remembers, SamePhase, Active
<1>1. CASE Waiting
  <2>1. (cli \/ pc \in {"poll", "kill", "join"})' = (cli \/ pc \in {"poll", "kill", "join"})
    BY <1>1 DEF Waiting
  <2>2. (KnownWrites # {})' = (KnownWrites # {})
    BY <1>1 DEF Waiting
  <2> QED BY <1>1, <2>1, <2>2 DEF Waiting, CodexContract!contractVars
<1>2. CASE Working /\ ~ Active'
  BY <1>2 DEF Working, CodexContract!Next, CodexContract!Stop
<1>3. CASE Working /\ Active' /\ KnownWrites' # {}
  BY <1>3 DEF Working, CodexContract!Next, CodexContract!Write
<1>4. CASE Working /\ Active' /\ KnownWrites' = {}
  <2>1. (cli \/ pc \in {"poll", "kill", "join"})' = (cli \/ pc \in {"poll", "kill", "join"})
    BY <1>4 DEF Working
  <2>2. (KnownWrites # {})' = (KnownWrites # {})
    BY <1>4 DEF Working
  <2> QED BY <1>4, <2>1, <2>2 DEF Working, CodexContract!contractVars
<1>5. CASE Quitting
  BY <1>5 DEF Quitting, AtWork, CodexContract!Next, CodexContract!Quit
<1> QED BY <1>1, <1>2, <1>3, <1>4, <1>5

\* Every step of the runtime is a step of the contract.
LEMMA CodexStep_Contract ==
  ASSUME CodexInv, [CodexNext]_codexVars
  PROVE  [CodexContract!Next]_(CodexContract!contractVars)
<1> DEFINE Step == [CodexContract!Next]_(CodexContract!contractVars)
<1> USE DEF CodexInv, ProcessGone, ReportIsLast, RetriesKnow, KnownWrites, Working, Waiting,
            Quitting, Remembers, SamePhase, Active, AtWork, GoTo, Conclude, cliVars, runVars
<1>0. ASSUME Working \/ Waiting \/ Quitting PROVE Step
  BY ONLY <1>0, CodexStepsOfContract
<1> SUFFICES Step
  OBVIOUS
<1> HIDE DEF Step
<1>1. CASE UNCHANGED codexVars
  BY <1>0, <1>1 DEF codexVars
<1>2. CASE HostStep /\ UNCHANGED cliVars
  <2>1. CASE Unusable BY <1>0, <1>2, <2>1 DEF Unusable
  <2>2. CASE Misrouted BY <1>0, <1>2, <2>2 DEF Misrouted
  <2>3. CASE EnterGuard BY <1>0, <1>2, <2>3 DEF EnterGuard
  <2>4. CASE LeaveGuard BY <1>0, <1>2, <2>4 DEF LeaveGuard
  <2>5. CASE Report
    <3>1. CASE row' = "FINISHED"
      <4>1. CodexContract!Report
        <5>1. (KnownWrites # {})' = (KnownWrites # {})
          BY <1>2, <2>5 DEF Report
        <5> QED BY <1>2, <2>5, <3>1, <5>1 DEF Report, CodexContract!Report
      <4> QED BY <4>1 DEF Step, CodexContract!Next
    <3>2. CASE row' # "FINISHED"
      BY <1>0, <1>2, <2>5, <3>2 DEF Report
    <3> QED BY <3>1, <3>2
  <2> QED BY <1>2, <2>1, <2>2, <2>3, <2>4, <2>5 DEF HostStep
<1>3. CASE CodexBegins
  <2>1. CASE attempt' = attempt + 1
    <3>1. KnownWrites = {} /\ KnownWrites' = {}
      BY <1>3, <2>1, RetriesAssumption DEF CodexBegins, AttemptsLeft
    <3>2. (KnownWrites # {})' = (KnownWrites # {})
      BY <3>1
    <3>3. CodexContract!Begin
      BY <1>3, <2>1, <3>1, <3>2 DEF CodexBegins, AttemptsLeft, CodexContract!Begin
    <3> QED BY <3>3 DEF Step, CodexContract!Next
  <2>2. CASE UNCHANGED <<attempt, cli>> /\ pc' = "abort"
    BY <1>0, <1>3, <2>2 DEF CodexBegins
  <2> QED BY <1>3, <2>1, <2>2 DEF CodexBegins
<1>4. CASE SeesExit BY <1>0, <1>4 DEF SeesExit
<1>5. CASE SeesError BY <1>0, <1>5 DEF SeesError
<1>6. CASE KillAttempt
  BY <1>0, <1>6 DEF KillAttempt, TreeEnds, KillEnds, OrphanStays, Survives
<1>7. CASE JoinReaders
  <2>1. KnownWrites \subseteq KnownWrites'
    BY <1>7 DEF JoinReaders
  <2> QED BY <1>0, <1>7, <2>1 DEF JoinReaders
<1>8. CASE CodexConcludes BY <1>0, <1>8 DEF CodexConcludes
<1>9. CASE CodexFailsForGood BY <1>0, <1>9 DEF CodexFailsForGood
<1>10. CASE CodexRetries BY <1>0, <1>10 DEF CodexRetries
<1>11. CASE CodexGivesUp BY <1>0, <1>11 DEF CodexGivesUp
<1>12. CASE CodexAbort
  <2>1. CASE pc' = "report"
    BY <1>0, <1>12, <2>1 DEF CodexAbort, TreeEnds, KillEnds
  <2>2. CASE Survives /\ pc' = "exit"
    BY <1>0, <1>12, <2>2 DEF CodexAbort, Survives
  <2> QED BY <1>12, <2>1, <2>2 DEF CodexAbort
<1>13. CASE CodexDeadline BY <1>0, <1>13 DEF CodexDeadline
<1>14. CASE CodexInterrupted BY <1>0, <1>14 DEF CodexInterrupted
<1>15. ASSUME NEW event \in {"write", "text"}, CliProduces(event)
       PROVE  Step
  <2>1. KnownWrites \subseteq KnownWrites'
    BY <1>15 DEF CliProduces
  <2> QED BY <1>0, <1>15, <2>1 DEF CliProduces
<1>16. ASSUME NEW e \in {"ok", "bad", "auth"}, CliExits(e)
       PROVE  Step
  BY <1>0, <1>16 DEF CliExits
<1>17. CASE OrphanEnds BY <1>0, <1>17 DEF OrphanEnds
<1>18. CASE ReaderTakes BY <1>0, <1>18 DEF ReaderTakes
<1>19. CASE Outside /\ UNCHANGED cliVars
  BY <1>0, <1>19 DEF Outside, Sweep, BeatRefused, BeatFails
<1>20. CASE ProcessExits /\ UNCHANGED cliVars
  BY <1>0, <1>20 DEF ProcessExits
<1> QED
  BY ONLY [CodexNext]_codexVars, <1>1, <1>2, <1>3, <1>4, <1>5, <1>6, <1>7, <1>8, <1>9,
     <1>10, <1>11, <1>12, <1>13, <1>14, <1>15, <1>16, <1>17, <1>18, <1>19, <1>20
  DEF CodexNext, CodexMainStep

-----------------------------------------------------------------------------
\* The Codex runtime keeps the contract of a Worker process, for any limit of
\* attempts and events and any size of the buffer: it starts no attempt after
\* one whose output it read to the end, undropped, and which wrote.  An attempt
\* whose output was cut short may be repeated all the same (violation_retry).
THEOREM CodexImplementsContract == CodexSpec => ImplementsContract
<1>1. CodexInv /\ [CodexNext]_codexVars => CodexInv'
  BY CodexStep_Inv
<1>2. CodexInit => CodexContract!Init
  BY DEF CodexInit, RunInit, KnownWrites, CodexContract!Init
<1>3. CodexInv /\ [CodexNext]_codexVars
        => [CodexContract!Next]_(CodexContract!contractVars)
  BY CodexStep_Contract
<1> QED
  BY CodexInit_Inv, <1>1, <1>2, <1>3, PTL
  DEF CodexSpec, ImplementsContract, CodexContract!Spec

-----------------------------------------------------------------------------
(***************************************************************************)
(* The limits of the Codex runtime, whatever the buffer holds.             *)
(***************************************************************************)
\* A process that is alive belongs to an attempt.
EventsNumbered == cli \/ pc \in {"poll", "kill", "join", "read"} => attempt # 0

\* CodexTypeOK in parts: flags, buffer, and the rest.
CodexFlags ==
  guardError \in BOOLEAN /\ beating \in BOOLEAN /\ cli \in BOOLEAN /\ orphan \in BOOLEAN

BufferOK ==
  /\ output \in Seq({"write", "text"}) /\ Len(output) <= OutputLimit
  /\ piped \in Seq({"write", "text"})
  /\ produced \in 0..MaxEvents

CodexTypes ==
  /\ pc \in Label
  /\ row \in {"RUNNING", "LOST", "FINISHED"}
  /\ report \in Final \cup {"NONE"}
  /\ result \in Final
  /\ attempt \in 0..(MaxRetries + 1)
  /\ ending \in Ending
  /\ wrote \subseteq 1..(MaxRetries + 1)
  /\ incomplete \subseteq 1..(MaxRetries + 1)
  /\ AttemptsLeft
  /\ EventsNumbered

\* BoundedText keeps its limit.
LEMMA BufferKept ==
  ASSUME NEW s \in Seq({"write", "text"}), Len(s) <= OutputLimit, NEW e \in {"write", "text"}
  PROVE  /\ Bounded(Append(s, e)) \in Seq({"write", "text"})
         /\ Len(Bounded(Append(s, e))) <= OutputLimit
<1> DEFINE t == Append(s, e)
<1>1. t \in Seq({"write", "text"}) /\ Len(t) = Len(s) + 1 /\ t # << >>
  OBVIOUS
<1> HIDE DEF t
<1>2. Tail(t) \in Seq({"write", "text"}) /\ Len(Tail(t)) = Len(t) - 1
  BY <1>1
<1>3. Bounded(t) \in Seq({"write", "text"}) /\ Len(Bounded(t)) <= OutputLimit
  BY <1>1, <1>2, OutputAssumption DEF Bounded
<1> QED
  BY <1>3 DEF t

\* So it takes an event from the pipe.
LEMMA BufferTakes ==
  ASSUME BufferOK, piped # << >>
  PROVE  /\ Tail(piped) \in Seq({"write", "text"})
         /\ Bounded(Append(output, Head(piped))) \in Seq({"write", "text"})
         /\ Len(Bounded(Append(output, Head(piped)))) <= OutputLimit
<1>1. Head(piped) \in {"write", "text"} /\ Tail(piped) \in Seq({"write", "text"})
  BY HeadOrTail DEF BufferOK
<1> QED BY <1>1, BufferKept DEF BufferOK

\* Flags are set and cleared.
LEMMA CodexFlagsKept ==
  ASSUME CodexFlags, [CodexNext]_codexVars
  PROVE  CodexFlags'
<1> USE DEF CodexFlags, GoTo, Conclude, cliVars, runVars
<1>1. CASE UNCHANGED codexVars
  BY <1>1 DEF codexVars
<1>2. CASE HostStep /\ UNCHANGED cliVars
  <2>1. CASE Unusable BY <1>2, <2>1 DEF Unusable
  <2>2. CASE Misrouted BY <1>2, <2>2 DEF Misrouted
  <2>3. CASE EnterGuard BY <1>2, <2>3 DEF EnterGuard, Passes, Fails
  <2>4. CASE LeaveGuard BY <1>2, <2>4 DEF LeaveGuard, Passes, Fails
  <2>5. CASE Report BY <1>2, <2>5 DEF Report
  <2> QED BY <1>2, <2>1, <2>2, <2>3, <2>4, <2>5 DEF HostStep
<1>3. CASE CodexBegins BY <1>3 DEF CodexBegins, Passes, Fails
<1>4. CASE SeesExit BY <1>4 DEF SeesExit
<1>5. CASE SeesError BY <1>5 DEF SeesError
<1>6. CASE KillAttempt BY <1>6 DEF KillAttempt, TreeEnds, KillEnds, OrphanStays, Survives
<1>18. CASE JoinReaders BY <1>18 DEF JoinReaders
<1>7. CASE CodexConcludes BY <1>7 DEF CodexConcludes
<1>8. CASE CodexFailsForGood BY <1>8 DEF CodexFailsForGood
<1>9. CASE CodexRetries BY <1>9 DEF CodexRetries, Passes, Fails, CodexRetryable
<1>10. CASE CodexGivesUp BY <1>10 DEF CodexGivesUp
<1>11. CASE CodexAbort BY <1>11 DEF CodexAbort, TreeEnds, KillEnds, OrphanStays, Survives
<1>12. CASE CodexDeadline BY <1>12 DEF CodexDeadline
<1>13. CASE CodexInterrupted BY <1>13 DEF CodexInterrupted
<1>14. ASSUME NEW event \in {"write", "text"}, CliProduces(event) PROVE CodexFlags'
  BY <1>14 DEF CliProduces
<1>15. ASSUME NEW e \in {"ok", "bad", "auth"}, CliExits(e) PROVE CodexFlags'
  BY <1>15 DEF CliExits, OrphanStays
<1>16. CASE Outside /\ UNCHANGED cliVars
  BY <1>16 DEF Outside, Sweep, BeatRefused, BeatFails
<1>17. CASE ProcessExits /\ UNCHANGED cliVars
  BY <1>17 DEF ProcessExits
<1>19. CASE OrphanEnds BY <1>19 DEF OrphanEnds
<1>20. CASE ReaderTakes BY <1>20 DEF ReaderTakes
<1> HIDE DEF CodexFlags
<1> QED
  BY ONLY [CodexNext]_codexVars, <1>1, <1>2, <1>3, <1>4, <1>5, <1>6, <1>7, <1>8, <1>9,
       <1>10, <1>11, <1>12, <1>13, <1>14, <1>15, <1>16, <1>17, <1>18, <1>19, <1>20
  DEF CodexNext, CodexMainStep

\* Every action keeps the types and the limit of attempts.
LEMMA CodexTypesKept ==
  ASSUME CodexTypes, [CodexNext]_codexVars
  PROVE  CodexTypes'
<1> USE RetriesAssumption
    DEF CodexTypes, AttemptsLeft, EventsNumbered, Label, Final, Ending, GoTo, Conclude,
         cliVars, runVars
<1>1. CASE UNCHANGED codexVars
  BY <1>1 DEF codexVars
<1>2. CASE HostStep /\ UNCHANGED cliVars
  <2>1. CASE Unusable BY <1>2, <2>1 DEF Unusable
  <2>2. CASE Misrouted BY <1>2, <2>2 DEF Misrouted
  <2>3. CASE EnterGuard BY <1>2, <2>3 DEF EnterGuard, Passes, Fails
  <2>4. CASE LeaveGuard BY <1>2, <2>4 DEF LeaveGuard, Passes, Fails
  <2>5. CASE Report BY <1>2, <2>5 DEF Report
  <2> QED BY <1>2, <2>1, <2>2, <2>3, <2>4, <2>5 DEF HostStep
<1>3. CASE CodexBegins BY <1>3 DEF CodexBegins, Passes, Fails
<1>4. CASE SeesExit BY <1>4 DEF SeesExit
<1>5. CASE SeesError BY <1>5 DEF SeesError
<1>6. CASE KillAttempt BY <1>6 DEF KillAttempt, TreeEnds, KillEnds, OrphanStays, Survives
<1>18. CASE JoinReaders BY <1>18 DEF JoinReaders
<1>7. CASE CodexConcludes BY <1>7 DEF CodexConcludes
<1>8. CASE CodexFailsForGood BY <1>8 DEF CodexFailsForGood
<1>9. CASE CodexRetries BY <1>9 DEF CodexRetries, Passes, Fails, CodexRetryable
<1>10. CASE CodexGivesUp BY <1>10 DEF CodexGivesUp
<1>11. CASE CodexAbort BY <1>11 DEF CodexAbort, TreeEnds, KillEnds, OrphanStays, Survives
<1>12. CASE CodexDeadline BY <1>12 DEF CodexDeadline
<1>13. CASE CodexInterrupted BY <1>13 DEF CodexInterrupted
<1>14. ASSUME NEW event \in {"write", "text"}, CliProduces(event) PROVE CodexTypes'
  BY <1>14 DEF CliProduces
<1>15. ASSUME NEW e \in {"ok", "bad", "auth"}, CliExits(e) PROVE CodexTypes'
  BY <1>15 DEF CliExits, OrphanStays
<1>16. CASE Outside /\ UNCHANGED cliVars
  BY <1>16 DEF Outside, Sweep, BeatRefused, BeatFails
<1>17. CASE ProcessExits /\ UNCHANGED cliVars
  BY <1>17 DEF ProcessExits
<1>19. CASE OrphanEnds BY <1>19 DEF OrphanEnds
<1>20. CASE ReaderTakes BY <1>20 DEF ReaderTakes
<1> HIDE DEF CodexTypes
<1> QED
  BY ONLY [CodexNext]_codexVars, <1>1, <1>2, <1>3, <1>4, <1>5, <1>6, <1>7, <1>8, <1>9,
       <1>10, <1>11, <1>12, <1>13, <1>14, <1>15, <1>16, <1>17, <1>18, <1>19, <1>20
  DEF CodexNext, CodexMainStep

\* The buffer keeps its limit, whether it drops events or not.
LEMMA BufferOKKept ==
  ASSUME BufferOK, [CodexNext]_codexVars
  PROVE  BufferOK'
<1> USE OutputAssumption
    DEF BufferOK, GoTo, Conclude, cliVars, runVars
<1>1. CASE UNCHANGED codexVars
  BY <1>1 DEF codexVars
<1>2. CASE HostStep /\ UNCHANGED cliVars
  <2>1. CASE Unusable BY <1>2, <2>1 DEF Unusable
  <2>2. CASE Misrouted BY <1>2, <2>2 DEF Misrouted
  <2>3. CASE EnterGuard BY <1>2, <2>3 DEF EnterGuard, Passes, Fails
  <2>4. CASE LeaveGuard BY <1>2, <2>4 DEF LeaveGuard, Passes, Fails
  <2>5. CASE Report BY <1>2, <2>5 DEF Report
  <2> QED BY <1>2, <2>1, <2>2, <2>3, <2>4, <2>5 DEF HostStep
<1>3. CASE CodexBegins 
  <2>1. << >> \in Seq({"write", "text"}) /\ Len(<< >>) = 0
    OBVIOUS
  <2>2. CASE piped' = << >> /\ output' = << >> /\ produced' = 0
    BY <2>1, <2>2
  <2>3. CASE UNCHANGED <<piped, output, produced>>
    BY <2>3
  <2> QED
    BY <1>3, <2>2, <2>3 DEF CodexBegins
<1>4. CASE SeesExit BY <1>4 DEF SeesExit
<1>5. CASE SeesError BY <1>5 DEF SeesError
<1>6. CASE KillAttempt BY <1>6 DEF KillAttempt, TreeEnds, KillEnds, OrphanStays, Survives
<1>18. CASE JoinReaders BY <1>18 DEF JoinReaders
<1>7. CASE CodexConcludes BY <1>7 DEF CodexConcludes
<1>8. CASE CodexFailsForGood BY <1>8 DEF CodexFailsForGood
<1>9. CASE CodexRetries BY <1>9 DEF CodexRetries, Passes, Fails, CodexRetryable
<1>10. CASE CodexGivesUp BY <1>10 DEF CodexGivesUp
<1>11. CASE CodexAbort BY <1>11 DEF CodexAbort, TreeEnds, KillEnds, OrphanStays, Survives
<1>12. CASE CodexDeadline BY <1>12 DEF CodexDeadline
<1>13. CASE CodexInterrupted BY <1>13 DEF CodexInterrupted
<1>14. ASSUME NEW event \in {"write", "text"}, CliProduces(event) PROVE BufferOK'
  BY <1>14, AppendShows DEF CliProduces
<1>15. ASSUME NEW e \in {"ok", "bad", "auth"}, CliExits(e) PROVE BufferOK'
  BY <1>15 DEF CliExits, OrphanStays
<1>16. CASE Outside /\ UNCHANGED cliVars
  BY <1>16 DEF Outside, Sweep, BeatRefused, BeatFails
<1>17. CASE ProcessExits /\ UNCHANGED cliVars
  BY <1>17 DEF ProcessExits
<1>19. CASE OrphanEnds BY <1>19 DEF OrphanEnds
<1>20. CASE ReaderTakes BY <1>20, BufferTakes DEF ReaderTakes
<1> HIDE DEF BufferOK
<1> QED
  BY ONLY [CodexNext]_codexVars, <1>1, <1>2, <1>3, <1>4, <1>5, <1>6, <1>7, <1>8, <1>9,
       <1>10, <1>11, <1>12, <1>13, <1>14, <1>15, <1>16, <1>17, <1>18, <1>19, <1>20
  DEF CodexNext, CodexMainStep

\* Attempts, events and the buffer keep their limits, for any size of the buffer.
THEOREM CodexTypeCorrect == CodexSpec => []CodexTypeOK
<1> DEFINE Inv == CodexFlags /\ CodexTypes /\ BufferOK
<1>1. CodexInit => Inv
  <2> SUFFICES ASSUME CodexInit PROVE Inv
    OBVIOUS
  <2> USE RetriesAssumption, OutputAssumption DEF CodexInit, RunInit
  <2>1. CodexFlags
    BY DEF CodexFlags
  <2>2. BufferOK
    <3>1. << >> \in Seq({"write", "text"}) /\ Len(<< >>) = 0
      OBVIOUS
    <3> QED
      BY <3>1 DEF BufferOK
  <2>3. CodexTypes
    <3>1. attempt \in 0..(MaxRetries + 1)
      OBVIOUS
    <3> QED
      BY <3>1 DEF CodexTypes, AttemptsLeft, EventsNumbered, Label, Final, Ending
  <2> QED
    BY <2>1, <2>2, <2>3
<1>2. Inv /\ [CodexNext]_codexVars => Inv'
  BY CodexFlagsKept, CodexTypesKept, BufferOKKept
<1>3. Inv => CodexTypeOK
  BY DEF CodexFlags, CodexTypes, BufferOK, CodexTypeOK, RunTypeOK
<1> QED
  BY <1>1, <1>2, <1>3, PTL DEF CodexSpec

=============================================================================
