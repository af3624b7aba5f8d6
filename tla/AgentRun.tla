------------------------------ MODULE AgentRun ------------------------------
(***************************************************************************)
(* The self-hosted agent runtime (runtime/agent.py, SingleTaskAgent): an   *)
(* attempt asks the model provider, runs the tools it calls for in the     *)
(* sandbox, and asks again, until a final result, an error or max_steps.   *)
(* The provider runs in a thread of its own, which nobody can end          *)
(* (common/providers.py, call_provider).                                   *)
(***************************************************************************)
EXTENDS WorkerRun

CONSTANTS
  MaxSteps,  \* max_steps
  MaxCalls   \* tool calls of one answer

ASSUME StepsAssumption == MaxSteps \in Nat \ {0} /\ MaxCalls \in Nat \ {0}

VARIABLES
  step,       \* model steps of the attempt
  calls,      \* tool calls of the last answer still to be run
  provider,   \* the provider thread: idle, busy, or given up while it goes on
  late,       \* the attempt's deadline has passed
  count,      \* sandbox.side_effect_count
  error,      \* the kind of error that ended the attempt
  repairing,  \* the provider is asked for its final result a second time
  written,    \* the attempts that have written something
  lostWrites  \* tools that wrote when the execution was not RUNNING any more

modelVars == <<step, calls, provider, late, count, error, repairing>>
diskVars == <<written, lostWrites>>
agentVars == <<runVars, modelVars, diskVars>>

\* An attempt is under way.
InAttempt == pc \in {"ask", "wait", "tool", "run", "after", "judge"}

\* The variables keep their types, so attempts and model steps their limits.
AgentTypeOK ==
  /\ RunTypeOK
  /\ step \in 0..MaxSteps
  /\ calls \in 0..MaxCalls
  /\ provider \in {"idle", "busy", "hung"}
  /\ late \in BOOLEAN
  /\ count \in 0..(MaxSteps * MaxCalls)
  /\ error \in {"none", "transient", "human", "fatal"}
  /\ repairing \in BOOLEAN
  /\ written \subseteq 1..(MaxRetries + 1)
  /\ lostWrites \in Nat

AgentInit ==
  /\ RunInit
  /\ step = 0
  /\ calls = 0
  /\ provider = "idle"
  /\ late = FALSE
  /\ count = 0
  /\ error = "none"
  /\ repairing = FALSE
  /\ written = {}
  /\ lostWrites = 0

-----------------------------------------------------------------------------
\* An error of a kind ends the model loop.
Raise(kind) == error' = kind /\ GoTo("judge")

\* The clock passes the deadline of the attempt.
DeadlinePasses ==
  /\ InAttempt
  /\ ~ late
  /\ late' = TRUE
  /\ UNCHANGED <<runVars, step, calls, provider, count, error, repairing, diskVars>>

BeginAttempt ==
  /\ pc = "begin"
  /\ \/ /\ Passes
        /\ attempt' = attempt + 1
        /\ step' = 0 /\ calls' = 0 /\ count' = 0
        /\ late' = FALSE
        /\ error' = "none"
        /\ repairing' = FALSE
        /\ GoTo("ask")
     \/ /\ Fails /\ GoTo("abort")
        /\ UNCHANGED <<attempt, step, calls, count, late, error, repairing>>
  /\ UNCHANGED <<row, report, result, beating, provider, diskVars>>

-----------------------------------------------------------------------------
(***************************************************************************)
(* _model_loop: the provider.                                              *)
(***************************************************************************)
StepLeft == step < MaxSteps

Ask ==
  /\ pc = "ask" /\ ~ repairing
  /\ StepLeft /\ ~ late /\ ~ guardError
  /\ step' = step + 1
  /\ provider' = "busy"
  /\ GoTo("wait")
  /\ UNCHANGED <<row, report, result, attempt, guardError, beating, calls, late,
                 count, error, repairing, diskVars>>

\* _repair_final begins with a beat.
AskAgain ==
  /\ pc = "ask" /\ repairing
  /\ \/ Passes /\ ~ late /\ provider' = "busy" /\ GoTo("wait") /\ UNCHANGED error
     \/ Passes /\ late /\ Raise("transient") /\ UNCHANGED provider
     \/ Fails /\ Raise("fatal") /\ UNCHANGED provider
  /\ UNCHANGED <<row, report, result, attempt, beating, step, calls, late, count,
                 repairing, diskVars>>

\* No request: the deadline, the guard's error, or no step left.
AskNot ==
  /\ pc = "ask" /\ ~ repairing
  /\ \/ StepLeft /\ late /\ Raise("transient") /\ UNCHANGED result
     \/ StepLeft /\ ~ late /\ guardError /\ Raise("fatal") /\ UNCHANGED result
     \/ ~ StepLeft /\ Conclude("FAILED", "judge") /\ UNCHANGED error
  /\ UNCHANGED <<row, report, attempt, guardError, beating, step, calls, provider,
                 late, count, repairing, diskVars>>

\* Tool calls, which a repair may not give; a final result, after a repair once
\* more with a beat; or a final result of the wrong form, which may be repaired
\* once.
AnswersCalls ==
  /\ ~ repairing
  /\ calls' \in 1..MaxCalls
  /\ GoTo("tool")
  /\ UNCHANGED <<result, error, guardError, repairing>>

AnswersFinal ==
  /\ \/ ~ repairing /\ UNCHANGED guardError
     \/ repairing /\ Passes
  /\ \E s \in Final : Conclude(s, "judge")
  /\ UNCHANGED <<error, calls, repairing>>

AnswersBadFinal ==
  /\ ~ repairing
  /\ repairing' = TRUE
  /\ GoTo("ask")
  /\ UNCHANGED <<result, error, calls, guardError>>

\* Anything else is an error; a repaired result whose beat fails is one too.
AnswersError ==
  /\ \/ \E kind \in {"transient", "human", "fatal"} :
          Raise(kind) /\ UNCHANGED guardError
     \/ ~ late /\ repairing /\ Fails /\ Raise("fatal")
  /\ UNCHANGED <<result, calls, repairing>>

AnswersTooLate ==
  /\ late
  /\ Raise("transient")
  /\ UNCHANGED <<result, calls, guardError, repairing>>

ProviderAnswers ==
  /\ pc = "wait"
  /\ provider' = "idle"
  /\ \/ AnswersError
     \/ AnswersTooLate
     \/ AnswersBadFinal
     \/ ~ late /\ (AnswersCalls \/ AnswersFinal)
  /\ UNCHANGED <<row, report, attempt, beating, step, late, count, diskVars>>

\* A wrong WaitExpires: the provider is waited for without a limit.
WaitExpiresNever == FALSE

\* call_provider's wait ends: the thread ends within the grace period, or it is
\* given up and OwnedWorkStillRunning ends the run.
WaitExpires ==
  /\ pc = "wait"
  /\ late
  /\ \/ provider' = "idle" /\ Raise("transient")
     \/ provider' = "hung" /\ GoTo("abort") /\ UNCHANGED error
  /\ UNCHANGED <<row, report, result, attempt, guardError, beating, step, calls,
                 late, count, repairing, diskVars>>

-----------------------------------------------------------------------------
(***************************************************************************)
(* _model_loop: one tool call, between two beats.                          *)
(***************************************************************************)
BeforeTool ==
  /\ pc = "tool"
  /\ \/ ~ late /\ Passes /\ GoTo("run") /\ UNCHANGED error
     \/ ~ late /\ Fails /\ Raise("fatal")
     \/ late /\ Raise("transient") /\ UNCHANGED guardError
  /\ UNCHANGED <<row, report, result, attempt, beating, step, calls, provider, late,
                 count, repairing, diskVars>>

DiskWritten ==
  /\ written' = written \cup {attempt}
  /\ lostWrites' = IF row = "RUNNING" THEN lostWrites ELSE lostWrites + 1

\* It reads, or is rejected.
ToolReads ==
  /\ pc = "run"
  /\ GoTo("after")
  /\ UNCHANGED <<row, report, result, attempt, guardError, beating, modelVars, diskVars>>

ToolWrites ==
  /\ pc = "run"
  /\ DiskWritten
  /\ count' = count + 1
  /\ GoTo("after")
  /\ UNCHANGED <<row, report, result, attempt, guardError, beating, step, calls,
                 provider, late, error, repairing>>

\* It fails in the operating system, perhaps with half of it written: the counter
\* comes after the write.
ToolBreaks ==
  /\ pc = "run"
  /\ DiskWritten \/ UNCHANGED diskVars
  /\ Raise("fatal")
  /\ UNCHANGED <<row, report, result, attempt, guardError, beating, step, calls,
                 provider, late, count, repairing>>

ToolNeedsApproval ==
  /\ pc = "run"
  /\ Conclude("WAITING_HUMAN", "judge")
  /\ UNCHANGED <<row, report, attempt, guardError, beating, modelVars, diskVars>>

AfterTool ==
  /\ pc = "after"
  /\ \/ /\ Passes /\ ~ late
        /\ calls' = calls - 1
        /\ GoTo(IF calls = 1 THEN "ask" ELSE "tool")
        /\ UNCHANGED error
     \/ Passes /\ late /\ Raise("transient") /\ UNCHANGED calls
     \/ Fails /\ Raise("fatal") /\ UNCHANGED calls
  /\ UNCHANGED <<row, report, result, attempt, beating, step, provider, late, count,
                 repairing, diskVars>>

-----------------------------------------------------------------------------
(***************************************************************************)
(* _run_attempts and run.                                                  *)
(***************************************************************************)
\* A wrong Retryable: what the sandbox has written is not asked for.
RetryableUncounted == error = "transient" /\ attempt <= MaxRetries

Retryable == error = "transient" /\ count = 0 /\ attempt <= MaxRetries

\* The model's result stands, even FAILED.
Concludes ==
  /\ pc = "judge"
  /\ error = "none"
  /\ GoTo("closing")
  /\ UNCHANGED <<row, report, result, attempt, guardError, beating, modelVars, diskVars>>

\* After an error the guard is asked first.
GivesUp ==
  /\ pc = "judge"
  /\ error # "none" /\ guardError
  /\ GoTo("abort")
  /\ UNCHANGED <<row, report, result, attempt, guardError, beating, modelVars, diskVars>>

FailsForGood ==
  /\ pc = "judge"
  /\ error # "none" /\ ~ guardError
  /\ ~ Retryable
  /\ Conclude(IF error = "human" THEN "WAITING_HUMAN" ELSE "FAILED", "closing")
  /\ UNCHANGED <<row, report, attempt, guardError, beating, modelVars, diskVars>>

Retries ==
  /\ pc = "judge"
  /\ ~ guardError
  /\ Retryable
  /\ \/ Passes /\ GoTo("begin")
     \/ Fails /\ GoTo("abort")
  /\ UNCHANGED <<row, report, result, attempt, beating, modelVars, diskVars>>

\* run's except clauses: the guard is left and FAILED is reported, a provider
\* thread that goes on or not.
Abort ==
  /\ pc = "abort"
  /\ Conclude("FAILED", "report")
  /\ beating' = FALSE
  /\ UNCHANGED <<row, report, attempt, guardError, modelVars, diskVars>>

Interrupted ==
  /\ InAttempt \/ pc \in {"begin", "closing"}
  /\ GoTo("abort")
  /\ UNCHANGED <<row, report, result, attempt, guardError, beating, modelVars, diskVars>>

\* The provider's thread ends with the process.
AgentExits ==
  /\ ProcessExits
  /\ provider' = "idle"
  /\ UNCHANGED <<step, calls, late, count, error, repairing, diskVars>>

-----------------------------------------------------------------------------
MainStep ==
  \/ HostStep /\ UNCHANGED <<modelVars, diskVars>>
  \/ BeginAttempt
  \/ Ask
  \/ AskAgain
  \/ AskNot
  \/ WaitExpires
  \/ BeforeTool
  \/ ToolReads
  \/ ToolWrites
  \/ ToolBreaks
  \/ ToolNeedsApproval
  \/ AfterTool
  \/ Concludes
  \/ GivesUp
  \/ FailsForGood
  \/ Retries
  \/ Abort

AgentNext ==
  \/ MainStep
  \/ DeadlinePasses
  \/ ProviderAnswers
  \/ Interrupted
  \/ AgentExits
  \/ Outside /\ UNCHANGED <<modelVars, diskVars>>

\* The main thread goes on; nothing is assumed of the provider.
AgentSpec == AgentInit /\ [][AgentNext]_agentVars /\ WF_agentVars(MainStep)

-----------------------------------------------------------------------------
\* The runtime keeps the contract of a Worker process: above all, no attempt
\* after one that has written, though the counter misses a write that broke off.
Contract == INSTANCE AttemptContract WITH
  phase <- IF row = "FINISHED" THEN "reported"
           ELSE IF pc \in {"exit", "ended"} THEN "gone" ELSE "working",
  attempts <- attempt,
  active <- InAttempt,
  dirty <- written # {}

AgentKeepsContract == Contract!Spec

\* When the control plane takes the execution away, at most the one tool that has
\* passed its beat still writes, whatever the heartbeat thread does and however
\* many calls are left.
OneWriteAfterLoss == lostWrites <= 1
=============================================================================
