----------------------------- MODULE MCWorkerRuns -----------------------------
(***************************************************************************)
(* A Worker process of either runtime, for TLC.                            *)
(***************************************************************************)
EXTENDS AgentRun, CodexRun

VARIABLE runtime   \* the program the Runner has started for the platform

workerRunVars == <<runtime, runVars, modelVars, diskVars, cliVars>>

AgentStep(A) == runtime = "agent" /\ A /\ UNCHANGED <<runtime, cliVars>>
CodexStep(A) == runtime = "codex" /\ A /\ UNCHANGED <<runtime, modelVars, diskVars>>

WorkerRunsInit == runtime \in {"agent", "codex"} /\ AgentInit /\ CodexInit

\* The main thread of either runtime goes on, nothing is assumed of the
\* provider.  In the Codex runtime a lost row refuses the next beat, without
\* which its main thread does not notice the loss.
WorkerRunsSpec ==
  /\ WorkerRunsInit
  /\ [][AgentStep(AgentNext) \/ CodexStep(CodexNext)]_workerRunVars
  /\ WF_workerRunVars(AgentStep(MainStep))
  /\ WF_workerRunVars(CodexStep(CodexMainStep))
  /\ WF_workerRunVars(CodexStep(BeatRefused /\ UNCHANGED cliVars))

\* Every run of a Worker process ends, if the deadline of an attempt that goes on
\* passes some day: no provider that never answers, no refused command and no
\* process that will not die keeps a Worker in its slot for ever.
WorkerRunEnds ==
  /\ WF_workerRunVars(AgentStep(DeadlinePasses))
  /\ WF_workerRunVars(CodexStep(CodexDeadline))
  => <>(pc \in {"exit", "ended"})
=============================================================================
