--------------------------- MODULE MCPlannerSecrets ---------------------------
(***************************************************************************)
(* Parts that share nothing, for TLC: one Planner process, the users of    *)
(* the secret store, and the provider client that reads from it.  One of   *)
(* them moves, the others stand still.                                     *)
(***************************************************************************)
EXTENDS PlannerRun, ProviderClient

VARIABLE part   \* the part that moves

partVars == <<part, plannerVars, secretVars, clientVars>>

PlannerPart(A) == part = "planner" /\ A /\ UNCHANGED <<part, secretVars, clientVars>>
SecretPart(A) == part = "secrets" /\ A /\ UNCHANGED <<part, plannerVars, clientVars>>
ClientPart(A) == part = "client" /\ A /\ UNCHANGED <<part, plannerVars>>

\* The parts begin where they may; beside the provider client, one client of the
\* store makes one request.
PartInit ==
  /\ PlannerInit /\ ClientInit
  /\ \/ part = "planner" /\ SecretInit /\ entry = Nobody
        /\ home = [c \in Client |-> "dashboard"]
     \/ part = "secrets" /\ SecretInit /\ runtime = "agent"
     \/ /\ part = "client" /\ runtime = "agent"
        /\ SecretStart /\ entry # Nobody
        /\ home = [c \in Client |-> "dashboard"]
        /\ requests = MaxRequests - 1

\* Both threads of the Planner process go on, the heartbeat thread from one interval
\* to the next, and a command is answered or cut off by its limit.  Calls of the credential manager and of the verifier return, and so
\* does every request to the provider.
PartSpec ==
  /\ PartInit
  /\ [][PlannerPart(PlannerNext) \/ SecretPart(SecretNext) \/ ClientPart(ClientNext)]_partVars
  /\ WF_partVars(PlannerPart(MainStep))
  /\ WF_partVars(PlannerPart(ThreadStep))
  /\ \A x \in Caller : WF_partVars(PlannerPart(CallStep(x)))
  /\ \A c \in Client : WF_partVars(SecretPart(Step(c)))
  /\ \A c \in Client : WF_partVars(ClientPart(Step(c) /\ UNCHANGED clientVars))
  /\ WF_partVars(ClientPart(RequestStep))

\* The variables of all parts keep their types, so the lock of each process has one
\* holder and attempts, requests and retries keep their limits.
PartsTypeOK == PlannerTypeOK /\ SecretTypeOK /\ ClientTypeOK

\* Every run of a Planner process ends, if its deadline passes: no refused heartbeat
\* and no answer that is lost keeps it in its launch slot for ever.
PlannerRunEnds ==
  WF_partVars(PlannerPart(DeadlinePasses)) => (part = "planner" ~> pc = "ended")

\* Every part ends: the run of the Planner process, each operation on the store
\* whatever calls fail, and the thread of the provider client however often the
\* provider asks it to wait.
PartsEnd == PlannerRunEnds /\ OperationsEnd /\ ThreadEnds
=============================================================================
