---------------------------- MODULE MCLoopControl ----------------------------
(***************************************************************************)
(* Instances of LoopControl for TLC.                                       *)
(***************************************************************************)
EXTENDS LockedFiles, TLC

CONSTANTS t1, t2, module, fileA, fileB, fileC, fileD, tree, cli, agent

\* A registered project with a directory and three files in it, and another one
\* registered below the directory.  The file scope tree names the directory, so it
\* opens all files without locking one, and so does module with the inner project.
MCSegment == {"", ".", "..", "c:", ".env", "App", "app", "lib", "src", "Src",
              "a", "b", "B", "c"}
MCFold == [s \in MCSegment |->
             CASE s = "App" -> "app" [] s = "Src" -> "src" [] s = "B" -> "b"
               [] OTHER -> s]
MCProject == {<<"App">>, <<"app", "Src", "lib">>}
MCDirectory == {<<"app">>, <<"app", "src">>, <<"app", "src", "lib">>}
MCFile == {<<"app", "src", "a">>, <<"app", "src", "b">>, <<"app", "src", "c">>,
           <<"app", "src", "lib", "a">>}

\* The scopes the Planner may ask for, as it spells them.
Request == [s \in {module, fileA, fileB, fileC, fileD, tree} |->
  CASE s = module -> [path |-> <<"app", ".", "Src">>, mode |-> "module"]
    [] s = fileA -> [path |-> <<"App", "src", "a">>, mode |-> "file"]
    [] s = fileB -> [path |-> <<"app", "", "src", "B">>, mode |-> "file"]
    [] s = fileC -> [path |-> <<"app", "src", "c">>, mode |-> "file"]
    [] s = fileD -> [path |-> <<"App", "src", "lib", "a">>, mode |-> "file"]
    [] s = tree -> [path |-> <<"app", "src">>, mode |-> "file"]]

\* A scope that is not accepted never gets a key.
ASSUME RequestAssumption ==
  \A s \in Scope : Accepted(Request[s].path, Request[s].mode)

MCKey == [s \in Scope |-> KeyOf(Request[s].path, Request[s].mode)]
MCConflict == {k \in Scope \X Scope : KeysConflict(MCKey[k[1]], MCKey[k[2]])}

MCPlatformOf == [t \in Task |-> IF t \in {t1, t2} THEN cli ELSE agent]
OnePlatform == [t \in Task |-> cli]
MCPlatformLimit == [p \in Platform |-> 2]
TightPlatformLimit == [p \in Platform |-> IF p = cli THEN 1 ELSE 2]

ExecSymmetry == Permutations(Exec)
FullSymmetry == Permutations(Task) \cup Permutations(Preflight)
                  \cup Permutations(Exec)

\* The Planner has published the contract keys[t] of every task t of T, and
\* nothing else has happened.
Published(T, keys, deps) ==
  LET by == CHOOSE f \in [Preflight -> T \cup {None}] :
              \A t \in T : Cardinality({p \in Preflight : f[p] = t}) = 1
  IN
  /\ status = [t \in Task |-> IF t \in T THEN "PENDING" ELSE "ABSENT"]
  /\ preflightStatus = [t \in Task |-> IF t \in T THEN "READY"
                                       ELSE "UNINSPECTED"]
  /\ preflightExecution = [t \in Task |-> None]
  /\ dependsOn = deps
  /\ scopes = keys
  /\ assignedAgent = [t \in Task |-> None]
  /\ verifiedBy = [t \in Task |-> None]
  /\ archived = {}
  /\ execStatus = [e \in Exec |-> "ABSENT"]
  /\ execTask = [e \in Exec |-> None]
  /\ recoveryRequired = {}
  /\ recoveryAction = [e \in Exec |-> "NONE"]
  /\ stale = {}
  /\ overdue = {}
  /\ holder = [s \in Scope |-> None]
  /\ quarantined = {}
  /\ credential = [e \in Exec |-> {}]
  /\ inspTask = by
  /\ inspStatus = [p \in Preflight |-> IF by[p] = None THEN "ABSENT"
                                       ELSE "FINISHED"]
  /\ inspOutcome = [p \in Preflight |-> IF by[p] = None THEN "NONE"
                                        ELSE "READY"]
  /\ inspLate = {}

NoDependency == [t \in Task |-> {}]
\* t2 waits for t1.
Chain == [t \in Task |-> IF t = t2 THEN {t1} ELSE {}]

-----------------------------------------------------------------------------
\* Two tasks with conflicting or disjoint contracts, every command but the
\* Planner's.
ExecutionInit ==
  \E deps \in {NoDependency, Chain}, S \in {{module}, {tree}} :
    Published(Task, [t \in Task |-> IF t = t1 THEN S ELSE {fileB}], deps)

ExecutionNext ==
  Clock \/ RecoveryStep \/ WorkerStep \/ DispatcherStep \/ OperatorStep

ExecutionSpec == ExecutionInit /\ [][ExecutionNext]_vars

\* More tasks than slots, each with a key of its own: only the limits keep
\* them apart.
CapacityInit ==
  LET own == CHOOSE f \in [Task -> Scope] :
               \A t, u \in Task : f[t] = f[u] => t = u
  IN Published(Task, [t \in Task |-> {own[t]}], NoDependency)

CapacityNext ==
  \/ ClaimNothing
  \/ DispatcherStep
  \/ \E e \in Exec :
       \/ HeartbeatLapses(e)
       \/ Heartbeat(e)
       \/ Claim(e)
       \/ Finish(e, "SUCCEEDED", TRUE)
       \/ ProcessEnds(e)
       \/ RecoverRelease(e, "requeue")

CapacitySpec == CapacityInit /\ [][CapacityNext]_vars

\* An empty database: the Planner and the Operator, no Worker yet.  No draft is
\* enqueued as archived: the Operator could do less to it, the Planner as much.
PlanningNext ==
  \/ Clock
  \/ PlannerStep
  \/ \E t \in Task :
       \/ \E D \in SUBSET Task :
            \/ Enqueue(t, D) /\ UNCHANGED archived
            \/ Update(t, D)
       \/ RequeueDraft(t)
       \/ Cancel(t)

PlanningSpec == Init /\ [][PlanningNext]_vars
=============================================================================
