--------------------------- MODULE MCSupervision ---------------------------
(***************************************************************************)
(* Instances of Supervision for TLC: three situations in one run, each     *)
(* with what may go wrong in it.                                           *)
(***************************************************************************)
EXTENDS Supervision

CONSTANTS s1, r1

\* Nothing runs yet; the health check, a Supervisor and the Runner, with faults.
Boot ==
  /\ SupervisionInit
  /\ installed = TRUE /\ asked = {}

\* S is up, its first heartbeat written.
UpWith(S) ==
  LET up(s) == {p \in S : ServiceOf(p) = s}
      named == [s \in Service |-> IF up(s) = {} THEN None ELSE CHOOSE p \in up(s) : TRUE]
  IN
  /\ pidFile = named
  /\ beatFile = named
  /\ fresh = {ServiceOf(p) : p \in S}
  /\ stopFile = [s \in Service |-> None]
  /\ life = [p \in Pid |-> IF p \in S THEN "running" ELSE "none"]
  /\ enabled = Service
  /\ requests = 0
  /\ at = [m \in Manager |-> "idle"]
  /\ on = [m \in Manager |-> "runner"]
  /\ goal = [m \in Manager |-> "start"]
  /\ recorded = [m \in Manager |-> None]
  /\ launched = [m \in Manager |-> None]
  /\ disturbed = FALSE
  /\ mistaken = {}

\* A Supervisor and the Dashboard manage the same Runner, with faults.
Shared ==
  /\ UpWith({s1})
  /\ installed = FALSE /\ asked = {"runner"}
  /\ faults = 0

\* The health check and the Dashboard manage the same Supervisor, without.
Served ==
  /\ UpWith({s1, r1})
  /\ installed = TRUE /\ asked = {"supervisor"}
  /\ faults = MaxFaults

SceneInit == Boot \/ Shared \/ Served

SceneSpec == SceneInit /\ [][SupervisionNext]_supervisionVars /\ SupervisionFairness
=============================================================================
