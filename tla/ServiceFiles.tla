---------------------------- MODULE ServiceFiles ----------------------------
(***************************************************************************)
(* The files by which a resident service is one instance at most           *)
(* (common/service_runtime.py): a PID file created exclusively, a          *)
(* heartbeat, and a request to stop addressed to a PID.  A process is      *)
(* named by its PID; the number of one that has ended is used again, for   *)
(* the same service or for a stranger.                                     *)
(*                                                                         *)
(* Every file operation is one step; a check and the unlink that follows   *)
(* it are one step too.                                                    *)
(***************************************************************************)
EXTENDS Naturals, FiniteSets

CONSTANTS
  SupervisorPid,  \* processes that may be a Supervisor
  RunnerPid,      \* processes that may be the service it looks after
  None,
  MaxFaults       \* bound of the model: crashes and the like

ASSUME PidAssumption ==
  /\ SupervisorPid \cap RunnerPid = {}
  /\ None \notin SupervisorPid \cup RunnerPid
  /\ 0 \notin SupervisorPid \cup RunnerPid \cup {None}
ASSUME FaultsAssumption == MaxFaults \in Nat

Pid == SupervisorPid \cup RunnerPid
Service == {"supervisor", "runner"}
PidOf(s) == IF s = "supervisor" THEN SupervisorPid ELSE RunnerPid
ServiceOf(p) == IF p \in SupervisorPid THEN "supervisor" ELSE "runner"

VARIABLES
  pidFile,   \* the PID recorded: None without a file, 0 if it is empty
  beatFile,  \* the PID in the heartbeat
  fresh,     \* the services whose heartbeat is not too old
  stopFile,  \* the PID asked to stop
  life,      \* what the process with a number is
  faults     \* faults so far

fileVars == <<pidFile, beatFile, fresh, stopFile>>
serviceVars == <<fileVars, life, faults>>

\* A process of the service before, with and after its claim, nothing, or some
\* other program.
Life == {"none", "starting", "running", "closing", "stranger"}

FilesInit ==
  /\ pidFile = [s \in Service |-> None]
  /\ beatFile = [s \in Service |-> None]
  /\ fresh = {}
  /\ stopFile = [s \in Service |-> None]
  /\ life = [p \in Pid |-> "none"]
  /\ faults = 0

\* recorded_pid: an empty file is no record.
Recorded(s) == IF pidFile[s] \in Pid THEN pidFile[s] ELSE None

\* process_alive and the command line: what a query without fault tells.
Alive(p) == life[p] # "none"
OfService(p) == life[p] \in {"starting", "running", "closing"}
Instances(s) == {p \in PidOf(s) : life[p] \in {"running", "closing"}}

\* component_health, supervisor_health.
Healthy(s, p) ==
  /\ p # None /\ Recorded(s) = p
  /\ beatFile[s] = p /\ s \in fresh
  /\ OfService(p)

Unlinked(file, s) == [file EXCEPT ![s] = None]

\* A wrong Owns: a file is taken for that of the process asked about.
OwnsAny(p, s, file) == TRUE

\* A wrong Owns: only files of nobody are cleared.
OwnsNothing(p, s, file) == p = None

\* A file that names p, or any file when there is no p.
Owns(p, s, file) == p = None \/ file[s] = p

\* clear: the files of instance p, which has stopped; of any if p is None.  The
\* request to stop goes in any case.
Clear(s, p) ==
  /\ pidFile' = IF Owns(p, s, pidFile) THEN Unlinked(pidFile, s) ELSE pidFile
  /\ beatFile' = IF Owns(p, s, beatFile) THEN Unlinked(beatFile, s) ELSE beatFile
  /\ stopFile' = Unlinked(stopFile, s)
  /\ UNCHANGED fresh

RequestStop(s, p) ==
  /\ stopFile' = [stopFile EXCEPT ![s] = p]
  /\ UNCHANGED <<pidFile, beatFile, fresh>>

WriteBeat(p) ==
  /\ beatFile' = [beatFile EXCEPT ![ServiceOf(p)] = p]
  /\ fresh' = fresh \cup {ServiceOf(p)}
  /\ UNCHANGED <<pidFile, stopFile>>

Free(s) == pidFile[s] = None

\* claim: O_EXCL decides; the loser ends.
ClaimService(p) ==
  LET s == ServiceOf(p) IN
  /\ life[p] = "starting"
  /\ IF Free(s)
     THEN /\ pidFile' = [pidFile EXCEPT ![s] = p]
          /\ stopFile' = Unlinked(stopFile, s)
          /\ life' = [life EXCEPT ![p] = "running"]
          /\ UNCHANGED <<beatFile, fresh>>
     ELSE life' = [life EXCEPT ![p] = "none"] /\ UNCHANGED fileVars
  /\ UNCHANGED faults

\* cleanup, at the end of a service.
CloseService(p) ==
  LET s == ServiceOf(p) IN
  /\ life[p] = "closing"
  /\ pidFile' = IF pidFile[s] = p THEN Unlinked(pidFile, s) ELSE pidFile
  /\ beatFile' = IF beatFile[s] = p THEN Unlinked(beatFile, s) ELSE beatFile
  /\ stopFile' = IF stopFile[s] = p THEN Unlinked(stopFile, s) ELSE stopFile
  /\ life' = [life EXCEPT ![p] = "none"]
  /\ UNCHANGED <<fresh, faults>>

\* The service sees the request that names it; a Supervisor also its switch.
SeesStop(p) ==
  /\ life[p] = "running"
  /\ stopFile[ServiceOf(p)] = p
  /\ life' = [life EXCEPT ![p] = "closing"]
  /\ UNCHANGED <<fileVars, faults>>

RunnerBeats(p) ==
  /\ p \in RunnerPid /\ life[p] = "running"
  /\ WriteBeat(p)
  /\ UNCHANGED <<life, faults>>

-----------------------------------------------------------------------------
Fault == faults < MaxFaults /\ faults' = faults + 1

\* A process ends without cleanup, in the middle of its claim perhaps, and its
\* number may be given to another program.
Crash(p) ==
  /\ Fault
  /\ OfService(p)
  /\ \E after \in {"none", "stranger"} : life' = [life EXCEPT ![p] = after]
  /\ \/ UNCHANGED pidFile
     \/ /\ life[p] = "starting" /\ Free(ServiceOf(p))
        /\ pidFile' = [pidFile EXCEPT ![ServiceOf(p)] = 0]
  /\ UNCHANGED <<beatFile, fresh, stopFile>>

\* A service does not get round to its heartbeat.
BeatGrowsOld(s) ==
  /\ Fault
  /\ s \in fresh
  /\ fresh' = fresh \ {s}
  /\ UNCHANGED <<pidFile, beatFile, stopFile, life>>

StrangerEnds(p) ==
  /\ life[p] = "stranger"
  /\ life' = [life EXCEPT ![p] = "none"]
  /\ UNCHANGED <<fileVars, faults>>
=============================================================================
