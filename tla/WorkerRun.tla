------------------------------ MODULE WorkerRun ------------------------------
(***************************************************************************)
(* A Worker process after its claim, as far as both runtimes share it      *)
(* (runtime/controller.py): the row it works for, its HeartbeatGuard, and  *)
(* its last command, finish.  Every command is a subprocess with a time    *)
(* limit, so each may fail whatever the row says; finish may have been     *)
(* carried out and fail all the same.                                      *)
(***************************************************************************)
EXTENDS Naturals

CONSTANT MaxRetries   \* max_retries of the execution profile

ASSUME RetriesAssumption == MaxRetries \in Nat

VARIABLES
  pc,         \* where the main thread is
  row,        \* the execution's status in the database
  report,     \* the final status the database holds
  result,     \* the final status the process is about to report
  attempt,    \* attempts begun
  guardError, \* HeartbeatGuard.error is set
  beating     \* the heartbeat thread runs

runVars == <<pc, row, report, result, attempt, guardError, beating>>

Final == {"SUCCEEDED", "FAILED", "WAITING_HUMAN"}

\* Where the main thread may be: in both runtimes, in AgentRun, in CodexRun.
Label ==
  {"claimed", "begin", "closing", "abort", "report", "exit", "ended"}
    \cup {"ask", "wait", "tool", "run", "after", "judge"}
    \cup {"poll", "kill", "join", "read"}

RunTypeOK ==
  /\ pc \in Label
  /\ row \in {"RUNNING", "LOST", "FINISHED"}
  /\ report \in Final \cup {"NONE"}
  /\ result \in Final
  /\ attempt \in 0..(MaxRetries + 1)
  /\ guardError \in BOOLEAN
  /\ beating \in BOOLEAN

RunInit ==
  /\ pc = "claimed"
  /\ row = "RUNNING"
  /\ report = "NONE"
  /\ result = "FAILED"
  /\ attempt = 0
  /\ guardError = FALSE
  /\ beating = FALSE

-----------------------------------------------------------------------------
\* The control plane declares the execution lost.
Sweep ==
  /\ row = "RUNNING"
  /\ row' = "LOST"
  /\ UNCHANGED <<pc, report, result, attempt, guardError, beating>>

\* The heartbeat thread: a beat that is refused, or does not come through,
\* leaves its error behind and ends the thread.
BeatRefused ==
  /\ beating
  /\ row # "RUNNING"
  /\ guardError' = TRUE
  /\ beating' = FALSE
  /\ UNCHANGED <<pc, row, report, result, attempt>>

BeatFails ==
  /\ beating
  /\ guardError' = TRUE
  /\ beating' = FALSE
  /\ UNCHANGED <<pc, row, report, result, attempt>>

\* A wrong Passes, without the beat: the thread's word is taken.
PassesUnasked == ~ guardError /\ UNCHANGED guardError

\* The main thread's ensure_healthy and beat, in one: passed only if the thread
\* has left no error and the row is RUNNING.
Passes ==
  /\ ~ guardError
  /\ row = "RUNNING"
  /\ UNCHANGED guardError

Fails == guardError' = TRUE

GoTo(label) == pc' = label
Conclude(status, label) == result' = status /\ pc' = label

-----------------------------------------------------------------------------
\* Between claim and first attempt.  A reply that cannot be used raises before
\* the guard exists, a route or a scope that does not fit is reported.
Unusable ==
  /\ pc = "claimed"
  /\ GoTo("exit")
  /\ UNCHANGED <<row, report, result, attempt, guardError, beating>>

Misrouted ==
  /\ pc = "claimed"
  /\ Conclude("FAILED", "report") \/ Conclude("WAITING_HUMAN", "report")
  /\ UNCHANGED <<row, report, attempt, guardError, beating>>

EnterGuard ==
  /\ pc = "claimed"
  /\ \/ Passes /\ beating' = TRUE /\ GoTo("begin")
     \/ Fails /\ beating' = FALSE /\ GoTo("abort")
  /\ UNCHANGED <<row, report, result, attempt>>

\* After the last attempt: a last beat, then the guard's thread is stopped.
LeaveGuard ==
  /\ pc = "closing"
  /\ \/ Passes /\ GoTo("report")
     \/ Fails /\ GoTo("abort")
  /\ beating' = FALSE
  /\ UNCHANGED <<row, report, result, attempt>>

\* finish: refused if the row is not RUNNING any more.
Report ==
  /\ pc = "report"
  /\ \/ row = "RUNNING" /\ row' = "FINISHED" /\ report' = result
     \/ UNCHANGED <<row, report>>
  /\ GoTo("exit")
  /\ UNCHANGED <<result, attempt, guardError, beating>>

\* The process ends, by itself or because somebody kills it.
ProcessExits ==
  /\ pc # "ended"
  /\ GoTo("ended")
  /\ beating' = FALSE
  /\ UNCHANGED <<row, report, result, attempt, guardError>>

HostStep ==
  \/ Unusable
  \/ Misrouted
  \/ EnterGuard
  \/ LeaveGuard
  \/ Report

Outside == Sweep \/ BeatRefused \/ BeatFails
=============================================================================
