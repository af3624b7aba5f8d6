----------------------------- MODULE PlannerRun -----------------------------
(***************************************************************************)
(* A Planner process (worker/planner_agent_runtime.py for the self-hosted  *)
(* agent, worker/planner_codex_runtime.py for the Codex CLI): it claims    *)
(* one queued inspection, lets the model look at the draft, and reports a  *)
(* verdict.                                                                *)
(*                                                                         *)
(* Every command after the claim carries the row_version of the last       *)
(* answer, and every accepted one raises it.  The main thread and the      *)
(* heartbeat thread share PlannerController.row_version without a lock,    *)
(* and a command is a subprocess: it may be under way in both threads at   *)
(* once, and its answer may be lost.  Versions only grow, so all that      *)
(* counts is which copies of the number are still the row's own.           *)
(***************************************************************************)
EXTENDS Naturals

CONSTANTS
  MaxRetries,  \* planner.max_retries
  MaxSteps     \* max_steps of the self-hosted agent

ASSUME PlannerLimits == MaxRetries \in Nat /\ MaxSteps \in Nat \ {0}

VARIABLES
  runtime,    \* which of the two programs this is
  pc,         \* where the main thread is
  row,        \* the inspection in the database
  recorded,   \* its outcome column
  outcome,    \* the verdict the model has delivered
  printed,    \* the verdict the process has seen accepted
  attempt,    \* attempts begun
  step,       \* model steps of the attempt
  late,       \* the deadline has passed
  guardError, \* HeartbeatGuard.error is set
  thread,     \* the heartbeat thread
  call,       \* the command each thread has under way
  current,    \* the copies of row_version that are the row's own
  disturbed   \* an answer lost, a version raised by others, a join given up, or an
              \* interrupt that nothing catches

rowVars == <<row, recorded>>
modelVars == <<outcome, attempt, step, late>>
callVars == <<call, current, disturbed>>
plannerVars == <<runtime, pc, rowVars, printed, modelVars, guardError, thread, callVars>>

Caller == {"main", "thread"}
Verdict == {"READY", "SPLIT", "NEEDS_REVIEW", "FAILED"}

\* Where the main thread sends a heartbeat before it goes on.
BeatPoint == {"enter", "attempt", "step", "tool", "verdict"}

\* The variables keep their types, so attempts and model steps their limits.
PlannerTypeOK ==
  /\ runtime \in {"agent", "codex"}
  /\ pc \in BeatPoint \cup {"start", "launch", "model", "leave", "finish",
                            "fail", "ended"}
  /\ row \in {"QUEUED", "INSPECTING", "FINISHED", "TAKEN"}
  /\ recorded \in Verdict \cup {"NONE", "TIMED_OUT"}
  /\ outcome \in Verdict \cup {"NONE"}
  /\ printed \in Verdict \cup {"NONE"}
  /\ attempt \in 0..(MaxRetries + 1)
  /\ step \in 0..MaxSteps
  /\ late \in BOOLEAN
  /\ guardError \in BOOLEAN
  /\ thread \in {"off", "on", "stopping"}
  /\ call \in [Caller -> {"none", "sent", "done", "failed"}]
  /\ current \subseteq Caller \cup {"controller"}
  /\ disturbed \in BOOLEAN

PlannerInit ==
  /\ runtime \in {"agent", "codex"}
  /\ pc = "start"
  /\ row = "QUEUED"
  /\ recorded = "NONE"
  /\ outcome = "NONE"
  /\ printed = "NONE"
  /\ attempt = 0
  /\ step = 0
  /\ late = FALSE
  /\ guardError = FALSE
  /\ thread = "off"
  /\ call = [x \in Caller |-> "none"]
  /\ current = {}
  /\ disturbed = FALSE

GoTo(place) == pc' = place

-----------------------------------------------------------------------------
(***************************************************************************)
(* Commands under way.                                                     *)
(***************************************************************************)
\* The arguments are built from the controller's version of this moment.
Send(x) ==
  /\ call[x] = "none"
  /\ call' = [call EXCEPT ![x] = "sent"]
  /\ current' = IF "controller" \in current THEN current \cup {x} ELSE current \ {x}
  /\ UNCHANGED disturbed

Refuse(x) == call' = [call EXCEPT ![x] = "failed"] /\ UNCHANGED <<current, disturbed>>

\* The answer's row_version becomes the controller's.
KeepVersion(x) ==
  current' = IF x \in current THEN current \cup {"controller"}
             ELSE current \ {"controller"}

\* Of the main thread only a command at a BeatPoint is a heartbeat.
IsBeat(x) == x = "main" => pc \in BeatPoint

\* preflight-heartbeat: the row must be inspected, and at the version given.
HeartbeatCommand(x) ==
  /\ call[x] = "sent" /\ IsBeat(x)
  /\ IF row = "INSPECTING" /\ x \in current
     THEN /\ call' = [call EXCEPT ![x] = "done"]
          /\ current' = {x}
          /\ UNCHANGED disturbed
     ELSE Refuse(x)
  /\ UNCHANGED <<runtime, pc, rowVars, printed, modelVars, guardError, thread>>

\* The verdict the main thread reports: the model's, or that of _fail.
Reported == IF pc = "fail" THEN "FAILED" ELSE outcome

\* A wrong Replayed: whatever was recorded will do.
ReplayedAny == row = "FINISHED"

\* The same verdict again is answered as if it were new.
Replayed == row # "INSPECTING" /\ recorded = Reported

\* preflight-ready, -split, -needs-review, -fail: the same checks, and a
\* verdict other than FAILED may be refused for what it says.
FinishCommand ==
  /\ call["main"] = "sent" /\ pc \in {"finish", "fail"}
  /\ \/ /\ row = "INSPECTING" /\ "main" \in current
        /\ row' = "FINISHED"
        /\ recorded' = Reported
        /\ call' = [call EXCEPT !["main"] = "done"]
        /\ current' = {}
        /\ UNCHANGED disturbed
     \/ /\ Replayed
        /\ call' = [call EXCEPT !["main"] = "done"]
        /\ UNCHANGED <<rowVars, current, disturbed>>
     \/ /\ \/ Reported # "FAILED"
           \/ ~ Replayed /\ ~ (row = "INSPECTING" /\ "main" \in current)
        /\ Refuse("main")
        /\ UNCHANGED rowVars
  /\ UNCHANGED <<runtime, pc, printed, modelVars, guardError, thread>>

\* The time limit of the subprocess, before or after the commit.
CallLost(x) ==
  /\ call[x] \in {"sent", "done"}
  /\ call' = [call EXCEPT ![x] = "failed"]
  /\ disturbed' = TRUE
  /\ UNCHANGED <<runtime, pc, rowVars, printed, modelVars, guardError, thread, current>>

-----------------------------------------------------------------------------
(***************************************************************************)
(* The heartbeat thread.                                                   *)
(***************************************************************************)
\* HeartbeatGuard._run, between two waits.
ThreadBeats ==
  /\ thread = "on" /\ call["thread"] = "none"
  /\ IF guardError THEN thread' = "off" /\ UNCHANGED callVars
     ELSE Send("thread") /\ UNCHANGED thread
  /\ UNCHANGED <<runtime, pc, rowVars, printed, modelVars, guardError>>

ThreadHears ==
  /\ \/ /\ call["thread"] = "done"
        /\ KeepVersion("thread")
        /\ UNCHANGED <<guardError, thread>>
     \/ /\ call["thread"] = "failed"
        /\ guardError' = TRUE
        /\ thread' = "off"
        /\ UNCHANGED current
  /\ call' = [call EXCEPT !["thread"] = "none"]
  /\ UNCHANGED <<runtime, pc, rowVars, printed, modelVars, disturbed>>

ThreadStops ==
  /\ thread = "stopping" /\ call["thread"] = "none"
  /\ thread' = "off"
  /\ UNCHANGED <<runtime, pc, rowVars, printed, modelVars, guardError, callVars>>

-----------------------------------------------------------------------------
(***************************************************************************)
(* The main thread: run and run_planner_codex.                             *)
(***************************************************************************)
\* preflight-claim; the agent checks route and boundary of what it got.
ClaimInspection ==
  /\ pc = "start"
  /\ \/ /\ GoTo("ended")
        /\ UNCHANGED <<row, current, disturbed>>
     \/ /\ row = "QUEUED"
        /\ row' = "INSPECTING"
        /\ \/ /\ \/ GoTo("enter")
                 \/ runtime = "agent" /\ GoTo("fail")
              /\ current' = {"controller"}
              /\ UNCHANGED disturbed
           \/ /\ GoTo("ended")
              /\ current' = {}
              /\ disturbed' = TRUE
  /\ UNCHANGED <<runtime, recorded, printed, modelVars, guardError, thread, call>>

FirstPoint == IF runtime = "agent" THEN "attempt" ELSE "launch"

AttemptsLeft == attempt <= MaxRetries

\* An error inside an attempt is caught: the next attempt, if there is one.
AttemptError ==
  /\ GoTo(IF AttemptsLeft THEN FirstPoint ELSE "leave")
  /\ outcome' = "NONE"

\* Where an error of the guard ends up.
RaiseAt(place) ==
  IF place = "enter" THEN GoTo("fail") /\ UNCHANGED outcome
  ELSE IF place \in {"step", "tool"} \/ runtime = "codex" THEN AttemptError
  ELSE GoTo("leave") /\ outcome' = "NONE"

\* ensure_healthy and beat.
MainBeats ==
  /\ pc \in BeatPoint /\ call["main"] = "none"
  /\ IF guardError THEN RaiseAt(pc) /\ UNCHANGED callVars
     ELSE Send("main") /\ UNCHANGED <<pc, outcome>>
  /\ UNCHANGED <<runtime, rowVars, printed, attempt, step, late, guardError, thread>>

MainBeatFails ==
  /\ pc \in BeatPoint /\ call["main"] = "failed"
  /\ guardError' = TRUE
  /\ call' = [call EXCEPT !["main"] = "none"]
  /\ RaiseAt(pc)
  /\ UNCHANGED <<runtime, rowVars, printed, attempt, step, late, thread, current, disturbed>>

\* Beat(place) is the rest of the step that follows an accepted heartbeat.
Beat(place) ==
  /\ pc = place /\ call["main"] = "done"
  /\ KeepVersion("main")
  /\ call' = [call EXCEPT !["main"] = "none"]
  /\ UNCHANGED <<runtime, rowVars, printed, guardError, disturbed>>

\* HeartbeatGuard.__enter__ beats, then starts its thread.
Enter ==
  /\ Beat("enter")
  /\ thread' = "on"
  /\ GoTo(FirstPoint)
  /\ UNCHANGED modelVars

\* _run_attempts: one deadline for all attempts.
BeginAttempt ==
  /\ Beat("attempt")
  /\ IF late THEN GoTo("leave") /\ UNCHANGED <<attempt, step>>
     ELSE GoTo("step") /\ attempt' = attempt + 1 /\ step' = 0
  /\ UNCHANGED <<outcome, late, thread>>

\* _model_loop: one model step.
BeginStep ==
  /\ Beat("step")
  /\ IF late THEN AttemptError /\ UNCHANGED step
     ELSE GoTo("model") /\ step' = step + 1 /\ UNCHANGED outcome
  /\ UNCHANGED <<attempt, late, thread>>

\* A tool that reads; the answer's other tools are further steps.
RunTool ==
  /\ Beat("tool")
  /\ IF step < MaxSteps THEN GoTo("step") /\ UNCHANGED outcome ELSE AttemptError
  /\ UNCHANGED <<attempt, step, late, thread>>

\* _execute_attempt: a codex process of its own, with a deadline of its own.
LaunchCodex ==
  /\ pc = "launch"
  /\ attempt' = attempt + 1
  /\ late' = FALSE
  /\ \/ GoTo("model") /\ UNCHANGED outcome
     \/ /\ GoTo(IF attempt < MaxRetries THEN "launch" ELSE "leave")
        /\ outcome' = "NONE"
  /\ UNCHANGED <<runtime, rowVars, printed, step, guardError, thread, callVars>>

\* The model answers: a valid verdict, an error, or (agent) a call for a tool.
ModelAnswers ==
  /\ pc = "model"
  /\ \/ \E v \in Verdict : outcome' = v /\ GoTo("verdict")
     \/ AttemptError
     \/ runtime = "agent" /\ GoTo("tool") /\ UNCHANGED outcome
  /\ UNCHANGED <<runtime, rowVars, printed, attempt, step, late, guardError, thread, callVars>>

\* A wrong BrokenOff, which does not look at the guard.
BrokenOffLate == late

\* A wrong BrokenOff, which does not look at the clock.
BrokenOffByGuard == runtime = "codex" /\ guardError

\* The wait for the model is broken off at the deadline, and that for a codex
\* process also by the guard's error.
BrokenOff == late \/ (runtime = "codex" /\ guardError)

ModelGivenUp ==
  /\ pc = "model"
  /\ BrokenOff
  /\ AttemptError
  /\ UNCHANGED <<runtime, rowVars, printed, attempt, step, late, guardError, thread, callVars>>

\* The agent leaves the guard before it reports, the other after.
VerdictStands ==
  /\ Beat("verdict")
  /\ GoTo(IF runtime = "agent" THEN "leave" ELSE "finish")
  /\ UNCHANGED <<modelVars, thread>>

\* A wrong Joined: the thread is told to stop, and not waited for.
JoinedAtOnce == TRUE

Joined == thread = "off"

\* HeartbeatGuard.__exit__: stop the thread and wait for it, not for ever.
LeaveGuard ==
  /\ pc = "leave"
  /\ \/ /\ thread = "on"
        /\ thread' = "stopping"
        /\ UNCHANGED <<pc, disturbed>>
     \/ /\ thread # "on"
        /\ \/ Joined /\ UNCHANGED disturbed
           \/ thread = "stopping" /\ call["thread"] # "none" /\ disturbed' = TRUE
        /\ GoTo(IF printed # "NONE" THEN "ended"
                ELSE IF outcome # "NONE" THEN "finish" ELSE "fail")
        /\ UNCHANGED thread
  /\ UNCHANGED <<runtime, rowVars, printed, modelVars, guardError, call, current>>

\* PlannerController.finish sends the verdict.
SendVerdict ==
  /\ pc \in {"finish", "fail"}
  /\ Send("main")
  /\ UNCHANGED <<runtime, pc, rowVars, printed, modelVars, guardError, thread>>

\* A wrong AfterReport: the loop over the attempts is not left.
AfterReportLoop == IF pc = "finish" /\ runtime = "codex" THEN "launch" ELSE "ended"

\* The return inside the guard's block leaves the guard first.
AfterReport == IF pc = "finish" /\ runtime = "codex" THEN "leave" ELSE "ended"

FinishAccepted ==
  /\ pc \in {"finish", "fail"} /\ call["main"] = "done"
  /\ call' = [call EXCEPT !["main"] = "none"]
  /\ printed' = Reported
  /\ GoTo(AfterReport)
  /\ UNCHANGED <<runtime, rowVars, modelVars, guardError, thread, current, disturbed>>

\* An error of finish: the agent reports FAILED instead, the other program
\* takes it for an error of the attempt; an error of that report ends both.
FinishFails ==
  /\ pc \in {"finish", "fail"} /\ call["main"] = "failed"
  /\ call' = [call EXCEPT !["main"] = "none"]
  /\ \/ pc = "finish" /\ runtime = "agent" /\ GoTo("fail") /\ UNCHANGED outcome
     \/ pc = "finish" /\ runtime = "codex" /\ AttemptError
     \/ pc = "fail" /\ GoTo("ended") /\ UNCHANGED outcome
  /\ UNCHANGED <<runtime, rowVars, printed, attempt, step, late, guardError, thread,
                 current, disturbed>>

\* Ctrl-C: the agent has a clause for it, around its guard and its report.  A
\* command under way is cut off, and a thread that is being joined is left.
Interrupted ==
  /\ runtime = "agent"
  /\ \/ /\ pc \in {"attempt", "step", "model", "tool", "verdict"}
        /\ GoTo("leave")
        /\ UNCHANGED thread
     \/ /\ pc \in {"enter", "leave", "finish"}
        /\ GoTo("fail")
        /\ thread' = IF thread = "on" THEN "stopping" ELSE thread
  /\ outcome' = "NONE"
  /\ call' = [call EXCEPT !["main"] = "none"]
  /\ disturbed' = IF call["main"] # "none" \/ (pc = "leave" /\ thread # "off")
                  THEN TRUE ELSE disturbed
  /\ UNCHANGED <<runtime, rowVars, printed, attempt, step, late, guardError, current>>

\* run_planner_codex has none, and the agent none for its last report: the
\* process ends, with the inspection as it is.
InterruptEnds ==
  /\ \/ runtime = "codex" /\ pc \notin {"start", "ended"}
     \/ pc = "fail"
  /\ GoTo("ended")
  /\ thread' = IF thread = "on" THEN "stopping" ELSE thread
  /\ call' = [call EXCEPT !["main"] = "none"]
  /\ disturbed' = TRUE
  /\ UNCHANGED <<runtime, rowVars, printed, modelVars, guardError, current>>

-----------------------------------------------------------------------------
(***************************************************************************)
(* The others.                                                             *)
(***************************************************************************)
\* recover_timed_out_preflights, inside anybody's command.
TimesOut ==
  /\ row = "INSPECTING"
  /\ row' = "TAKEN"
  /\ recorded' = "TIMED_OUT"
  /\ current' = {}
  /\ UNCHANGED <<runtime, pc, printed, modelVars, guardError, thread, call, disturbed>>

\* The Operator's migrations raise the version of a draft under inspection.
VersionRaised ==
  /\ row = "INSPECTING"
  /\ current' = {}
  /\ disturbed' = TRUE
  /\ UNCHANGED <<runtime, pc, rowVars, printed, modelVars, guardError, thread, call>>

DeadlinePasses ==
  /\ ~ late /\ pc \notin {"start", "ended"}
  /\ late' = TRUE
  /\ UNCHANGED <<runtime, pc, rowVars, printed, outcome, attempt, step, guardError,
                 thread, callVars>>

-----------------------------------------------------------------------------
MainStep ==
  \/ ClaimInspection
  \/ MainBeats \/ MainBeatFails
  \/ Enter \/ BeginAttempt \/ BeginStep \/ RunTool \/ LaunchCodex
  \/ ModelGivenUp
  \/ VerdictStands
  \/ LeaveGuard
  \/ SendVerdict \/ FinishAccepted \/ FinishFails

ThreadStep == ThreadBeats \/ ThreadHears \/ ThreadStops

CallStep(x) == HeartbeatCommand(x) \/ (x = "main" /\ FinishCommand) \/ CallLost(x)

PlannerNext ==
  \/ MainStep
  \/ ModelAnswers
  \/ Interrupted
  \/ InterruptEnds
  \/ ThreadStep
  \/ \E x \in Caller : CallStep(x)
  \/ TimesOut \/ VersionRaised \/ DeadlinePasses

PlannerSpec == PlannerInit /\ [][PlannerNext]_plannerVars

-----------------------------------------------------------------------------
\* A process that ends has closed its inspection: heartbeats of two threads
\* that refuse each other cost the attempt, never the last report.  What leaves
\* the inspection to the timeout is a lost answer, a version raised by others, a
\* thread that outlives its join, and an interrupt: any of the codex program, and
\* of the agent one that comes while it reports a failure or sends a command.
InspectionClosed ==
  pc = "ended" /\ row = "INSPECTING" => disturbed

\* What the process prints as its outcome is what the database holds, also when
\* a report was repeated after a lost answer.
PrintedIsRecorded == printed # "NONE" => recorded = printed

\* With a verdict recorded no further attempt begins, unless the process could
\* not know: the answer was lost.
NoAttemptAfterVerdict ==
  [][attempt' # attempt /\ recorded \in Verdict => disturbed]_plannerVars

\* An inspection that is taken away, closed without the process having heard of
\* it, or whose heartbeat fails, ends the run: a codex process is given up
\* without its own deadline.
LossEndsInspection ==
  (runtime = "codex" /\ (guardError \/ row \in {"TAKEN", "FINISHED"})) ~> (pc = "ended")
=============================================================================
