------------------------------ MODULE CodexRun ------------------------------
(***************************************************************************)
(* The Codex CLI runtime (worker/codex_cli_runtime.py): attempts with      *)
(* one codex process each, watched by the main thread, its output carried  *)
(* from a pipe into a bounded buffer by a reader thread.  Whether an       *)
(* attempt may be repeated is read off that buffer.  One element of output *)
(* is one JSONL event: "write" for a command, a file change or a tool      *)
(* call, "text" for anything else.                                         *)
(*                                                                         *)
(* The codex process is external: it announces what it does before it does *)
(* it, and it starts other processes only for commands and tools it        *)
(* announced.  Such a process may outlive it and hold the pipe open.       *)
(***************************************************************************)
EXTENDS WorkerRun, Sequences

CONSTANTS
  MaxEvents,    \* bound of the model: events of one attempt
  OutputLimit   \* the events max_stdout_chars has room for

ASSUME OutputAssumption == MaxEvents \in Nat /\ OutputLimit \in Nat \ {0}

VARIABLES
  cli,       \* the codex process is alive
  orphan,    \* a process it started has outlived it and holds the pipe open
  piped,     \* the events in the pipe, or in the reader's unfinished chunk
  output,    \* the buffered events of the attempt
  produced,  \* how many events it has produced
  ending,    \* how the attempt ended
  wrote,     \* the attempts that have written something
  incomplete \* history: the attempts judged on less than they produced

cliVars == <<cli, orphan, piped, output, produced, ending, wrote, incomplete>>
codexVars == <<runVars, cliVars>>

Ending == {"none", "ok", "bad", "auth", "timeout", "error"}

\* The variables keep their types, so attempts and the buffer their limits.
CodexTypeOK ==
  /\ RunTypeOK
  /\ cli \in BOOLEAN
  /\ orphan \in BOOLEAN
  /\ output \in Seq({"write", "text"}) /\ Len(output) <= OutputLimit
  /\ piped \in Seq({"write", "text"})
  /\ produced \in 0..MaxEvents
  /\ ending \in Ending
  /\ wrote \subseteq 1..(MaxRetries + 1)
  /\ incomplete \subseteq 1..(MaxRetries + 1)

CodexInit ==
  /\ RunInit
  /\ cli = FALSE
  /\ orphan = FALSE
  /\ piped = << >>
  /\ output = << >>
  /\ produced = 0
  /\ ending = "none"
  /\ wrote = {}
  /\ incomplete = {}

-----------------------------------------------------------------------------
(***************************************************************************)
(* The codex process and the reader thread.                                *)
(***************************************************************************)
CliProduces(event) ==
  /\ cli
  /\ produced < MaxEvents
  /\ produced' = produced + 1
  /\ piped' = Append(piped, event)
  /\ wrote' = IF event = "write" THEN wrote \cup {attempt} ELSE wrote
  /\ UNCHANGED <<runVars, cli, orphan, output, ending, incomplete>>

OrphanStays == attempt \in wrote /\ orphan' = TRUE

\* It exits with code 0, another code, or one for want of a login; a command it
\* has started may still run.
CliExits(e) ==
  /\ cli
  /\ cli' = FALSE
  /\ ending' = IF pc = "poll" THEN e ELSE ending
  /\ UNCHANGED orphan \/ OrphanStays
  /\ UNCHANGED <<runVars, piped, output, produced, wrote, incomplete>>

OrphanEnds ==
  /\ orphan
  /\ orphan' = FALSE
  /\ UNCHANGED <<runVars, cli, piped, output, produced, ending, wrote, incomplete>>

\* BoundedText.append drops the oldest text; truncated tells that it did.
Bounded(s) == IF Len(s) > OutputLimit THEN Tail(s) ELSE s

Truncated == Len(output) + Len(piped) < produced

\* _reader: read(4096) keeps back what does not fill a chunk until the pipe is
\* closed, so an event comes some time after it was produced.
ReaderTakes ==
  /\ pc \in {"poll", "kill", "join", "read"}
  /\ piped # << >>
  /\ output' = Bounded(Append(output, Head(piped)))
  /\ piped' = Tail(piped)
  /\ UNCHANGED <<runVars, cli, orphan, produced, ending, wrote, incomplete>>

\* The pipe has been read to its end, which it has only when nobody holds it.
ReaderEnded == piped = << >> /\ ~ orphan

-----------------------------------------------------------------------------
(***************************************************************************)
(* _execute.                                                               *)
(***************************************************************************)
\* The attempt begins with a pipe of its own; the process may not start, or not
\* take its prompt.
CodexBegins ==
  /\ pc = "begin"
  /\ \/ /\ Passes
        /\ attempt' = attempt + 1
        /\ \/ cli' = TRUE /\ GoTo("poll") /\ ending' = "none"
           \/ cli' = TRUE /\ GoTo("kill") /\ ending' = "error"
           \/ cli' = FALSE /\ GoTo("abort") /\ ending' = "none"
        /\ piped' = << >>
        /\ output' = << >>
        /\ produced' = 0
        /\ orphan' = FALSE
     \/ /\ Fails
        /\ GoTo("abort")
        /\ UNCHANGED <<attempt, cli, orphan, piped, output, produced, ending>>
  /\ UNCHANGED <<row, report, result, beating, wrote, incomplete>>

\* The poll loop: the process has exited, the guard has an error, or the
\* deadline has passed.
SeesExit ==
  /\ pc = "poll"
  /\ ~ cli
  /\ GoTo("join")
  /\ UNCHANGED <<row, report, result, attempt, guardError, beating, cliVars>>

\* A wrong SeesError: the poll loop does not ask the guard.
SeesErrorNever == FALSE

SeesError ==
  /\ pc = "poll"
  /\ cli
  /\ guardError
  /\ ending' = "error"
  /\ GoTo("kill")
  /\ UNCHANGED <<row, report, result, attempt, guardError, beating, cli, orphan,
                 piped, output, produced, wrote, incomplete>>

\* Ctrl-C goes the way of an error.
CodexInterrupted ==
  /\ \/ pc = "poll" /\ ending' = "error" /\ GoTo("kill")
     \/ pc \in {"begin", "kill", "join", "read", "closing"} /\ UNCHANGED ending /\ GoTo("abort")
  /\ UNCHANGED <<row, report, result, attempt, guardError, beating, cli, orphan,
                 piped, output, produced, wrote, incomplete>>

CodexDeadline ==
  /\ pc = "poll"
  /\ cli
  /\ ~ guardError
  /\ ending' = "timeout"
  /\ GoTo("kill")
  /\ UNCHANGED <<row, report, result, attempt, guardError, beating, cli, orphan,
                 piped, output, produced, wrote, incomplete>>

\* _terminate_process_tree: taskkill ends the tree; if it fails, kill ends the
\* codex process alone, and what it has started keeps its end of the pipe; if
\* that fails too, an error is raised.
TreeEnds == cli' = FALSE /\ UNCHANGED orphan
KillEnds == cli' = FALSE /\ (UNCHANGED orphan \/ OrphanStays)
Survives == cli /\ UNCHANGED <<cli, orphan>>

\* A wrong KillAttempt, which waits for the process and does not end it.
KillAttemptWaits ==
  /\ pc = "kill"
  /\ ~ cli
  /\ GoTo("join")
  /\ UNCHANGED <<row, report, result, attempt, guardError, beating, cliVars>>

\* The finally clause: the readers are joined unless the process has survived.
KillAttempt ==
  /\ pc = "kill"
  /\ \/ /\ IF cli THEN TreeEnds \/ KillEnds ELSE UNCHANGED <<cli, orphan>>
        /\ GoTo("join")
     \/ Survives /\ GoTo("abort")
  /\ UNCHANGED <<row, report, result, attempt, guardError, beating, piped, output,
                 produced, ending, wrote, incomplete>>

\* reader.join: the reader has ended, or it is left behind because
\* termination_grace_seconds are over.  Then the error that ended the poll loop
\* goes on, or the output is judged as it is.
JoinReaders ==
  /\ pc = "join"
  /\ incomplete' = IF ReaderEnded /\ ~ Truncated THEN incomplete
                   ELSE incomplete \cup {attempt}
  /\ IF ending = "error" THEN GoTo("abort") ELSE GoTo("read")
  /\ UNCHANGED <<row, report, result, attempt, guardError, beating, cli, orphan,
                 piped, output, produced, ending, wrote>>

-----------------------------------------------------------------------------
(***************************************************************************)
(* _run_attempts and run.                                                  *)
(***************************************************************************)
\* A wrong SideEffects, which looks at the last event only.
SideEffectsLast == output # << >> /\ output[Len(output)] = "write"

\* _output_may_have_side_effects, on what the buffer has kept.
SideEffects == \E i \in DOMAIN output : output[i] = "write"

CodexRetryable == ~ SideEffects /\ attempt <= MaxRetries

\* A final result other than FAILED, or no login: the attempts are over.
CodexConcludes ==
  /\ pc = "read"
  /\ \/ ending = "ok" /\ \E s \in Final \ {"FAILED"} : Conclude(s, "closing")
     \/ ending = "auth" /\ Conclude("WAITING_HUMAN", "closing")
  /\ UNCHANGED <<row, report, attempt, guardError, beating, cliVars>>

\* The model reports FAILED; or the exit code, the deadline or a result that
\* cannot be read makes it a failed attempt, and then the guard is asked.
CodexFailsForGood ==
  /\ pc = "read"
  /\ ending \in {"ok", "bad", "timeout"}
  /\ ending = "ok" \/ ~ guardError
  /\ ~ CodexRetryable
  /\ Conclude("FAILED", "closing")
  /\ UNCHANGED <<row, report, attempt, guardError, beating, cliVars>>

CodexRetries ==
  /\ pc = "read"
  /\ ending \in {"ok", "bad", "timeout"}
  /\ CodexRetryable
  /\ \/ Passes /\ GoTo("begin")
     \/ Fails /\ GoTo("abort")
  /\ UNCHANGED <<row, report, result, attempt, beating, cliVars>>

CodexGivesUp ==
  /\ pc = "read"
  /\ ending \in {"ok", "bad", "timeout"}
  /\ guardError
  /\ GoTo("abort")
  /\ UNCHANGED <<row, report, result, attempt, guardError, beating, cliVars>>

\* run's except clause: the guard is left, a process that is still there is
\* terminated once more, and FAILED is reported; if it survives that too, the
\* error ends the run without a report.
CodexAbort ==
  /\ pc = "abort"
  /\ \/ /\ IF cli THEN TreeEnds \/ KillEnds ELSE UNCHANGED <<cli, orphan>>
        /\ Conclude("FAILED", "report")
     \/ Survives /\ GoTo("exit") /\ UNCHANGED result
  /\ beating' = FALSE
  /\ UNCHANGED <<row, report, attempt, guardError, piped, output, produced, ending,
                 wrote, incomplete>>

-----------------------------------------------------------------------------
CodexMainStep ==
  \/ HostStep /\ UNCHANGED cliVars
  \/ CodexBegins
  \/ SeesExit
  \/ SeesError
  \/ KillAttempt
  \/ JoinReaders
  \/ CodexConcludes
  \/ CodexFailsForGood
  \/ CodexRetries
  \/ CodexGivesUp
  \/ CodexAbort

CodexNext ==
  \/ CodexMainStep
  \/ CodexDeadline
  \/ CodexInterrupted
  \/ \E event \in {"write", "text"} : CliProduces(event)
  \/ \E e \in {"ok", "bad", "auth"} : CliExits(e)
  \/ OrphanEnds
  \/ ReaderTakes
  \/ (Outside \/ ProcessExits) /\ UNCHANGED cliVars

CodexSpec == CodexInit /\ [][CodexNext]_codexVars

-----------------------------------------------------------------------------
\* The attempts that are over and are known to have written: their output was
\* read to its end and nothing of it was dropped.
KnownWrites ==
  {n \in wrote \ incomplete : n < attempt \/ pc \notin {"poll", "kill", "join"}}

\* The runtime keeps the contract of a Worker process: no attempt after one that
\* is known to have written, no report while the codex process may run.  It owes
\* this however much an attempt produces and however its process ends; what it
\* does not see, because BoundedText dropped it or the reader was left behind,
\* it cannot keep (violation_retry).
CodexContract == INSTANCE AttemptContract WITH
  phase <- IF row = "FINISHED" THEN "reported"
           ELSE IF pc \in {"exit", "ended"} THEN "gone" ELSE "working",
  attempts <- attempt,
  active <- cli \/ pc \in {"poll", "kill", "join"},
  dirty <- KnownWrites # {}

ImplementsContract == CodexContract!Spec

\* When the control plane has taken the execution away, the codex process is
\* terminated, without waiting for its deadline or its own end.
LossEndsAttempt ==
  row = "LOST" ~> (~ cli \/ pc = "ended" \/ pc = "exit")

\* _run_attempts: no attempt after one that may have had side effects.
RetryIsClean == \A n \in wrote : n = attempt
=============================================================================
