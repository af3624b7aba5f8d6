---------------------------- MODULE ProviderClient ----------------------------
(***************************************************************************)
(* The model provider client (providers/deepseek.py), which runs in the    *)
(* provider thread of a Worker or Planner process, while the secret store  *)
(* it takes its key from may be changed by others.                         *)
(***************************************************************************)
EXTENDS SecretStore

CONSTANT MaxRequestRetries  \* request_max_retries

ASSUME RetriesAssumption == MaxRequestRetries \in Nat

VARIABLES
  clientAt,  \* where the provider thread is
  held,      \* api_key
  tries,     \* requests sent for the call
  answer,    \* what the call ends with
  withdrawn  \* a deletion of the key has been asked for

clientVars == <<clientAt, held, tries, answer, withdrawn>>

\* The variables keep their types, so a call sends no more requests than
\* request_max_retries allows.
ClientTypeOK ==
  /\ clientAt \in {"none", "reading", "ready", "sent", "resting", "over"}
  /\ held \in Stored
  /\ tries \in 0..(MaxRequestRetries + 1)
  /\ answer \in {"none", "reply", "transient", "human", "fatal"}
  /\ withdrawn \in BOOLEAN

ClientInit ==
  /\ clientAt = "none"
  /\ held = Nobody
  /\ tries = 0
  /\ answer = "none"
  /\ withdrawn = FALSE

-----------------------------------------------------------------------------
\* The thread ends with an answer, and forgets the key.
Answers(kind) ==
  /\ answer' = kind
  /\ clientAt' = "over"
  /\ held' = Nobody

\* call_provider starts a thread for complete.
CallBegins ==
  /\ clientAt \in {"none", "over"}
  /\ clientAt' = "reading"
  /\ tries' = 0
  /\ answer' = "none"
  /\ UNCHANGED <<held, withdrawn, secretVars>>

\* get: the key is read once, for all the requests of the call.
ReadsKey ==
  /\ clientAt = "reading"
  /\ \/ Works /\ entry \in Key
        /\ held' = entry /\ clientAt' = "ready" /\ UNCHANGED answer
     \/ Works /\ entry \notin Key /\ Answers("human")
     \/ Breaks /\ Answers("human")
  /\ UNCHANGED <<home, entry, staged, operationVars, lock, event, interfered,
                 historyVars, requests, tries, withdrawn>>

\* _request_payload finds what it cannot translate.
CannotAsk ==
  /\ clientAt = "ready" /\ tries = 0
  /\ Answers("fatal")
  /\ UNCHANGED <<tries, withdrawn, secretVars>>

\* A wrong NextTry: a request sent again is not counted.
NextTryUncounted == tries

NextTry == tries + 1

Sends ==
  /\ clientAt = "ready"
  /\ tries' = NextTry
  /\ clientAt' = "sent"
  /\ UNCHANGED <<held, answer, withdrawn, secretVars>>

\* The provider knows the key: a final result or tool calls, or what
\* _normalize_response cannot use.
Accepts ==
  /\ clientAt = "sent"
  /\ held \in Accepted
  /\ Answers("reply") \/ Answers("fatal")
  /\ UNCHANGED <<tries, withdrawn, secretVars>>

\* 401 and 403 need a human, other client errors are final.
RefusesKey ==
  /\ clientAt = "sent"
  /\ held \notin Accepted
  /\ Answers("human") \/ Answers("fatal")
  /\ UNCHANGED <<tries, withdrawn, secretVars>>

Spent == tries > MaxRequestRetries

\* 429, 5xx, a timeout, no connection: once more with the same key after a pause,
\* or the retries are spent.
Disturbed ==
  /\ clientAt = "sent"
  /\ \/ ~ Spent /\ clientAt' = "resting" /\ UNCHANGED <<held, answer>>
     \/ Spent /\ Answers("transient")
  /\ UNCHANGED <<tries, withdrawn, secretVars>>

Rests ==
  /\ clientAt = "resting"
  /\ clientAt' = "ready"
  /\ UNCHANGED <<held, tries, answer, withdrawn, secretVars>>

\* The thread is a daemon and ends with its process.
ProcessExits ==
  /\ clientAt # "none"
  /\ clientAt' = "none" /\ held' = Nobody /\ tries' = 0 /\ answer' = "none"
  /\ UNCHANGED <<withdrawn, secretVars>>

\* The store goes on.
StoreMoves ==
  /\ SecretNext
  /\ withdrawn' = (withdrawn \/ \E c \in Client : at'[c] # "idle" /\ request'[c].kind = "delete")
  /\ UNCHANGED <<clientAt, held, tries, answer>>

-----------------------------------------------------------------------------
RequestStep ==
  \/ ReadsKey \/ CannotAsk \/ Sends \/ Accepts \/ RefusesKey \/ Disturbed \/ Rests

ClientNext == CallBegins \/ RequestStep \/ ProcessExits \/ StoreMoves

\* The process begins when a key is stored.
ClientSpec ==
  /\ SecretStart /\ entry # Nobody /\ requests \in 0..MaxRequests
  /\ ClientInit
  /\ [][ClientNext]_<<clientVars, secretVars>>

-----------------------------------------------------------------------------
\* Replacing the key, under a call or between its requests, sends no task to a
\* human: as long as nobody deletes it, every replacement is checked with the
\* provider, and no call of the backend fails, a reader never meets an empty
\* entry, a candidate or a value the provider refuses.
HumanForCause ==
  ~ unasked /\ ~ withdrawn /\ breaks = 0 => answer # "human"

\* A provider thread ends, though its caller may have given it up long before: its
\* retries are counted, and each request is answered or times out.
ThreadEnds == clientAt = "ready" ~> clientAt \in {"over", "none"}
=============================================================================
