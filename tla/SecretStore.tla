----------------------------- MODULE SecretStore -----------------------------
(***************************************************************************)
(* The secret store (control/loop_agent/secrets/store.py) over the         *)
(* credential manager of the operating system, and its two users: request  *)
(* threads of the Dashboard (client/dashboard_server.py) and the command   *)
(* operator/secretctl.py.  One secret_ref is modelled.                     *)
(*                                                                         *)
(* The lock of a secret_ref is one of its process, so what two processes   *)
(* do to it interleaves call by call.  Every call may fail, a write or a   *)
(* delete also after it has taken effect, and what is read back may not be *)
(* what was written.                                                       *)
(***************************************************************************)
EXTENDS Naturals

CONSTANTS
  Client,       \* who uses the store: a request thread, or a command
  Key,          \* the values somebody enters
  Accepted,     \* those the provider accepts
  Garbled,      \* what a backend may store instead of a value
  Nobody,       \* no client; no value
  MaxBreaks,    \* bound of the model: calls that fail, and crashes
  MaxRequests   \* bound of the model: requests made

ASSUME KeyAssumption ==
  /\ Accepted \subseteq Key
  /\ Garbled \notin Key
  /\ Nobody \notin Key \cup Client \cup {Garbled}
ASSUME RequestAssumption == MaxBreaks \in Nat /\ MaxRequests \in Nat

VARIABLES
  home,      \* the process of each client
  entry,     \* the value stored under secret_ref
  staged,    \* clients whose candidate entry exists
  at,        \* where each operation is
  request,   \* what it was asked
  before,    \* old_value
  result,    \* the error it is about to raise, or OK
  lock,      \* who holds the lock of each process
  event,     \* the Dashboard's last event of the provider
  interfered, \* clients whose operation another process has interfered with
  unasked,   \* a replacement without connection check has been asked for
  blurred,   \* the event need not tell of the last change
  breaks,    \* calls that have failed, and crashes
  requests   \* requests made

operationVars == <<at, request, before, result>>
boundVars == <<breaks, requests>>
historyVars == <<unasked, blurred>>
secretVars == <<home, entry, staged, operationVars, lock, event, interfered,
                historyVars, boundVars>>

Home == {"dashboard", "command"}
Stored == Key \cup {Garbled, Nobody}
Request ==
  [kind : {"set", "rotate"}, key : Key, connect : BOOLEAN]
    \cup [kind : {"verify"}, connect : BOOLEAN]
    \cup [kind : {"delete"}]
Inside == {"read", "stage", "verify", "commit", "check", "restore", "unstage",
           "remove", "confirm"}

\* The variables keep their types, and in each process the one operation that is
\* past its first call holds the lock.
SecretTypeOK ==
  /\ home \in [Client -> Home]
  /\ unasked \in BOOLEAN
  /\ entry \in Stored
  /\ staged \subseteq Client
  /\ at \in [Client -> Inside \cup {"idle", "wait", "tell"}]
  /\ request \in [Client -> Request \cup {Nobody}]
  /\ before \in [Client -> Stored]
  /\ result \in [Client -> {"OK", "INVALID", "CONFLICT", "UNAVAILABLE"}]
  /\ lock \in [Home -> Client \cup {Nobody}]
  /\ event \in {"NONE", "CONFIGURED", "ROTATED", "VALID", "LOCAL",
              "INVALID", "DELETED"}
  /\ interfered \subseteq Client
  /\ blurred \in BOOLEAN
  /\ breaks \in 0..MaxBreaks
  /\ requests \in 0..MaxRequests
  /\ \A c \in Client : at[c] \in Inside => lock[home[c]] = c

\* A key the provider accepts is stored, or none.
SecretStart ==
  /\ home \in [Client -> Home]
  /\ unasked = FALSE
  /\ entry \in Accepted \cup {Nobody}
  /\ staged = {}
  /\ at = [c \in Client |-> "idle"]
  /\ request = [c \in Client |-> Nobody]
  /\ before = [c \in Client |-> Nobody]
  /\ result = [c \in Client |-> "OK"]
  /\ lock = [p \in Home |-> Nobody]
  /\ event = "NONE"
  /\ interfered = {}
  /\ blurred = FALSE
  /\ breaks = 0

SecretInit == SecretStart /\ requests = 0

-----------------------------------------------------------------------------
\* A call of the backend answers as it should, or not.
Works == UNCHANGED breaks
Breaks == breaks < MaxBreaks /\ breaks' = breaks + 1

GoesTo(c, label) == at' = [at EXCEPT ![c] = label]
Fails(c, error, label) ==
  result' = [result EXCEPT ![c] = error] /\ GoesTo(c, label)

\* The stored value becomes v; the operations that other processes have under
\* way did not expect it.
Stores(c, v) ==
  /\ entry' = v
  /\ interfered' = IF v = entry THEN interfered
                  ELSE interfered \cup {d \in Client : home[d] # home[c] /\ at[d] \in Inside}

StoresNothing == UNCHANGED <<entry, interfered>>

\* Wrong versions of Free and Released: the lock belongs to one SecretStore
\* object, as if every client had its own; an error leaves it taken.
FreeAnyway(c) == TRUE
ReleasedIfOK(c) ==
  IF result'[c] = "OK" THEN [lock EXCEPT ![home[c]] = Nobody] ELSE lock

\* _lock_for: a lock of the process for backend, service and secret_ref.
Free(c) == lock[home[c]] = Nobody

Released(c) == [lock EXCEPT ![home[c]] = Nobody]

\* The operation is over and the lock released; what is left is to tell.
Ends(c, r) ==
  /\ result' = [result EXCEPT ![c] = r]
  /\ GoesTo(c, "tell")
  /\ lock' = Released(c)

-----------------------------------------------------------------------------
(***************************************************************************)
(* get, set, verify, rotate, delete up to their first read.                *)
(***************************************************************************)
Asks(c, r) ==
  /\ at[c] = "idle"
  /\ requests < MaxRequests
  /\ request' = [request EXCEPT ![c] = r]
  /\ requests' = requests + 1
  /\ GoesTo(c, "wait")
  /\ unasked' = (unasked \/ (r.kind \in {"set", "rotate"} /\ ~ r.connect))
  /\ blurred' = (\/ blurred \/ home[c] = "command"
                 \/ \E d \in Client : at[d] # "idle")
  /\ UNCHANGED <<home, entry, staged, before, result, lock, event, interfered, breaks>>

\* The candidate entry has a new name each time: what an earlier operation left
\* behind nobody looks at again.
TakesLock(c) ==
  /\ at[c] = "wait"
  /\ Free(c)
  /\ lock' = [lock EXCEPT ![home[c]] = c]
  /\ GoesTo(c, "read")
  /\ staged' = staged \ {c}
  /\ UNCHANGED <<home, entry, request, before, result, event,
                 interfered, historyVars, boundVars>>

\* Where an operation goes on from the value it has read; set and rotate may find
\* that the candidate is not well-formed.
Onward(kind) ==
  CASE kind = "set"    -> IF entry = Nobody THEN "stage" ELSE "refused"
    [] kind = "rotate" -> IF entry = Nobody THEN "refused" ELSE "stage"
    [] kind = "verify" -> IF entry = Nobody THEN "refused" ELSE "verify"
    [] kind = "delete" -> IF entry = Nobody THEN "refused" ELSE "remove"

ReadsOld(c) ==
  /\ at[c] = "read"
  /\ before' = [before EXCEPT ![c] = entry]
  /\ \/ /\ Works
        /\ LET next == Onward(request[c].kind) IN
           \/ next # "refused" /\ GoesTo(c, next) /\ UNCHANGED <<result, lock>>
           \/ next = "refused" /\ Ends(c, "CONFLICT")
           \/ next \in {"stage", "verify"} /\ Ends(c, "INVALID")
     \/ Breaks /\ Ends(c, "UNAVAILABLE")
  /\ StoresNothing
  /\ UNCHANGED <<home, staged, request, event, historyVars, requests>>

-----------------------------------------------------------------------------
(***************************************************************************)
(* _replace.                                                               *)
(***************************************************************************)
\* The candidate is written under a name of its own and read back.
Stages(c) ==
  /\ at[c] = "stage"
  /\ \/ Works /\ staged' = staged \cup {c} /\ GoesTo(c, "verify") /\ UNCHANGED result
     \/ Breaks /\ staged' \in {staged, staged \cup {c}} /\ Fails(c, "UNAVAILABLE", "unstage")
     \/ Breaks /\ staged' = staged \cup {c} /\ Fails(c, "INVALID", "unstage")
  /\ StoresNothing
  /\ UNCHANGED <<home, request, before, lock, event, historyVars, requests>>

\* A wrong Passed: whatever the verifier says.
PassedAnyway(c, value) == TRUE

\* _run_verifier: no verifier, or one that accepts.
Passed(c, value) == request[c].connect => value \in Accepted

\* verify asks about the stored value, set and rotate about the candidate; the
\* provider may also not answer, which is taken for a refusal.
Verifies(c) ==
  /\ at[c] = "verify"
  /\ \/ /\ request[c].kind = "verify"
        /\ \/ Passed(c, before[c]) /\ Ends(c, "OK")
           \/ request[c].connect /\ Ends(c, "INVALID")
     \/ /\ request[c].kind # "verify"
        /\ \/ Passed(c, request[c].key) /\ GoesTo(c, "commit") /\ UNCHANGED result
           \/ request[c].connect /\ Fails(c, "INVALID", "unstage")
        /\ UNCHANGED lock
  /\ StoresNothing
  /\ UNCHANGED <<home, staged, request, before, event, historyVars, boundVars>>

\* A write that fails is not committed, whatever it has stored.
Commits(c) ==
  /\ at[c] = "commit"
  /\ \/ Works /\ Stores(c, request[c].key) /\ GoesTo(c, "check") /\ UNCHANGED result
     \/ Breaks /\ Stores(c, Garbled) /\ GoesTo(c, "check") /\ UNCHANGED result
     \/ Breaks /\ Fails(c, "UNAVAILABLE", "unstage")
        /\ (StoresNothing \/ Stores(c, request[c].key))
  /\ UNCHANGED <<home, staged, request, before, lock, event, historyVars, requests>>

\* A wrong ReadBack, which reads nothing back.
ReadBackNothing(c) == TRUE

\* The stored value is compared with the candidate.
ReadBack(c) == entry = request[c].key

Checks(c) ==
  /\ at[c] = "check"
  /\ \/ Works /\ ReadBack(c) /\ GoesTo(c, "unstage")
        /\ result' = [result EXCEPT ![c] = "OK"]
     \/ Works /\ ~ ReadBack(c) /\ Fails(c, "INVALID", "restore")
     \/ Breaks /\ Fails(c, "UNAVAILABLE", "restore")
  /\ StoresNothing
  /\ UNCHANGED <<home, staged, request, before, lock, event, historyVars, requests>>

\* _restore: delete if there was no value, else write the old one.
RolledBack(c) == before[c]

Restores(c) ==
  /\ at[c] = "restore"
  /\ \/ Works /\ Stores(c, RolledBack(c)) /\ GoesTo(c, "unstage") /\ UNCHANGED result
     \/ Breaks /\ Fails(c, "UNAVAILABLE", "unstage")
        /\ (StoresNothing \/ Stores(c, RolledBack(c)))
  /\ UNCHANGED <<home, staged, request, before, lock, event, historyVars, requests>>

\* The finally clause: an error here hides the result, even of a replacement
\* that has succeeded.
Unstages(c) ==
  /\ at[c] = "unstage"
  /\ \/ Works /\ staged' = staged \ {c} /\ Ends(c, result[c])
     \/ Breaks /\ staged' \in {staged, staged \ {c}} /\ Ends(c, "UNAVAILABLE")
  /\ StoresNothing
  /\ UNCHANGED <<home, request, before, event, historyVars, requests>>

-----------------------------------------------------------------------------
(***************************************************************************)
(* delete.                                                                 *)
(***************************************************************************)
Removes(c) ==
  /\ at[c] = "remove"
  /\ \/ Works /\ Stores(c, Nobody) /\ GoesTo(c, "confirm") /\ UNCHANGED <<result, lock>>
     \/ Breaks /\ (StoresNothing \/ Stores(c, Nobody)) /\ Ends(c, "UNAVAILABLE")
  /\ UNCHANGED <<home, staged, request, before, event, historyVars, requests>>

Confirms(c) ==
  /\ at[c] = "confirm"
  /\ \/ Works /\ Ends(c, IF entry = Nobody THEN "OK" ELSE "UNAVAILABLE")
     \/ Breaks /\ Ends(c, "UNAVAILABLE")
  /\ StoresNothing
  /\ UNCHANGED <<home, staged, request, before, event, historyVars, requests>>

-----------------------------------------------------------------------------
(***************************************************************************)
(* _handle_secret_post, after the operation.                               *)
(***************************************************************************)
\* A wrong EventOf: whether the provider was asked is not looked at.
EventOfUnasked(r) == IF r.kind = "delete" THEN "DELETED" ELSE "VALID"

\* VALID has a validation_scope: the provider was asked, or (LOCAL) was not.
EventOf(r) ==
  CASE r.kind = "set"    -> IF r.connect THEN "VALID" ELSE "CONFIGURED"
    [] r.kind = "rotate" -> IF r.connect THEN "VALID" ELSE "ROTATED"
    [] r.kind = "verify" -> IF r.connect THEN "VALID" ELSE "LOCAL"
    [] r.kind = "delete" -> "DELETED"

\* Nothing of an operation is left in C when it is over.
Forgotten(C) ==
  /\ at' = [c \in Client |-> IF c \in C THEN "idle" ELSE at[c]]
  /\ request' = [c \in Client |-> IF c \in C THEN Nobody ELSE request[c]]
  /\ before' = [c \in Client |-> IF c \in C THEN Nobody ELSE before[c]]
  /\ result' = [c \in Client |-> IF c \in C THEN "OK" ELSE result[c]]
  /\ interfered' = interfered \ C

\* record_provider_secret_event: of the provider's events the last one counts.
EventAfter(c) ==
  LET r == request[c] IN
  IF result[c] = "OK" THEN EventOf(r)
  ELSE IF result[c] = "INVALID" /\ (r.kind = "verify" \/ r.connect) THEN "INVALID"
  ELSE event

\* The command prints its result; the Dashboard records it as an event, when the
\* lock is released already.
Tells(c) ==
  /\ at[c] = "tell"
  /\ event' = IF home[c] = "command" THEN event ELSE EventAfter(c)
  /\ Forgotten({c})
  /\ UNCHANGED <<home, entry, staged, lock, historyVars, boundVars>>

\* A process ends between two calls.
Crashes(p) ==
  /\ \E c \in Client : home[c] = p /\ at[c] # "idle"
  /\ Breaks
  /\ Forgotten({c \in Client : home[c] = p})
  /\ lock' = [lock EXCEPT ![p] = Nobody]
  /\ UNCHANGED <<home, entry, staged, event, historyVars, requests>>

\* provider_secret_status: what the Dashboard shows, from the store and the event.
ProviderStatus ==
  IF entry = Nobody THEN "NOT_CONFIGURED"
  ELSE IF event \in {"NONE", "DELETED"} THEN "CONFIGURED_UNVERIFIED"
  ELSE event

-----------------------------------------------------------------------------
Step(c) ==
  \/ TakesLock(c) \/ ReadsOld(c)
  \/ Stages(c) \/ Verifies(c) \/ Commits(c) \/ Checks(c) \/ Restores(c) \/ Unstages(c)
  \/ Removes(c) \/ Confirms(c)
  \/ Tells(c)

SecretNext ==
  \/ \E c \in Client : Step(c) \/ \E r \in Request : Asks(c, r)
  \/ \E p \in Home : Crashes(p)

SecretSpec == SecretInit /\ [][SecretNext]_secretVars

-----------------------------------------------------------------------------
\* If every replacement asks for the connection check, no value the provider has
\* refused is ever what get returns, not even while a replacement is under way
\* or after one was rolled back, in one process or two.
OnlyAccepted == ~ unasked => entry \in Accepted \cup {Garbled, Nobody}

\* What an operation reports is what it has done, whatever calls have failed on the
\* way: after success the new value is stored, after a refusal the old one
\* again, and in either case no candidate entry is left.  Only UNAVAILABLE
\* leaves open what is stored.  Threads of one process never spoil it, another
\* process may.
ReportIsTrue ==
  [][\A c \in Client :
       at[c] \in Inside /\ at'[c] = "tell" /\ breaks' = breaks /\ c \notin interfered =>
         /\ c \notin staged'
         /\ result'[c] \in {"INVALID", "CONFLICT"} => entry' = before'[c]
         /\ result'[c] = "OK" =>
              entry' = CASE request[c].kind \in {"set", "rotate"} -> request[c].key
                         [] request[c].kind = "verify" -> before[c]
                         [] request[c].kind = "delete" -> Nobody]_secretVars

\* Every operation that waits for the lock ends, however the ones before it have
\* ended.
OperationsEnd == \A c \in Client : at[c] = "wait" ~> at[c] = "idle"

\* A provider shown as valid, with a connection check, has a value stored that the
\* provider accepts, if requests come one at a time, nothing but the Dashboard
\* changes the secret, and no call fails.
StatusIsCurrent ==
  ProviderStatus = "VALID" /\ ~ blurred /\ breaks = 0 /\ (\A c \in Client : at[c] = "idle")
    => entry \in Accepted
=============================================================================
