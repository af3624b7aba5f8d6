--------------------------- MODULE AttemptContract ---------------------------
(***************************************************************************)
(* What a Worker process owes the control plane for the one execution it   *)
(* has claimed, whichever runtime it is: attempts one after the other,     *)
(* none after an attempt that wrote something, and a final report, if it   *)
(* gives one, only when no attempt is active any more.                     *)
(***************************************************************************)
EXTENDS Naturals

CONSTANT MaxRetries   \* max_retries of the execution profile

VARIABLES
  phase,    \* of the Worker process: working, reported, or gone without report
  attempts, \* attempts begun
  active,   \* an attempt is under way
  dirty     \* an attempt has written

contractVars == <<phase, attempts, active, dirty>>

Init ==
  /\ phase = "working"
  /\ attempts = 0
  /\ active = FALSE
  /\ dirty = FALSE

\* An attempt is begun; it may end at once.
Begin ==
  /\ phase = "working"
  /\ ~ active
  /\ ~ dirty
  /\ attempts <= MaxRetries
  /\ attempts' = attempts + 1
  /\ active' \in BOOLEAN
  /\ UNCHANGED <<phase, dirty>>

\* What writes may outlive the Worker process, not its report.
Write ==
  /\ active
  /\ dirty' = TRUE
  /\ UNCHANGED <<phase, attempts, active>>

Stop ==
  /\ active
  /\ active' = FALSE
  /\ dirty' \in {dirty, TRUE}
  /\ UNCHANGED <<phase, attempts>>

Report ==
  /\ phase = "working"
  /\ ~ active
  /\ phase' = "reported"
  /\ UNCHANGED <<attempts, active, dirty>>

Quit ==
  /\ phase = "working"
  /\ phase' = "gone"
  /\ active' \in {active, FALSE}
  /\ dirty' \in {dirty, TRUE}
  /\ UNCHANGED attempts

Next == Begin \/ Write \/ Stop \/ Report \/ Quit

Spec == Init /\ [][Next]_contractVars
=============================================================================
