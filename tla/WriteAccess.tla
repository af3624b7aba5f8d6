----------------------------- MODULE WriteAccess -----------------------------
(***************************************************************************)
(* What the scope locks promise, without a database: write access to scope *)
(* keys is granted to one writer at a time.  A grant never overlaps what   *)
(* another writer has, and ends only when its writer gives it up.          *)
(***************************************************************************)
CONSTANTS Writer, Key, Clash

VARIABLE access   \* the keys each writer may write

Clashes(keys, w) ==
  \E a \in keys, v \in Writer \ {w} :
    \E b \in access[v] : <<a, b>> \in Clash

Init == access = [w \in Writer |-> {}]

\* w is given keys on top of those it has.
Grant(w, keys) ==
  /\ ~ Clashes(keys, w)
  /\ access' = [access EXCEPT ![w] = @ \cup keys]

GiveUp(w) == access' = [access EXCEPT ![w] = {}]

Next == \E w \in Writer : GiveUp(w) \/ \E keys \in SUBSET Key : Grant(w, keys)

Spec == Init /\ [][Next]_access
=============================================================================
