------------------------------- MODULE ScopeKeys -------------------------------
(***************************************************************************)
(* Scopes, the keys that lock them, and the files they open to a Worker    *)
(* (tasks/scopes.py, ScopePolicy of runtime/sandbox.py).                   *)
(*                                                                         *)
(* A path is the sequence of the segments between its slashes, below the   *)
(* workspace.  Windows compares file names without case, so a file is a    *)
(* path of folded segments.                                                *)
(***************************************************************************)
EXTENDS Naturals, SequencesExt

CONSTANTS
  Segment,        \* path segments as a Planner may write them
  Fold,           \* str.casefold on segments
  Drive,          \* segments that begin with a drive letter
  ForbiddenRoot,  \* folded FORBIDDEN_SCOPE_ROOTS, and the OSS: prefixes
  Project,        \* the paths of the project registry
  Directory       \* the folded paths that are directories on disk

Folded(path) == [i \in 1..Len(path) |-> Fold[path[i]]]

\* Neither absolute nor empty, and it climbs nowhere.
Parts(raw) == SelectSeq(raw, LAMBDA s : s \notin {"", "."})
Safe(raw) ==
  /\ Parts(raw) # << >>
  /\ raw[1] \notin Drive \cup {""}
  /\ \A i \in 1..Len(raw) : raw[i] # ".."

\* The registered project a path lies in: the longest one that is a prefix.
Homes(raw) == {p \in Project : IsPrefix(Folded(Parts(p)), Folded(Parts(raw)))}
Home(raw) ==
  CHOOSE p \in Homes(raw) :
    \A q \in Homes(raw) : Len(Parts(q)) <= Len(Parts(p))

Below(raw) == SubSeq(Parts(raw), Len(Parts(Home(raw))) + 1, Len(Parts(raw)))

\* normalize_scope does not raise.
Accepted(raw, mode) ==
  /\ Safe(raw)
  /\ Fold[Parts(raw)[1]] \notin ForbiddenRoot
  /\ Homes(raw) # {}
  /\ mode \in {"file", "module"} => Below(raw) # << >>

\* The key of an accepted scope.  A project key forgets what lies below.
KeyOf(raw, mode) ==
  [mode |-> mode,
   project |-> Folded(Parts(Home(raw))),
   parts |-> IF mode = "project" THEN << >> ELSE Folded(Below(raw))]

\* As scope_keys_conflict, but a module compares like a file, by its whole path.
ConflictByPath(left, right) ==
  IF "external" \in {left.mode, right.mode}
  THEN left = right
  ELSE /\ left.project = right.project
       /\ \/ "project" \in {left.mode, right.mode}
          \/ left.parts = right.parts

\* scope_keys_conflict.  External keys are equal or strangers; keys of one
\* project meet when one of them is the project, a module that holds the other,
\* or the same file.
KeysConflict(left, right) ==
  IF "external" \in {left.mode, right.mode}
  THEN left = right
  ELSE /\ left.project = right.project
       /\ \/ "project" \in {left.mode, right.mode}
          \/ left.parts = right.parts
          \/ left.mode = "module" /\ IsPrefix(left.parts, right.parts)
          \/ right.mode = "module" /\ IsPrefix(right.parts, left.parts)

\* What ScopePolicy resolves under a scope: the whole tree when the scope is a
\* directory on disk, else the one path.
Root(key) == key.project \o key.parts
Opens(key, path) ==
  \/ path = Root(key)
  \/ Root(key) \in Directory /\ IsPrefix(Root(key), path)

=============================================================================
