------------------------------ MODULE LockedFiles ------------------------------
(***************************************************************************)
(* LoopControl over the keys of ScopeKeys: what the locks on keys are for, *)
(* the files two Workers can reach.                                        *)
(***************************************************************************)
EXTENDS LoopControl, ScopeKeys

CONSTANTS
  ScopeKey,  \* the key a member of Scope stands for
  File       \* the files of the workspace, paths of folded segments

Keys == [mode : {"file", "module", "project"},
         project : Seq(Segment), parts : Seq(Segment)]

ASSUME KeyAssumption ==
  /\ ScopeKey \in [Scope -> Keys]
  /\ File \subseteq Seq(Segment)
  /\ Conflict = {k \in Scope \X Scope : KeysConflict(ScopeKey[k[1]], ScopeKey[k[2]])}

\* A key names the registered project it lies in, as KeyOf makes it.
ProjectKey == {Folded(Parts(p)) : p \in Project}

ASSUME HomeAssumption == \A s \in Scope : ScopeKey[s].project \in ProjectKey

\* The files an id of Scope opens.
Opened(s) == {path \in File : Opens(ScopeKey[s], path)}

\* The files a key stands for when keys are compared: those that normalize_scope
\* puts into its project, not into one registered below it, all of them for a
\* project, the ones below its path for a module, the path alone for a file.
Locks(key, path) ==
  /\ IsPrefix(key.project, path)
  /\ \A p \in ProjectKey : IsPrefix(p, path) => IsPrefix(p, key.project)
  /\ \/ key.mode = "project"
     \/ key.mode = "module" /\ IsPrefix(Root(key), path)
     \/ path = Root(key)

\* The files a scope opens and does not lock.  Nothing in the code keeps this
\* empty: a file scope may name a directory, and a project may be registered
\* below another (theorem StrayFiles: there are no other ways).
Stray(s) == {path \in Opened(s) : ~ Locks(ScopeKey[s], path)}

\* No two live Worker processes reach the same file, however their scopes are
\* spelled, cased and nested and whatever claims, sweeps and extensions have
\* interleaved, unless one of the two opens it without locking it.
FilesApart ==
  \A e, f \in Exec : e # f =>
    \A a \in credential[e], b \in credential[f] :
      Opened(a) \cap Opened(b) \subseteq Stray(a) \cup Stray(b)
=============================================================================
