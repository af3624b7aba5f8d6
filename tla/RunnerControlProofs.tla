------------------------ MODULE RunnerControlProofs -------------------------
(***************************************************************************)
(* What holds for every number of Runner restarts, rows and processes: a   *)
(* Runner adds nothing to the control plane but an order of its commands,  *)
(* so the theorems about LoopControl hold with it; and a row has at most   *)
(* one process at work.  Their locks keep the files of live Workers apart: *)
(* keys that open a common file conflict (LockedFiles).                    *)
(***************************************************************************)
EXTENDS RunnerControl, LockedFiles, LoopControlHistory, SequenceTheorems

\* A step of Runner and processes is a command of the control plane, or none.
LEMMA RunnerStepIsCommand ==
  [RunnerNext]_<<vars, runnerVars>> => [Next]_vars
<1> SUFFICES ASSUME [RunnerNext]_<<vars, runnerVars>> PROVE Next \/ UNCHANGED vars
  OBVIOUS
<1>1. CASE UNCHANGED <<vars, runnerVars>>
  BY <1>1
<1>2. CASE RunnerProcess
  <2>1. ASSUME NEW x \in Exec \cup Preflight, StopChild(x)
        PROVE  Next \/ UNCHANGED vars
    BY <2>1 DEF StopChild, Next, WorkerStep
  <2> QED
    BY <1>2, <2>1
       DEF RunnerProcess, Observe, Launch, BeginStop, EndRunner, RunnerCrash,
           StartRunner
<1>3. CASE ProcessStep
  <2>1. ASSUME NEW w \in Processes, WorkerClaims(w) PROVE Next \/ UNCHANGED vars
    BY <2>1 DEF WorkerClaims, Next, WorkerStep
  <2>2. ASSUME NEW w \in Processes, WorkerWorks(w) PROVE Next \/ UNCHANGED vars
    BY <2>2 DEF WorkerWorks, Next, WorkerStep
  <2>3. ASSUME NEW w \in Processes, WorkerFinishes(w) PROVE Next \/ UNCHANGED vars
    BY <2>3 DEF WorkerFinishes, Next, WorkerStep
  <2>4. ASSUME NEW w \in Processes, WorkerDies(w) PROVE Next \/ UNCHANGED vars
    BY <2>4 DEF WorkerDies, Next, WorkerStep
  <2>5. ASSUME NEW w \in Processes, PlannerClaims(w) PROVE Next \/ UNCHANGED vars
    BY <2>5 DEF PlannerClaims, Next, PlannerStep
  <2>6. ASSUME NEW w \in Processes, PlannerFinishes(w) PROVE Next \/ UNCHANGED vars
    BY <2>6 DEF PlannerFinishes, Next, PlannerStep
  <2>7. ASSUME NEW w \in Processes, ProcessLost(w) PROVE Next \/ UNCHANGED vars
    BY <2>7 DEF ProcessLost
  <2>8. ASSUME NEW e \in Exec, TreeEnds(e) PROVE Next \/ UNCHANGED vars
    BY <2>8 DEF TreeEnds, Next, WorkerStep
  <2> QED
    BY <1>3, <2>1, <2>2, <2>3, <2>4, <2>5, <2>6, <2>7, <2>8 DEF ProcessStep
<1>4. CASE BesideRunner
  BY <1>4 DEF BesideRunner, Next, WorkerStep, PlannerStep
<1> QED
  BY <1>1, <1>2, <1>3, <1>4 DEF RunnerNext

\* The control plane driven by Runner, Worker and Planner processes implements
\* the control plane in which any command may come next: every theorem about
\* Spec is one about RunnerSpec.
THEOREM RunnerImplementsControl == RunnerSpec => Spec
  BY RunnerStepIsCommand, PTL DEF RunnerSpec, Spec

\* Whatever Runners crash and restart, and whatever processes they leave behind,
\* two live Workers never believe they may write conflicting scopes.
THEOREM WritersApartUnderRunner == RunnerSpec => []WritersDisjoint
  BY RunnerImplementsControl, WritersApart, PTL

-----------------------------------------------------------------------------
(***************************************************************************)
(* Types.                                                                  *)
(***************************************************************************)
\* A Runner that is not down has been started.
RunnerTypes == RunnerTypeOK /\ (runner # "DOWN" => life \in 1..MaxLives)

\* Candidates are rows of the queues.
LEMMA CandidateTypes ==
  /\ PlannerCandidates \subseteq Preflight
  /\ WorkerCandidates \subseteq Exec
BY DEF PlannerCandidates, PlannerRows, WorkerCandidates, Fitting, WorkerRows

\* Every step of the Runner and its processes keeps the Runner's types.
LEMMA RunnerTypesStep ==
  RunnerTypes /\ [RunnerNext]_<<vars, runnerVars>> => RunnerTypes'
<1> SUFFICES ASSUME RunnerTypes, [RunnerNext]_<<vars, runnerVars>>
             PROVE  RunnerTypes'
  OBVIOUS
<1> USE DEF RunnerTypes, RunnerTypeOK
<1>1. CASE UNCHANGED runnerVars
  BY <1>1 DEF runnerVars
<1>2. CASE RunnerProcess
  <2>1. CASE Observe
    BY <2>1, CandidateTypes DEF Observe
  <2>2. CASE Launch
    <3>1. {<<life, x>> : x \in candidates \ Reaped}
            \subseteq (1..MaxLives) \X (Exec \cup Preflight)
      BY <2>2 DEF Launch
    <3>2. Reaped \subseteq children
      BY DEF Reaped
    <3> QED
      BY <2>2, <3>1, <3>2 DEF Launch
  <2>3. CASE BeginStop
    BY <2>3 DEF BeginStop, Reaped
  <2>4. ASSUME NEW x \in Exec \cup Preflight, StopChild(x) PROVE RunnerTypes'
    BY <2>4 DEF StopChild
  <2>5. CASE EndRunner
    BY <2>5 DEF EndRunner
  <2>6. CASE RunnerCrash
    BY <2>6 DEF RunnerCrash
  <2>7. CASE StartRunner
    BY <2>7, LivesAssumption DEF StartRunner
  <2> QED
    BY <1>2, <2>1, <2>2, <2>3, <2>4, <2>5, <2>6, <2>7 DEF RunnerProcess
<1>3. CASE ProcessStep
  <2>1. \/ UNCHANGED runnerVars
        \/ \E w \in Processes :
             /\ UNCHANGED <<runner, life, candidates, children>>
             /\ started' \in {started, started \ {w}}
             /\ working' \in {working, working \ {w}, working \cup {w}}
    BY <1>3
       DEF ProcessStep, WorkerClaims, WorkerWorks, WorkerFinishes, WorkerDies,
           PlannerClaims, PlannerFinishes, ProcessLost, TreeEnds
  <2> QED
    BY <1>1, <2>1 DEF Processes
<1>4. CASE BesideRunner
  BY <1>1, <1>4 DEF BesideRunner
<1> QED
  BY <1>1, <1>2, <1>3, <1>4 DEF RunnerNext, runnerVars

\* The Runner keeps track of rows and of its own launches only.
THEOREM RunnerTypeCorrect == RunnerSpec => []RunnerTypeOK
<1>1. RunnerInit => RunnerTypes
  BY LivesAssumption DEF RunnerInit, RunnerTypes, RunnerTypeOK
<1>2. RunnerTypes => RunnerTypeOK
  BY DEF RunnerTypes
<1> QED
  BY <1>1, <1>2, RunnerTypesStep, PTL DEF RunnerSpec

-----------------------------------------------------------------------------
(***************************************************************************)
(* OneProcessPerRow is not inductive: a claim must find nobody at work on  *)
(* the row, and it looks at the row only.  It is enough that a process     *)
(* works on rows that have left the queue, and that none returns to it.    *)
(***************************************************************************)
RunnerInv ==
  /\ TypeInv
  /\ RunnerTypes
  /\ WorkingHasClaimed
  /\ OneProcessPerRow

\* The rows that have left the queue.
Claimed == {e \in Exec : execStatus[e] \notin {"ABSENT", "QUEUED"}}
             \cup {p \in Preflight : inspStatus[p] \notin {"ABSENT", "QUEUED"}}

\* No inspection goes back to the queue either.
LEMMA InspectionsForward ==
  ASSUME TypeInv, [Next]_vars, NEW p \in Preflight,
         inspStatus[p] \notin {"ABSENT", "QUEUED"}
  PROVE  inspStatus'[p] \notin {"ABSENT", "QUEUED"}
<1>0. TypeOK BY DEF TypeInv
<1>1. CASE UNCHANGED inspStatus
  BY <1>1
<1>2. InspAfter[p] \notin {"ABSENT", "QUEUED"}
  BY DEF InspAfter
<1>3. CASE PlannerStep
  <2>1. CASE PreflightNothing
    BY <1>2, <2>1 DEF PreflightNothing
  <2>2. ASSUME NEW S \in SUBSET Task, NEW insp \in [S -> Preflight],
               SchedulePreflight(S, insp)
        PROVE  inspStatus'[p] \notin {"ABSENT", "QUEUED"}
    <3>1. /\ \A t \in S : inspStatus[insp[t]] = "ABSENT"
          /\ inspStatus' = [q \in Preflight |->
                              IF q \in {insp[t] : t \in S} THEN "QUEUED"
                              ELSE InspAfter[q]]
      BY <2>2 DEF SchedulePreflight
    <3> QED
      BY <1>2, <3>1
  <2>3. ASSUME NEW t \in Task, UnschedulePreflight(t)
        PROVE  inspStatus'[p] \notin {"ABSENT", "QUEUED"}
    <3>1. inspStatus' = [inspStatus EXCEPT ![preflightExecution[t]] = "FINISHED"]
      BY <2>3 DEF UnschedulePreflight
    <3> QED
      BY <1>0, <3>1 DEF TypeOK
  <2>4. ASSUME NEW q \in Preflight,
               \/ PreflightClaim(q)
               \/ \E S \in SUBSET Scope : PreflightReady(q, S)
               \/ \E verdict \in {"NEEDS_REVIEW", "FAILED"} :
                    PreflightReturn(q, verdict)
               \/ PreflightSplit(q)
        PROVE  inspStatus'[p] \notin {"ABSENT", "QUEUED"}
    <3>1. \E new \in {"INSPECTING", "FINISHED", "FAILED"} :
            inspStatus' = [InspAfter EXCEPT ![q] = new]
      BY <2>4
         DEF PreflightClaim, PreflightReady, PreflightReturn, PreflightSplit,
             CloseInspection
    <3> QED
      BY <1>0, <1>2, <3>1, InspectionTypes
  <2> QED
    BY <1>3, <2>1, <2>2, <2>3, <2>4 DEF PlannerStep
<1>4. CASE RecoveryStep \/ WorkerStep \/ DispatcherStep
  BY <1>1, <1>4
     DEF RecoveryStep, RecoverWait, RecoverRelease, WorkerStep, ClaimNothing,
         Claim, Heartbeat, ProcessEnds, ExtendScope, Finish, DispatcherStep,
         Dispatch, UnscheduleExecution, inspVars
<1>5. CASE OperatorStep
  BY <1>1, <1>5
     DEF OperatorStep, Enqueue, Update, RequeueDraft, RequeueReady, Cancel,
         Confirm, ResolveHuman, Archive, Unarchive, inspVars
<1>6. CASE Clock \/ UNCHANGED vars
  BY <1>1, <1>6
     DEF Clock, HeartbeatLapses, AttemptTimesOut, InspectionLapses, inspVars, vars
<1> QED
  BY <1>3, <1>4, <1>5, <1>6 DEF Next

\* A row that has left the queue never comes back into it.
LEMMA ClaimedGrows ==
  ASSUME TypeInv, [RunnerNext]_<<vars, runnerVars>>
  PROVE  Claimed \subseteq Claimed'
<1>1. [Next]_vars
  BY RunnerStepIsCommand
<1>2. \A e \in Exec : execStatus[e] \notin {"ABSENT", "QUEUED"} =>
        execStatus'[e] \notin {"ABSENT", "QUEUED"}
  <2>1. OrderStep
    BY <1>1, OrderKept
  <2> QED
    BY <2>1 DEF OrderStep, TypeInv, TypeOK, ExecStatus
<1>3. \A p \in Preflight : inspStatus[p] \notin {"ABSENT", "QUEUED"} =>
        inspStatus'[p] \notin {"ABSENT", "QUEUED"}
  BY <1>1, InspectionsForward
<1> QED
  BY <1>2, <1>3 DEF Claimed

\* A process begins to work on a row only by a claim that takes it from the
\* queue.
NewlyWorking(w) ==
  /\ working' = working \cup {w}
  /\ w[2] \in Claimed' \ Claimed

\* Only a claim puts a process to work.
LEMMA WorkingGrows ==
  ASSUME RunnerInv, [RunnerNext]_<<vars, runnerVars>>
  PROVE  working' \subseteq working \/ \E w \in started : NewlyWorking(w)
<1>0. TypeInv /\ TypeOK BY DEF RunnerInv, TypeInv
<1>1. ASSUME NEW w \in Processes, WorkerClaims(w)
      PROVE  working' \subseteq working \/ (NewlyWorking(w) /\ w \in started)
  <2>1. ASSUME Claim(w[2]), working' = working \cup {w}
        PROVE  NewlyWorking(w)
    <3>1. /\ w[2] \in Exec
          /\ execStatus[w[2]] = "QUEUED"
          /\ execStatus' = [SweptExec EXCEPT ![w[2]] = "RUNNING"]
      BY <1>1, <2>1 DEF WorkerClaims, Claim, Claimable
    <3>2. execStatus'[w[2]] = "RUNNING"
      BY <1>0, <3>1, SweepTypes
    <3> QED
      BY <2>1, <3>1, <3>2, RowAssumption DEF NewlyWorking, Claimed
  <2> QED
    BY <1>1, <2>1 DEF WorkerClaims
<1>2. ASSUME NEW w \in Processes, PlannerClaims(w)
      PROVE  working' \subseteq working \/ (NewlyWorking(w) /\ w \in started)
  <2>1. ASSUME PreflightClaim(w[2]), working' = working \cup {w}
        PROVE  NewlyWorking(w)
    <3>1. /\ w[2] \in Preflight
          /\ inspStatus[w[2]] = "QUEUED"
          /\ inspStatus' = [InspAfter EXCEPT ![w[2]] = "INSPECTING"]
      BY <1>2, <2>1 DEF PlannerClaims, PreflightClaim
    <3>2. inspStatus'[w[2]] = "INSPECTING"
      BY <1>0, <3>1, InspectionTypes
    <3> QED
      BY <2>1, <3>1, <3>2, RowAssumption DEF NewlyWorking, Claimed
  <2> QED
    BY <1>2, <2>1 DEF PlannerClaims
<1>3. \/ working' \subseteq working
      \/ \E w \in Processes : WorkerClaims(w) \/ PlannerClaims(w)
  BY DEF RunnerNext, RunnerProcess, Observe, Launch, BeginStop, StopChild,
         EndRunner, RunnerCrash, StartRunner, ProcessStep, WorkerWorks,
         WorkerFinishes, WorkerDies, PlannerFinishes, ProcessLost, TreeEnds,
         BesideRunner, runnerVars
<1> QED
  BY <1>1, <1>2, <1>3

\* Every step keeps one process at work for a row.
LEMMA RunnerInvStep ==
  RunnerInv /\ TypeInv' /\ [RunnerNext]_<<vars, runnerVars>> => RunnerInv'
<1> SUFFICES ASSUME RunnerInv, TypeInv', [RunnerNext]_<<vars, runnerVars>>
             PROVE  RunnerInv'
  OBVIOUS
<1>1. RunnerTypes'
  BY RunnerTypesStep DEF RunnerInv
<1>2. Claimed \subseteq Claimed'
  BY ClaimedGrows DEF RunnerInv
<1>3. \A w \in working : w[2] \in Claimed
  BY DEF RunnerInv, RunnerTypes, RunnerTypeOK, WorkingHasClaimed, Claimed
<1>4. working' \subseteq working \/ \E w \in started : NewlyWorking(w)
  BY WorkingGrows
<1>5. \A w \in working' : w[2] \in Claimed'
  BY <1>2, <1>3, <1>4 DEF NewlyWorking
<1>6. WorkingHasClaimed'
  BY <1>5, RowAssumption DEF WorkingHasClaimed, Claimed
<1>7. OneProcessPerRow'
  BY <1>3, <1>4 DEF RunnerInv, OneProcessPerRow, NewlyWorking
<1> QED
  BY <1>1, <1>6, <1>7 DEF RunnerInv

\* However often the Runner crashes and starts other processes for the rows of
\* those it lost, at most one of them works on a row.
THEOREM OneProcess == RunnerSpec => []OneProcessPerRow
<1>1. Init /\ RunnerInit => RunnerInv
  <2>1. Init => TypeInv
    BY TypeInit
  <2>2. RunnerInit => RunnerTypes /\ WorkingHasClaimed /\ OneProcessPerRow
    BY LivesAssumption
       DEF RunnerInit, RunnerTypes, RunnerTypeOK, WorkingHasClaimed, OneProcessPerRow
  <2> QED
    BY <2>1, <2>2 DEF RunnerInv
<1>2. RunnerSpec => []TypeInv
  BY RunnerImplementsControl, TypeInvariant, PTL
<1>3. RunnerInv => OneProcessPerRow
  BY DEF RunnerInv
<1> QED
  BY <1>1, <1>2, <1>3, RunnerInvStep, PTL DEF RunnerSpec

-----------------------------------------------------------------------------
(***************************************************************************)
(* The files behind the locks: keys that open a common file conflict, and  *)
(* conflicting keys are never held together.                               *)
(***************************************************************************)

\* A prefix agrees with the longer sequence wherever it is defined.
LEMMA PrefixAgrees ==
  ASSUME NEW S, NEW s \in Seq(S), NEW t \in Seq(S)
  PROVE  IsPrefix(s, t) <=>
           Len(s) <= Len(t) /\ \A i \in 1..Len(s) : s[i] = t[i]
<1>0. Len(s) \in Nat /\ Len(t) \in Nat /\ 1 \in Int
  OBVIOUS
<1> SUFFICES ASSUME Len(s) <= Len(t)
             PROVE  SubSeq(s, 1, Len(s)) = SubSeq(t, 1, Len(s)) <=>
                      \A i \in 1..Len(s) : s[i] = t[i]
  BY DEF IsPrefix
<1>1. \A i \in 1..Len(s) : s[i] \in S /\ t[i] \in S
  BY <1>0
<1>2. /\ SubSeq(s, 1, Len(s)) \in Seq(S)
      /\ Len(SubSeq(s, 1, Len(s))) = Len(s)
      /\ \A i \in 1..Len(s) : SubSeq(s, 1, Len(s))[i] = s[i]
  BY <1>0, <1>1, SubSeqProperties
<1>3. /\ SubSeq(t, 1, Len(s)) \in Seq(S)
      /\ Len(SubSeq(t, 1, Len(s))) = Len(s)
      /\ \A i \in 1..Len(s) : SubSeq(t, 1, Len(s))[i] = t[i]
  BY <1>0, <1>1, SubSeqProperties
<1>4. ASSUME \A i \in 1..Len(s) : s[i] = t[i]
      PROVE  SubSeq(s, 1, Len(s)) = SubSeq(t, 1, Len(s))
  BY <1>2, <1>3, <1>4, SeqEqual
<1> QED
  BY <1>2, <1>3, <1>4

\* Of two prefixes of one sequence, one is a prefix of the other.
LEMMA PrefixesCompare ==
  ASSUME NEW S, NEW s \in Seq(S), NEW t \in Seq(S), NEW u \in Seq(S),
         IsPrefix(s, u), IsPrefix(t, u)
  PROVE  IsPrefix(s, t) \/ IsPrefix(t, s)
<1>0. Len(s) \in Nat /\ Len(t) \in Nat
  OBVIOUS
<1>1. /\ \A i \in 1..Len(s) : s[i] = u[i]
      /\ \A i \in 1..Len(t) : t[i] = u[i]
  BY PrefixAgrees
<1>2. CASE Len(s) <= Len(t)
  BY <1>0, <1>1, <1>2, PrefixAgrees
<1>3. CASE Len(t) <= Len(s)
  BY <1>0, <1>1, <1>3, PrefixAgrees
<1> QED
  BY <1>0, <1>2, <1>3

\* Two paths that are prefixes of each other are the same.
LEMMA PrefixBothWays ==
  ASSUME NEW S, NEW s \in Seq(S), NEW t \in Seq(S), IsPrefix(s, t), IsPrefix(t, s)
  PROVE  s = t
<1>1. /\ Len(s) \in Nat /\ Len(t) \in Nat
      /\ Len(s) <= Len(t) /\ Len(t) <= Len(s)
      /\ \A i \in 1..Len(s) : s[i] = t[i]
  BY PrefixAgrees
<1> QED
  BY <1>1, SeqEqual

\* What comes before a concatenation comes before all of it.
LEMMA PrefixExtends ==
  ASSUME NEW S, NEW p \in Seq(S), NEW s \in Seq(S), NEW u \in Seq(S),
         IsPrefix(p \o s, u)
  PROVE  IsPrefix(p, u)
<1>1. /\ p \o s \in Seq(S)
      /\ Len(p \o s) = Len(p) + Len(s)
      /\ \A i \in 1..Len(p) + Len(s) :
           (p \o s)[i] = IF i <= Len(p) THEN p[i] ELSE s[i - Len(p)]
  BY ConcatProperties
<1>2. Len(p) \in Nat /\ Len(s) \in Nat /\ Len(u) \in Nat
  OBVIOUS
<1>3. Len(p \o s) <= Len(u) /\ \A i \in 1..Len(p \o s) : (p \o s)[i] = u[i]
  BY <1>1, PrefixAgrees
<1>4. Len(p) <= Len(u) /\ \A i \in 1..Len(p) : p[i] = u[i]
  BY <1>1, <1>2, <1>3
<1> QED
  BY <1>4, PrefixAgrees

\* A common beginning can be taken off.
LEMMA PrefixCancels ==
  ASSUME NEW S, NEW p \in Seq(S), NEW s \in Seq(S), NEW t \in Seq(S),
         IsPrefix(p \o s, p \o t)
  PROVE  IsPrefix(s, t)
<1>1. /\ p \o s \in Seq(S) /\ p \o t \in Seq(S)
      /\ Len(p \o s) = Len(p) + Len(s) /\ Len(p \o t) = Len(p) + Len(t)
      /\ \A i \in 1..Len(p) + Len(s) :
           (p \o s)[i] = IF i <= Len(p) THEN p[i] ELSE s[i - Len(p)]
      /\ \A i \in 1..Len(p) + Len(t) :
           (p \o t)[i] = IF i <= Len(p) THEN p[i] ELSE t[i - Len(p)]
  BY ConcatProperties
<1>2. Len(p) \in Nat /\ Len(s) \in Nat /\ Len(t) \in Nat
  OBVIOUS
<1>3. /\ Len(p \o s) <= Len(p \o t)
      /\ \A i \in 1..Len(p \o s) : (p \o s)[i] = (p \o t)[i]
  BY <1>1, PrefixAgrees
<1>4. Len(s) <= Len(t)
  BY <1>1, <1>2, <1>3
<1>5. ASSUME NEW i \in 1..Len(s)
      PROVE  s[i] = t[i]
  <2>1. /\ Len(p) + i \in 1..Len(p) + Len(s)
        /\ Len(p) + i \in 1..Len(p) + Len(t)
        /\ ~ (Len(p) + i <= Len(p)) /\ (Len(p) + i) - Len(p) = i
    BY <1>2, <1>4
  <2>2. (p \o s)[Len(p) + i] = s[i] /\ (p \o t)[Len(p) + i] = t[i]
    BY <1>1, <2>1
  <2> QED
    BY <1>1, <1>3, <2>1, <2>2
<1> QED
  BY <1>4, <1>5, PrefixAgrees

-----------------------------------------------------------------------------
\* What LoopStore assumes of the conflicts of keys is what scope_keys_conflict gives:
\* a key conflicts with itself, and the order of two keys does not matter.
THEOREM ConflictsAreMutual ==
  /\ \A a \in Scope : <<a, a>> \in Conflict
  /\ \A a, b \in Scope : <<a, b>> \in Conflict => <<b, a>> \in Conflict
<1>1. ASSUME NEW a \in Scope, NEW b \in Scope
      PROVE  <<a, b>> \in Conflict <=> KeysConflict(ScopeKey[a], ScopeKey[b])
  BY KeyAssumption
<1>2. \A a \in Scope : KeysConflict(ScopeKey[a], ScopeKey[a])
  BY DEF KeysConflict
<1>3. \A a, b \in Scope :
        KeysConflict(ScopeKey[a], ScopeKey[b])
          => KeysConflict(ScopeKey[b], ScopeKey[a])
  BY DEF KeysConflict
<1> QED
  BY <1>1, <1>2, <1>3

\* The keys are paths with a mode.
LEMMA KeyTypes ==
  ASSUME NEW a \in Scope
  PROVE  /\ ScopeKey[a].mode \in {"file", "module", "project"}
         /\ ScopeKey[a].project \in Seq(Segment)
         /\ ScopeKey[a].parts \in Seq(Segment)
         /\ Root(ScopeKey[a]) \in Seq(Segment)
<1>1. ScopeKey[a] \in Keys
  BY KeyAssumption
<1>2. /\ ScopeKey[a].mode \in {"file", "module", "project"}
      /\ ScopeKey[a].project \in Seq(Segment)
      /\ ScopeKey[a].parts \in Seq(Segment)
  BY <1>1 DEF Keys
<1> QED
  BY <1>2, ConcatProperties DEF Root

\* A path that a key opens begins with the key's path.
LEMMA OpensBelow ==
  ASSUME NEW a \in Scope, NEW path \in File, Opens(ScopeKey[a], path)
  PROVE  /\ path \in Seq(Segment)
         /\ IsPrefix(Root(ScopeKey[a]), path)
         /\ IsPrefix(ScopeKey[a].project, path)
<1>1. path \in Seq(Segment)
  BY KeyAssumption
<1>2. IsPrefix(path, path)
  BY <1>1, PrefixAgrees
<1>3. IsPrefix(Root(ScopeKey[a]), path)
  BY <1>2 DEF Opens
<1> QED
  BY <1>1, <1>3, KeyTypes, PrefixExtends DEF Root

\* Keys that lock a common file lie in one project: the inner one of two nested
\* projects keeps what is below it.
LEMMA OneProject ==
  ASSUME NEW a \in Scope, NEW b \in Scope, NEW path,
         Locks(ScopeKey[a], path), Locks(ScopeKey[b], path)
  PROVE  ScopeKey[a].project = ScopeKey[b].project
<1>1. /\ IsPrefix(ScopeKey[a].project, ScopeKey[b].project)
      /\ IsPrefix(ScopeKey[b].project, ScopeKey[a].project)
  BY HomeAssumption DEF Locks
<1> QED
  BY <1>1, KeyTypes, PrefixBothWays

\* The keys of two scopes that lock one file conflict for scope_keys_conflict,
\* whatever their modes and however deep they lie.
LEMMA CommonLockConflicts ==
  ASSUME NEW a \in Scope, NEW b \in Scope, NEW path \in Seq(Segment),
         Locks(ScopeKey[a], path), Locks(ScopeKey[b], path)
  PROVE  <<a, b>> \in Conflict
<1> DEFINE k == ScopeKey[a]
           l == ScopeKey[b]
<1>0. /\ k.mode \in {"file", "module", "project"}
      /\ l.mode \in {"file", "module", "project"}
  BY KeyTypes
<1>1. k.project = l.project
  BY OneProject
<1>2. CASE "project" \in {k.mode, l.mode}
  BY <1>0, <1>1, <1>2, KeyAssumption DEF KeysConflict
<1>3. CASE k.mode # "project" /\ l.mode # "project"
  <2>0. IsPrefix(path, path)
    BY PrefixAgrees
  <2>1. /\ IsPrefix(Root(k), path)
        /\ IsPrefix(Root(l), path)
        /\ k.mode = "file" => path = Root(k)
        /\ l.mode = "file" => path = Root(l)
    BY <1>3, <2>0 DEF Locks
  <2>2. IsPrefix(k.parts, l.parts) \/ IsPrefix(l.parts, k.parts)
    <3>1. IsPrefix(Root(k), Root(l)) \/ IsPrefix(Root(l), Root(k))
      BY <2>1, KeyTypes, PrefixesCompare
    <3> QED
      BY <1>1, <3>1, KeyTypes, PrefixCancels DEF Root
  <2>3. k.mode = "file" => IsPrefix(l.parts, k.parts)
    BY <1>1, <2>1, KeyTypes, PrefixCancels DEF Root
  <2>4. l.mode = "file" => IsPrefix(k.parts, l.parts)
    BY <1>1, <2>1, KeyTypes, PrefixCancels DEF Root
  <2>5. k.mode = "file" /\ l.mode = "file" => k.parts = l.parts
    BY <2>3, <2>4, KeyTypes, PrefixBothWays
  <2> QED
    BY <1>0, <1>1, <1>3, <2>2, <2>3, <2>4, <2>5, KeyAssumption DEF KeysConflict
<1> QED
  BY <1>0, <1>2, <1>3

\* A file that two scopes open and that neither of the two leaves unlocked makes
\* them conflict: dispatch, claim and extension keep their tasks apart.
THEOREM CommonFileConflicts ==
  ASSUME NEW a \in Scope, NEW b \in Scope,
         NEW path \in Opened(a) \cap Opened(b), path \notin Stray(a) \cup Stray(b)
  PROVE  <<a, b>> \in Conflict
<1>1. path \in Seq(Segment)
  BY KeyAssumption DEF Opened
<1>2. Locks(ScopeKey[a], path) /\ Locks(ScopeKey[b], path)
  BY DEF Stray
<1> QED
  BY <1>1, <1>2, CommonLockConflicts

\* The ways in which a scope opens a file that it does not lock: it is a file scope
\* and names a directory, or the file lies in a project that is registered below
\* the project of the scope.
THEOREM StrayFiles ==
  ASSUME NEW a \in Scope, NEW path \in Stray(a)
  PROVE  \/ ScopeKey[a].mode = "file" /\ Root(ScopeKey[a]) \in Directory
         \/ \E p \in ProjectKey : /\ IsPrefix(p, path)
                                  /\ ~ IsPrefix(p, ScopeKey[a].project)
<1>1. path \in File /\ Opens(ScopeKey[a], path) /\ ~ Locks(ScopeKey[a], path)
  BY DEF Stray, Opened
<1>2. IsPrefix(Root(ScopeKey[a]), path) /\ IsPrefix(ScopeKey[a].project, path)
  BY <1>1, OpensBelow
<1>3. CASE \A p \in ProjectKey : IsPrefix(p, path) => IsPrefix(p, ScopeKey[a].project)
  <2>1. ScopeKey[a].mode = "file" /\ path # Root(ScopeKey[a])
    BY <1>1, <1>2, <1>3, KeyTypes DEF Locks
  <2> QED
    BY <1>1, <2>1 DEF Opens
<1> QED
  BY <1>3

-----------------------------------------------------------------------------
\* In every behaviour of the control plane, two live Worker processes reach no
\* common file that both of them have locked: claims, extensions, sweeps,
\* recoveries and late reports included.
THEOREM WritersReachNoCommonFile == Spec => []FilesApart
<1>1. LockInv /\ WritersDisjoint => FilesApart
  <2> SUFFICES ASSUME LockInv, WritersDisjoint,
                      NEW e \in Exec, NEW f \in Exec, e # f,
                      NEW a \in credential[e], NEW b \in credential[f],
                      NEW path \in Opened(a) \cap Opened(b),
                      path \notin Stray(a) \cup Stray(b)
               PROVE  FALSE
    BY DEF FilesApart
  <2>1. a \in Scope /\ b \in Scope
    BY DEF LockInv, CredentialBacked, LocksOf
  <2>2. <<a, b>> \in Conflict
    BY <2>1, CommonFileConflicts
  <2> QED
    BY <2>2 DEF WritersDisjoint
<1> QED
  BY <1>1, LockInvariant, WritersApart, PTL
=============================================================================
