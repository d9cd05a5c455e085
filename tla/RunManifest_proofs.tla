---------------------------- MODULE RunManifest_proofs ----------------------------
(***************************************************************************)
(* Proofs about one run manifest, for any stages and identities and any    *)
(* order of API calls.                                                     *)
(***************************************************************************)
EXTENDS RunManifest, TLAPS

\* The guard of success is the only way to success, so the inductive invariant
\* is the conjunction of the type and the two state properties.
ManifestInv == TypeOK /\ SuccessIsComplete /\ OneStageInProgress

-----------------------------------------------------------------------------
(* What the operations do to a manifest. *)

\* A manifest that is consistent: what ManifestInv says of an existing run.
Consistent(m) ==
    /\ m \in Manifests
    /\ m.status = "success" => \A s \in StageNames : m.stage[s] \in {"absent", "success"}
    /\ m.status = "running" => \A s \in StageNames : m.stage[s] = "running" <=> m.current = s

\* create_run produces a consistent manifest.
LEMMA NewRunConsistent ==
    ASSUME NEW declared \in SUBSET StageNames PROVE Consistent(NewRun(declared))
BY ManifestAssumption DEF Consistent, NewRun, Manifests, StageStatuses

\* _fail_manifest leaves a failed manifest, which owes nothing further.
LEMMA FailConsistent ==
    ASSUME NEW m \in Manifests PROVE Consistent(Fail(m)) /\ Fail(m).status = "failed"
BY DEF Consistent, Fail, Manifests, StageStatuses

\* Starting a stage makes it the one in progress.
LEMMA StageStartedConsistent ==
    ASSUME NEW m, Consistent(m), NEW s \in StageNames, MayStart(m, s)
    PROVE  Consistent(StageStarted(m, s))
<1> USE DEF Consistent, Manifests, StageStatuses, MayStart, IsOpen
<1>1. CASE m.stage[s] = "running"
  BY <1>1 DEF StageStarted
<1>2. CASE m.stage[s] # "running"
  <2> DEFINE n == [m EXCEPT !.stage[s] = "running", !.current = s]
  <2>1. n \in Manifests /\ n.status = "running"
    OBVIOUS
  <2>2. m.current = NoStage
    BY <1>2
  <2>3. \A t \in StageNames : n.stage[t] = "running" <=> n.current = t
    BY <2>2, ManifestAssumption
  <2> QED
    BY <1>2, <2>1, <2>3 DEF StageStarted
<1> QED
  BY <1>1, <1>2

\* Ending a stage leaves none in progress, or fails the run.
LEMMA StageEndedConsistent ==
    ASSUME NEW m, Consistent(m), NEW s \in StageNames,
           NEW outcome \in TerminalStatuses, MayEnd(m, s, outcome)
    PROVE  Consistent(StageEnded(m, s, outcome))
<1> USE DEF MayEnd, IsOpen, TerminalStatuses
<1>1. m \in Manifests
  BY DEF Consistent
<1>2. CASE m.stage[s] = outcome
  BY <1>2 DEF StageEnded
<1>3. CASE m.stage[s] # outcome /\ outcome = "failed"
  BY <1>1, <1>3, FailConsistent DEF StageEnded
<1>4. CASE m.stage[s] # outcome /\ outcome # "failed"
  BY <1>4, ManifestAssumption DEF StageEnded, Consistent, Manifests, StageStatuses
<1> QED
  BY <1>2, <1>3, <1>4

\* record_failure leaves a failed manifest.
LEMMA FailureRecordedConsistent ==
    ASSUME NEW m, Consistent(m), NEW named \in StageNames \cup {NoStage},
           MayRecordFailure(m)
    PROVE  Consistent(FailureRecorded(m, named))
<1> DEFINE selected == IF named # NoStage THEN named ELSE m.current
<1>1. m \in Manifests
  BY DEF Consistent
<1>2. CASE m.status = "failed"
  BY <1>2 DEF FailureRecorded
<1>3. CASE m.status # "failed" /\ selected = NoStage
  BY <1>1, <1>3, FailConsistent DEF FailureRecorded
<1>4. CASE m.status # "failed" /\ selected # NoStage
  <2> DEFINE n == [m EXCEPT !.stage[selected] = "failed", !.current = selected]
  <2>1. selected \in StageNames
    BY <1>1, <1>4 DEF Manifests
  <2>2. n \in Manifests
    BY <1>1, <2>1 DEF Manifests, StageStatuses
  <2>3. FailureRecorded(m, named) = Fail(n)
    BY <1>4 DEF FailureRecorded
  <2> QED
    BY <2>2, <2>3, FailConsistent
<1> QED
  BY <1>2, <1>3, <1>4

\* update_run_status reaches success only with nothing incomplete.
LEMMA StatusUpdatedConsistent ==
    ASSUME NEW m, Consistent(m), NEW status \in {"running", "success", "failed"},
           MayUpdateStatus(m, status)
    PROVE  Consistent(StatusUpdated(m, status))
<1> USE DEF MayUpdateStatus, TerminalStatuses
<1>1. m \in Manifests
  BY DEF Consistent
<1>2. CASE m.status \in TerminalStatuses \/ status = "running"
  BY <1>2 DEF StatusUpdated
<1>3. CASE m.status = "running" /\ status = "failed"
  BY <1>1, <1>3, FailConsistent DEF StatusUpdated
<1>4. CASE m.status = "running" /\ status = "success"
  <2>1. \A s \in StageNames : m.stage[s] \in {"absent", "success"}
    BY <1>4 DEF Incomplete
  <2>2. StatusUpdated(m, status) = [m EXCEPT !.status = "success", !.current = NoStage]
    BY <1>4 DEF StatusUpdated
  <2> QED
    BY <1>1, <2>1, <2>2 DEF Consistent, Manifests
<1> QED
  BY <1>1, <1>2, <1>3, <1>4 DEF Manifests

\* Binding a closed-loop identity touches nothing else.
LEMMA BoundConsistent ==
    ASSUME NEW m, Consistent(m), NEW k \in LoopKeys, NEW id \in LoopIds
    PROVE  Consistent(Bound(m, k, id))
BY DEF Bound, Consistent, Manifests

-----------------------------------------------------------------------------

\* The invariant of the variable, in terms of the manifest it holds.
LEMMA InvIsConsistent == ManifestInv <=> (manifest # NoRun => Consistent(manifest))
BY NoRunAssumption
DEF ManifestInv, TypeOK, SuccessIsComplete, OneStageInProgress, Exists, Consistent

\* A call leaves a consistent manifest.
LEMMA CallConsistent ==
    ASSUME Consistent(manifest), Call PROVE Consistent(manifest')
BY StageStartedConsistent, StageEndedConsistent, FailureRecordedConsistent,
   StatusUpdatedConsistent, BoundConsistent
DEF Call, RecordStageStart, RecordStageEnd, RecordFailure, UpdateRunStatus,
    UpdateClosedLoopContext

\* Every reachable manifest is well typed, complete when successful, and has at
\* most one stage in progress.
THEOREM ManifestInvariant == Spec => []ManifestInv
<1>1. Init => ManifestInv
  BY InvIsConsistent DEF Init
<1>2. ManifestInv /\ [Next]_manifest => ManifestInv'
  <2> SUFFICES ASSUME ManifestInv, [Next]_manifest PROVE ManifestInv'
    OBVIOUS
  <2>1. manifest # NoRun => Consistent(manifest)
    BY InvIsConsistent
  <2>2. manifest' # NoRun => Consistent(manifest')
    <3>1. CASE CreateRun
      BY <3>1, NewRunConsistent DEF CreateRun
    <3>2. CASE manifest # NoRun /\ Call
      BY <2>1, <3>2, CallConsistent
    <3>3. CASE UNCHANGED manifest
      BY <2>1, <3>3
    <3> QED
      BY <3>1, <3>2, <3>3 DEF Next
  <2> QED
    BY <2>2, NoRunAssumption
    DEF ManifestInv, TypeOK, SuccessIsComplete, OneStageInProgress, Exists, Consistent
<1> QED
  BY <1>1, <1>2, PTL DEF Spec

\* A run is successful only when every stage in its list succeeded, for any
\* order of calls.
THEOREM ManifestSuccessIsComplete == Spec => []SuccessIsComplete
<1>1. ManifestInv => SuccessIsComplete
  BY DEF ManifestInv
<1> QED
  BY <1>1, ManifestInvariant, PTL

\* The manifest keeps its type through any order of calls.
THEOREM ManifestTypeCorrect == Spec => []TypeOK
<1>1. ManifestInv => TypeOK
  BY DEF ManifestInv
<1> QED
  BY <1>1, ManifestInvariant, PTL

\* A running run has at most one stage in progress, the one it calls current.
THEOREM ManifestOneStageInProgress == Spec => []OneStageInProgress
<1>1. ManifestInv => OneStageInProgress
  BY DEF ManifestInv
<1> QED
  BY <1>1, ManifestInvariant, PTL

\* No call changes the manifest of a run that is over.
THEOREM ManifestTerminalIsFrozen == Spec => TerminalRunIsFrozen
<1>1. ManifestInv /\ [Next]_manifest
        => [Exists /\ manifest.status \in TerminalStatuses => manifest' = manifest]_manifest
  <2> SUFFICES ASSUME ManifestInv, Next, Exists, manifest.status \in TerminalStatuses
               PROVE  manifest' = manifest
    OBVIOUS
  <2> USE DEF Exists, TerminalStatuses
  <2>1. manifest \in Manifests /\ manifest.status # "running"
    BY DEF ManifestInv, TypeOK
  <2>2. Call
    BY DEF Next, CreateRun
  <2>3. CASE \E named \in StageNames \cup {NoStage} : RecordFailure(named)
    BY <2>1, <2>3 DEF RecordFailure, MayRecordFailure, FailureRecorded
  <2>4. CASE \E status \in {"running", "success", "failed"} : UpdateRunStatus(status)
    BY <2>1, <2>4 DEF UpdateRunStatus, StatusUpdated
  <2> QED
    BY <2>1, <2>2, <2>3, <2>4
    DEF Call, RecordStageStart, RecordStageEnd, UpdateClosedLoopContext,
        MayStart, MayEnd, MayBind, IsOpen
<1> QED
  BY <1>1, ManifestInvariant, PTL DEF Spec, TerminalRunIsFrozen
-----------------------------------------------------------------------------
(* Stages end once, identities are bound once *)

\* What ProgressOnly allows one call to turn m into.
Progresses(m, n) ==
    /\ \A s \in StageNames :
          /\ m.stage[s] = "failed" => n.stage[s] = "failed"
          /\ m.stage[s] = "success" => n.stage[s] \in {"success", "failed"}
    /\ \A k \in LoopKeys : m.loop[k] # Unbound => n.loop[k] = m.loop[k]

\* Failing a run fails the stage in progress and no other.
LEMMA FailProgresses == ASSUME NEW m \in Manifests PROVE Progresses(m, Fail(m))
BY DEF Fail, Progresses, Manifests

\* record_failure fails the stage it is told of as well, whatever its status was.
LEMMA FailStageProgresses ==
    ASSUME NEW m \in Manifests, NEW s \in StageNames
    PROVE  Progresses(m, Fail([m EXCEPT !.stage[s] = "failed", !.current = s]))
<1>1. PICK n : n = [m EXCEPT !.stage[s] = "failed", !.current = s]
  OBVIOUS
<1>2. n \in Manifests
  BY <1>1 DEF Manifests, StageStatuses
<1>3. /\ n.loop = m.loop
      /\ \A t \in StageNames : n.stage[t] = IF t = s THEN "failed" ELSE m.stage[t]
  BY <1>1 DEF Manifests
<1>4. Progresses(m, n)
  BY <1>3 DEF Progresses
<1>5. Progresses(n, Fail(n))
  BY <1>2, FailProgresses
<1>6. Progresses(m, Fail(n))
  BY <1>4, <1>5 DEF Progresses
<1> QED
  BY <1>1, <1>6

\* A call on a run that exists never restarts a stage or rebinds an identity.
LEMMA CallProgresses ==
    ASSUME manifest \in Manifests, Call PROVE Progresses(manifest, manifest')
<1> USE DEF Manifests, Progresses
<1>1. ASSUME NEW s \in StageNames, RecordStageStart(s) PROVE Progresses(manifest, manifest')
  BY <1>1 DEF RecordStageStart, MayStart, StageStarted
<1>2. ASSUME NEW s \in StageNames, NEW outcome \in TerminalStatuses, RecordStageEnd(s, outcome)
      PROVE  Progresses(manifest, manifest')
  BY <1>2, FailProgresses DEF RecordStageEnd, MayEnd, StageEnded, TerminalStatuses
<1>3. ASSUME NEW named \in StageNames \cup {NoStage}, RecordFailure(named)
      PROVE  Progresses(manifest, manifest')
  <2>1. PICK x : x = IF named # NoStage THEN named ELSE manifest.current
    OBVIOUS
  <2>2. CASE manifest.status = "failed" \/ x = NoStage
    BY <1>3, <2>1, <2>2, FailProgresses DEF RecordFailure, FailureRecorded
  <2>3. CASE manifest.status # "failed" /\ x # NoStage
    <3>1. x \in StageNames
      BY <2>1, <2>3
    <3>2. manifest' = Fail([manifest EXCEPT !.stage[x] = "failed", !.current = x])
      BY <1>3, <2>1, <2>3 DEF RecordFailure, FailureRecorded
    <3>3. Progresses(manifest, Fail([manifest EXCEPT !.stage[x] = "failed", !.current = x]))
      BY ONLY <3>1, manifest \in Manifests, FailStageProgresses
    <3> QED
      BY ONLY <3>2, <3>3
  <2> QED
    BY <2>2, <2>3
<1>4. ASSUME NEW status \in {"running", "success", "failed"}, UpdateRunStatus(status)
      PROVE  Progresses(manifest, manifest')
  BY <1>4, FailProgresses DEF UpdateRunStatus, StatusUpdated
<1>5. ASSUME NEW k \in LoopKeys, NEW id \in LoopIds, UpdateClosedLoopContext(k, id)
      PROVE  Progresses(manifest, manifest')
  BY <1>5 DEF UpdateClosedLoopContext, MayBind, Bound
<1> QED
  BY <1>1, <1>2, <1>3, <1>4, <1>5 DEF Call

\* A stage that ended stays ended and an identity stays bound, for any order of
\* calls and however many of them raise.
THEOREM ManifestProgressOnly == Spec => ProgressOnly
<1>1. ManifestInv /\ [Next]_manifest
        => [Exists =>
              /\ \A s \in StageNames :
                    /\ manifest.stage[s] = "failed" => manifest'.stage[s] = "failed"
                    /\ manifest.stage[s] = "success"
                          => manifest'.stage[s] \in {"success", "failed"}
              /\ \A k \in LoopKeys :
                    manifest.loop[k] # Unbound => manifest'.loop[k] = manifest.loop[k]]_manifest
  <2> SUFFICES ASSUME ManifestInv, Next, Exists PROVE Progresses(manifest, manifest')
    BY DEF Progresses
  <2>1. manifest \in Manifests /\ Call
    BY DEF ManifestInv, TypeOK, Exists, Next, CreateRun
  <2> QED
    BY <2>1, CallProgresses
<1> QED
  BY <1>1, ManifestInvariant, PTL DEF Spec, ProgressOnly
=============================================================================
