------------------------------- MODULE RunManifest -------------------------------
(***************************************************************************)
(* One run manifest and a caller that uses the API of                      *)
(* orchestration/run_manifest.py in any order, wrong orders included: a    *)
(* call that raises changes nothing.  What holds here holds for every      *)
(* caller, not only for the pipelines this repository has.                 *)
(***************************************************************************)
EXTENDS RunManifestOps

CONSTANT NoRun    \* the run has not been created

ASSUME NoRunAssumption == NoRun \notin Manifests

VARIABLE manifest

TypeOK == manifest \in Manifests \cup {NoRun}

Init == manifest = NoRun

CreateRun ==
    /\ manifest = NoRun
    /\ \E declared \in SUBSET StageNames : manifest' = NewRun(declared)

RecordStageStart(s) ==
    /\ MayStart(manifest, s)
    /\ manifest' = StageStarted(manifest, s)

RecordStageEnd(s, outcome) ==
    /\ MayEnd(manifest, s, outcome)
    /\ manifest' = StageEnded(manifest, s, outcome)

RecordFailure(named) ==
    /\ MayRecordFailure(manifest)
    /\ manifest' = FailureRecorded(manifest, named)

UpdateRunStatus(status) ==
    /\ MayUpdateStatus(manifest, status)
    /\ manifest' = StatusUpdated(manifest, status)

UpdateClosedLoopContext(k, id) ==
    /\ MayBind(manifest, k, id)
    /\ manifest' = Bound(manifest, k, id)

\* One API call on a run that exists.
Call ==
    \/ \E s \in StageNames : RecordStageStart(s)
    \/ \E s \in StageNames, outcome \in TerminalStatuses : RecordStageEnd(s, outcome)
    \/ \E named \in StageNames \cup {NoStage} : RecordFailure(named)
    \/ \E status \in {"running", "success", "failed"} : UpdateRunStatus(status)
    \/ \E k \in LoopKeys, id \in LoopIds : UpdateClosedLoopContext(k, id)

Next == CreateRun \/ (manifest # NoRun /\ Call)

Spec == Init /\ [][Next]_manifest

-----------------------------------------------------------------------------
(* Properties *)

Exists == manifest # NoRun

\* docs/production_run_manifest.md: a run "can become success only after every
\* declared stage succeeds" - whatever the caller did before and tries after.
SuccessIsComplete ==
    Exists /\ manifest.status = "success"
        => \A s \in StageNames : manifest.stage[s] \in {"absent", "success"}

\* A running run never has two stages in progress, and the one in progress is
\* the one it calls current.
OneStageInProgress ==
    Exists /\ manifest.status = "running"
        => \A s \in StageNames : manifest.stage[s] = "running" <=> manifest.current = s

\* A run that is over is never written again: no later call relabels a failure
\* as a success or moves a stage of a published run.
TerminalRunIsFrozen ==
    [][Exists /\ manifest.status \in TerminalStatuses => manifest' = manifest]_manifest

\* A stage that has ended never runs again under the same run id, and a
\* closed-loop identity, once recorded, is the run's for good.
ProgressOnly ==
    [][Exists =>
          /\ \A s \in StageNames :
                /\ manifest.stage[s] = "failed" => manifest'.stage[s] = "failed"
                /\ manifest.stage[s] = "success"
                      => manifest'.stage[s] \in {"success", "failed"}
          /\ \A k \in LoopKeys :
                manifest.loop[k] # Unbound => manifest'.loop[k] = manifest.loop[k]]_manifest
=============================================================================
