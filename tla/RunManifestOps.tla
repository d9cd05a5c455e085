------------------------------ MODULE RunManifestOps ------------------------------
(***************************************************************************)
(* orchestration/run_manifest.py: what one call of the manifest API does   *)
(* to runs/YYYYMMDD/<run_id>/manifest.json.  A manifest is the record of   *)
(* the run's status, the stage it calls current, the status of each stage  *)
(* ("absent" is a stage that is not in the list) and the closed-loop       *)
(* identities bound so far.  Each operation is a guard (the call does not  *)
(* raise) and the manifest atomic_write_json leaves behind; a call that    *)
(* raises, and one that returns early, leave the file as it was.  Times,   *)
(* messages, provenance and output lists are left out.                     *)
(***************************************************************************)

CONSTANTS StageNames,   \* every stage name a run may carry
          NoStage,      \* current_stage is null
          LoopKeys,     \* shadow_run_id, monitor_run_id, ...
          LoopIds,      \* the identities components report
          Unbound       \* a closed-loop identity that is still null

ASSUME ManifestAssumption ==
    /\ NoStage \notin StageNames
    /\ Unbound \notin LoopIds

StageStatuses == {"absent", "pending", "running", "success", "failed"}
TerminalStatuses == {"success", "failed"}

Manifests ==
    [status : {"running", "success", "failed"},
     current : StageNames \cup {NoStage},
     stage : [StageNames -> StageStatuses],
     loop : [LoopKeys -> LoopIds \cup {Unbound}]]

\* Mutant of NewRun: a new run waits for its first stage as "pending".
PendingNewRun(declared) ==
    [status |-> "pending",
     current |-> NoStage,
     stage |-> [s \in StageNames |-> IF s \in declared THEN "pending" ELSE "absent"],
     loop |-> [k \in LoopKeys |-> Unbound]]

\* create_run: a running manifest with the declared stages pending.
NewRun(declared) ==
    [status |-> "running",
     current |-> NoStage,
     stage |-> [s \in StageNames |-> IF s \in declared THEN "pending" ELSE "absent"],
     loop |-> [k \in LoopKeys |-> Unbound]]

\* _read_running_manifest: most operations refuse a terminal run.
IsOpen(m) == m.status = "running"

\* _fail_manifest: the run fails, and with it its current stage if running.
Fail(m) ==
    [m EXCEPT !.status = "failed",
              !.stage = [s \in StageNames |->
                           IF s = m.current /\ m.stage[s] = "running"
                           THEN "failed" ELSE m.stage[s]]]

\* Mutants of MayStart: another stage may be in progress; an ended stage reruns.
MayStartBeside(m, s) == IsOpen(m) /\ m.stage[s] \in {"absent", "pending", "running"}
MayRestart(m, s) == IsOpen(m) /\ m.current \in {NoStage, s}

\* record_stage_start: an undeclared stage is appended as pending first.
MayStart(m, s) ==
    /\ IsOpen(m)
    /\ m.current \in {NoStage, s}
    /\ m.stage[s] \in {"absent", "pending", "running"}
StageStarted(m, s) ==
    IF m.stage[s] = "running" THEN m
    ELSE [m EXCEPT !.stage[s] = "running", !.current = s]

\* record_stage_end(status = "success")
MayEnd(m, s, outcome) ==
    /\ IsOpen(m)
    /\ m.stage[s] # "absent"
    /\ m.stage[s] = outcome \/ (m.stage[s] = "running" /\ m.current = s)
StageEnded(m, s, outcome) ==
    CASE m.stage[s] = outcome -> m
      [] m.stage[s] # outcome /\ outcome = "failed" -> Fail(m)
      [] OTHER -> [m EXCEPT !.stage[s] = "success", !.current = NoStage]

\* Mutant of MayRecordFailure: a late failure may relabel a successful run.
MayRelabelSuccess(m) == TRUE

\* record_failure: a failed run stays as it is, a successful one refuses; the
\* named stage, or else the current one, fails whatever its status was.
MayRecordFailure(m) == m.status # "success"
FailureRecorded(m, named) ==
    LET selected == IF named # NoStage THEN named ELSE m.current
    IN  CASE m.status = "failed" -> m
          [] m.status # "failed" /\ selected = NoStage -> Fail(m)
          [] OTHER -> Fail([m EXCEPT !.stage[selected] = "failed",
                                     !.current = selected])

\* Mutant of Incomplete: a stage that is still running is overlooked.
NotStarted(m) == {s \in StageNames : m.stage[s] = "pending"}

\* update_run_status: terminal runs only accept their own status again.
Incomplete(m) == {s \in StageNames : m.stage[s] \notin {"absent", "success"}}
MayUpdateStatus(m, status) ==
    IF m.status \in TerminalStatuses THEN m.status = status
    ELSE status = "success" => Incomplete(m) = {}
StatusUpdated(m, status) ==
    CASE m.status \in TerminalStatuses \/ status = "running" -> m
      [] m.status = "running" /\ status = "failed" -> Fail(m)
      [] OTHER -> [m EXCEPT !.status = "success", !.current = NoStage]

\* update_closed_loop_context: an identity already bound cannot be rebound.
MayBind(m, k, id) == IsOpen(m) /\ m.loop[k] \in {Unbound, id}
Bound(m, k, id) == [m EXCEPT !.loop[k] = id]
=============================================================================
