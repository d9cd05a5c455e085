---------------------------- MODULE ProductionPipeline ----------------------------
(***************************************************************************)
(* One trading date of production: orchestration/scheduler.py (automatic,  *)
(* explicit and dry invocations, and the full-data update),                *)
(* orchestration/production.py and daily.py (the stages of a run),         *)
(* run_manifest.py (through RunManifestOps) and publication.py.            *)
(*                                                                         *)
(* Invocations are processes that share files and one production lock, here *)
(* its abstraction: ProductionLock implements MutexLock, and an invocation *)
(* that finds the lock taken fails at once.  Every write another process   *)
(* can see is a step of its own, and a process may be killed, or a write   *)
(* of a manifest or an audit record may raise, between any two steps.      *)
(***************************************************************************)
EXTENDS RunManifestOps, Naturals, Sequences

CONSTANTS Invocations,    \* scheduler or CLI processes
          Triggers,       \* the kinds of invocation that timers and operators start
          MaxAttempts,    \* production.scheduler.max_pipeline_attempts
          DailyStages,    \* the data, universe and feature stages, in order
          ReportStages,   \* the stages that write the date's report artifacts
          SoftStages,     \* the optional closed-loop stages, in order
          Nobody,         \* the lock is free
          NoRun           \* no run: an absent file or an absent manifest

Kinds == {"automatic", "explicit", "dry", "full"}

\* The stages a run of each kind declares; paper trading is configured.
Elements(seq) == {seq[n] : n \in DOMAIN seq}
ProductionPlan ==
    DailyStages \o ReportStages
      \o <<"paper_trading_daily", "publish_production_summary">>
      \o SoftStages
      \o (IF SoftStages = <<>> THEN <<>> ELSE <<"publish_closed_loop_manifest">>)
PlanOf(k) ==
    CASE k = "dry" -> <<"dry_run_validation", "manifest_planning">>
      [] k = "full" -> <<"data_update", "data_validate">>
      [] OTHER -> ProductionPlan

\* The stages that the pipeline treats apart, by name.
NamedStages == {"paper_trading_daily", "publish_production_summary",
                "publish_closed_loop_manifest"}

ASSUME PipelineAssumption ==
    /\ Triggers \subseteq Kinds
    /\ MaxAttempts \in 1..3
    /\ Nobody \notin Invocations
    /\ NoRun \notin Invocations \X (1..MaxAttempts)
    /\ NoRun \notin Manifests

ASSUME StageAssumption ==
    /\ \A k \in Kinds : Elements(PlanOf(k)) \subseteq StageNames
    /\ \A stages \in {DailyStages, ReportStages, SoftStages} :
          stages \in Seq(StageNames) /\ Elements(stages) \cap NamedStages = {}
    /\ Elements(ReportStages) \cap Elements(SoftStages) = {}

Runs == Invocations \X (1..MaxAttempts)

VARIABLES kind,      \* what triggered each invocation
          holder,    \* the invocation inside the production lock, or Nobody
          status,    \* the status in each invocation's audit record
          reason,    \* its skipped_reason
          attempt,   \* pipeline runs the invocation has begun
          pc,        \* where each invocation is
          next,      \* index in the plan of the stage it is at
          outcome,   \* the pipeline result: none, success, failed
          seen,      \* the summary's run id the check of an automatic invocation has read
          man,       \* run manifests
          artifact,  \* the run that last wrote each report artifact
          pending,   \* runs whose .production_summary.<run>.pending.json exists
          summary,   \* the run production_summary.json names
          loop       \* the run closed_loop_manifest.json projects

fileVars == <<man, artifact, pending, summary, loop>>
vars == <<kind, holder, status, reason, attempt, pc, next, outcome, seen, fileVars>>

\* The run an invocation is executing and the stage it is at.
RunOf(i) == <<i, attempt[i]>>
Plan(i) == PlanOf(kind[i])
StageOf(i) == Plan(i)[next[i]]
IsProduction(i) == kind[i] \in {"automatic", "explicit"}
IsSoft(i) == StageOf(i) \in Elements(SoftStages)

\* The places where an invocation is inside production_lock().
Inside == {"create", "resolve", "stage", "work", "paper", "raised", "worked",
           "commit", "release"}

\* validate_production_publication: existence and linkage, never contents.
ArtifactsPresent == \A a \in Elements(ReportStages) : artifact[a] # NoRun
ValidPublication(run, mustSucceed) ==
    /\ run # NoRun
    /\ man[run] # NoRun
    /\ mustSucceed => man[run].status = "success"
    /\ ArtifactsPresent

Init ==
    /\ kind = [i \in Invocations |-> "none"]
    /\ holder = Nobody
    /\ status = [i \in Invocations |-> "none"]
    /\ reason = [i \in Invocations |-> "none"]
    /\ attempt = [i \in Invocations |-> 0]
    /\ pc = [i \in Invocations |-> "idle"]
    /\ next = [i \in Invocations |-> 1]
    /\ outcome = [i \in Invocations |-> "none"]
    /\ seen = [i \in Invocations |-> NoRun]
    /\ man = [r \in Runs |-> NoRun]
    /\ artifact = [a \in Elements(ReportStages) |-> NoRun]
    /\ pending = {}
    /\ summary = NoRun
    /\ loop = NoRun

\* SchedulerInvocation.finish: the audit record becomes terminal, the process exits.
Finish(i, result, why) ==
    /\ status' = [status EXCEPT ![i] = result]
    /\ reason' = [reason EXCEPT ![i] = why]
    /\ pc' = [pc EXCEPT ![i] = "done"]

Goto(i, place) == pc' = [pc EXCEPT ![i] = place]

-----------------------------------------------------------------------------
(* ProductionScheduler.run and FullDataUpdateScheduler.run, before the lock *)

\* SchedulerInvocation.__init__: the audit record says running.
Trigger(i) ==
    /\ pc[i] = "idle"
    /\ \E k \in Triggers :
          /\ kind' = [kind EXCEPT ![i] = k]
          /\ Goto(i, IF k = "automatic" THEN "deciding" ELSE "ready")
    /\ status' = [status EXCEPT ![i] = "running"]
    /\ UNCHANGED <<holder, reason, attempt, next, outcome, seen, fileVars>>

\* resolve_automatic_production_date: disabled, closed, not ready, bad calendar.
NotToday(i) ==
    /\ pc[i] = "deciding"
    /\ \/ Finish(i, "skipped", "not_ready")
       \/ Finish(i, "failed", "bad_calendar")
    /\ UNCHANGED <<kind, holder, attempt, next, outcome, seen, fileVars>>

\* _has_valid_existing_publication, first file: no lock is held here.
ReadSummary(i) ==
    /\ pc[i] = "deciding"
    /\ seen' = [seen EXCEPT ![i] = summary]
    /\ Goto(i, "checking")
    /\ UNCHANGED <<kind, holder, status, reason, attempt, next, outcome, fileVars>>

\* Mutant of SkipSuccessful: the successful-run requirement is not passed on.
SkipAnyPublication(i) ==
    /\ pc[i] = "checking"
    /\ ValidPublication(seen[i], FALSE)
    /\ Finish(i, "skipped", "already_successful")
    /\ seen' = [seen EXCEPT ![i] = NoRun]
    /\ UNCHANGED <<kind, holder, attempt, next, outcome, fileVars>>

\* ... and then the manifest of the run it names, and the artifacts.
SkipSuccessful(i) ==
    /\ pc[i] = "checking"
    /\ ValidPublication(seen[i], TRUE)
    /\ Finish(i, "skipped", "already_successful")
    /\ seen' = [seen EXCEPT ![i] = NoRun]
    /\ UNCHANGED <<kind, holder, attempt, next, outcome, fileVars>>

NothingPublished(i) ==
    /\ pc[i] = "checking"
    /\ ~ValidPublication(seen[i], TRUE)
    /\ Goto(i, "ready")
    /\ seen' = [seen EXCEPT ![i] = NoRun]
    /\ UNCHANGED <<kind, holder, status, reason, attempt, next, outcome, fileVars>>

-----------------------------------------------------------------------------
(* ProductionPipeline.run *)

\* Mutant of AcquireLock: the run starts without waiting its turn.
AcquireWithoutLock(i) ==
    /\ pc[i] = "ready"
    /\ holder' = i
    /\ attempt' = [attempt EXCEPT ![i] = @ + 1]
    /\ next' = [next EXCEPT ![i] = 1]
    /\ outcome' = [outcome EXCEPT ![i] = "none"]
    /\ Goto(i, "create")
    /\ UNCHANGED <<kind, status, reason, seen, fileVars>>

\* production_lock() is entered; an error of the lock is not retried.
AcquireLock(i) ==
    /\ pc[i] = "ready"
    /\ holder = Nobody
    /\ holder' = i
    /\ attempt' = [attempt EXCEPT ![i] = @ + 1]
    /\ next' = [next EXCEPT ![i] = 1]
    /\ outcome' = [outcome EXCEPT ![i] = "none"]
    /\ Goto(i, "create")
    /\ UNCHANGED <<kind, status, reason, seen, fileVars>>

\* An invocation is refused because another is inside, a probe has the file for a
\* moment, or the lock file cannot be opened or written.  For the full update also:
\* it finds no completed session.
LockRefused(i) ==
    /\ pc[i] = "ready"
    /\ Finish(i, "failed", "none")
    /\ UNCHANGED <<kind, holder, attempt, next, outcome, seen, fileVars>>

CreateRun(i) ==
    /\ pc[i] = "create"
    /\ man' = [man EXCEPT ![RunOf(i)] = NewRun(Elements(Plan(i)))]
    /\ Goto(i, "resolve")
    /\ UNCHANGED <<kind, holder, status, reason, attempt, next, outcome, seen,
                   artifact, pending, summary, loop>>

\* record_failure and return a failed result.
FailRun(i, stage) ==
    /\ man' = [man EXCEPT ![RunOf(i)] = FailureRecorded(@, stage)]
    /\ outcome' = [outcome EXCEPT ![i] = "failed"]
    /\ Goto(i, "release")

\* as_of_resolver rejects the session (a full update has resolved it already).
ResolveFails(i) ==
    /\ pc[i] = "resolve"
    /\ kind[i] # "full"
    /\ FailRun(i, NoStage)
    /\ UNCHANGED <<kind, holder, status, reason, attempt, next, seen,
                   artifact, pending, summary, loop>>

ResolveAsOf(i) ==
    /\ pc[i] = "resolve"
    /\ Goto(i, "stage")
    /\ UNCHANGED <<kind, holder, status, reason, attempt, next, outcome, seen, fileVars>>

StageStart(i) ==
    /\ pc[i] = "stage"
    /\ next[i] <= Len(Plan(i))
    /\ MayStart(man[RunOf(i)], StageOf(i))
    /\ man' = [man EXCEPT ![RunOf(i)] = StageStarted(@, StageOf(i))]
    /\ Goto(i, "work")
    /\ UNCHANGED <<kind, holder, status, reason, attempt, next, outcome, seen,
                   artifact, pending, summary, loop>>

\* Mutant of StageWork: the pending summary is copied into place, not moved.
CopyingStageWork(i) ==
    /\ pc[i] = "work"
    /\ StageOf(i) # "paper_trading_daily"
    /\ artifact' = IF StageOf(i) \in Elements(ReportStages)
                   THEN [artifact EXCEPT ![StageOf(i)] = RunOf(i)] ELSE artifact
    /\ summary' = IF StageOf(i) = "publish_production_summary" THEN RunOf(i) ELSE summary
    /\ loop' = IF StageOf(i) = "publish_closed_loop_manifest" THEN RunOf(i) ELSE loop
    /\ Goto(i, "worked")
    /\ UNCHANGED <<kind, holder, status, reason, attempt, next, outcome, seen, man, pending>>

\* What each stage writes when its operation succeeds.
StageWork(i) ==
    /\ pc[i] = "work"
    /\ StageOf(i) # "paper_trading_daily"
    /\ artifact' = IF StageOf(i) \in Elements(ReportStages)
                   THEN [artifact EXCEPT ![StageOf(i)] = RunOf(i)] ELSE artifact
    /\ IF StageOf(i) = "publish_production_summary"
       THEN RunOf(i) \in pending /\ summary' = RunOf(i) /\ pending' = pending \ {RunOf(i)}
       ELSE UNCHANGED <<summary, pending>>
    /\ loop' = IF StageOf(i) = "publish_closed_loop_manifest" THEN RunOf(i) ELSE loop
    /\ Goto(i, "worked")
    /\ UNCHANGED <<kind, holder, status, reason, attempt, next, outcome, seen, man>>

\* _paper_trading writes the pending summary before it runs the portfolios ...
PaperPending(i) ==
    /\ pc[i] = "work"
    /\ StageOf(i) = "paper_trading_daily"
    /\ pending' = pending \cup {RunOf(i)}
    /\ Goto(i, "paper")
    /\ UNCHANGED <<kind, holder, status, reason, attempt, next, outcome, seen,
                   man, artifact, summary, loop>>

PaperTraded(i) ==
    /\ pc[i] = "paper"
    /\ Goto(i, "worked")
    /\ UNCHANGED <<kind, holder, status, reason, attempt, next, outcome, seen, fileVars>>

\* Mutant of PaperFails: the failure is returned but not recorded.
PaperFailsSilently(i) ==
    /\ pc[i] = "paper"
    /\ pending' \in {pending, pending \ {RunOf(i)}}
    /\ outcome' = [outcome EXCEPT ![i] = "failed"]
    /\ Goto(i, "release")
    /\ UNCHANGED <<kind, holder, status, reason, attempt, next, seen, man, artifact, summary, loop>>

\* ... and unlinks it when they fail, if it can; the stage then fails.
PaperFails(i) ==
    /\ pc[i] = "paper"
    /\ pending' \in {pending, pending \ {RunOf(i)}}
    /\ Goto(i, "raised")
    /\ UNCHANGED <<kind, holder, status, reason, attempt, next, outcome, seen,
                   man, artifact, summary, loop>>

\* A hard stage fails: its operation, a missing artifact or a manifest write.
\* The full update records only data_validate errors this way.
StageFails(i) ==
    /\ pc[i] \in {"work", "raised", "worked"}
    /\ ~IsSoft(i)
    /\ kind[i] = "full" => StageOf(i) = "data_validate" /\ pc[i] = "work"
    /\ FailRun(i, StageOf(i))
    /\ UNCHANGED <<kind, holder, status, reason, attempt, next, seen,
                   artifact, pending, summary, loop>>

\* A soft stage's exception becomes a warning; the stage counts as a success.
SoftStageFails(i) ==
    /\ pc[i] = "work"
    /\ IsSoft(i)
    /\ Goto(i, "worked")
    /\ UNCHANGED <<kind, holder, status, reason, attempt, next, outcome, seen, fileVars>>

StageEnd(i) ==
    /\ pc[i] = "worked"
    /\ MayEnd(man[RunOf(i)], StageOf(i), "success")
    /\ man' = [man EXCEPT ![RunOf(i)] = StageEnded(@, StageOf(i), "success")]
    /\ next' = [next EXCEPT ![i] = @ + 1]
    /\ Goto(i, "stage")
    /\ UNCHANGED <<kind, holder, status, reason, attempt, outcome, seen,
                   artifact, pending, summary, loop>>

\* validate_production_publication(require_successful_run=False)
Validate(i) ==
    /\ pc[i] = "stage"
    /\ next[i] > Len(Plan(i))
    /\ IsProduction(i) => summary = RunOf(i) /\ ValidPublication(summary, FALSE)
    /\ Goto(i, "commit")
    /\ UNCHANGED <<kind, holder, status, reason, attempt, next, outcome, seen, fileVars>>

ValidationFails(i) ==
    /\ pc[i] = "stage"
    /\ next[i] > Len(Plan(i))
    /\ IsProduction(i)
    /\ ~(summary = RunOf(i) /\ ValidPublication(summary, FALSE))
    /\ FailRun(i, "publish_production_summary")
    /\ UNCHANGED <<kind, holder, status, reason, attempt, next, seen,
                   artifact, pending, summary, loop>>

\* Mutant of CommitSuccess: the result says success, the manifest is not written.
UnwrittenSuccess(i) ==
    /\ pc[i] = "commit"
    /\ MayUpdateStatus(man[RunOf(i)], "success")
    /\ outcome' = [outcome EXCEPT ![i] = "success"]
    /\ Goto(i, "release")
    /\ UNCHANGED <<kind, holder, status, reason, attempt, next, seen, fileVars>>

\* update_run_status(run, "success"): the commit point of the run.
CommitSuccess(i) ==
    /\ pc[i] = "commit"
    /\ MayUpdateStatus(man[RunOf(i)], "success")
    /\ man' = [man EXCEPT ![RunOf(i)] = StatusUpdated(@, "success")]
    /\ outcome' = [outcome EXCEPT ![i] = "success"]
    /\ Goto(i, "release")
    /\ UNCHANGED <<kind, holder, status, reason, attempt, next, seen,
                   artifact, pending, summary, loop>>

ReleaseLock(i) ==
    /\ pc[i] = "release"
    /\ holder' = Nobody
    /\ Goto(i, "report")
    /\ UNCHANGED <<kind, status, reason, attempt, next, outcome, seen, fileVars>>

\* An exception that no handler of the pipeline catches.  Only the operation of a soft
\* stage cannot raise one: create_run, record_stage_start of any stage, what follows a
\* soft stage and the final status are outside every try, a handler's record_failure
\* and the release may raise themselves, and so may anything in the full update, its
\* audit record included.  The lock is released on the way.
Escape(i) ==
    /\ \/ pc[i] \in Inside /\ (pc[i] = "work" => ~IsSoft(i))
       \/ pc[i] = "report" /\ kind[i] = "full"
    /\ holder' = IF holder = i THEN Nobody ELSE holder
    /\ Goto(i, IF kind[i] = "full" THEN "escaped" ELSE "closing")
    /\ UNCHANGED <<kind, status, reason, attempt, next, outcome, seen, fileVars>>

-----------------------------------------------------------------------------
(* ProductionScheduler.run and FullDataUpdateScheduler.run, after the lock *)

\* The scheduler's own handler.  The production scheduler leaves the run alone; the full
\* update records its failure, without the lock by now, and swallows the refusal of a
\* run that had already succeeded ...
Escaped(i) ==
    /\ pc[i] = "escaped"
    /\ man' = IF man[RunOf(i)] # NoRun /\ MayRecordFailure(man[RunOf(i)])
              THEN [man EXCEPT ![RunOf(i)] = FailureRecorded(@, NoStage)]
              ELSE man
    /\ Goto(i, "closing")
    /\ UNCHANGED <<kind, holder, status, reason, attempt, next, outcome, seen,
                   artifact, pending, summary, loop>>

\* ... and then closes the audit record.
CloseEscaped(i) ==
    /\ pc[i] = "closing"
    /\ Finish(i, "failed", "none")
    /\ UNCHANGED <<kind, holder, attempt, next, outcome, seen, fileVars>>

\* Mutant of Retry: the attempt counter is compared one too late.
RetryOnceMore(i) ==
    /\ pc[i] = "report"
    /\ kind[i] # "full"
    /\ outcome[i] = "failed"
    /\ attempt[i] <= MaxAttempts
    /\ Goto(i, "ready")
    /\ UNCHANGED <<kind, holder, status, reason, attempt, next, outcome, seen, fileVars>>

\* A failure whose message _is_transient_error recognises is retried after a pause,
\* under a new run and lock; which messages it recognises is left open.
Retry(i) ==
    /\ pc[i] = "report"
    /\ kind[i] # "full"
    /\ outcome[i] = "failed"
    /\ attempt[i] < MaxAttempts
    /\ Goto(i, "ready")
    /\ UNCHANGED <<kind, holder, status, reason, attempt, next, outcome, seen, fileVars>>

\* Mutant of ReportFailure: a failure of the last attempt returns nothing.
ReportEarlyFailure(i) ==
    /\ pc[i] = "report"
    /\ outcome[i] = "failed"
    /\ attempt[i] < MaxAttempts
    /\ Finish(i, "failed", "none")
    /\ UNCHANGED <<kind, holder, attempt, next, outcome, seen, fileVars>>

ReportFailure(i) ==
    /\ pc[i] = "report"
    /\ outcome[i] = "failed"
    /\ Finish(i, "failed", "none")
    /\ UNCHANGED <<kind, holder, attempt, next, outcome, seen, fileVars>>

\* Mutant of ReportSuccess: a publication that no longer validates fails the run.
RelabellingReportSuccess(i) ==
    /\ pc[i] = "report"
    /\ outcome[i] = "success"
    /\ LET confirmed == IsProduction(i)
                          => summary = RunOf(i) /\ ValidPublication(summary, TRUE)
       IN  /\ Finish(i, IF confirmed THEN "success" ELSE "failed", "none")
           /\ man' = IF confirmed THEN man ELSE [man EXCEPT ![RunOf(i)] = Fail(@)]
    /\ UNCHANGED <<kind, holder, attempt, next, outcome, seen, artifact, pending, summary, loop>>

\* A zero exit is believed only after the publication validates once more.
ReportSuccess(i) ==
    /\ pc[i] = "report"
    /\ outcome[i] = "success"
    /\ LET confirmed == IsProduction(i)
                          => summary = RunOf(i) /\ ValidPublication(summary, TRUE)
       IN  Finish(i, IF confirmed THEN "success" ELSE "failed", "none")
    /\ UNCHANGED <<kind, holder, attempt, next, outcome, seen, fileVars>>

-----------------------------------------------------------------------------
(* The environment *)

\* The process dies of an exception that leaves the scheduler too, its audit record
\* still running: resolve, add_attempt and finish are outside every handler, or in the
\* last one, in which record_failure may raise as well (it swallows a ValueError only).
Unreported(i) ==
    /\ \/ pc[i] \in {"deciding", "checking", "ready", "escaped", "closing"}
       \/ pc[i] = "report" /\ kind[i] # "full"
    /\ Goto(i, "dead")
    /\ UNCHANGED <<kind, holder, status, reason, attempt, next, outcome, seen, fileVars>>

\* The process is killed; the kernel releases its lock, its files stay.
Crash(i) ==
    /\ pc[i] \notin {"idle", "done", "dead"}
    /\ holder' = IF holder = i THEN Nobody ELSE holder
    /\ Goto(i, "dead")
    /\ UNCHANGED <<kind, status, reason, attempt, next, outcome, seen, fileVars>>

\* An operator removes a report file; nothing in the code does.
LoseArtifact(a) ==
    /\ artifact[a] # NoRun
    /\ artifact' = [artifact EXCEPT ![a] = NoRun]
    /\ UNCHANGED <<kind, holder, status, reason, attempt, pc, next, outcome, seen,
                   man, pending, summary, loop>>

\* What an invocation does by itself once triggered.
Proceed(i) ==
    \/ NotToday(i) \/ ReadSummary(i) \/ SkipSuccessful(i) \/ NothingPublished(i)
    \/ AcquireLock(i) \/ LockRefused(i) \/ CreateRun(i) \/ ResolveFails(i) \/ ResolveAsOf(i)
    \/ StageStart(i) \/ StageWork(i) \/ PaperPending(i) \/ PaperTraded(i) \/ PaperFails(i)
    \/ StageFails(i) \/ SoftStageFails(i) \/ StageEnd(i) \/ Validate(i)
    \/ ValidationFails(i) \/ CommitSuccess(i) \/ ReleaseLock(i)
    \/ Escaped(i) \/ CloseEscaped(i) \/ Retry(i) \/ ReportFailure(i) \/ ReportSuccess(i)

Next ==
    \/ \E i \in Invocations :
          Trigger(i) \/ Proceed(i) \/ Escape(i) \/ Unreported(i) \/ Crash(i)
    \/ \E a \in Elements(ReportStages) : LoseArtifact(a)

Spec == Init /\ [][Next]_vars

\* A process that is not killed keeps going; its operations terminate.  An error of
\* the file system never has to happen: Escape and Unreported are not fair.
FairSpec == Spec /\ \A i \in Invocations : WF_vars(Proceed(i))

-----------------------------------------------------------------------------
(* Properties *)

Places == {"idle", "deciding", "checking", "ready", "create", "resolve", "stage", "work",
           "paper", "raised", "worked", "commit", "release", "report", "escaped", "closing",
           "done", "dead"}

TypeOK ==
    /\ kind \in [Invocations -> Kinds \cup {"none"}]
    /\ holder \in Invocations \cup {Nobody}
    /\ status \in [Invocations -> {"none", "running", "success", "failed", "skipped"}]
    /\ reason \in [Invocations -> {"none", "not_ready", "bad_calendar", "already_successful"}]
    /\ attempt \in [Invocations -> 0..MaxAttempts]
    /\ pc \in [Invocations -> Places]
    /\ next \in [Invocations -> Nat]
    /\ outcome \in [Invocations -> {"none", "success", "failed"}]
    /\ seen \in [Invocations -> Runs \cup {NoRun}]
    /\ man \in [Runs -> Manifests \cup {NoRun}]
    /\ artifact \in [Elements(ReportStages) -> Runs \cup {NoRun}]
    /\ pending \subseteq Runs
    /\ summary \in Runs \cup {NoRun}
    /\ loop \in Runs \cup {NoRun}

\* Whoever is inside the pipeline has the lock.
InsideHoldsLock == \A i \in Invocations : pc[i] \in Inside => holder = i

\* A run that ended is never rewritten, neither by its own process nor by any
\* other invocation, retry or late handler.
TerminalRunsFrozen ==
    [][\A r \in Runs : man[r] # NoRun /\ man[r].status # "running" => man'[r] = man[r]]_vars

\* A production run is declared successful only over its own publication: the
\* summary names it, every report artifact still on disk was written by it, and
\* its closed-loop manifest is the projected one.  Two runs that overlapped
\* would mix their files under one summary.
SuccessOverOwnFiles ==
    [][\A i \in Invocations :
          CommitSuccess(i) /\ IsProduction(i)
            => /\ summary = RunOf(i)
               /\ \A a \in Elements(ReportStages) : artifact[a] \in {RunOf(i), NoRun}
               /\ SoftStages # <<>> => loop = RunOf(i)]_vars

\* docs/production_scheduler.md: "a completed date is a legal skip" - an
\* invocation skips as already successful only when some production run for the
\* date did succeed, although it looked without the lock and file by file.
SkipIsJustified ==
    \A i \in Invocations :
        reason[i] = "already_successful"
          => \E r \in Runs : /\ IsProduction(r[1])
                             /\ man[r] # NoRun
                             /\ man[r].status = "success"

\* An audit record that says success stands for a run that succeeded.
ReportedSuccessIsReal ==
    \A i \in Invocations :
        status[i] = "success" => man[RunOf(i)] # NoRun /\ man[RunOf(i)].status = "success"

\* A manifest that says running belongs to a live run inside the lock, to a
\* killed process, or to an exception that escaped the pipeline: no handled
\* failure leaves a run behind.
RunningIsAccountedFor ==
    \A i \in Invocations : \A n \in 1..MaxAttempts :
        man[<<i, n>>] # NoRun /\ man[<<i, n>>].status = "running"
          => /\ n = attempt[i]
             /\ \/ pc[i] \in Inside \cup {"dead", "escaped", "closing"}
                \/ pc[i] = "done" /\ outcome[i] = "none"

\* A pending summary is never left beside a publication of the same run, so a
\* leftover one always belongs to a run that did not publish.
PendingIsUnpublished ==
    \A r \in pending : summary # r /\ ~(man[r] # NoRun /\ man[r].status = "success")

\* Every invocation ends, through failures, retries, refusals and late handlers.  It
\* leaves its audit record running only by dying: it is killed, or an error that no
\* handler is left to catch stops it, one of writing the audit record itself or of
\* recording the failure in the last handler.
InvocationsFinish ==
    \A i \in Invocations : status[i] = "running" ~> (status[i] # "running" \/ pc[i] = "dead")

\* docs/production_scheduler.md: the production timer "does not repeat an
\* already valid publication".
NoRepeatedPublication ==
    [][\A i \in Invocations :
          CreateRun(i) /\ kind[i] = "automatic" => ~ValidPublication(summary, TRUE)]_vars

\* docs/production_run_manifest.md: "An exception should call record_failure().  A
\* process killed before its exception handler runs leaves running" - so a process that
\* ended by itself has not left its run in the middle of a soft stage.
OnlyKilledRunsStayRunning ==
    \A i \in Invocations :
        /\ pc[i] = "done"
        /\ attempt[i] > 0
        /\ man[RunOf(i)] # NoRun
        /\ man[RunOf(i)].current \in Elements(SoftStages)
        => man[RunOf(i)].status # "running"
=============================================================================
