-------------------------------- MODULE Qualification --------------------------------
(***************************************************************************)
(* retraining/qualification: a controlled run of the retraining stages     *)
(* that may never be promoted.  Its training and its shadow enrollment     *)
(* need an authorization each, a file that a reviewer issues, that may be  *)
(* revoked or expire, and that one attempt consumes: the claim is written  *)
(* before the attempt, a receipt after it.  Files and events are written   *)
(* one after the other, and an authorization whose files and events do not *)
(* match is invalid.                                                       *)
(*                                                                         *)
(* Qualifications keep their snapshots as lifecycles do, but under a lock  *)
(* of their own; only while a stage runs is the lifecycle lock held too.   *)
(* Policies, capabilities and source files are taken not to change: where  *)
(* they do, the command refuses and nothing is written.                    *)
(***************************************************************************)
EXTENDS RetrainingLifecycle

CONSTANTS Quals,
          QualRequest,   \* the request each qualification is about
          MaxAuths       \* bound: authorizations issued

VARIABLES auths,    \* the authorizations issued, and the files beside each
          qcall     \* the command that holds .retraining-qualification.lock, if any

qualificationVars == <<lifecycleVars, auths, qcall>>

Checking == {"PREFLIGHT_CHECKING", "DRY_RUN_CHECKING", "READINESS_CHECKING"}
Blocked == {"PREFLIGHT_BLOCKED", "DRY_RUN_BLOCKED", "READINESS_FAILED"}
Failed == {"TRAINING_FAILED", "VALIDATION_FAILED", "SHADOW_FAILED"}
Approvable == {"TRAINING_PENDING_APPROVAL", "SHADOW_PENDING_APPROVAL"}
Running == {"TRAINING", "VALIDATING", "SHADOW_ENROLLING", "OBSERVATION_CHECKING"}
Closed == {"FAILED", "CANCELLED"}

QualificationStates ==
    Checking \cup Blocked \cup Failed \cup Approvable \cup Running \cup Closed
    \cup {"CREATED", "PREFLIGHT_READY", "DRY_RUN_READY", "VALIDATION_PENDING_APPROVAL",
          "SHADOW_ENROLLED", "QUALIFIED"}

\* tail is the authorization whose record is the last event.
Qualifications ==
    [state : QualificationStates,
     attempts : AttemptLists,
     done : SUBSET Stages,
     tail : 0..MaxAuths,
     recorded : SUBSET (1..MaxAuths),
     revoked : SUBSET (1..MaxAuths)]

ASSUME QualificationAssumption ==
    /\ Quals \subseteq Owners \cap Identities /\ Quals \cap Requests = {}
    /\ QualRequest \in [Quals -> Requests]
    /\ NoSnapshot \notin Qualifications
    /\ \A history \in Histories, q \in Quals : history[q] = NoSnapshot
    /\ MaxAuths \in Nat

Files == {"revocation", "claim", "receipt", "second receipt"}

NoQualCall == [at |-> "idle", run |-> NoOne, snap |-> NoSnapshot, then |-> "idle", auth |-> 0]

QualificationInit ==
    /\ LifecycleInit
    /\ auths = <<>>
    /\ qcall = NoQualCall

-----------------------------------------------------------------------------
(***************************************************************************)
(* Authorizations.                                                         *)
(***************************************************************************)

Pending(stage) ==
    IF stage = "training" THEN "TRAINING_PENDING_APPROVAL" ELSE "SHADOW_PENDING_APPROVAL"

\* Files without the events that belong to them, or a claim without its one receipt,
\* which is written only after the event of the claim.
Mismatched(s, a) ==
    LET files == auths[a].files IN
    \/ a \notin s.recorded
    \/ "revocation" \in files /\ a \notin s.revoked
    \/ "claim" \in files /\ "receipt" \notin files
    \/ "second receipt" \in files
    \/ {"revocation", "claim"} \subseteq files

Status(s, a) ==
    IF Mismatched(s, a) THEN "INVALID"
    ELSE IF "claim" \in auths[a].files THEN "CONSUMED"
    ELSE IF "revocation" \in auths[a].files THEN "REVOKED"
    ELSE IF day > auths[a].until THEN "EXPIRED"
    ELSE IF s.tail = a /\ s.state = Pending(auths[a].stage) THEN "ACTIVE"
    ELSE "STALE"

AuthorizationsOf(q, stage) == {a \in DOMAIN auths : auths[a].of = q /\ auths[a].stage = stage}

Write(a, files) == auths' = [auths EXCEPT ![a].files = @ \cup files]

-----------------------------------------------------------------------------
(***************************************************************************)
(* Publication and the end of a command.                                   *)
(***************************************************************************)

\* As a lifecycle's Publish, on behalf of authorization a if there is one.
QPublish(q, s, then, a) ==
    /\ Aside(q)
    /\ qcall' = [at |-> "moved", run |-> q, snap |-> s, then |-> then, auth |-> a]

\* Every event but the record of an authorization displaces it as the last one.
QGoto(s, state) == [s EXCEPT !.state = state, !.tail = 0]

QMoveIn ==
    /\ qcall.at = "moved"
    /\ In(qcall.run, qcall.snap)
    /\ qcall' = [qcall EXCEPT !.at = "placed"]
    /\ UNCHANGED <<executionVars, controlVars, auths>>

\* Unlike a lifecycle, what cannot be read back is not rolled back.
QPublicationFails ==
    /\ qcall.at = "moved"
    /\ Fault
    /\ RollBack(qcall.run)
    /\ qcall' = NoQualCall
    /\ UNCHANGED <<journal, placed, exec, prodLock, controlVars, auths>>

QPublished ==
    /\ qcall.at = "placed"
    /\ DropBackup(qcall.run)
    /\ qcall' = IF qcall.then = "return" THEN NoQualCall ELSE [qcall EXCEPT !.at = qcall.then]
    /\ UNCHANGED <<executionVars, controlVars, auths>>

LeaveLifecycleLock == lifeLock' = IF lifeLock = "qualification" THEN NoOne ELSE lifeLock

\* The process is killed, or an error escapes the command.
QInterrupt ==
    /\ qcall.at # "idle"
    /\ Fault
    /\ qcall' = NoQualCall
    /\ LeaveLifecycleLock
    /\ IF qcall.at = "executing" THEN KillExecution("qualification")
       ELSE UNCHANGED <<journal, placed, exec, prodLock>>
    /\ UNCHANGED <<storeVars, day, call, begun, auths>>

-----------------------------------------------------------------------------
(***************************************************************************)
(* start: preflight, controlled dry run, readiness.                        *)
(***************************************************************************)

Visible(q) == qcall.at = "idle" /\ out[q] # NoSnapshot

\* As for a lifecycle, a command that only publishes is refused beside a backup.
Ready(q) == Visible(q) /\ ~Stale(q)

Start(q) ==
    /\ qcall.at = "idle" /\ out[q] = NoSnapshot /\ ~Stale(q)
    /\ QPublish(q, [state |-> "CREATED", attempts |-> <<>>, done |-> {}, tail |-> 0,
                    recorded |-> {}, revoked |-> {}], "check", 0)
    /\ UNCHANGED <<executionVars, controlVars, auths>>

\* The next check of s, and the two states that a check in state s may end in.
NextCheck(s) ==
    CASE s = "CREATED" -> "PREFLIGHT_CHECKING"
      [] s = "PREFLIGHT_READY" -> "DRY_RUN_CHECKING"
      [] OTHER -> "READINESS_CHECKING"

PassedCheck(s) ==
    CASE s = "PREFLIGHT_CHECKING" -> "PREFLIGHT_READY"
      [] s = "DRY_RUN_CHECKING" -> "DRY_RUN_READY"
      [] OTHER -> "TRAINING_PENDING_APPROVAL"

BlockedCheck(s) ==
    CASE s = "PREFLIGHT_CHECKING" -> "PREFLIGHT_BLOCKED"
      [] s = "DRY_RUN_CHECKING" -> "DRY_RUN_BLOCKED"
      [] OTHER -> "READINESS_FAILED"

StartCheck ==
    /\ qcall.at = "check" /\ qcall.snap.state \notin Checking
    /\ QPublish(qcall.run, QGoto(qcall.snap, NextCheck(qcall.snap.state)), "check", 0)
    /\ UNCHANGED <<executionVars, controlVars, auths>>

\* What the checks read of the rest of the system; they may also fail otherwise.
MayPass(q, state) ==
    CASE state = "PREFLIGHT_CHECKING" ->
            /\ prodLock = NoOne /\ lifeLock = NoOne
            /\ out[QualRequest[q]] # NoSnapshot => out[QualRequest[q]].attempts = <<>>
            /\ \A o \in Owners : ~Stale(o)
      [] state = "DRY_RUN_CHECKING" ->
            lifeLock = NoOne /\ BudgetAllows /\ CooldownAllows(QualRequest[q])
      [] state = "READINESS_CHECKING" -> TRUE

CheckPasses ==
    /\ qcall.at = "check" /\ qcall.snap.state \in Checking
    /\ MayPass(qcall.run, qcall.snap.state)
    /\ QPublish(qcall.run, QGoto(qcall.snap, PassedCheck(qcall.snap.state)),
                IF qcall.snap.state = "READINESS_CHECKING" THEN "return" ELSE "check", 0)
    /\ UNCHANGED <<executionVars, controlVars, auths>>

CheckBlocks ==
    /\ qcall.at = "check" /\ qcall.snap.state \in Checking
    /\ QPublish(qcall.run, QGoto(qcall.snap, BlockedCheck(qcall.snap.state)), "return", 0)
    /\ UNCHANGED <<executionVars, controlVars, auths>>

-----------------------------------------------------------------------------
(***************************************************************************)
(* authorize, revoke-authorization, cancel.  The file comes first.         *)
(***************************************************************************)

Authorize(q, stage) ==
    /\ Visible(q) /\ out[q].state = Pending(stage)
    /\ \A a \in AuthorizationsOf(q, stage) : Status(out[q], a) \notin {"INVALID", "ACTIVE"}
    /\ Len(auths) < MaxAuths
    /\ \E until \in {d \in Days : d >= day} :
        auths' = Append(auths, [of |-> q, stage |-> stage, files |-> {}, until |-> until])
    /\ qcall' = [at |-> "filed", run |-> q, then |-> "return", auth |-> 0,
                 snap |-> [out[q] EXCEPT !.tail = Len(auths) + 1,
                                         !.recorded = @ \cup {Len(auths) + 1}]]
    /\ UNCHANGED lifecycleVars

\* Revoked is what no attempt has claimed, in any state but the closed ones; in
\* most of them the event is refused and the file stays alone.
Revoke(q, a) ==
    /\ Visible(q) /\ out[q].state \notin Closed
    /\ auths[a].of = q /\ auths[a].files = {}
    /\ Write(a, {"revocation"})
    /\ IF out[q].state \in Approvable
       THEN qcall' = [at |-> "filed", run |-> q, then |-> "return", auth |-> 0,
                      snap |-> [out[q] EXCEPT !.tail = 0, !.revoked = @ \cup {a}]]
       ELSE UNCHANGED qcall
    /\ UNCHANGED lifecycleVars

RecordFile ==
    /\ qcall.at = "filed" /\ ~Stale(qcall.run)
    /\ QPublish(qcall.run, qcall.snap, "return", 0)
    /\ UNCHANGED <<executionVars, controlVars, auths>>

\* A stale backup lets the file be written and the event not be published.
FileWithoutEvent ==
    /\ qcall.at \in {"filed", "claimed"} /\ Stale(qcall.run)
    /\ qcall' = NoQualCall
    /\ UNCHANGED <<lifecycleVars, auths>>

Cancel(q) ==
    /\ Ready(q)
    /\ out[q].state \notin Checking \cup Running \cup Closed \cup {"QUALIFIED"}
    /\ QPublish(q, QGoto(out[q], "CANCELLED"), "return", 0)
    /\ UNCHANGED <<executionVars, controlVars, auths>>

-----------------------------------------------------------------------------
(***************************************************************************)
(* advance: training, validation, shadow, observation.                     *)
(***************************************************************************)

\* A failed attempt first goes back to wait for another authorization.
Retry(q) ==
    /\ Ready(q)
    /\ \/ /\ out[q].state = "TRAINING_FAILED"
          /\ QPublish(q, QGoto(out[q], "TRAINING_PENDING_APPROVAL"), "return", 0)
       \/ /\ out[q].state = "SHADOW_FAILED"
          /\ QPublish(q, QGoto(out[q], "SHADOW_PENDING_APPROVAL"), "return", 0)
    /\ UNCHANGED <<executionVars, controlVars, auths>>

\* Training is controlled as if the request's own lifecycle asked for it: what the
\* qualification itself has trained counts against its cooldown.
MayStart(q, stage) ==
    stage = "training" =>
        BudgetAllows /\ CooldownAllows(QualRequest[q]) /\ Len(out[q].attempts) < MaxAttempts

\* Mutant of Claim: the authorization is not consumed before the attempt.
ClaimLater(q, a) ==
    /\ Visible(q) /\ auths[a].of = q
    /\ Status(out[q], a) = "ACTIVE"
    /\ MayStart(q, auths[a].stage)
    /\ qcall' = [at |-> "claimed", run |-> q, snap |-> out[q], then |-> "idle", auth |-> a]
    /\ UNCHANGED <<lifecycleVars, auths>>

Claim(q, a) ==
    /\ Visible(q) /\ auths[a].of = q
    /\ Status(out[q], a) = "ACTIVE"
    /\ MayStart(q, auths[a].stage)
    /\ Write(a, {"claim"})
    /\ qcall' = [at |-> "claimed", run |-> q, snap |-> out[q], then |-> "idle", auth |-> a]
    /\ UNCHANGED lifecycleVars

StartStage ==
    /\ qcall.at = "claimed" /\ ~Stale(qcall.run)
    /\ \/ /\ auths[qcall.auth].stage = "training"
          /\ QPublish(qcall.run, [QGoto(qcall.snap, "TRAINING") EXCEPT !.attempts = Append(@, day)],
                      "run", qcall.auth)
       \/ /\ auths[qcall.auth].stage = "shadow"
          /\ QPublish(qcall.run, QGoto(qcall.snap, "SHADOW_ENROLLING"), "run", qcall.auth)
    /\ UNCHANGED <<executionVars, controlVars, auths>>

\* Validation needs no authorization.
StartValidation(q) ==
    /\ Ready(q) /\ out[q].state = "VALIDATION_PENDING_APPROVAL"
    /\ QPublish(q, QGoto(out[q], "VALIDATING"), "run", 0)
    /\ UNCHANGED <<executionVars, controlVars, auths>>

\* The stage runs under the lifecycle lock, which is refused, never awaited.
RunStage ==
    /\ qcall.at = "run" /\ lifeLock = NoOne
    /\ lifeLock' = "qualification"
    /\ IF qcall.snap.state = "TRAINING"
       THEN /\ Request("qualification", qcall.run)
            /\ begun' = [begun EXCEPT ![qcall.run] = @ + 1]
            /\ qcall' = [qcall EXCEPT !.at = "executing"]
       ELSE /\ qcall' = [qcall EXCEPT !.at = "working"]
            /\ UNCHANGED <<executionVars, begun>>
    /\ UNCHANGED <<storeVars, day, call, auths>>

LifecycleLockBusy ==
    /\ qcall.at = "run" /\ lifeLock # NoOne
    /\ qcall' = [qcall EXCEPT !.at = "failed"]
    /\ UNCHANGED <<lifecycleVars, auths>>

StageEnds ==
    /\ \/ /\ qcall.at = "executing" /\ exec["qualification"].at = "returned"
          /\ Collect("qualification")
       \/ qcall.at = "working" /\ UNCHANGED <<journal, placed, exec, prodLock>>
    /\ \/ qcall' = [qcall EXCEPT !.at = "succeeded"] /\ UNCHANGED faults
       \/ qcall' = [qcall EXCEPT !.at = "failed"] /\ Fault
    /\ LeaveLifecycleLock
    /\ UNCHANGED <<storeVars, day, call, begun, auths>>

TrainingRaises ==
    /\ qcall.at = "executing" /\ exec["qualification"].at = "raised"
    /\ Collect("qualification")
    /\ qcall' = [qcall EXCEPT !.at = "failed"]
    /\ LeaveLifecycleLock
    /\ UNCHANGED <<faults, storeVars, day, call, begun, auths>>

\* The claim gets its receipt, then the outcome is published.
Receipt == IF qcall.auth = 0 THEN UNCHANGED auths ELSE Write(qcall.auth, {"receipt"})

\* The publication of the receipt of a success raises after the receipt is in place,
\* and the handler writes another, of a failure.
SecondReceipt == qcall.auth # 0 /\ Write(qcall.auth, {"receipt", "second receipt"})

StageOf(s) ==
    CASE s = "TRAINING" -> "training" [] s = "VALIDATING" -> "validation" [] OTHER -> "shadow"

AfterStage(s) ==
    CASE s = "TRAINING" -> "VALIDATION_PENDING_APPROVAL"
      [] s = "VALIDATING" -> "SHADOW_PENDING_APPROVAL"
      [] OTHER -> "SHADOW_ENROLLED"

AfterFailure(s) ==
    CASE s = "TRAINING" -> "TRAINING_FAILED"
      [] s = "VALIDATING" -> "VALIDATION_FAILED"
      [] OTHER -> "SHADOW_FAILED"

Succeed ==
    /\ qcall.at = "succeeded"
    /\ Receipt
    /\ QPublish(qcall.run, [QGoto(qcall.snap, AfterStage(qcall.snap.state))
                            EXCEPT !.done = @ \cup {StageOf(qcall.snap.state)}], "return", 0)
    /\ UNCHANGED <<executionVars, controlVars>>

FailStage ==
    /\ \/ qcall.at = "failed" /\ Receipt
       \/ qcall.at = "succeeded" /\ SecondReceipt
    /\ QPublish(qcall.run, QGoto(qcall.snap, AfterFailure(qcall.snap.state)), "return", 0)
    /\ UNCHANGED <<executionVars, controlVars>>

StartObservation(q) ==
    /\ Ready(q) /\ out[q].state = "SHADOW_ENROLLED"
    /\ QPublish(q, QGoto(out[q], "OBSERVATION_CHECKING"), "conclude", 0)
    /\ UNCHANGED <<executionVars, controlVars, auths>>

\* FAILED when what must not change in production has changed meanwhile.
Conclude ==
    /\ qcall.at = "conclude"
    /\ \E verdict \in {"QUALIFIED", "FAILED"} :
        QPublish(qcall.run, [QGoto(qcall.snap, verdict) EXCEPT !.done = @ \cup {"observation"}],
                 "return", 0)
    /\ UNCHANGED <<executionVars, controlVars, auths>>

-----------------------------------------------------------------------------

Qualify ==
    \/ \E q \in Quals :
        \/ Start(q) \/ Cancel(q) \/ Retry(q) \/ StartValidation(q) \/ StartObservation(q)
        \/ \E stage \in {"training", "shadow"} : Authorize(q, stage)
        \/ \E a \in DOMAIN auths : Revoke(q, a) \/ Claim(q, a)
    \/ RecordFile \/ FileWithoutEvent \/ StartCheck \/ CheckPasses \/ CheckBlocks
    \/ StartStage \/ RunStage \/ LifecycleLockBusy \/ StageEnds \/ TrainingRaises
    \/ Succeed \/ FailStage \/ Conclude
    \/ QMoveIn \/ QPublicationFails \/ QPublished
    \/ QInterrupt

Next ==
    \/ Qualify
    \/ (Orchestrate \/ Operate \/ NextDay) /\ UNCHANGED <<auths, qcall>>

Spec == QualificationInit /\ [][Next]_qualificationVars

-----------------------------------------------------------------------------
(***************************************************************************)
(* Properties.                                                             *)
(***************************************************************************)

\* The types of what the whole retraining system keeps.
TypeOK ==
    /\ ExecutionTypeOK
    /\ \A o \in Owners :
        {out[o], bak[o]} \subseteq
            {NoSnapshot} \cup (IF o \in Quals THEN Qualifications ELSE Lifecycles)
    /\ day \in Days /\ lifeLock \in Callers \cup {NoOne}
    /\ call.at \in {"idle", "moved", "placed"} \cup Points
    /\ begun \in [Owners -> Nat]
    /\ auths \in Seq([of : Quals, stage : {"training", "shadow"}, files : SUBSET Files,
                      until : Days])
    /\ qcall.auth \in 0..Len(auths)

\* No execution begins, for a lifecycle or a qualification, whose TRAINING event has
\* not been published first: whatever is killed, no training escapes the history
\* that budget and cooldown are computed from.
AttemptsAreRecorded == \A o \in Owners : begun[o] <= Len(Attempts(o))

\* On no day do the lifecycles, or the qualifications, make more attempts than
\* the daily budget allows, unless a dead publication hides one of them.  Together
\* they may: each side counts the other's attempts under its own lock only.
EachSideKeepsBudget ==
    \A S \in {Quals, Owners \ Quals}, d \in Days :
        (\A o \in S : out[o] = NoSnapshot => bak[o] = NoSnapshot)
            => Cardinality({t \in Trainings(out, d) : t[1] \in S}) <= Limit

\* Whichever publication fails or is killed, no settled attempt and no result of
\* a stage is ever lost, of any lifecycle or qualification.
HistoryIsDurable ==
    [][\A o \in Owners :
        /\ Len(Attempts(o)) <= Len(Attempts(o)')
        /\ SubSeq(Attempts(o)', 1, Len(Attempts(o))) = Attempts(o)
        /\ Results(o) \subseteq Results(o)']_qualificationVars

\* Promotion evidence is ready, and a run qualified, only if every stage has left its
\* result and the trained candidate is published, whatever failures, policy changes
\* and revalidations lie between; evidence rests on enough mature sessions.
EvidenceIsBacked ==
    /\ \A r \in Requests :
        out[r] # NoSnapshot /\ "EVIDENCE_READY" = out[r].state =>
            out[r].done = Stages /\ out[r].mature >= Required /\ placed[r] = Directories
    /\ \A r \in Requests :
        out[r] # NoSnapshot /\ out[r].status = "READY_FOR_PREPARATION" =>
            out[r].state = "EVIDENCE_READY"
    /\ \A q \in Quals :
        out[q] # NoSnapshot /\ out[q].state = "QUALIFIED" =>
            out[q].done = Stages /\ placed[q] = Directories

\* Every execution of a qualification has used up an authorization of its own that
\* was on record, and none is used that has been revoked, or revoked after its use.
AuthorizationUsedOnce ==
    /\ \A q \in Quals :
        begun[q] <= Cardinality({a \in AuthorizationsOf(q, "training") : "claim" \in auths[a].files})
    /\ \A a \in DOMAIN auths :
        "claim" \in auths[a].files =>
            /\ "revocation" \notin auths[a].files
            /\ \E s \in {out[auths[a].of], bak[auths[a].of]} : s # NoSnapshot /\ a \in s.recorded
=============================================================================
