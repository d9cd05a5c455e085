----------------------------- MODULE RetrainingLifecycle -----------------------------
(***************************************************************************)
(* retraining/orchestration: one command at a time, under the lifecycle    *)
(* lock, takes the lifecycle of a training request from readiness through  *)
(* training, validation and shadow enrollment to promotion evidence.  Each *)
(* step is published as a snapshot before and after the work it names, and *)
(* a later command resumes from what it reads.                             *)
(*                                                                         *)
(* A snapshot keeps the dates of its TRAINING events, the stages that have *)
(* left a result, the mature sessions counted and the verdict on the       *)
(* evidence; evidence_stale is TRUE exactly when that verdict is           *)
(* POLICY_REVIEW_REQUIRED.  A request has one identity: the creation of a  *)
(* second lifecycle under another policy or configuration is left out, as  *)
(* are legacy snapshots.                                                   *)
(***************************************************************************)
EXTENDS RetrainingExecution, SnapshotStore, Sequences, FiniteSets

CONSTANTS Requests,
          Parent,         \* the model each lifecycle or qualification retrains
          Policies,       \* promotion policies a command may find in force
          FrozenPolicy,   \* the one the requests were created under
          NoPolicy,
          Required,       \* mature sessions that suffice
          Limit,          \* max_daily_training_runs
          Cooldown,       \* cooldown_days
          MaxDay,         \* bound: last operational day
          MaxAttempts,    \* bound: training attempts of one owner
          Histories       \* the stores that the model may start from

VARIABLES day,        \* operational date
          lifeLock,   \* who holds .retraining-lifecycle.lock
          call,       \* the orchestrator's command: where it is, and its snapshot
          begun       \* history: executions each owner has begun

controlVars == <<day, lifeLock, call, begun>>
lifecycleVars == <<executionVars, storeVars, controlVars>>

Days == 0..MaxDay
Stages == {"training", "validation", "shadow", "observation"}

Trainable == {"READINESS_READY", "TRAINING_FAILED", "TRAINING_COOLDOWN_BLOCKED",
              "TRAINING_BUDGET_BLOCKED"}
Rechecked == (Trainable \ {"TRAINING_FAILED"}) \cup {"READINESS_FAILED"}
Observing == {"OBSERVATION_PENDING", "OBSERVATION_ACCUMULATING", "OBSERVATION_SUFFICIENT"}
Evaluable == {"OBSERVATION_SUFFICIENT", "POLICY_REVIEW_REQUIRED", "EVIDENCE_READY"}
Enrolled == {"SHADOW_ENROLLED"} \cup Observing \cup Evaluable

LifecycleStates ==
    Rechecked \cup Trainable \cup Enrolled
    \cup {"TRAINING", "TRAINING_COMPLETED", "VALIDATING", "VALIDATION_FAILED",
          "VALIDATION_COMPLETED", "SHADOW_ENROLLING", "SHADOW_FAILED"}

\* The days of the training attempts, in their order.
AttemptLists == UNION {[1..n -> Days] : n \in 0..MaxAttempts}

Lifecycles ==
    [state : LifecycleStates,
     attempts : AttemptLists,
     done : SUBSET Stages,
     mature : 0..Required,
     status : {"NOT_READY", "POLICY_REVIEW_REQUIRED", "READY_FOR_PREPARATION"},
     evaluated : Policies \cup {NoPolicy}]

ASSUME LifecycleAssumption ==
    /\ IsFiniteSet(Owners)
    /\ Requests \subseteq Owners \cap Identities
    /\ {"operator", "lifecycle", "qualification"} \subseteq Callers
    /\ DOMAIN Parent = Owners
    /\ NoSnapshot \notin Lifecycles
    /\ Histories \subseteq [Owners -> Lifecycles \cup {NoSnapshot}]
    /\ \A history \in Histories, r \in Requests : history[r] = NoSnapshot
    /\ FrozenPolicy \in Policies /\ NoPolicy \notin Policies
    /\ Required \in Nat \ {0} /\ Limit \in Nat \ {0}
    /\ {Cooldown, MaxDay, MaxAttempts} \subseteq Nat

Points == {"readiness", "training", "stamp", "execute", "executing", "validation", "validate",
           "shadow", "enroll", "refresh", "observe", "track", "revalidate", "return"}

NoCall == [at |-> "idle", run |-> NoOne, snap |-> NoSnapshot, then |-> "idle"]

LifecycleInit ==
    /\ ExecutionInit
    /\ \E history \in Histories : StoreInit(history)
    /\ day = 0
    /\ lifeLock = NoOne
    /\ call = NoCall
    /\ begun = [o \in Owners |-> 0]

\* What the settled snapshot of an owner tells of its past.
Attempts(o) == IF Settled(o) = NoSnapshot THEN <<>> ELSE Settled(o).attempts
Results(o) == IF Settled(o) = NoSnapshot THEN {} ELSE Settled(o).done

\* Mutant of Targets: no transition is forbidden.
AnyTarget(s) == LifecycleStates

\* The targets of each state that a snapshot can show, but for READINESS_CHECKING,
\* which a recheck only passes through.  Any other transition raises, and what the
\* command was about to publish is lost.
Targets(s) ==
    CASE s = "READINESS_FAILED" -> {}
      [] s = "READINESS_READY" ->
            {"TRAINING", "TRAINING_COOLDOWN_BLOCKED", "TRAINING_BUDGET_BLOCKED"}
      [] s \in {"TRAINING_COOLDOWN_BLOCKED", "TRAINING_BUDGET_BLOCKED"} -> {"TRAINING", s}
      [] s = "TRAINING" -> {"TRAINING_FAILED", "TRAINING_COMPLETED"}
      [] s = "TRAINING_FAILED" -> {"TRAINING"}
      [] s \in {"TRAINING_COMPLETED", "VALIDATION_FAILED"} -> {"VALIDATING"}
      [] s = "VALIDATING" -> {"VALIDATION_FAILED", "VALIDATION_COMPLETED"}
      [] s \in {"VALIDATION_COMPLETED", "SHADOW_FAILED"} -> {"SHADOW_ENROLLING"}
      [] s = "SHADOW_ENROLLING" -> {"SHADOW_FAILED", "SHADOW_ENROLLED"}
      [] s = "SHADOW_ENROLLED" -> {"SHADOW_ENROLLED", "OBSERVATION_PENDING"}
      [] s = "OBSERVATION_PENDING" -> Observing
      [] s = "OBSERVATION_ACCUMULATING" -> Observing \ {"OBSERVATION_PENDING"}
      [] s \in Evaluable -> Evaluable \ ({"OBSERVATION_SUFFICIENT"} \ {s})

-----------------------------------------------------------------------------
(***************************************************************************)
(* Publication and the end of a command.                                   *)
(***************************************************************************)

EndCall == call' = NoCall /\ lifeLock' = NoOne
Raise == EndCall /\ UNCHANGED storeVars
Goto(at) == call' = [call EXCEPT !.at = at] /\ UNCHANGED <<lifeLock, storeVars>>

\* Publication begins: the old snapshot is moved aside.  What precedes, in a staging
\* directory, nobody reads.
Publish(s, then) ==
    /\ Aside(call.run)
    /\ call' = [call EXCEPT !.at = "moved", !.snap = s, !.then = then]
    /\ UNCHANGED lifeLock

\* Publish s as the successor of the current snapshot, or raise.
Transition(s, then) ==
    IF s.state \in Targets(call.snap.state) THEN Publish(s, then) ELSE Raise

MoveIn ==
    /\ call.at = "moved"
    /\ In(call.run, call.snap)
    /\ call' = [call EXCEPT !.at = "placed"]
    /\ UNCHANGED <<executionVars, day, lifeLock, begun>>

Published ==
    /\ call.at = "placed"
    /\ DropBackup(call.run)
    /\ call' = [call EXCEPT !.at = call.then]
    /\ UNCHANGED <<executionVars, day, lifeLock, begun>>

PublicationFails ==
    /\ call.at \in {"moved", "placed"}
    /\ Fault
    /\ RollBack(call.run)
    /\ EndCall
    /\ UNCHANGED <<journal, placed, exec, prodLock, day, begun>>

\* The command has nothing left to do, or was asked to stop after this stage.
Return ==
    /\ call.at \in {"return", "training", "validation", "shadow", "refresh", "observe"}
    /\ EndCall
    /\ UNCHANGED <<executionVars, storeVars, day, begun>>

\* The process is killed, or an error escapes the command: what it has renamed
\* or executed so far stays as it is.
Interrupt ==
    /\ call.at # "idle"
    /\ Fault
    /\ EndCall
    /\ IF call.at = "executing" THEN KillExecution("lifecycle")
       ELSE UNCHANGED <<journal, placed, exec, prodLock>>
    /\ UNCHANGED <<storeVars, day, begun>>

-----------------------------------------------------------------------------
(***************************************************************************)
(* Commands: lifecycle-run, lifecycle-resume, lifecycle-revalidate.        *)
(***************************************************************************)

\* Where a command that reads s goes on.
Entry(s) ==
    CASE s.attempts = <<>> -> "readiness"
      [] s.state = "TRAINING_FAILED" -> "training"
      [] s.state \in {"TRAINING_COMPLETED", "VALIDATION_FAILED"} -> "validation"
      [] s.state \in {"VALIDATION_COMPLETED", "SHADOW_FAILED"} -> "shadow"
      [] s.state \in Enrolled -> "refresh"
      [] OTHER -> "return"

\* Beside a stale backup the first publication raises, before anything has changed:
\* such a command is as good as refused.
Begin(r, s, at, then) ==
    /\ lifeLock = NoOne /\ ~Stale(r)
    /\ lifeLock' = "lifecycle"
    /\ call' = [at |-> at, run |-> r, snap |-> s, then |-> then]

ReadinessState(ready) == IF ready THEN "READINESS_READY" ELSE "READINESS_FAILED"
AfterReadiness(ready) == IF ready THEN "training" ELSE "return"

\* No lifecycle of the request is visible: one is created, with the verdict of the
\* readiness service.
New(r) ==
    /\ out[r] = NoSnapshot
    /\ \E ready \in BOOLEAN :
        Begin(r, [state |-> ReadinessState(ready), attempts |-> <<>>, done |-> {},
                  mature |-> 0, status |-> "NOT_READY", evaluated |-> NoPolicy],
              "moved", AfterReadiness(ready))
    /\ UNCHANGED <<executionVars, storeVars, day, begun>>

Resume(r) ==
    /\ out[r] # NoSnapshot
    /\ Begin(r, out[r], Entry(out[r]), "idle")
    /\ UNCHANGED <<executionVars, storeVars, day, begun>>

RevalidateEvidence(r) ==
    /\ out[r] # NoSnapshot
    /\ Begin(r, out[r], "revalidate", "idle")
    /\ UNCHANGED <<executionVars, storeVars, day, begun>>

\* Before the first training attempt readiness is validated again.
Recheck ==
    /\ call.at = "readiness"
    /\ \E ready \in BOOLEAN :
        Publish([call.snap EXCEPT !.state = ReadinessState(ready)], AfterReadiness(ready))
    /\ UNCHANGED <<executionVars, day, begun>>

-----------------------------------------------------------------------------
(***************************************************************************)
(* Training.  The controls count what the stores show of both lifecycles   *)
(* and qualifications, under no lock but the caller's own.                 *)
(***************************************************************************)

\* The attempts of day d in the store S: whose, and the how manieth of theirs.
Trainings(S, d) ==
    {t \in Owners \X (1..MaxAttempts) :
        /\ S[t[1]] # NoSnapshot
        /\ t[2] \in DOMAIN S[t[1]].attempts /\ S[t[1]].attempts[t[2]] = d}

\* Mutant of BudgetAllows: one attempt too many.
BudgetAllowsOneMore == Cardinality(Trainings(out, day)) <= Limit

BudgetAllows == Cardinality(Trainings(out, day)) < Limit

\* What the lifecycles trained before the model starts is past, and kept the budget.
ASSUME HistoryAssumption ==
    \A history \in Histories, d \in Days :
        Cardinality(Trainings(history, d)) <= IF d = 0 THEN Limit ELSE 0

\* No other lifecycle or qualification of the same model has trained lately.
CooldownAllows(self) ==
    \A o \in Owners \ {self}, d \in Days, i \in 1..MaxAttempts :
        Parent[o] = Parent[self] /\ <<o, i>> \in Trainings(out, d) => day >= d + Cooldown

CooldownBlocks ==
    /\ call.at = "training" /\ call.snap.attempts = <<>>
    /\ ~CooldownAllows(call.run)
    /\ Transition([call.snap EXCEPT !.state = "TRAINING_COOLDOWN_BLOCKED"], "return")
    /\ UNCHANGED <<executionVars, day, begun>>

Controlled ==
    /\ call.at = "training"
    /\ call.snap.attempts = <<>> => CooldownAllows(call.run)

\* Raises after a failed attempt, from whose state the block is no transition.
BudgetBlocks ==
    /\ Controlled /\ ~BudgetAllows
    /\ Transition([call.snap EXCEPT !.state = "TRAINING_BUDGET_BLOCKED"], "return")
    /\ UNCHANGED <<executionVars, day, begun>>

Approve ==
    /\ Controlled /\ BudgetAllows
    /\ Len(call.snap.attempts) < MaxAttempts
    /\ Goto("stamp")
    /\ UNCHANGED <<executionVars, day, begun>>

\* Mutant of Attempt: the training starts before the attempt is published.
AttemptUnpublished ==
    /\ call.at = "stamp"
    /\ call' = [call EXCEPT !.at = "execute", !.snap.state = "TRAINING",
                            !.snap.attempts = Append(@, day)]
    /\ UNCHANGED <<executionVars, storeVars, day, lifeLock, begun>>

\* The TRAINING event carries the time of its own making, which may be another day.
Attempt ==
    /\ call.at = "stamp"
    /\ Transition([call.snap EXCEPT !.state = "TRAINING", !.attempts = Append(@, day)], "execute")
    /\ UNCHANGED <<executionVars, day, begun>>

StartExecution ==
    /\ call.at = "execute"
    /\ Request("lifecycle", call.run)
    /\ call' = [call EXCEPT !.at = "executing"]
    /\ begun' = [begun EXCEPT ![call.run] = @ + 1]
    /\ UNCHANGED <<storeVars, day, lifeLock>>

Trained ==
    /\ call.at = "executing" /\ exec["lifecycle"].at = "returned"
    /\ Collect("lifecycle")
    /\ Transition([call.snap EXCEPT !.state = "TRAINING_COMPLETED", !.done = @ \cup {"training"}],
                  "validation")
    /\ UNCHANGED <<faults, day, begun>>

\* The execution has raised, or what it has published cannot be read.
TrainingFailed ==
    /\ call.at = "executing"
    /\ \/ exec["lifecycle"].at = "raised" /\ UNCHANGED faults
       \/ exec["lifecycle"].at = "returned" /\ Fault
    /\ Collect("lifecycle")
    /\ Transition([call.snap EXCEPT !.state = "TRAINING_FAILED"], "return")
    /\ UNCHANGED <<day, begun>>

-----------------------------------------------------------------------------
(***************************************************************************)
(* Validation and shadow enrollment.                                       *)
(***************************************************************************)

Validate ==
    /\ call.at = "validation"
    /\ Transition([call.snap EXCEPT !.state = "VALIDATING"], "validate")
    /\ UNCHANGED <<executionVars, day, begun>>

Validated ==
    /\ call.at = "validate"
    /\ Transition([call.snap EXCEPT !.state = "VALIDATION_COMPLETED",
                                    !.done = @ \cup {"validation"}], "shadow")
    /\ UNCHANGED <<executionVars, day, begun>>

Enroll ==
    /\ call.at = "shadow"
    /\ Transition([call.snap EXCEPT !.state = "SHADOW_ENROLLING"], "enroll")
    /\ UNCHANGED <<executionVars, day, begun>>

EnrollSucceeds ==
    /\ call.at = "enroll"
    /\ Transition([call.snap EXCEPT !.state = "SHADOW_ENROLLED", !.done = @ \cup {"shadow"}],
                  "observe")
    /\ UNCHANGED <<executionVars, day, begun>>

\* Validation or enrollment fails: the command ends, a later one tries again.
StageFails ==
    /\ call.at \in {"validate", "enroll"}
    /\ Fault
    /\ Transition([call.snap EXCEPT !.state = IF call.at = "validate" THEN "VALIDATION_FAILED"
                                              ELSE "SHADOW_FAILED"], "return")
    /\ UNCHANGED <<journal, placed, exec, prodLock, day, begun>>

\* A resumed lifecycle predicts again; a new prediction and a failure are both
\* published in the state the lifecycle is in, a known one is not.
Refresh ==
    /\ call.at = "refresh"
    /\ \/ Transition(call.snap, "observe")
       \/ Goto("observe")
    /\ UNCHANGED <<executionVars, day, begun>>

-----------------------------------------------------------------------------
(***************************************************************************)
(* Observation and promotion evidence.                                     *)
(***************************************************************************)

\* The first observation of an enrolled lifecycle is announced.
Observe ==
    /\ call.at = "observe"
    /\ IF call.snap.state = "SHADOW_ENROLLED"
       THEN Transition([call.snap EXCEPT !.state = "OBSERVATION_PENDING"], "track")
       ELSE Goto("track")
    /\ UNCHANGED <<executionVars, day, begun>>

Progress(m) ==
    CASE m = 0 -> "OBSERVATION_PENDING"
      [] m >= Required -> "OBSERVATION_SUFFICIENT"
      [] OTHER -> "OBSERVATION_ACCUMULATING"

\* The policy a command has loaded is p, which need not be the lifecycle's own.
Drift(p) == p # FrozenPolicy

\* The verdict on the evidence of s under policy p.
Evaluated(s, p, ready) ==
    IF ready
    THEN [s EXCEPT !.state = "EVIDENCE_READY", !.status = "READY_FOR_PREPARATION",
                   !.evaluated = p]
    ELSE [s EXCEPT !.state = IF Drift(p) THEN "POLICY_REVIEW_REQUIRED" ELSE @,
                   !.status = IF Drift(p) THEN "POLICY_REVIEW_REQUIRED" ELSE "NOT_READY",
                   !.evaluated = p]

\* Mutant of Counted: a session that has not matured yet is counted as well.
CountedEarly(s, m) ==
    [s EXCEPT !.state = IF @ \in {"EVIDENCE_READY", "POLICY_REVIEW_REQUIRED"} THEN @
                        ELSE Progress(m),
              !.mature = m + 1, !.done = @ \cup {"observation"}]

\* m mature sessions are counted; a verdict already reached keeps its state.
Counted(s, m) ==
    [s EXCEPT !.state = IF @ \in {"EVIDENCE_READY", "POLICY_REVIEW_REQUIRED"} THEN @
                        ELSE Progress(m),
              !.mature = m, !.done = @ \cup {"observation"}]

\* New observations: sessions matured, or only their artifacts grew.  Enough of
\* them are evaluated at once, but never found ready under another policy.
Track ==
    /\ call.at = "track"
    /\ \E m \in call.snap.mature..Required, p \in Policies, ready \in BOOLEAN :
        LET counted == Counted(call.snap, m)
            final == IF m < Required THEN counted ELSE Evaluated(counted, p, ready)
        IN  /\ ready => m = Required /\ ~Drift(p)
            /\ IF counted.state \in Targets(call.snap.state) /\ final.state \in Targets(counted.state)
               THEN Publish(final, "return")
               ELSE Raise
    /\ UNCHANGED <<executionVars, day, begun>>

\* Nothing new: a verdict reached under another policy has to be reviewed.
TrackUnchanged ==
    /\ call.at = "track" /\ "observation" \in call.snap.done
    /\ \E p \in Policies :
        IF /\ Drift(p) \/ call.snap.evaluated \notin {NoPolicy, p}
           /\ call.snap.state \in {"OBSERVATION_SUFFICIENT", "EVIDENCE_READY"}
        THEN Transition([call.snap EXCEPT !.state = "POLICY_REVIEW_REQUIRED",
                                          !.status = "POLICY_REVIEW_REQUIRED"], "return")
        ELSE Goto("return")
    /\ UNCHANGED <<executionVars, day, begun>>

\* The operator asks for a verdict under the current policy, drift or not.
Revalidate ==
    /\ call.at = "revalidate"
    /\ \E p \in Policies, ready \in BOOLEAN :
        /\ ready => call.snap.mature = Required
        /\ Transition(Evaluated(call.snap, p, ready), "return")
    /\ UNCHANGED <<executionVars, day, begun>>

-----------------------------------------------------------------------------

Orchestrate ==
    \/ \E r \in Requests :
        New(r) \/ Resume(r) \/ RevalidateEvidence(r)
    \/ Recheck
    \/ CooldownBlocks \/ BudgetBlocks \/ Approve \/ Attempt
    \/ StartExecution \/ Trained \/ TrainingFailed
    \/ Validate \/ Validated \/ Enroll \/ EnrollSucceeds \/ StageFails
    \/ Refresh \/ Observe \/ Track \/ TrackUnchanged \/ Revalidate
    \/ MoveIn \/ Published \/ PublicationFails
    \/ Return \/ Interrupt

\* retraining execute, retraining recovery, and the steps of every execution.
Operate ==
    /\ \/ \E r \in Requests : Request("operator", r)
       \/ \E c \in Callers : Work(c)
       \/ Collect("operator") /\ UNCHANGED faults
       \/ exec["operator"] # Idle /\ Fault /\ KillExecution("operator")
       \/ \E x \in Identities : Recover(x)
    /\ UNCHANGED <<storeVars, controlVars>>

NextDay ==
    /\ day < MaxDay /\ day' = day + 1
    /\ UNCHANGED <<executionVars, storeVars, lifeLock, call, begun>>
=============================================================================
