--------------------------- MODULE RetrainingEvidence_proofs ---------------------------
(***************************************************************************)
(* That promotion evidence, and a qualified run, stand on a result of      *)
(* every stage and on a published candidate.  A snapshot is supported if   *)
(* its state does not say more than its results do; every event publishes  *)
(* a supported snapshot, given that of its command.  And that every        *)
(* execution of a qualification has used up an authorization of its own,   *)
(* and neither side exceeds the daily budget of training attempts.         *)
(***************************************************************************)
EXTENDS Qualification_proofs, FiniteSetTheorems

-----------------------------------------------------------------------------
(***************************************************************************)
(* What an execution returns.                                              *)
(***************************************************************************)

ReturnedIsPublished ==
    \A c \in Callers :
        exec[c].at = "returned" => exec[c].id \in Identities /\ placed[exec[c].id] = Directories

\* Each side waits for the execution of its own candidate.
ExecutesItsOwn ==
    /\ call.at = "executing" => exec["lifecycle"].id = call.run
    /\ qcall.at = "executing" => exec["qualification"].id = qcall.run

LEMMA ReturnedStep ==
    ASSUME ExecutionInv, ReturnedIsPublished, ExecutionStep
    PROVE  ReturnedIsPublished'
<1> USE DEF ReturnedIsPublished, ExecutionInv, CoreTypeOK, Calls, Busy, Idle
<1>0. PublishedStays /\ CoreTypeOK'
  BY ExecutionStepInv
<1>1. ASSUME NEW c \in Callers, NEW x \in Identities, Request(c, x)
      PROVE  ReturnedIsPublished'
  BY <1>1 DEF Request, Execute, Reuse, Refuse, RefuseIncomplete
<1>2. ASSUME NEW c \in Callers, Work(c)
      PROVE  ReturnedIsPublished'
  <2>1. /\ \A b \in Callers : exec'[b].id = exec[b].id
        /\ \A b \in Callers : exec'[b].at = "returned" =>
                \/ exec[b].at = "returned"
                \/ exec[b].id \in Identities /\ placed'[exec[b].id] = Directories
    <3>1. exec[c].id \in Identities
      BY <1>2 DEF WorkIsLocked, Work, Advance, Place, Undo, Complete, Fail, StartUndo, EndUndo
    <3> QED
      BY <1>2, <3>1
      DEF Work, Advance, Place, Undo, Complete, Fail, StartUndo, EndUndo, Leave
  <2> QED
    BY <1>0, <2>1 DEF PublishedStays
<1>3. ASSUME NEW c \in Callers, Collect(c) \/ KillExecution(c)
      PROVE  ReturnedIsPublished'
  BY <1>3 DEF Collect, KillExecution
<1>4. CASE (\E x \in Identities : Recover(x)) \/ UNCHANGED core
  BY <1>4 DEF Recover, core
<1> QED
  BY <1>1, <1>2, <1>3, <1>4 DEF ExecutionStep

LEMMA OwnStep ==
    ASSUME RetrainingInv, ExecutesItsOwn, [Next]_qualificationVars
    PROVE  ExecutesItsOwn'
<1> USE DEF ExecutesItsOwn
<1>0. /\ {"operator", "lifecycle", "qualification"} \subseteq Callers
      /\ exec \in [Callers -> Calls] /\ CommandTypeOK /\ QualCallTypeOK
      /\ \A c \in Callers : exec[c].id \in Identities \cup {NoIdentity}
  BY LifecycleAssumption DEF RetrainingInv, ExecutionInv, CoreTypeOK, Calls
<1>1. CASE Orchestrate /\ UNCHANGED <<auths, qcall>>
  <2>1. CASE StartExecution
    <3>1. exec'["lifecycle"].id = call.run /\ exec'["qualification"] = exec["qualification"]
      BY <1>0, <2>1
      DEF StartExecution, Request, Execute, Reuse, Refuse, RefuseIncomplete, executionVars
    <3>2. call'.run = call.run
      BY <1>0, <2>1 DEF StartExecution, CommandTypeOK, NoCall, Commands
    <3> QED
      BY <1>1, <3>1, <3>2
  <2>2. CASE ~StartExecution
    <3>1. exec'["qualification"] = exec["qualification"]
      BY <1>0, <1>1, <2>2
      DEF Orchestrate, New, Resume, RevalidateEvidence, Recheck, CooldownBlocks, BudgetBlocks,
          Approve, Attempt, Trained, TrainingFailed, Validate, Validated, Enroll, EnrollSucceeds,
          StageFails, Refresh, Observe, Track, TrackUnchanged, Revalidate, MoveIn, Published,
          PublicationFails, Return, Interrupt, Collect, KillExecution, executionVars, Idle, Busy
    <3>2. /\ \A s, then : Transition(s, then) \/ Publish(s, then) => call'.at \in {"moved", "idle"}
          /\ \A at : call.at \in Points /\ Goto(at) => call'.at = at
      <4>1. call = NoCall \/ call \in Commands
        BY <1>0 DEF CommandTypeOK
      <4>2. \A s, then : Publish(s, then) => call'.at = "moved"
        BY <4>1 DEF Publish, NoCall, Commands
      <4>3. \A s, then : Transition(s, then) => call' = NoCall \/ Publish(s, then)
        BY DEF Transition, Raise, EndCall
      <4>4. \A at : Goto(at) => call'.at = at
        BY <4>1 DEF Goto, NoCall, Commands
      <4> QED
        BY <4>2, <4>3, <4>4 DEF NoCall
    <3>3. call'.at # "executing"
      <4>1. CASE \/ \E r \in Requests : New(r) \/ Resume(r) \/ RevalidateEvidence(r)
                 \/ Return \/ Interrupt \/ PublicationFails
        BY <4>1
        DEF New, Resume, RevalidateEvidence, Begin, Entry, Return, Interrupt, PublicationFails,
            EndCall, NoCall
      <4>2. CASE \/ Recheck \/ CooldownBlocks \/ BudgetBlocks \/ Approve \/ Attempt
                 \/ Trained \/ TrainingFailed \/ Validate \/ Validated \/ Enroll \/ EnrollSucceeds
                 \/ StageFails \/ Refresh \/ Observe \/ TrackUnchanged \/ Revalidate
        BY <3>2, <4>2
        DEF Recheck, CooldownBlocks, BudgetBlocks, Approve, Controlled, Attempt, Trained,
            TrainingFailed, Validate, Validated, Enroll, EnrollSucceeds, StageFails, Refresh, Observe,
            TrackUnchanged, Revalidate, Points
      <4>3. CASE Track
        BY <3>2, <4>3 DEF Track, Raise, EndCall, NoCall
      <4>4. CASE MoveIn \/ Published
        <5>1. call \in Commands /\ call.then \in Continuations
          BY <1>0, <4>4 DEF MoveIn, Published, CommandTypeOK, NoCall, Publishing
        <5> QED
          BY <4>4, <5>1 DEF MoveIn, Published, Commands, Continuations
      <4> QED
        BY <1>1, <2>2, <4>1, <4>2, <4>3, <4>4 DEF Orchestrate
    <3> QED
      BY <1>1, <3>1, <3>3
  <2> QED
    BY <2>1, <2>2
<1>2. CASE Qualify
  <2>1. CASE RunStage /\ qcall.snap.state = "TRAINING"
    <3>1. /\ exec'["qualification"].id = qcall.run /\ exec'["lifecycle"] = exec["lifecycle"]
          /\ call' = call
      BY <1>0, <2>1 DEF RunStage, Request, Execute, Reuse, Refuse, RefuseIncomplete
    <3>2. qcall'.run = qcall.run
      BY <1>0, <2>1 DEF RunStage, QualCallTypeOK, NoQualCall, QualCalls
    <3> QED
      BY <3>1, <3>2
  <2>2. CASE ~(RunStage /\ qcall.snap.state = "TRAINING")
    <3>1. exec'["lifecycle"] = exec["lifecycle"] /\ call' = call
      BY <1>0, <1>2, <2>2, SMTT(10), ZenonT(60)
      DEF Qualify, Start, Cancel, Retry, StartValidation, StartObservation, Authorize, Revoke,
          Claim, RecordFile, FileWithoutEvent, StartCheck, CheckPasses, CheckBlocks, StartStage,
          RunStage, LifecycleLockBusy, StageEnds, TrainingRaises, Succeed, FailStage, Conclude,
          QMoveIn, QPublicationFails, QPublished, QInterrupt, controlVars, lifecycleVars,
          executionVars, Collect, KillExecution
    <3>2. \A q, s, then, a : QPublish(q, s, then, a) => qcall'.at = "moved"
      BY DEF QPublish
    <3>3. qcall'.at # "executing"
      <4>1. CASE \/ \E q \in Quals :
                      \/ Start(q) \/ Cancel(q) \/ Retry(q) \/ StartValidation(q)
                      \/ StartObservation(q)
                 \/ RecordFile \/ StartCheck \/ CheckPasses \/ CheckBlocks
                 \/ StartStage \/ Succeed \/ FailStage \/ Conclude
        <5>1. \E q, s, then, a : QPublish(q, s, then, a)
          BY <4>1
          DEF Start, Cancel, Retry, StartValidation, StartObservation, RecordFile, StartCheck,
              CheckPasses, CheckBlocks, StartStage, Succeed, FailStage, Conclude
        <5> QED
          BY <3>2, <5>1
      <4>3. CASE \/ \E q \in Quals :
                      \/ \E stage \in {"training", "shadow"} : Authorize(q, stage)
                      \/ \E a \in DOMAIN auths : Revoke(q, a) \/ Claim(q, a)
                 \/ FileWithoutEvent \/ QPublicationFails \/ QInterrupt
        <5>1. ASSUME NEW q \in Quals, NEW a \in DOMAIN auths, Revoke(q, a)
              PROVE  qcall'.at \in {"idle", "filed"}
          <6>1. CASE out[q].state \in Approvable
            BY <5>1, <6>1 DEF Revoke
          <6>2. CASE out[q].state \notin Approvable
            BY <5>1, <6>2 DEF Revoke, Visible
          <6> QED
            BY <6>1, <6>2
        <5>2. ASSUME NEW q \in Quals, NEW a \in DOMAIN auths, Claim(q, a)
              PROVE  qcall'.at = "claimed"
          BY <5>2 DEF Claim
        <5>3. ASSUME NEW q \in Quals, NEW stage \in {"training", "shadow"}, Authorize(q, stage)
              PROVE  qcall'.at = "filed"
          BY <5>3 DEF Authorize
        <5>4. CASE FileWithoutEvent \/ QPublicationFails \/ QInterrupt
          BY <5>4 DEF FileWithoutEvent, QPublicationFails, QInterrupt, NoQualCall
        <5> QED
          BY <4>3, <5>1, <5>2, <5>3, <5>4
      <4>2. CASE RunStage \/ LifecycleLockBusy \/ StageEnds \/ TrainingRaises
                 \/ QMoveIn \/ QPublished
        <5>1. qcall \in QualCalls /\ (qcall.at = "placed" => qcall.then \in QContinuations)
          BY <1>0, <4>2
          DEF RunStage, LifecycleLockBusy, StageEnds, TrainingRaises, QMoveIn, QPublished,
              QualCallTypeOK, NoQualCall, Publishing
        <5> QED
          BY <2>2, <4>2, <5>1
          DEF RunStage, LifecycleLockBusy, StageEnds, TrainingRaises, QMoveIn, QPublished,
              QualCalls, QContinuations, NoQualCall
      <4> QED
        BY <1>2, <4>1, <4>2, <4>3 DEF Qualify
    <3> QED
      BY <3>1, <3>3
  <2> QED
    BY <2>1, <2>2
<1>3. CASE (Operate \/ NextDay) /\ UNCHANGED <<auths, qcall>>
  <2>1. call' = call /\ qcall' = qcall
    BY <1>3, OperateSurroundings
  <2>2. \A c \in {"lifecycle", "qualification"} : exec'[c].id = exec[c].id
    BY <1>0, <1>3
    DEF Operate, NextDay, executionVars, Request, Execute, Reuse, Refuse, RefuseIncomplete, Work,
        Advance, Place, Undo, Complete, Fail, StartUndo, EndUndo, Leave, Collect, KillExecution,
        Recover, Calls
  <2> QED
    BY <2>1, <2>2
<1>4. CASE UNCHANGED qualificationVars
  BY <1>4 DEF qualificationVars, lifecycleVars, controlVars, executionVars
<1> QED
  BY <1>1, <1>2, <1>3, <1>4 DEF Next

-----------------------------------------------------------------------------
(***************************************************************************)
(* Lifecycles.  p stands for the directories placed for the request.       *)
(***************************************************************************)

AfterValidation == Enrolled \cup {"VALIDATION_COMPLETED", "SHADOW_ENROLLING", "SHADOW_FAILED"}
AfterTraining == AfterValidation \cup {"TRAINING_COMPLETED", "VALIDATING", "VALIDATION_FAILED"}

Supported(s, p) ==
    /\ "training" \in s.done => p = Directories
    /\ s.state \in AfterTraining => "training" \in s.done
    /\ s.state \in AfterValidation => "validation" \in s.done
    /\ s.state \in Enrolled => "shadow" \in s.done
    /\ s.state \in Evaluable => "observation" \in s.done /\ s.mature = Required
    /\ s.status = "READY_FOR_PREPARATION" => s.state = "EVIDENCE_READY"
    /\ s.state \notin Rechecked => s.attempts # <<>>

\* An allowed transition to t keeps the support, if what t claims anew is so.
LEMMA TransitionSupported ==
    ASSUME NEW s \in Lifecycles, NEW t \in Lifecycles, NEW p, Supported(s, p),
           t.state \in Targets(s.state), s.done \subseteq t.done,
           t.attempts = s.attempts \/ t.attempts # <<>>,
           s.state \in Rechecked /\ t.state \notin Rechecked => t.attempts # <<>>,
           "training" \in t.done => p = Directories,
           t.state = "TRAINING_COMPLETED" => "training" \in t.done,
           t.state = "VALIDATION_COMPLETED" => "validation" \in t.done,
           t.state = "SHADOW_ENROLLED" => "shadow" \in t.done,
           t.state \in Evaluable => "observation" \in t.done /\ t.mature = Required,
           t.status = "READY_FOR_PREPARATION" =>
                t.state = "EVIDENCE_READY" \/ (t.status = s.status /\ t.state \notin Evaluable)
    PROVE  Supported(t, p)
<1> USE DEF Supported, Targets, Lifecycles, LifecycleStates, Rechecked, Trainable, Enrolled, Observing, Evaluable,
            AfterValidation, AfterTraining
<1>1. t.state \in AfterTraining => "training" \in t.done
  OBVIOUS
<1>2. t.state \in AfterValidation => "validation" \in t.done
  OBVIOUS
<1>3. t.state \in Enrolled => "shadow" \in t.done
  OBVIOUS
<1>4. t.status = "READY_FOR_PREPARATION" => t.state = "EVIDENCE_READY"
  OBVIOUS
<1>5. t.state \notin Rechecked => t.attempts # <<>>
  OBVIOUS
<1> QED
  BY <1>1, <1>2, <1>3, <1>4, <1>5

SupportedFor(r, s) == s # NoSnapshot => Supported(s, placed[r])

LifecyclesSupported ==
    /\ \A r \in Requests : SupportedFor(r, out[r]) /\ SupportedFor(r, bak[r])
    /\ call.at # "idle" => Supported(call.snap, placed[call.run])

\* The command goes on with t, or ends.
GoesOnWith(t) == call' = NoCall \/ (call'.run = call.run /\ call'.snap = t)

LEMMA TransitionGoesOn ==
    ASSUME call \in Commands, NEW t, NEW then
    PROVE  /\ Publish(t, then) => GoesOnWith(t)
           /\ Transition(t, then) =>
                call' = NoCall \/ (GoesOnWith(t) /\ t.state \in Targets(call.snap.state))
           /\ \A at : Goto(at) => GoesOnWith(call.snap)
<1>1. Publish(t, then) => GoesOnWith(t)
  BY DEF Publish, Commands, GoesOnWith
<1>2. Transition(t, then) => call' = NoCall \/ (Publish(t, then) /\ t.state \in Targets(call.snap.state))
  BY DEF Transition, Raise, EndCall
<1>3. \A at : Goto(at) => GoesOnWith(call.snap)
  BY DEF Goto, Commands, GoesOnWith
<1> QED
  BY <1>1, <1>2, <1>3

\* What the command holds afterwards is supported.
Backed == call'.at # "idle" => Supported(call'.snap, placed[call'.run])

LEMMA GoesOnBacked ==
    ASSUME call \in Commands, NEW t, GoesOnWith(t), Supported(t, placed[call.run])
    PROVE  Backed
BY DEF GoesOnWith, Backed, NoCall

\* Only the state changes, and claims nothing new.
LEMMA StateBacked ==
    ASSUME call \in Commands, Supported(call.snap, placed[call.run]),
           NEW st \in LifecycleStates \ (Evaluable \cup {"TRAINING_COMPLETED", "VALIDATION_COMPLETED",
                                                       "SHADOW_ENROLLED"}),
           st # "TRAINING",
           NEW then, Transition([call.snap EXCEPT !.state = st], then)
    PROVE  Backed
<1> DEFINE s == call.snap
           t == [s EXCEPT !.state = st]
<1>1. s \in Lifecycles /\ t \in Lifecycles
  BY DEF Commands, Lifecycles
<1>2. /\ t.state = st /\ t.done = s.done /\ t.attempts = s.attempts
      /\ t.status = s.status /\ t.mature = s.mature
  BY <1>1 DEF Lifecycles
<1>3. call' = NoCall \/ (GoesOnWith(t) /\ t.state \in Targets(s.state))
  BY TransitionGoesOn
<1>4. CASE call' = NoCall
  BY <1>4 DEF Backed, NoCall
<1>5. CASE GoesOnWith(t) /\ t.state \in Targets(s.state)
  <2>1. "training" \in t.done => placed[call.run] = Directories
    BY <1>2 DEF Supported
  <2>2. t.state \notin Evaluable /\ (s.state \in Rechecked => t.state \in Rechecked)
    BY <1>2, <1>5 DEF Targets, Rechecked, Trainable
  <2> HIDE DEF t
  <2>3. Supported(t, placed[call.run])
    BY <1>1, <1>2, <1>5, <2>1, <2>2, TransitionSupported
  <2> QED
    BY <1>5, <2>3, GoesOnBacked
<1> QED
  BY <1>3, <1>4, <1>5

\* The state changes and claims the result that is added.
LEMMA ResultBacked ==
    ASSUME call \in Commands, Supported(call.snap, placed[call.run]),
           NEW st, NEW stage,
           \/ st = "TRAINING_COMPLETED" /\ stage = "training" /\ placed[call.run] = Directories
           \/ st = "VALIDATION_COMPLETED" /\ stage = "validation"
           \/ st = "SHADOW_ENROLLED" /\ stage = "shadow",
           NEW then, Transition([call.snap EXCEPT !.state = st, !.done = @ \cup {stage}], then)
    PROVE  Backed
<1> DEFINE s == call.snap
           t == [s EXCEPT !.state = st, !.done = @ \cup {stage}]
<1> USE DEF LifecycleStates, Enrolled, Observing, Evaluable
<1>0. st \in LifecycleStates /\ stage \in Stages /\ st \notin Evaluable
  BY DEF Stages
<1>1. s \in Lifecycles
  BY DEF Commands
<1>2. t = [[s EXCEPT !.state = st] EXCEPT !.done = @ \cup {stage}]
      /\ [s EXCEPT !.state = st] \in Lifecycles
  BY <1>0, <1>1 DEF Lifecycles
<1>3. /\ t \in Lifecycles /\ t.state = st /\ t.done = s.done \cup {stage}
      /\ t.attempts = s.attempts /\ t.status = s.status /\ t.mature = s.mature
  BY <1>0, <1>1, <1>2 DEF Lifecycles
<1>4. call' = NoCall \/ (GoesOnWith(t) /\ t.state \in Targets(s.state))
  BY TransitionGoesOn
<1>5. CASE call' = NoCall
  BY <1>5 DEF Backed, NoCall
<1>6. CASE GoesOnWith(t) /\ t.state \in Targets(s.state)
  <2>1. "training" \in t.done => placed[call.run] = Directories
    BY <1>3 DEF Supported
  <2>2. s.state \notin Rechecked
    BY <1>3, <1>6 DEF Targets, Rechecked, Trainable
  <2> HIDE DEF t
  <2>3. Supported(t, placed[call.run])
    BY <1>0, <1>1, <1>3, <1>6, <2>1, <2>2, TransitionSupported
  <2> QED
    BY <1>6, <2>3, GoesOnBacked
<1> QED
  BY <1>4, <1>5, <1>6

LEMMA CommandKnown ==
    ASSUME RetrainingInv, LifecyclesSupported, call.at # "idle"
    PROVE  /\ call \in Commands /\ call.snap \in Lifecycles /\ call.run \in Requests
           /\ Supported(call.snap, placed[call.run])
BY DEF RetrainingInv, CommandTypeOK, NoCall, Commands, LifecyclesSupported

LEMMA OpeningsBacked ==
    ASSUME RetrainingInv, LifecyclesSupported, NEW r \in Requests,
           New(r) \/ Resume(r) \/ RevalidateEvidence(r)
    PROVE  Backed
<1>1. PICK s, at, then :
        /\ Begin(r, s, at, then)
        /\ (s = out[r] /\ out[r] # NoSnapshot) \/ Supported(s, placed[r])
  <2>1. CASE New(r)
    <3>1. PICK ready \in BOOLEAN :
            Begin(r, [state |-> ReadinessState(ready), attempts |-> <<>>, done |-> {},
                      mature |-> 0, status |-> "NOT_READY", evaluated |-> NoPolicy],
                  "moved", AfterReadiness(ready))
      BY <2>1 DEF New
    <3>2. ReadinessState(ready) \in Rechecked
          /\ ReadinessState(ready) \notin AfterTraining \cup AfterValidation \cup Enrolled \cup Evaluable
      BY DEF ReadinessState, Rechecked, Trainable, AfterTraining, AfterValidation, Enrolled,
             Observing, Evaluable
    <3> QED
      BY <3>1, <3>2 DEF Supported
  <2>2. CASE Resume(r) \/ RevalidateEvidence(r)
    BY <2>2 DEF Resume, RevalidateEvidence
  <2> QED
    BY <2>1, <2>2
<1>2. Supported(s, placed[r])
  BY <1>1 DEF LifecyclesSupported, SupportedFor
<1> QED
  BY <1>1, <1>2 DEF Begin, Backed

LEMMA TrainingBacked ==
    ASSUME RetrainingInv, LifecyclesSupported, ReturnedIsPublished, ExecutesItsOwn,
           \/ Recheck \/ CooldownBlocks \/ BudgetBlocks \/ Approve \/ Attempt
           \/ StartExecution \/ Trained \/ TrainingFailed
    PROVE  Backed
<1>0. /\ call \in Commands /\ call.snap \in Lifecycles /\ call.run \in Requests
      /\ Supported(call.snap, placed[call.run])
  BY CommandKnown
  DEF Recheck, CooldownBlocks, BudgetBlocks, Approve, Controlled, Attempt, StartExecution, Trained,
      TrainingFailed
<1> USE DEF LifecycleStates, Rechecked, Trainable, Enrolled, Observing, Evaluable
<1>1. CASE Recheck
  <2>1. PICK ready \in BOOLEAN :
            Publish([call.snap EXCEPT !.state = ReadinessState(ready)], AfterReadiness(ready))
    BY <1>1 DEF Recheck
  <2> DEFINE t == [call.snap EXCEPT !.state = ReadinessState(ready)]
  <2>2. call.snap.attempts = <<>>
    BY <1>1 DEF Recheck, RetrainingInv, CommandTypeOK, NoCall
  <2>3. /\ t.state \in {"READINESS_READY", "READINESS_FAILED"} /\ t.done = call.snap.done
        /\ t.status = call.snap.status
    BY <1>0 DEF Lifecycles, ReadinessState
  <2>4. t.status # "READY_FOR_PREPARATION"
    BY <1>0, <2>2, <2>3 DEF Supported
  <2>5. Supported(t, placed[call.run])
    BY <1>0, <2>3, <2>4 DEF Supported, AfterTraining, AfterValidation
  <2>6. GoesOnWith(t)
    BY <1>0, <2>1, TransitionGoesOn
  <2> QED
    BY <1>0, <2>5, <2>6, GoesOnBacked
<1>2. CASE CooldownBlocks \/ BudgetBlocks
  BY <1>0, <1>2, StateBacked DEF CooldownBlocks, BudgetBlocks
<1>3. CASE Approve
  BY <1>0, <1>3, TransitionGoesOn, GoesOnBacked DEF Approve
<1>4. CASE Attempt
  <2> DEFINE s == call.snap
             t == [s EXCEPT !.state = "TRAINING", !.attempts = Append(@, day)]
  <2>1. t = [[s EXCEPT !.state = "TRAINING"] EXCEPT !.attempts = Append(@, day)]
        /\ [s EXCEPT !.state = "TRAINING"] \in Lifecycles
    BY <1>0 DEF Lifecycles
  <2>2. Len(s.attempts) < MaxAttempts /\ day \in Days
    BY <1>4 DEF Attempt, RetrainingInv, CommandTypeOK, NoCall
  <2>3. /\ Append(s.attempts, day) \in AttemptLists /\ Append(s.attempts, day) # <<>>
    <3>1. s.attempts \in AttemptLists /\ s.attempts \in Seq(Days)
      BY <1>0, AttemptListsAreSequences DEF Lifecycles
    <3> QED
      BY <2>2, <3>1, AnotherAttempt
  <2>4. /\ t \in Lifecycles /\ t.state = "TRAINING" /\ t.done = s.done
        /\ t.attempts # <<>> /\ t.status = s.status
    BY <1>0, <2>1, <2>3 DEF Lifecycles
  <2>5. call' = NoCall \/ (GoesOnWith(t) /\ t.state \in Targets(s.state))
    BY <1>0, <1>4, TransitionGoesOn DEF Attempt
  <2>6. CASE call' = NoCall
    BY <2>6 DEF Backed, NoCall
  <2>7. CASE GoesOnWith(t) /\ t.state \in Targets(s.state)
    <3>1. "training" \in t.done => placed[call.run] = Directories
      BY <1>0, <2>4 DEF Supported
    <3> HIDE DEF t
    <3>2. Supported(t, placed[call.run])
      BY <1>0, <2>4, <2>7, <3>1, TransitionSupported
    <3> QED
      BY <1>0, <2>7, <3>2, GoesOnBacked
  <2> QED
    BY <2>5, <2>6, <2>7
<1>5. CASE StartExecution
  <2>1. GoesOnWith(call.snap)
    BY <1>0, <1>5 DEF StartExecution, GoesOnWith, Commands
  <2> QED
    BY <1>0, <2>1, GoesOnBacked
<1>6. CASE Trained
  <2>1. placed[call.run] = Directories
    BY <1>6, LifecycleAssumption DEF Trained, ExecutesItsOwn, ReturnedIsPublished
  <2> QED
    BY <1>0, <1>6, <2>1, ResultBacked DEF Trained
<1>7. CASE TrainingFailed
  BY <1>0, <1>7, StateBacked DEF TrainingFailed
<1> QED
  BY <1>1, <1>2, <1>3, <1>4, <1>5, <1>6, <1>7
LEMMA TargetFacts ==
    ASSUME NEW x \in LifecycleStates, NEW y \in Targets(x)
    PROVE  /\ x \in Rechecked => y \notin Enrolled
           /\ y \in {"EVIDENCE_READY", "POLICY_REVIEW_REQUIRED"} => x \in Evaluable
BY DEF Targets, LifecycleStates, Rechecked, Trainable, Enrolled, Observing, Evaluable

\* m more sessions count for what is claimed of them.
LEMMA CountedSupported ==
    ASSUME NEW s \in Lifecycles, NEW p, Supported(s, p), NEW m \in s.mature..Required,
           Counted(s, m).state \in Targets(s.state)
    PROVE  /\ Counted(s, m) \in Lifecycles /\ Supported(Counted(s, m), p)
           /\ Counted(s, m).mature = m /\ "observation" \in Counted(s, m).done
<1> DEFINE st == IF s.state \in {"EVIDENCE_READY", "POLICY_REVIEW_REQUIRED"} THEN s.state
                 ELSE Progress(m)
           t == Counted(s, m)
<1>0. Required \in Nat \ {0} /\ s.mature \in 0..Required /\ m \in 0..Required
  BY LifecycleAssumption DEF Lifecycles
<1>1. st \in LifecycleStates /\ (st \in Evaluable => st = s.state \/ st = "OBSERVATION_SUFFICIENT")
  BY <1>0 DEF Progress, LifecycleStates, Enrolled, Observing, Evaluable
<1>2. /\ t = [[[s EXCEPT !.state = st] EXCEPT !.mature = m] EXCEPT !.done = @ \cup {"observation"}]
      /\ [s EXCEPT !.state = st] \in Lifecycles
      /\ [[s EXCEPT !.state = st] EXCEPT !.mature = m] \in Lifecycles
  BY <1>0, <1>1 DEF Counted, Lifecycles
<1>3. /\ t \in Lifecycles /\ t.state = st /\ t.done = s.done \cup {"observation"}
      /\ t.attempts = s.attempts /\ t.status = s.status /\ t.mature = m
  <2> DEFINE a == [s EXCEPT !.state = st]
             b == [a EXCEPT !.mature = m]
  <2> HIDE DEF st
  <2>1. /\ a \in Lifecycles /\ a.state = st /\ a.done = s.done /\ a.attempts = s.attempts
        /\ a.status = s.status
    BY <1>1 DEF Lifecycles
  <2> HIDE DEF a
  <2>2. /\ b \in Lifecycles /\ b.state = st /\ b.done = s.done /\ b.attempts = s.attempts
        /\ b.status = s.status /\ b.mature = m
    BY <1>0, <2>1 DEF Lifecycles
  <2>3. t = [b EXCEPT !.done = @ \cup {"observation"}]
    BY <1>2 DEF a
  <2> HIDE DEF b
  <2> QED
    BY <2>2, <2>3 DEF Lifecycles, Stages
<1>4. t.state \in {"EVIDENCE_READY", "POLICY_REVIEW_REQUIRED"} \cup Observing
  BY <1>0, <1>3 DEF Progress, Observing
<1>5. t.state \in Evaluable => t.mature = Required
  <2>1. CASE s.state \in {"EVIDENCE_READY", "POLICY_REVIEW_REQUIRED"}
    BY <1>0, <1>3, <2>1 DEF Supported, Evaluable
  <2>2. CASE s.state \notin {"EVIDENCE_READY", "POLICY_REVIEW_REQUIRED"}
    BY <1>0, <1>3, <2>2 DEF Progress, Evaluable
  <2> QED
    BY <2>1, <2>2
<1>6. t.status = "READY_FOR_PREPARATION" => t.state = "EVIDENCE_READY"
  BY <1>3 DEF Supported
<1>7. s.state \notin Rechecked
  BY <1>4, TargetFacts DEF Lifecycles, Enrolled, Observing, Evaluable
<1>8. /\ "training" \in t.done => p = Directories
      /\ t.state \notin {"TRAINING_COMPLETED", "VALIDATION_COMPLETED", "SHADOW_ENROLLED"}
      /\ t.state \in Evaluable => "observation" \in t.done
  BY <1>3, <1>4 DEF Supported, Observing
<1>10. t.state \in Targets(s.state)
  OBVIOUS
<1>9. Supported(t, p)
  <2> HIDE DEF t, st
  <2> QED
    BY <1>3, <1>5, <1>6, <1>7, <1>8, <1>10, TransitionSupported
<1> QED
  BY <1>3, <1>9

\* A verdict is ready only on sessions enough.
LEMMA EvaluatedSupported ==
    ASSUME NEW s \in Lifecycles, NEW p, Supported(s, p), NEW policy \in Policies,
           NEW ready \in BOOLEAN, ready => s.mature = Required,
           Evaluated(s, policy, ready).state \in Targets(s.state)
    PROVE  Supported(Evaluated(s, policy, ready), p)
<1> DEFINE st == IF ready THEN "EVIDENCE_READY"
                 ELSE IF Drift(policy) THEN "POLICY_REVIEW_REQUIRED" ELSE s.state
           ss == IF ready THEN "READY_FOR_PREPARATION"
                 ELSE IF Drift(policy) THEN "POLICY_REVIEW_REQUIRED" ELSE "NOT_READY"
           t == Evaluated(s, policy, ready)
<1>1. st \in LifecycleStates
  BY DEF Lifecycles, LifecycleStates, Enrolled, Evaluable
<1>2. /\ t = [[[s EXCEPT !.state = st] EXCEPT !.status = ss] EXCEPT !.evaluated = policy]
      /\ [s EXCEPT !.state = st] \in Lifecycles
      /\ [[s EXCEPT !.state = st] EXCEPT !.status = ss] \in Lifecycles
  BY <1>1 DEF Evaluated, Lifecycles
<1>3. /\ t \in Lifecycles /\ t.state = st /\ t.done = s.done /\ t.status = ss
      /\ t.attempts = s.attempts /\ t.mature = s.mature
  BY <1>1, <1>2, SMTT(10), ZenonT(60) DEF Lifecycles
<1>4. t.state = s.state \/ t.state \in {"EVIDENCE_READY", "POLICY_REVIEW_REQUIRED"}
  BY <1>3
<1>5. t.state \in Evaluable => s.state \in Evaluable
  BY <1>4, TargetFacts DEF Lifecycles, Evaluable
<1>6. t.state \in Evaluable => "observation" \in t.done /\ t.mature = Required
  BY <1>3, <1>5 DEF Supported
<1>7. s.state \in Rechecked => t.state \in Rechecked
  BY <1>4, <1>5 DEF Rechecked, Trainable, Evaluable
<1>8. /\ "training" \in t.done => p = Directories
      /\ t.status = "READY_FOR_PREPARATION" => t.state = "EVIDENCE_READY"
  BY <1>3 DEF Supported
<1>9. t.state = s.state \/ t.state \notin {"TRAINING_COMPLETED", "VALIDATION_COMPLETED", "SHADOW_ENROLLED"}
  BY <1>4
<1>10. /\ t.state = "TRAINING_COMPLETED" => "training" \in t.done
       /\ t.state = "VALIDATION_COMPLETED" => "validation" \in t.done
       /\ t.state = "SHADOW_ENROLLED" => "shadow" \in t.done
  BY <1>3, <1>9 DEF Supported, AfterTraining, AfterValidation, Enrolled
<1>11. t.state \in Targets(s.state)
  OBVIOUS
<1>12. Supported(t, p)
  <2> HIDE DEF t, st, ss
  <2> QED
    BY <1>3, <1>6, <1>7, <1>8, <1>10, <1>11, TransitionSupported
<1> QED
  BY <1>12

LEMMA StagesBacked ==
    ASSUME RetrainingInv, LifecyclesSupported,
           Validate \/ Validated \/ Enroll \/ EnrollSucceeds \/ StageFails
    PROVE  Backed
<1>0. call \in Commands /\ Supported(call.snap, placed[call.run])
  BY CommandKnown DEF Validate, Validated, Enroll, EnrollSucceeds, StageFails
<1> USE DEF LifecycleStates, Rechecked, Trainable, Enrolled, Observing, Evaluable
<1>1. CASE Validate
  BY <1>0, <1>1, StateBacked DEF Validate
<1>2. CASE Validated
  BY <1>0, <1>2, ResultBacked DEF Validated
<1>3. CASE Enroll
  BY <1>0, <1>3, StateBacked DEF Enroll
<1>4. CASE EnrollSucceeds
  BY <1>0, <1>4, ResultBacked DEF EnrollSucceeds
<1>5. CASE StageFails
  <2>1. PICK st \in {"VALIDATION_FAILED", "SHADOW_FAILED"} :
            Transition([call.snap EXCEPT !.state = st], "return")
    BY <1>5 DEF StageFails
  <2> QED
    BY <1>0, <2>1, StateBacked
<1> QED
  BY <1>1, <1>2, <1>3, <1>4, <1>5

LEMMA ObservationBacked ==
    ASSUME RetrainingInv, LifecyclesSupported,
           Refresh \/ Observe \/ Track \/ TrackUnchanged \/ Revalidate
    PROVE  Backed
<1>0. /\ call \in Commands /\ call.snap \in Lifecycles
      /\ Supported(call.snap, placed[call.run])
  BY CommandKnown DEF Refresh, Observe, Track, TrackUnchanged, Revalidate
<1>1. ASSUME NEW t, Supported(t, placed[call.run]), call' = NoCall \/ GoesOnWith(t)
      PROVE  Backed
  BY <1>0, <1>1, GoesOnBacked DEF Backed, NoCall
<1>2. CASE Refresh
  BY <1>0, <1>1, <1>2, TransitionGoesOn DEF Refresh
<1>3. CASE Observe
  <2>1. CASE call.snap.state = "SHADOW_ENROLLED"
    BY <1>0, <1>3, <2>1, StateBacked
    DEF Observe, LifecycleStates, Rechecked, Trainable, Enrolled, Observing, Evaluable
  <2>2. CASE call.snap.state # "SHADOW_ENROLLED"
    BY <1>0, <1>1, <1>3, <2>2, TransitionGoesOn DEF Observe
  <2> QED
    BY <2>1, <2>2
<1>4. CASE Track
  <2>1. PICK m \in call.snap.mature..Required, p \in Policies, ready \in BOOLEAN :
            /\ ready => m = Required /\ ~Drift(p)
            /\ \/ /\ m < Required
                  /\ Counted(call.snap, m).state \in Targets(call.snap.state)
                  /\ Publish(Counted(call.snap, m), "return")
               \/ /\ ~(m < Required)
                  /\ Counted(call.snap, m).state \in Targets(call.snap.state)
                  /\ Evaluated(Counted(call.snap, m), p, ready).state
                        \in Targets(Counted(call.snap, m).state)
                  /\ Publish(Evaluated(Counted(call.snap, m), p, ready), "return")
               \/ Raise
    BY <1>4 DEF Track
  <2>2. CASE Raise
    BY <1>1, <2>2, <1>0 DEF Raise, EndCall
  <2>3. CASE Counted(call.snap, m).state \in Targets(call.snap.state)
    <3>1. /\ Counted(call.snap, m) \in Lifecycles
          /\ Supported(Counted(call.snap, m), placed[call.run])
          /\ Counted(call.snap, m).mature = m
      BY <1>0, <2>3, CountedSupported
    <3>2. CASE Publish(Counted(call.snap, m), "return")
      BY <1>0, <1>1, <3>1, <3>2, TransitionGoesOn
    <3>3. CASE /\ Evaluated(Counted(call.snap, m), p, ready).state
                        \in Targets(Counted(call.snap, m).state)
               /\ Publish(Evaluated(Counted(call.snap, m), p, ready), "return")
      <4>1. Supported(Evaluated(Counted(call.snap, m), p, ready), placed[call.run])
        BY <2>1, <3>1, <3>3, EvaluatedSupported
      <4> QED
        BY <1>0, <1>1, <3>3, <4>1, TransitionGoesOn
    <3> QED
      BY <2>1, <2>2, <3>2, <3>3
  <2> QED
    BY <2>1, <2>2, <2>3
<1>5. CASE TrackUnchanged
  <2>1. \/ Goto("return")
        \/ /\ call.snap.state \in {"OBSERVATION_SUFFICIENT", "EVIDENCE_READY"}
           /\ Transition([call.snap EXCEPT !.state = "POLICY_REVIEW_REQUIRED",
                                           !.status = "POLICY_REVIEW_REQUIRED"], "return")
    BY <1>5 DEF TrackUnchanged
  <2>2. CASE Goto("return")
    BY <1>0, <1>1, <2>2, TransitionGoesOn
  <2>3. CASE call.snap.state \in {"OBSERVATION_SUFFICIENT", "EVIDENCE_READY"}
             /\ Transition([call.snap EXCEPT !.state = "POLICY_REVIEW_REQUIRED",
                                             !.status = "POLICY_REVIEW_REQUIRED"], "return")
    <3> DEFINE s == call.snap
               t == [s EXCEPT !.state = "POLICY_REVIEW_REQUIRED",
                              !.status = "POLICY_REVIEW_REQUIRED"]
    <3>1. /\ t = [[s EXCEPT !.state = "POLICY_REVIEW_REQUIRED"]
                     EXCEPT !.status = "POLICY_REVIEW_REQUIRED"]
          /\ [s EXCEPT !.state = "POLICY_REVIEW_REQUIRED"] \in Lifecycles
      BY <1>0 DEF Lifecycles, LifecycleStates, Enrolled, Evaluable
    <3>2. /\ t \in Lifecycles /\ t.state = "POLICY_REVIEW_REQUIRED" /\ t.done = s.done
          /\ t.status = "POLICY_REVIEW_REQUIRED" /\ t.attempts = s.attempts
          /\ t.mature = s.mature
      BY <1>0, <3>1 DEF Lifecycles
    <3>3. /\ "training" \in t.done => placed[call.run] = Directories
          /\ s.state \notin Rechecked
          /\ "observation" \in t.done /\ t.mature = Required
      BY <1>0, <2>3, <3>2 DEF Supported, Evaluable, Rechecked, Trainable
    <3>4. call' = NoCall \/ (GoesOnWith(t) /\ t.state \in Targets(s.state))
      BY <1>0, <2>3, TransitionGoesOn
    <3> HIDE DEF t
    <3>5. t.state \in Targets(s.state) => Supported(t, placed[call.run])
      BY <1>0, <3>2, <3>3, TransitionSupported
    <3> QED
      BY <1>1, <3>4, <3>5 DEF Backed, NoCall
  <2> QED
    BY <2>1, <2>2, <2>3
<1>6. CASE Revalidate
  <2>1. PICK p \in Policies, ready \in BOOLEAN :
            /\ ready => call.snap.mature = Required
            /\ Transition(Evaluated(call.snap, p, ready), "return")
    BY <1>6 DEF Revalidate
  <2>2. \/ call' = NoCall
        \/ /\ GoesOnWith(Evaluated(call.snap, p, ready))
           /\ Evaluated(call.snap, p, ready).state \in Targets(call.snap.state)
    BY <1>0, <2>1, TransitionGoesOn
  <2>3. CASE call' = NoCall
    BY <2>3 DEF Backed, NoCall
  <2>4. CASE /\ GoesOnWith(Evaluated(call.snap, p, ready))
             /\ Evaluated(call.snap, p, ready).state \in Targets(call.snap.state)
    BY <1>0, <1>1, <2>1, <2>4, EvaluatedSupported
  <2> QED
    BY <2>2, <2>3, <2>4
<1> QED
  BY <1>2, <1>3, <1>4, <1>5, <1>6

LEMMA OrchestrateBacked ==
    ASSUME RetrainingInv, LifecyclesSupported, ReturnedIsPublished, ExecutesItsOwn, Orchestrate
    PROVE  Backed
<1>1. CASE \E r \in Requests : New(r) \/ Resume(r) \/ RevalidateEvidence(r)
  BY <1>1, OpeningsBacked
<1>2. CASE \/ Recheck \/ CooldownBlocks \/ BudgetBlocks \/ Approve \/ Attempt
           \/ StartExecution \/ Trained \/ TrainingFailed
  BY <1>2, TrainingBacked
<1>3. CASE Validate \/ Validated \/ Enroll \/ EnrollSucceeds \/ StageFails
  BY <1>3, StagesBacked
<1>4. CASE Refresh \/ Observe \/ Track \/ TrackUnchanged \/ Revalidate
  BY <1>4, ObservationBacked
<1>5. CASE MoveIn \/ Published
  <2>1. call \in Commands /\ Supported(call.snap, placed[call.run])
    BY <1>5, CommandKnown DEF MoveIn, Published
  <2>2. GoesOnWith(call.snap)
    BY <1>5, <2>1 DEF MoveIn, Published, GoesOnWith, Commands
  <2> QED
    BY <2>1, <2>2, GoesOnBacked
<1>6. CASE PublicationFails \/ Return \/ Interrupt
  BY <1>6 DEF PublicationFails, Return, Interrupt, EndCall, Backed, NoCall
<1> QED
  BY <1>1, <1>2, <1>3, <1>4, <1>5, <1>6 DEF Orchestrate

\* What is supported stays so: a published candidate is never withdrawn.
LEMMA SupportStays ==
    ASSUME PublishedStays, NEW r \in Requests, NEW s, Supported(s, placed[r])
    PROVE  Supported(s, placed'[r])
<1>1. r \in Identities
  BY LifecycleAssumption
<1> QED
  BY <1>1 DEF PublishedStays, Supported

LEMMA LifecyclesStep ==
    ASSUME RetrainingInv, LifecyclesSupported, ReturnedIsPublished, ExecutesItsOwn,
           [Next]_qualificationVars
    PROVE  LifecyclesSupported'
<1>0. RetrainingInv' /\ PublishedStays
  BY StepKeepsInv
<1>1. CASE Orchestrate /\ UNCHANGED <<auths, qcall>>
  <2>1. PICK r \in Requests : /\ Only(r) /\ MoveOn(r)
                              /\ call.at # "idle" => call.run = r
    BY <1>1, OrchestrateIsStep, StorageFacts DEF RetrainingInv, CommandOK, CommandStep
  <2>2. /\ out'[r] \in {out[r], bak[r], NoSnapshot} \/ (call.at = "moved" /\ out'[r] = call.snap)
        /\ bak'[r] \in {out[r], bak[r], NoSnapshot}
    BY <2>1 DEF MoveOn, Move, Publishes, Places, Drops, RollsBack
  <2>3. SupportedFor(r, out[r]) /\ SupportedFor(r, bak[r])
        /\ (call.at # "idle" => Supported(call.snap, placed[r]))
    BY <2>1 DEF LifecyclesSupported
  <2>4. out'[r] # NoSnapshot => Supported(out'[r], placed[r])
    BY <2>2, <2>3 DEF SupportedFor
  <2>5. bak'[r] # NoSnapshot => Supported(bak'[r], placed[r])
    BY <2>2, <2>3 DEF SupportedFor
  <2>6. ASSUME NEW o \in Requests
        PROVE  SupportedFor(o, out[o])' /\ SupportedFor(o, bak[o])'
    <3>1. CASE o = r
      BY <1>0, <2>4, <2>5, <3>1, SupportStays DEF SupportedFor
    <3>2. CASE o # r
      <4>1. out'[o] = out[o] /\ bak'[o] = bak[o]
        BY <2>1, <3>2, LifecycleAssumption DEF Only
      <4> QED
        BY <1>0, <4>1, SupportStays DEF SupportedFor, LifecyclesSupported
    <3> QED
      BY <3>1, <3>2
  <2>7. call'.at # "idle" => Supported(call'.snap, placed'[call'.run])
    <3>1. Backed
      BY <1>1, OrchestrateBacked
    <3>2. call'.at # "idle" => call'.run \in Requests
      BY <1>0 DEF RetrainingInv, CommandTypeOK, NoCall, Commands
    <3> QED
      BY <1>0, <3>1, <3>2, SupportStays DEF Backed
  <2> QED
    BY <2>6, <2>7 DEF LifecyclesSupported
<1>2. CASE \/ Qualify
           \/ (Operate \/ NextDay) /\ UNCHANGED <<auths, qcall>>
           \/ UNCHANGED qualificationVars
  <2>1. call' = call /\ (\A r \in Requests : out'[r] = out[r] /\ bak'[r] = bak[r])
    <3>1. CASE Qualify
      <4>1. \E q \in Quals : Only(q)
        BY <3>1, QualifyIsStep, StorageFacts DEF RetrainingInv, QualCallOK, QualStep
      <4>2. Requests \subseteq Owners /\ Requests \cap Quals = {}
        BY LifecycleAssumption, QualificationAssumption
      <4>3. call' = call
        BY <3>1, QualifyLeavesCall
      <4> QED
        BY <4>1, <4>2, <4>3 DEF Only
    <3>2. CASE (Operate \/ NextDay) /\ UNCHANGED <<auths, qcall>>
      BY <3>2, OperateSurroundings DEF storeVars
    <3>3. CASE UNCHANGED qualificationVars
      BY <3>3 DEF qualificationVars, lifecycleVars, storeVars, controlVars
    <3> QED
      BY <1>2, <3>1, <3>2, <3>3
  <2>2. call.at # "idle" => call.run \in Requests
    BY DEF RetrainingInv, CommandTypeOK, NoCall, Commands
  <2>3. call'.at # "idle" => Supported(call'.snap, placed'[call'.run])
    BY <1>0, <2>1, <2>2, SupportStays DEF LifecyclesSupported
  <2>4. \A r \in Requests : SupportedFor(r, out[r])' /\ SupportedFor(r, bak[r])'
    BY <1>0, <2>1, SupportStays DEF LifecyclesSupported, SupportedFor
  <2> QED
    BY <2>3, <2>4 DEF LifecyclesSupported
<1> QED
  BY <1>1, <1>2 DEF Next

-----------------------------------------------------------------------------
(***************************************************************************)
(* Qualifications.                                                         *)
(***************************************************************************)

QAfterShadow == {"SHADOW_ENROLLED", "OBSERVATION_CHECKING", "QUALIFIED"}
QAfterValidation ==
    QAfterShadow \cup {"SHADOW_PENDING_APPROVAL", "SHADOW_ENROLLING", "SHADOW_FAILED"}
QAfterTraining ==
    QAfterValidation \cup {"VALIDATION_PENDING_APPROVAL", "VALIDATING", "VALIDATION_FAILED"}

QSupported(s, p) ==
    /\ "training" \in s.done => p = Directories
    /\ s.state \in QAfterTraining => "training" \in s.done
    /\ s.state \in QAfterValidation => "validation" \in s.done
    /\ s.state \in QAfterShadow => "shadow" \in s.done
    /\ s.state = "QUALIFIED" => "observation" \in s.done

RunningStages == {"TRAINING", "VALIDATING", "SHADOW_ENROLLING"}

\* What the command c knows of the stage it is in; as are the authorizations.
StageKnown(c, p, as) ==
    /\ \/ c.at \in {"run", "executing", "working", "succeeded", "failed"}
       \/ c.at \in Publishing /\ c.then = "run"
       => c.snap.state \in RunningStages
    /\ c.at = "executing" => c.snap.state = "TRAINING"
    /\ c.at = "working" => c.snap.state # "TRAINING"
    /\ c.at = "succeeded" /\ c.snap.state = "TRAINING" => p = Directories
    /\ c.at = "conclude" \/ (c.at \in Publishing /\ c.then = "conclude") =>
            c.snap.state = "OBSERVATION_CHECKING"
    /\ c.at = "claimed" /\ as[c.auth].stage = "shadow" =>
            c.snap.state = "SHADOW_PENDING_APPROVAL"

QSupportedFor(q, s) == s # NoSnapshot => QSupported(s, placed[q])

QualificationsSupported ==
    /\ \A q \in Quals : QSupportedFor(q, out[q]) /\ QSupportedFor(q, bak[q])
    /\ qcall.at # "idle" =>
            QSupported(qcall.snap, placed[qcall.run]) /\ StageKnown(qcall, placed[qcall.run], auths)

QBacked ==
    qcall'.at # "idle" =>
        QSupported(qcall'.snap, placed[qcall'.run]) /\ StageKnown(qcall', placed[qcall'.run], auths')

LEMMA QGotoSupported ==
    ASSUME NEW s \in Qualifications, NEW p, QSupported(s, p), NEW st \in QualificationStates,
           st \in QAfterTraining => "training" \in s.done,
           st \in QAfterValidation => "validation" \in s.done,
           st \in QAfterShadow => "shadow" \in s.done,
           st = "QUALIFIED" => "observation" \in s.done
    PROVE  QSupported(QGoto(s, st), p)
BY QGotoFacts DEF QSupported

LEMMA QPublishBacked ==
    ASSUME NEW q \in Quals, NEW s, NEW then, NEW a, QPublish(q, s, then, a),
           QSupported(s, placed[q]),
           then = "run" => s.state \in RunningStages,
           then = "conclude" => s.state = "OBSERVATION_CHECKING"
    PROVE  QBacked
BY DEF QPublish, QBacked, StageKnown, Publishing

LEMMA QCommandKnown ==
    ASSUME RetrainingInv, QualificationsSupported, qcall.at # "idle"
    PROVE  /\ qcall \in QualCalls /\ qcall.snap \in Qualifications /\ qcall.run \in Quals
           /\ QSupported(qcall.snap, placed[qcall.run])
           /\ StageKnown(qcall, placed[qcall.run], auths)
BY DEF RetrainingInv, QualCallTypeOK, NoQualCall, QualCalls, QualificationsSupported

LEMMA QVisibleKnown ==
    ASSUME RetrainingInv, QualificationsSupported, NEW q \in Quals, Visible(q)
    PROVE  out[q] \in Qualifications /\ QSupported(out[q], placed[q])
BY StorageFacts
DEF RetrainingInv, QualStoresOK, QualificationsStored, Visible, QualificationsSupported,
    QSupportedFor

LEMMA QOpeningsBacked ==
    ASSUME RetrainingInv, QualificationsSupported, NEW q \in Quals,
           \/ Start(q) \/ Cancel(q) \/ Retry(q) \/ StartValidation(q) \/ StartObservation(q)
    PROVE  QBacked
<1> USE DEF QAfterTraining, QAfterValidation, QAfterShadow
<1>1. CASE Start(q)
  <2> DEFINE s == [state |-> "CREATED", attempts |-> <<>>, done |-> {}, tail |-> 0,
                   recorded |-> {}, revoked |-> {}]
  <2>1. QPublish(q, s, "check", 0)
    BY <1>1 DEF Start
  <2>2. QSupported(s, placed[q])
    BY DEF QSupported
  <2> QED
    BY <2>1, <2>2, QPublishBacked
<1>2. CASE Cancel(q) \/ Retry(q) \/ StartValidation(q) \/ StartObservation(q)
  <2>1. out[q] \in Qualifications /\ QSupported(out[q], placed[q])
    BY <1>2, QVisibleKnown DEF Cancel, Retry, StartValidation, StartObservation, Ready
  <2>2. PICK st, then :
            /\ QPublish(q, QGoto(out[q], st), then, 0)
            /\ \/ st = "CANCELLED" /\ then = "return"
               \/ st = "TRAINING_PENDING_APPROVAL" /\ then = "return"
               \/ /\ out[q].state = "SHADOW_FAILED"
                  /\ st = "SHADOW_PENDING_APPROVAL" /\ then = "return"
               \/ /\ out[q].state = "VALIDATION_PENDING_APPROVAL"
                  /\ st = "VALIDATING" /\ then = "run"
               \/ /\ out[q].state = "SHADOW_ENROLLED"
                  /\ st = "OBSERVATION_CHECKING" /\ then = "conclude"
    BY <1>2 DEF Cancel, Retry, StartValidation, StartObservation
  <2>3. st \in QualificationStates
    BY <2>2 DEF QualificationStates, Closed, Approvable, Running
  <2>4. QSupported(QGoto(out[q], st), placed[q])
    BY <2>1, <2>2, <2>3, QGotoSupported DEF QSupported
  <2>5. QGoto(out[q], st).state = st
    BY <2>1, <2>3, QGotoFacts
  <2> QED
    BY <2>2, <2>4, <2>5, QPublishBacked DEF RunningStages
<1> QED
  BY <1>1, <1>2

LEMMA QFilingsBacked ==
    ASSUME RetrainingInv, QualificationsSupported, NEW q \in Quals,
           \/ \E stage \in {"training", "shadow"} : Authorize(q, stage)
           \/ \E a \in DOMAIN auths : Revoke(q, a) \/ Claim(q, a)
    PROVE  QBacked
<1>0. out[q] \in Qualifications /\ QSupported(out[q], placed[q])
  BY QVisibleKnown DEF Authorize, Revoke, Claim
<1>1. ASSUME NEW stage \in {"training", "shadow"}, Authorize(q, stage)
      PROVE  QBacked
  <2> DEFINE n == Len(auths) + 1
             s == [out[q] EXCEPT !.tail = n, !.recorded = @ \cup {n}]
  <2>1. qcall' = [at |-> "filed", run |-> q, then |-> "return", auth |-> 0, snap |-> s]
    BY <1>1 DEF Authorize
  <2>2. s.state = out[q].state /\ s.done = out[q].done
    BY <1>0 DEF Qualifications
  <2> HIDE DEF s
  <2> QED
    BY <1>0, <2>1, <2>2 DEF QBacked, QSupported, StageKnown, Publishing
<1>2. ASSUME NEW a \in DOMAIN auths, Revoke(q, a)
      PROVE  QBacked
  <2> DEFINE s == [out[q] EXCEPT !.tail = 0, !.revoked = @ \cup {a}]
  <2>1. \/ qcall' = [at |-> "filed", run |-> q, then |-> "return", auth |-> 0, snap |-> s]
        \/ qcall' = qcall /\ qcall.at = "idle"
    BY <1>2 DEF Revoke, Visible
  <2>2. s.state = out[q].state /\ s.done = out[q].done
    BY <1>0 DEF Qualifications
  <2> HIDE DEF s
  <2> QED
    BY <1>0, <2>1, <2>2 DEF QBacked, QSupported, StageKnown, Publishing
<1>3. ASSUME NEW a \in DOMAIN auths, Claim(q, a)
      PROVE  QBacked
  <2>1. qcall' = [at |-> "claimed", run |-> q, snap |-> out[q], then |-> "idle", auth |-> a]
    BY <1>3 DEF Claim
  <2>2. out[q].state = Pending(auths[a].stage)
    BY <1>3 DEF Claim, Status
  <2>3. auths'[a].stage = auths[a].stage
    <3>1. auths[a] \in Authorizations /\ auths' = [auths EXCEPT ![a].files = @ \cup {"claim"}]
      BY <1>3 DEF Claim, Write, RetrainingInv, AuthsOK
    <3> QED
      BY <3>1 DEF Authorizations
  <2> QED
    BY <1>0, <2>1, <2>2, <2>3 DEF QBacked, StageKnown, Pending, Publishing
<1> QED
  BY <1>1, <1>2, <1>3

LEMMA QChecksBacked ==
    ASSUME RetrainingInv, QualificationsSupported,
           RecordFile \/ StartCheck \/ CheckPasses \/ CheckBlocks \/ StartStage
    PROVE  QBacked
<1>0. /\ qcall.snap \in Qualifications /\ qcall.run \in Quals
      /\ QSupported(qcall.snap, placed[qcall.run])
      /\ StageKnown(qcall, placed[qcall.run], auths)
  BY QCommandKnown DEF RecordFile, StartCheck, CheckPasses, CheckBlocks, StartStage
<1> USE DEF QAfterTraining, QAfterValidation, QAfterShadow
<1>1. CASE RecordFile
  BY <1>0, <1>1, QPublishBacked DEF RecordFile
<1>2. CASE StartCheck \/ CheckPasses \/ CheckBlocks
  <2>1. PICK st, then :
            /\ QPublish(qcall.run, QGoto(qcall.snap, st), then, 0)
            /\ then \in {"check", "return"}
            /\ st \in Checking \cup Blocked
                    \cup {"PREFLIGHT_READY", "DRY_RUN_READY", "TRAINING_PENDING_APPROVAL"}
    BY <1>2
    DEF StartCheck, CheckPasses, CheckBlocks, NextCheck, PassedCheck, BlockedCheck, Checking, Blocked
  <2>2. st \in QualificationStates /\ st \notin QAfterTraining
    BY <2>1 DEF QualificationStates, Approvable, Checking, Blocked
  <2>3. QSupported(QGoto(qcall.snap, st), placed[qcall.run])
    BY <1>0, <2>2, QGotoSupported
  <2> QED
    BY <1>0, <2>1, <2>3, QPublishBacked
<1>3. CASE StartStage
  <2> DEFINE a == QGoto(qcall.snap, "TRAINING")
             t == [a EXCEPT !.attempts = Append(@, day)]
             w == QGoto(qcall.snap, "SHADOW_ENROLLING")
  <2>1. \/ QPublish(qcall.run, t, "run", qcall.auth)
        \/ auths[qcall.auth].stage = "shadow" /\ QPublish(qcall.run, w, "run", qcall.auth)
    BY <1>3 DEF StartStage
  <2>2. {"TRAINING", "SHADOW_ENROLLING"} \subseteq QualificationStates
    BY DEF QualificationStates, Running
  <2>3. CASE QPublish(qcall.run, t, "run", qcall.auth)
    <3>1. QSupported(a, placed[qcall.run]) /\ a \in Qualifications /\ a.state = "TRAINING"
      BY <1>0, <2>2, QGotoFacts, QGotoSupported
    <3> HIDE DEF a
    <3>2. t.state = a.state /\ t.done = a.done
      BY <3>1 DEF Qualifications
    <3>3. QSupported(t, placed[qcall.run])
      BY <3>1, <3>2 DEF QSupported
    <3> HIDE DEF t
    <3> QED
      BY <1>0, <2>3, <3>1, <3>2, <3>3, QPublishBacked DEF RunningStages
  <2>4. CASE auths[qcall.auth].stage = "shadow" /\ QPublish(qcall.run, w, "run", qcall.auth)
    <3>1. qcall.snap.state = "SHADOW_PENDING_APPROVAL"
      BY <1>0, <1>3, <2>4 DEF StartStage, StageKnown
    <3>2. QSupported(w, placed[qcall.run]) /\ w.state = "SHADOW_ENROLLING"
      BY <1>0, <2>2, <3>1, QGotoFacts, QGotoSupported DEF QSupported
    <3> HIDE DEF w
    <3> QED
      BY <1>0, <2>4, <3>2, QPublishBacked DEF RunningStages
  <2> QED
    BY <2>1, <2>3, <2>4
<1> QED
  BY <1>1, <1>2, <1>3

LEMMA QStagesBacked ==
    ASSUME RetrainingInv, QualificationsSupported, ReturnedIsPublished, ExecutesItsOwn,
           RunStage \/ LifecycleLockBusy \/ StageEnds \/ TrainingRaises
    PROVE  QBacked
<1>0. /\ qcall \in QualCalls /\ QSupported(qcall.snap, placed[qcall.run])
      /\ StageKnown(qcall, placed[qcall.run], auths)
  BY QCommandKnown DEF RunStage, LifecycleLockBusy, StageEnds, TrainingRaises
<1>1. PICK at \in {"executing", "working", "failed", "succeeded"} :
        /\ qcall' = [qcall EXCEPT !.at = at]
        /\ at = "executing" => qcall.snap.state = "TRAINING"
        /\ at = "working" => qcall.snap.state # "TRAINING"
        /\ at = "succeeded" => qcall.at \in {"executing", "working"}
        /\ at = "succeeded" /\ qcall.at = "executing" => exec["qualification"].at = "returned"
  BY DEF RunStage, LifecycleLockBusy, StageEnds, TrainingRaises
<1>2. /\ qcall'.at = at /\ qcall'.run = qcall.run /\ qcall'.snap = qcall.snap
  BY <1>0, <1>1 DEF QualCalls
<1>3. qcall.snap.state \in RunningStages
  BY <1>0 DEF RunStage, LifecycleLockBusy, StageEnds, TrainingRaises, StageKnown
<1>4. at = "succeeded" /\ qcall.snap.state = "TRAINING" => placed[qcall.run] = Directories
  <2>1. ASSUME at = "succeeded", qcall.snap.state = "TRAINING"
        PROVE  placed[qcall.run] = Directories
    <3>1. qcall.at = "executing" /\ exec["qualification"].at = "returned"
      BY <1>0, <1>1, <2>1 DEF StageKnown
    <3> QED
      BY <3>1, LifecycleAssumption DEF ExecutesItsOwn, ReturnedIsPublished
  <2> QED
    BY <2>1
<1> QED
  BY <1>0, <1>1, <1>2, <1>3, <1>4 DEF QBacked, StageKnown, Publishing

LEMMA QOutcomesBacked ==
    ASSUME RetrainingInv, QualificationsSupported, Succeed \/ FailStage \/ Conclude
    PROVE  QBacked
<1>0. /\ qcall.snap \in Qualifications /\ qcall.run \in Quals
      /\ QSupported(qcall.snap, placed[qcall.run])
      /\ StageKnown(qcall, placed[qcall.run], auths)
  BY QCommandKnown DEF Succeed, FailStage, Conclude
<1> USE DEF QAfterTraining, QAfterValidation, QAfterShadow
\* A stage leaves its result, and a state that claims no more than this.
<1>1. ASSUME NEW st \in QualificationStates, NEW stage \in Stages,
             QPublish(qcall.run, [QGoto(qcall.snap, st) EXCEPT !.done = @ \cup {stage}], "return", 0),
             stage = "training" => placed[qcall.run] = Directories,
             st \in QAfterTraining => "training" \in qcall.snap.done \cup {stage},
             st \in QAfterValidation => "validation" \in qcall.snap.done \cup {stage},
             st \in QAfterShadow => "shadow" \in qcall.snap.done \cup {stage},
             st = "QUALIFIED" => "observation" \in qcall.snap.done \cup {stage}
      PROVE  QBacked
  <2> DEFINE a == QGoto(qcall.snap, st)
             t == [a EXCEPT !.done = @ \cup {stage}]
  <2>1. a \in Qualifications /\ a.state = st /\ a.done = qcall.snap.done
    BY <1>0, QGotoFacts
  <2>2. QPublish(qcall.run, t, "return", 0)
    BY <1>1
  <2> HIDE DEF a
  <2>3. t.state = st /\ t.done = qcall.snap.done \cup {stage}
    BY <2>1 DEF Qualifications
  <2> HIDE DEF t
  <2>4. QSupported(t, placed[qcall.run])
    BY <1>0, <1>1, <2>3 DEF QSupported
  <2> QED
    BY <1>0, <2>2, <2>4, QPublishBacked
<1>2. CASE Succeed
  <2> DEFINE s == qcall.snap.state
  <2>1. /\ s \in RunningStages /\ (s = "TRAINING" => placed[qcall.run] = Directories)
        /\ QPublish(qcall.run, [QGoto(qcall.snap, AfterStage(s)) EXCEPT !.done = @ \cup {StageOf(s)}],
                    "return", 0)
    BY <1>0, <1>2 DEF Succeed, StageKnown
  <2>2. /\ s = "TRAINING" =>
                AfterStage(s) = "VALIDATION_PENDING_APPROVAL" /\ StageOf(s) = "training"
        /\ s = "VALIDATING" =>
                AfterStage(s) = "SHADOW_PENDING_APPROVAL" /\ StageOf(s) = "validation"
        /\ s = "SHADOW_ENROLLING" =>
                AfterStage(s) = "SHADOW_ENROLLED" /\ StageOf(s) = "shadow"
    BY DEF AfterStage, StageOf
  <2>3. AfterStage(s) \in QualificationStates /\ StageOf(s) \in Stages
    BY <2>1, <2>2 DEF RunningStages, QualificationStates, Approvable, Stages
  <2>4. /\ s \in {"VALIDATING", "SHADOW_ENROLLING"} => "training" \in qcall.snap.done
        /\ s = "SHADOW_ENROLLING" => "validation" \in qcall.snap.done
    BY <1>0 DEF QSupported
  <2> HIDE DEF s
  <2> QED
    BY <1>1, <2>1, <2>2, <2>3, <2>4 DEF RunningStages
<1>3. CASE FailStage
  <2> DEFINE s == qcall.snap.state
             st == AfterFailure(s)
  <2>1. s \in RunningStages /\ QPublish(qcall.run, QGoto(qcall.snap, st), "return", 0)
    BY <1>0, <1>3 DEF FailStage, StageKnown
  <2>2. st \in QualificationStates
    BY DEF AfterFailure, QualificationStates, Failed
  <2>3. QSupported(QGoto(qcall.snap, st), placed[qcall.run])
    BY <1>0, <2>1, <2>2, QGotoSupported DEF QSupported, AfterFailure, RunningStages
  <2> QED
    BY <1>0, <2>1, <2>3, QPublishBacked
<1>4. CASE Conclude
  <2>1. PICK verdict \in {"QUALIFIED", "FAILED"} :
            QPublish(qcall.run, [QGoto(qcall.snap, verdict) EXCEPT !.done = @ \cup {"observation"}],
                     "return", 0)
    BY <1>4 DEF Conclude
  <2>2. qcall.snap.state = "OBSERVATION_CHECKING"
    BY <1>0, <1>4 DEF Conclude, StageKnown
  <2>3. {"training", "validation", "shadow"} \subseteq qcall.snap.done
    BY <1>0, <2>2 DEF QSupported
  <2>4. verdict \in QualificationStates /\ "observation" \in Stages
    BY DEF QualificationStates, Closed, Stages
  <2> QED
    BY <1>1, <2>1, <2>3, <2>4
<1> QED
  BY <1>2, <1>3, <1>4

LEMMA QualifyBacked ==
    ASSUME RetrainingInv, QualificationsSupported, ReturnedIsPublished, ExecutesItsOwn, Qualify
    PROVE  QBacked
<1>1. CASE \E q \in Quals :
            \/ Start(q) \/ Cancel(q) \/ Retry(q) \/ StartValidation(q) \/ StartObservation(q)
  BY <1>1, QOpeningsBacked
<1>2. CASE \E q \in Quals :
            \/ \E stage \in {"training", "shadow"} : Authorize(q, stage)
            \/ \E a \in DOMAIN auths : Revoke(q, a) \/ Claim(q, a)
  BY <1>2, QFilingsBacked
<1>3. CASE RecordFile \/ StartCheck \/ CheckPasses \/ CheckBlocks \/ StartStage
  BY <1>3, QChecksBacked
<1>4. CASE RunStage \/ LifecycleLockBusy \/ StageEnds \/ TrainingRaises
  BY <1>4, QStagesBacked
<1>5. CASE Succeed \/ FailStage \/ Conclude
  BY <1>5, QOutcomesBacked
<1>6. CASE FileWithoutEvent \/ QPublicationFails \/ QInterrupt
  BY <1>6 DEF FileWithoutEvent, QPublicationFails, QInterrupt, QBacked, NoQualCall
<1>7. CASE QMoveIn \/ QPublished
  <2>1. /\ qcall \in QualCalls /\ QSupported(qcall.snap, placed[qcall.run])
        /\ StageKnown(qcall, placed[qcall.run], auths)
        /\ qcall.then \in QContinuations
    BY <1>7, QCommandKnown
    DEF QMoveIn, QPublished, RetrainingInv, QualCallTypeOK, NoQualCall, Publishing
  <2>2. CASE QMoveIn
    <3>1. /\ qcall'.at = "placed" /\ qcall'.run = qcall.run /\ qcall'.snap = qcall.snap
          /\ qcall'.then = qcall.then
      BY <2>1, <2>2 DEF QMoveIn, QualCalls
    <3> QED
      BY <2>1, <2>2, <3>1 DEF QMoveIn, QBacked, StageKnown, Publishing
  <2>3. CASE QPublished
    <3>1. CASE qcall.then = "return"
      BY <2>3, <3>1 DEF QPublished, QBacked, NoQualCall
    <3>2. CASE qcall.then # "return"
      <4>1. /\ qcall'.at = qcall.then /\ qcall'.run = qcall.run /\ qcall'.snap = qcall.snap
            /\ qcall.then \in {"check", "run", "conclude"}
        BY <2>1, <2>3, <3>2 DEF QPublished, QualCalls, QContinuations
      <4> QED
        BY <2>1, <2>3, <4>1 DEF QPublished, QBacked, StageKnown, Publishing
    <3> QED
      BY <3>1, <3>2
  <2> QED
    BY <1>7, <2>2, <2>3
<1> QED
  BY <1>1, <1>2, <1>3, <1>4, <1>5, <1>6, <1>7 DEF Qualify

LEMMA QSupportStays ==
    ASSUME PublishedStays, NEW q \in Quals, NEW s, QSupported(s, placed[q])
    PROVE  QSupported(s, placed'[q])
<1>1. q \in Identities
  BY QualificationAssumption
<1> QED
  BY <1>1 DEF PublishedStays, QSupported

LEMMA QualificationsStep ==
    ASSUME RetrainingInv, QualificationsSupported, ReturnedIsPublished, ExecutesItsOwn,
           [Next]_qualificationVars
    PROVE  QualificationsSupported'
<1>0. RetrainingInv' /\ PublishedStays
  BY StepKeepsInv
<1>9. ASSUME NEW q \in Quals, placed[q] = Directories
      PROVE  placed'[q] = Directories
  <2>1. q \in Identities
    BY QualificationAssumption
  <2> QED
    BY <1>0, <1>9, <2>1 DEF PublishedStays
<1>1. CASE Qualify
  <2>1. PICK q \in Quals : /\ Only(q) /\ QualMoveOn(q)
                           /\ qcall.at # "idle" => qcall.run = q
    BY <1>1, QualifyIsStep, StorageFacts DEF RetrainingInv, QualCallOK, QualStep
  <2>2. /\ out'[q] \in {out[q], bak[q], NoSnapshot} \/ (qcall.at = "moved" /\ out'[q] = qcall.snap)
        /\ bak'[q] \in {out[q], bak[q], NoSnapshot}
    BY <2>1 DEF QualMoveOn, Move, Publishes, Places, Drops, RollsBack
  <2>3. QSupportedFor(q, out[q]) /\ QSupportedFor(q, bak[q])
        /\ (qcall.at # "idle" => QSupported(qcall.snap, placed[q]))
    BY <2>1 DEF QualificationsSupported
  <2>4. out'[q] # NoSnapshot => QSupported(out'[q], placed[q])
    BY <2>2, <2>3 DEF QSupportedFor
  <2>5. bak'[q] # NoSnapshot => QSupported(bak'[q], placed[q])
    BY <2>2, <2>3 DEF QSupportedFor
  <2>6. ASSUME NEW o \in Quals
        PROVE  QSupportedFor(o, out[o])' /\ QSupportedFor(o, bak[o])'
    <3>1. CASE o = q
      BY <1>0, <2>4, <2>5, <3>1, QSupportStays DEF QSupportedFor
    <3>2. CASE o # q
      <4>1. out'[o] = out[o] /\ bak'[o] = bak[o]
        BY <2>1, <3>2, QualificationAssumption DEF Only
      <4> QED
        BY <1>0, <4>1, QSupportStays DEF QSupportedFor, QualificationsSupported
    <3> QED
      BY <3>1, <3>2
  <2>7. ASSUME qcall'.at # "idle"
        PROVE  /\ QSupported(qcall'.snap, placed'[qcall'.run])
               /\ StageKnown(qcall', placed'[qcall'.run], auths')
    <3>1. QBacked
      BY <1>1, QualifyBacked
    <3>2. qcall'.run \in Quals
      BY <1>0, <2>7 DEF RetrainingInv, QualCallTypeOK, NoQualCall, QualCalls
    <3> QED
      BY <1>0, <1>9, <2>7, <3>1, <3>2, QSupportStays DEF QBacked, StageKnown
  <2> QED
    BY <2>6, <2>7 DEF QualificationsSupported
<1>2. CASE \/ (Orchestrate \/ Operate \/ NextDay) /\ UNCHANGED <<auths, qcall>>
           \/ UNCHANGED qualificationVars
  <2>1. /\ qcall' = qcall /\ auths' = auths
        /\ \A q \in Quals : out'[q] = out[q] /\ bak'[q] = bak[q]
    <3>1. CASE Orchestrate /\ UNCHANGED <<auths, qcall>>
      <4>1. \E r \in Requests : Only(r)
        BY <3>1, OrchestrateIsStep, StorageFacts DEF RetrainingInv, CommandOK, CommandStep
      <4>2. Quals \subseteq Owners /\ Requests \cap Quals = {}
        BY QualificationAssumption
      <4> QED
        BY <3>1, <4>1, <4>2 DEF Only
    <3>2. CASE (Operate \/ NextDay) /\ UNCHANGED <<auths, qcall>>
      BY <3>2, OperateSurroundings DEF storeVars
    <3>3. CASE UNCHANGED qualificationVars
      BY <3>3 DEF qualificationVars, lifecycleVars, storeVars
    <3> QED
      BY <1>2, <3>1, <3>2, <3>3
  <2>2. \A q \in Quals : QSupportedFor(q, out[q])' /\ QSupportedFor(q, bak[q])'
    BY <1>0, <2>1, QSupportStays DEF QualificationsSupported, QSupportedFor
  <2>3. ASSUME qcall.at # "idle"
        PROVE  /\ QSupported(qcall.snap, placed'[qcall.run])
               /\ StageKnown(qcall, placed'[qcall.run], auths)
    <3>1. /\ qcall.run \in Quals /\ QSupported(qcall.snap, placed[qcall.run])
          /\ StageKnown(qcall, placed[qcall.run], auths)
      BY <2>3, QCommandKnown
    <3> QED
      BY <1>0, <1>9, <3>1, QSupportStays DEF StageKnown
  <2> QED
    BY <2>1, <2>2, <2>3 DEF QualificationsSupported
<1> QED
  BY <1>1, <1>2 DEF Next

-----------------------------------------------------------------------------

EvidenceInv ==
    /\ RetrainingInv /\ ReturnedIsPublished /\ ExecutesItsOwn
    /\ LifecyclesSupported /\ QualificationsSupported

LEMMA InitEvidenceInv == ASSUME QualificationInit PROVE EvidenceInv
<1>1. RetrainingInv
  BY InitRetrainingInv
<1>2. ReturnedIsPublished
  BY DEF QualificationInit, LifecycleInit, ExecutionInit, ReturnedIsPublished, Idle
<1>3. call.at = "idle" /\ qcall.at = "idle"
  BY DEF QualificationInit, LifecycleInit, NoCall, NoQualCall
<1>4. \A o \in Requests \cup Quals : out[o] = NoSnapshot /\ bak[o] = NoSnapshot
  BY LifecycleAssumption, QualificationAssumption
  DEF QualificationInit, LifecycleInit, StoreInit
<1> QED
  BY <1>1, <1>2, <1>3, <1>4
  DEF EvidenceInv, ExecutesItsOwn, LifecyclesSupported, QualificationsSupported, SupportedFor,
      QSupportedFor

\* Promotion evidence is ready, and a qualification qualified, only if every stage has
\* left its result and the candidate is published as a whole (orchestration/service.py,
\* qualification/service.py).
THEOREM EvidenceIsAlwaysBacked == Spec => []EvidenceIsBacked
<1>1. QualificationInit => EvidenceInv
  BY InitEvidenceInv
<1>2. EvidenceInv /\ [Next]_qualificationVars => EvidenceInv'
  <2> SUFFICES ASSUME EvidenceInv, [Next]_qualificationVars PROVE EvidenceInv'
    OBVIOUS
  <2>1. RetrainingInv'
    BY StepKeepsInv DEF EvidenceInv
  <2>2. ReturnedIsPublished'
    BY StepKeepsInv, ReturnedStep DEF EvidenceInv, RetrainingInv, Surroundings
  <2>3. ExecutesItsOwn' /\ LifecyclesSupported' /\ QualificationsSupported'
    BY OwnStep, LifecyclesStep, QualificationsStep DEF EvidenceInv
  <2> QED
    BY <2>1, <2>2, <2>3 DEF EvidenceInv
<1>3. EvidenceInv => EvidenceIsBacked
  <2> SUFFICES ASSUME EvidenceInv PROVE EvidenceIsBacked
    OBVIOUS
  <2>1. ASSUME NEW r \in Requests, out[r] # NoSnapshot
        PROVE  /\ out[r].state = "EVIDENCE_READY" =>
                    out[r].done = Stages /\ out[r].mature >= Required /\ placed[r] = Directories
               /\ out[r].status = "READY_FOR_PREPARATION" => out[r].state = "EVIDENCE_READY"
    <3>1. out[r] \in Lifecycles /\ Supported(out[r], placed[r])
      BY <2>1, StorageFacts
      DEF EvidenceInv, RetrainingInv, StoresOK, LifecyclesStored, LifecyclesSupported, SupportedFor
    <3>2. out[r].done \subseteq Stages /\ Required \in Nat
      BY <3>1, LifecycleAssumption DEF Lifecycles
    <3> QED
      BY <3>1, <3>2
      DEF Supported, Stages, AfterTraining, AfterValidation, Enrolled, Evaluable
  <2>2. ASSUME NEW q \in Quals, out[q] # NoSnapshot, out[q].state = "QUALIFIED"
        PROVE  out[q].done = Stages /\ placed[q] = Directories
    <3>1. out[q] \in Qualifications /\ QSupported(out[q], placed[q])
      BY <2>2, StorageFacts
      DEF EvidenceInv, RetrainingInv, QualStoresOK, QualificationsStored, QualificationsSupported,
          QSupportedFor
    <3>2. out[q].done \subseteq Stages
      BY <3>1 DEF Qualifications
    <3> QED
      BY <2>2, <3>1, <3>2
      DEF QSupported, Stages, QAfterTraining, QAfterValidation, QAfterShadow
  <2> QED
    BY <2>1, <2>2 DEF EvidenceIsBacked
<1> QED
  BY <1>1, <1>2, <1>3, PTL DEF Spec

-----------------------------------------------------------------------------
(***************************************************************************)
(* An authorization that is claimed is paid with, once: the command that   *)
(* claimed it owes one execution at most, and none is begun that is not    *)
(* owed.                                                                   *)
(***************************************************************************)

Claims(q) == {a \in AuthorizationsOf(q, "training") : "claim" \in auths[a].files}

\* The command has a claim on an execution that it has not begun yet.
Owed ==
    \/ qcall.at = "claimed" /\ auths[qcall.auth].stage = "training"
    \/ /\ qcall.at = "run" \/ (qcall.at \in Publishing /\ qcall.then = "run")
       /\ qcall.snap.state = "TRAINING"

ExecutionsArePaid ==
    \A q \in Quals :
        /\ begun[q] <= Cardinality(Claims(q))
        /\ Owed /\ qcall.run = q => begun[q] < Cardinality(Claims(q))

RecordedIn(s) == IF s = NoSnapshot THEN {} ELSE s.recorded

\* The command forgets no authorization that was on record when it began.
RecordsGrow ==
    qcall.at # "idle" =>
        IF qcall.at \in Publishing THEN RecordedIn(bak[qcall.run]) \subseteq qcall.snap.recorded
        ELSE RecordedIn(out[qcall.run]) \subseteq qcall.snap.recorded

OnRecord(q, a) == a \in RecordedIn(out[q]) \cup RecordedIn(bak[q])

\* A claimed authorization is not revoked, and on record: while a publication may
\* still be rolled back, in the backup.
ClaimsAreValid ==
    \A a \in DOMAIN auths :
        "claim" \in auths[a].files =>
            /\ "revocation" \notin auths[a].files
            /\ OnRecord(auths[a].of, a)
            /\ qcall.at \in Publishing /\ qcall.run = auths[a].of =>
                    a \in RecordedIn(bak[auths[a].of])

AuthorizationInv == RetrainingInv /\ ExecutionsArePaid /\ RecordsGrow /\ ClaimsAreValid

LEMMA AuthorizationsAreOf ==
    ASSUME AuthsOK PROVE \A a \in DOMAIN auths : auths[a].of \in Quals
<1>1. \A a \in DOMAIN auths : auths[a] \in Authorizations
  BY DEF AuthsOK
<1> QED
  BY <1>1 DEF Authorizations

LEMMA ClaimsFinite ==
    ASSUME AuthsOK, NEW q
    PROVE  IsFiniteSet(Claims(q)) /\ Cardinality(Claims(q)) \in Nat
<1>1. Len(auths) \in Nat /\ DOMAIN auths = 1..Len(auths)
  BY DEF AuthsOK
<1>2. IsFiniteSet(1..Len(auths)) /\ Claims(q) \in SUBSET (1..Len(auths))
  BY <1>1, FS_Interval DEF Claims, AuthorizationsOf
<1> QED
  BY <1>2, FS_Subset, FS_CardinalityType

-----------------------------------------------------------------------------
(***************************************************************************)
(* Steps that change no authorization and begin no execution.              *)
(***************************************************************************)

QuietStep ==
    \/ \E q \in Quals :
        Start(q) \/ Cancel(q) \/ Retry(q) \/ StartValidation(q) \/ StartObservation(q)
    \/ RecordFile \/ FileWithoutEvent \/ StartCheck \/ CheckPasses \/ CheckBlocks
    \/ StartStage \/ LifecycleLockBusy \/ StageEnds \/ TrainingRaises \/ Conclude
    \/ QMoveIn \/ QPublicationFails \/ QPublished \/ QInterrupt
    \/ RunStage /\ qcall.snap.state # "TRAINING"

\* What is owed after a quiet step was owed before.
LEMMA QuietOwes ==
    ASSUME RetrainingInv, QuietStep
    PROVE  /\ UNCHANGED <<auths, begun>>
           /\ Owed' => Owed /\ qcall'.run = qcall.run
<1>1. UNCHANGED <<auths, begun>>
  BY DEF QuietStep, Start, Cancel, Retry, StartValidation, StartObservation, RecordFile,
         FileWithoutEvent, StartCheck, CheckPasses, CheckBlocks, StartStage, LifecycleLockBusy,
         StageEnds, TrainingRaises, Conclude, QMoveIn, QPublicationFails, QPublished, QInterrupt,
         RunStage, controlVars, lifecycleVars
<1>2. ASSUME NEW q, NEW s, NEW then, NEW a, QPublish(q, s, then, a),
             then # "run" \/ s.state # "TRAINING"
      PROVE  ~Owed'
  BY <1>2 DEF QPublish, Owed, Publishing
<1>0. qcall'.at \notin {"claimed", "run", "moved", "placed"} => ~Owed'
  BY DEF Owed, Publishing
<1>3. CASE \/ \E q \in Quals :
                Start(q) \/ Cancel(q) \/ Retry(q) \/ StartObservation(q)
           \/ RecordFile \/ StartCheck \/ CheckPasses \/ CheckBlocks \/ Conclude
  <2>1. \E q, s, then, a : QPublish(q, s, then, a) /\ then # "run"
    BY <1>3
    DEF Start, Cancel, Retry, StartObservation, RecordFile, StartCheck, CheckPasses, CheckBlocks,
        Conclude
  <2> QED
    BY <1>1, <1>2, <2>1
<1>4. ASSUME NEW q \in Quals, StartValidation(q)
      PROVE  ~Owed'
  <2>1. out[q] \in Qualifications
    BY <1>4, StorageFacts
    DEF RetrainingInv, QualStoresOK, QualificationsStored, StartValidation, Ready, Visible
  <2>2. QGoto(out[q], "VALIDATING").state = "VALIDATING"
    BY <2>1, QGotoFacts DEF QualificationStates, Running
  <2> QED
    BY <1>2, <1>4, <2>2 DEF StartValidation
<1>5. CASE FileWithoutEvent \/ QPublicationFails \/ QInterrupt
  BY <1>0, <1>1, <1>5 DEF FileWithoutEvent, QPublicationFails, QInterrupt, NoQualCall
<1>6. CASE StartStage
  <2>1. qcall.snap \in Qualifications
    BY <1>6 DEF StartStage, RetrainingInv, QualCallTypeOK, NoQualCall, QualCalls
  <2>2. QGoto(qcall.snap, "SHADOW_ENROLLING").state = "SHADOW_ENROLLING"
    BY <2>1, QGotoFacts DEF QualificationStates, Running
  <2>3. CASE auths[qcall.auth].stage = "training"
    <3>1. qcall'.run = qcall.run
      BY <1>6 DEF StartStage, QPublish
    <3> QED
      BY <1>1, <1>6, <2>3, <3>1 DEF StartStage, Owed
  <2>4. CASE auths[qcall.auth].stage # "training"
    BY <1>1, <1>2, <1>6, <2>2, <2>4 DEF StartStage
  <2> QED
    BY <1>1, <2>3, <2>4
<1>7. CASE \/ LifecycleLockBusy \/ StageEnds \/ TrainingRaises \/ QMoveIn \/ QPublished
           \/ RunStage /\ qcall.snap.state # "TRAINING"
  <2>1. qcall \in QualCalls /\ (qcall.at \in Publishing => qcall.then \in QContinuations)
    BY <1>7
    DEF LifecycleLockBusy, StageEnds, TrainingRaises, QMoveIn, QPublished, RunStage,
        RetrainingInv, QualCallTypeOK, NoQualCall
  <2>2. CASE LifecycleLockBusy \/ StageEnds \/ TrainingRaises \/ (RunStage /\ qcall.snap.state # "TRAINING")
    <3>1. PICK at \in {"failed", "succeeded", "working"} : qcall' = [qcall EXCEPT !.at = at]
      BY <2>2 DEF LifecycleLockBusy, StageEnds, TrainingRaises, RunStage
    <3>2. qcall'.at = at
      BY <2>1, <3>1 DEF QualCalls
    <3> QED
      BY <1>0, <1>1, <3>2
  <2>3. CASE QMoveIn
    <3>1. /\ qcall'.at = "placed" /\ qcall'.run = qcall.run /\ qcall'.snap = qcall.snap
          /\ qcall'.then = qcall.then
      BY <2>1, <2>3 DEF QMoveIn, QualCalls
    <3> QED
      BY <1>1, <2>3, <3>1 DEF QMoveIn, Owed, Publishing
  <2>4. CASE QPublished
    <3>1. CASE qcall.then = "return"
      BY <1>0, <1>1, <2>4, <3>1 DEF QPublished, NoQualCall
    <3>2. CASE qcall.then # "return"
      <4>1. /\ qcall'.at = qcall.then /\ qcall'.run = qcall.run /\ qcall'.snap = qcall.snap
            /\ qcall.then \in {"check", "run", "conclude"} /\ qcall.at = "placed"
        BY <2>1, <2>4, <3>2 DEF QPublished, QualCalls, QContinuations, Publishing
      <4> QED
        BY <1>1, <4>1 DEF Owed, Publishing
    <3> QED
      BY <3>1, <3>2
  <2> QED
    BY <1>7, <2>2, <2>3, <2>4
<1> QED
  BY <1>1, <1>3, <1>4, <1>5, <1>6, <1>7 DEF QuietStep

LEMMA QuietOrNot ==
    ASSUME Qualify
    PROVE  \/ QuietStep
           \/ RunStage /\ qcall.snap.state = "TRAINING"
           \/ \E q \in Quals, stage \in {"training", "shadow"} : Authorize(q, stage)
           \/ \E q \in Quals, a \in DOMAIN auths : Revoke(q, a) \/ Claim(q, a)
           \/ Succeed \/ FailStage
BY DEF Qualify, QuietStep

\* Neither does what the other side does.
LEMMA OthersKeepAuthorizations ==
    ASSUME RetrainingInv,
           \/ (Orchestrate \/ Operate \/ NextDay) /\ UNCHANGED <<auths, qcall>>
           \/ UNCHANGED qualificationVars
    PROVE  /\ UNCHANGED <<auths, qcall>>
           /\ \A q \in Quals : out'[q] = out[q] /\ bak'[q] = bak[q] /\ begun'[q] = begun[q]
<1>1. CASE Orchestrate /\ UNCHANGED <<auths, qcall>>
  <2>1. \E r \in Requests : Only(r)
    BY <1>1, OrchestrateIsStep, StorageFacts DEF RetrainingInv, CommandOK, CommandStep
  <2>2. Quals \subseteq Owners /\ Requests \cap Quals = {}
    BY QualificationAssumption
  <2> QED
    BY <1>1, <2>1, <2>2 DEF Only
<1>2. CASE (Operate \/ NextDay) /\ UNCHANGED <<auths, qcall>>
  BY <1>2, OperateSurroundings DEF storeVars
<1>3. CASE UNCHANGED qualificationVars
  BY <1>3 DEF qualificationVars, lifecycleVars, storeVars, controlVars
<1> QED
  BY <1>1, <1>2, <1>3

-----------------------------------------------------------------------------
(***************************************************************************)
(* Executions are paid.                                                    *)
(***************************************************************************)

LEMMA PaidStep ==
    ASSUME RetrainingInv, ExecutionsArePaid, [Next]_qualificationVars
    PROVE  ExecutionsArePaid'
<1>0. /\ AuthsOK /\ AuthsOK' /\ begun \in [Owners -> Nat] /\ Quals \subseteq Owners
      /\ Len(auths) \in Nat /\ DOMAIN auths = 1..Len(auths)
  BY StepKeepsInv, QualificationAssumption DEF RetrainingInv, StorageOK, AuthsOK
<1>1. \A q \in Quals : begun[q] \in Nat /\ Cardinality(Claims(q)) \in Nat
  BY <1>0, ClaimsFinite
\* The same claims, nothing begun, and nothing newly owed.
<1>2. ASSUME \A q \in Quals : begun'[q] = begun[q] /\ Claims(q)' = Claims(q),
             Owed' => Owed /\ qcall'.run = qcall.run
      PROVE  ExecutionsArePaid'
  BY <1>2 DEF ExecutionsArePaid
<1>3. auths' = auths => \A q \in Quals : Claims(q)' = Claims(q)
  BY DEF Claims, AuthorizationsOf
<1>4. CASE QuietStep
  BY <1>2, <1>3, <1>4, QuietOwes
<1>5. CASE RunStage /\ qcall.snap.state = "TRAINING"
  <2>1. /\ begun' = [begun EXCEPT ![qcall.run] = @ + 1] /\ auths' = auths
        /\ qcall.at = "run" /\ qcall' = [qcall EXCEPT !.at = "executing"]
    BY <1>5 DEF RunStage
  <2>2. Owed /\ qcall.run \in Quals /\ qcall'.at = "executing"
    BY <1>5, <2>1 DEF Owed, RetrainingInv, QualCallTypeOK, NoQualCall, QualCalls
  <2>3. ~Owed'
    BY <2>2 DEF Owed, Publishing
  <2>4. ASSUME NEW q \in Quals PROVE begun'[q] <= Cardinality(Claims(q)')
    <3>1. CASE q = qcall.run
      <4>1. begun[q] < Cardinality(Claims(q)) /\ begun'[q] = begun[q] + 1
        BY <1>0, <2>1, <2>2, <3>1 DEF ExecutionsArePaid
      <4> QED
        BY <1>1, <1>3, <2>1, <4>1
    <3>2. CASE q # qcall.run
      <4>1. begun'[q] = begun[q]
        BY <1>0, <2>1, <3>2
      <4> QED
        BY <1>3, <2>1, <4>1 DEF ExecutionsArePaid
    <3> QED
      BY <3>1, <3>2
  <2> QED
    BY <2>3, <2>4 DEF ExecutionsArePaid
<1>6. ASSUME NEW p \in Quals, NEW stage \in {"training", "shadow"}, Authorize(p, stage)
      PROVE  ExecutionsArePaid'
  <2>1. PICK until : auths' = Append(auths, [of |-> p, stage |-> stage, files |-> {},
                                             until |-> until])
    BY <1>6 DEF Authorize
  <2>2. /\ DOMAIN auths' = 1..(Len(auths) + 1)
        /\ \A a \in DOMAIN auths : auths'[a] = auths[a]
        /\ auths'[Len(auths) + 1].files = {}
    BY <1>0, <2>1 DEF AuthsOK
  <2>3. ASSUME NEW q \in Quals PROVE Claims(q)' = Claims(q)
    <3>1. ASSUME NEW a PROVE a \in Claims(q)' <=> a \in Claims(q)
      <4>1. CASE a \in DOMAIN auths
        BY <1>0, <2>2, <4>1 DEF Claims, AuthorizationsOf
      <4>2. CASE a \notin DOMAIN auths
        <5>1. a \in DOMAIN auths' => a = Len(auths) + 1
          BY <1>0, <2>2, <4>2
        <5> QED
          BY <2>2, <4>2, <5>1 DEF Claims, AuthorizationsOf
      <4> QED
        BY <4>1, <4>2
    <3> QED
      BY <3>1
  <2>4. qcall'.at = "filed" /\ begun' = begun
    BY <1>6 DEF Authorize, lifecycleVars, controlVars
  <2>5. ~Owed'
    BY <2>4 DEF Owed, Publishing
  <2> QED
    BY <1>2, <2>3, <2>4, <2>5
\* Another file than a claim.
<1>7. ASSUME NEW a \in DOMAIN auths, NEW files \in SUBSET (Files \ {"claim"}), Write(a, files)
      PROVE  \A q \in Quals : Claims(q)' = Claims(q)
  <2>0. files \in SUBSET Files
    OBVIOUS
  <2>1. /\ DOMAIN auths' = DOMAIN auths
        /\ \A b \in DOMAIN auths :
            /\ auths'[b].of = auths[b].of /\ auths'[b].stage = auths[b].stage
            /\ auths'[b].files = IF b = a THEN auths[b].files \cup files ELSE auths[b].files
    BY <1>0, <1>7, <2>0, WriteFacts
  <2>2. ASSUME NEW b \in DOMAIN auths
        PROVE  "claim" \in auths'[b].files <=> "claim" \in auths[b].files
    <3>0. "claim" \notin files
      BY <1>7
    <3>1. CASE b = a
      <4>1. auths'[b].files = auths[b].files \cup files
        BY <2>1, <3>1
      <4> QED
        BY <3>0, <4>1
    <3>2. CASE b # a
      <4>1. auths'[b].files = auths[b].files
        BY <2>1, <2>2, <3>2
      <4> QED
        BY <4>1
    <3> QED
      BY <3>1, <3>2
  <2>3. ASSUME NEW q \in Quals PROVE Claims(q)' = Claims(q)
    <3>1. ASSUME NEW b PROVE b \in Claims(q)' <=> b \in Claims(q)
      BY <2>1, <2>2 DEF Claims, AuthorizationsOf
    <3> QED
      BY <3>1
  <2> QED
    BY <2>3
<1>8. ASSUME NEW p \in Quals, NEW a \in DOMAIN auths, Revoke(p, a)
      PROVE  ExecutionsArePaid'
  <2>1. Write(a, {"revocation"}) /\ begun' = begun /\ {"revocation"} \in SUBSET (Files \ {"claim"})
    BY <1>8 DEF Revoke, lifecycleVars, controlVars, Files
  <2>2. qcall'.at \in {"filed", "idle"}
    <3>1. qcall.at = "idle"
      BY <1>8 DEF Revoke, Visible
    <3>2. qcall' = qcall \/ qcall'.at = "filed"
      BY <1>8 DEF Revoke
    <3> QED
      BY <3>1, <3>2
  <2>3. ~Owed'
    BY <2>2 DEF Owed, Publishing
  <2> QED
    BY <1>2, <1>7, <2>1, <2>3
<1>9. CASE Succeed \/ FailStage
  <2>1. qcall \in QualCalls /\ qcall.auth \in Nat /\ qcall.auth <= Len(auths)
    BY <1>9 DEF Succeed, FailStage, RetrainingInv, QualCallTypeOK, NoQualCall, QualCalls
  <2>2. begun' = begun /\ (Receipt \/ SecondReceipt) /\ \E s : QPublish(qcall.run, s, "return", 0)
    BY <1>9 DEF Succeed, FailStage, controlVars
  <2>3. ~Owed'
    BY <2>2 DEF QPublish, Owed, Publishing
  <2>4. \A q \in Quals : Claims(q)' = Claims(q)
    <3>1. CASE qcall.auth = 0
      BY <1>3, <2>2, <3>1 DEF Receipt, SecondReceipt
    <3>2. CASE qcall.auth # 0
      <4>1. PICK files \in SUBSET (Files \ {"claim"}) : Write(qcall.auth, files)
        BY <2>2, <3>2 DEF Receipt, SecondReceipt, Files
      <4> QED
        BY <1>0, <1>7, <2>1, <3>2, <4>1
    <3> QED
      BY <3>1, <3>2
  <2> QED
    BY <1>2, <2>2, <2>3, <2>4
<1>10. ASSUME NEW p \in Quals, NEW a \in DOMAIN auths, Claim(p, a)
       PROVE  ExecutionsArePaid'
  <2>1. /\ Write(a, {"claim"}) /\ begun' = begun /\ auths[a].of = p /\ "claim" \notin auths[a].files
        /\ qcall'.at = "claimed" /\ qcall'.run = p /\ qcall'.auth = a
    BY <1>10 DEF Claim, Status, lifecycleVars, controlVars
  <2>2. /\ DOMAIN auths' = DOMAIN auths
        /\ \A b \in DOMAIN auths :
            /\ auths'[b].of = auths[b].of /\ auths'[b].stage = auths[b].stage
            /\ auths'[b].files = IF b = a THEN auths[b].files \cup {"claim"} ELSE auths[b].files
    BY <1>0, <2>1, WriteFacts DEF Files
  <2>3. ASSUME NEW q \in Quals
        PROVE  Claims(q)' = IF q = p /\ auths[a].stage = "training" THEN Claims(q) \cup {a}
                            ELSE Claims(q)
    <3>1. \A b \in DOMAIN auths :
            "claim" \in auths'[b].files <=> b = a \/ "claim" \in auths[b].files
      BY <2>2
    <3>2. ASSUME NEW b
          PROVE  b \in Claims(q)' <=>
                    b \in Claims(q) \/ (q = p /\ auths[a].stage = "training" /\ b = a)
      BY <2>1, <2>2, <3>1, SMTT(10), ZenonT(60) DEF Claims, AuthorizationsOf
    <3> QED
      BY <3>2
  <2>4. Owed' <=> auths[a].stage = "training"
    BY <2>1, <2>2 DEF Owed, Publishing
  <2>5. ASSUME NEW q \in Quals
        PROVE  /\ begun'[q] <= Cardinality(Claims(q)')
               /\ Owed' /\ qcall'.run = q => begun'[q] < Cardinality(Claims(q)')
    <3>1. CASE q = p /\ auths[a].stage = "training"
      <4>1. IsFiniteSet(Claims(q)) /\ a \notin Claims(q)
        BY <1>0, <2>1, ClaimsFinite DEF Claims
      <4>2. Cardinality(Claims(q)') = Cardinality(Claims(q)) + 1
        BY <2>3, <3>1, <4>1, FS_AddElement
      <4> QED
        BY <1>1, <2>1, <4>2 DEF ExecutionsArePaid
    <3>2. CASE ~(q = p /\ auths[a].stage = "training")
      BY <2>1, <2>3, <2>4, <3>2 DEF ExecutionsArePaid
    <3> QED
      BY <3>1, <3>2
  <2> QED
    BY <2>5 DEF ExecutionsArePaid
<1>11. CASE \/ (Orchestrate \/ Operate \/ NextDay) /\ UNCHANGED <<auths, qcall>>
            \/ UNCHANGED qualificationVars
  <2>1. /\ auths' = auths /\ qcall' = qcall /\ \A q \in Quals : begun'[q] = begun[q]
    BY <1>11, OthersKeepAuthorizations
  <2>2. Owed' => Owed
    BY <2>1 DEF Owed
  <2> QED
    BY <1>2, <1>3, <2>1, <2>2
<1> QED
  BY <1>4, <1>5, <1>6, <1>8, <1>9, <1>10, <1>11, QuietOrNot DEF Next

-----------------------------------------------------------------------------
(***************************************************************************)
(* Claimed authorizations are valid and on record.                         *)
(***************************************************************************)

\* The snapshot a command publishes records what it has found on record.
LEMMA RecordsForward ==
    ASSUME RetrainingInv, Qualify, qcall'.at # "idle"
    PROVE  IF qcall.at = "idle" THEN RecordedIn(out[qcall'.run]) \subseteq qcall'.snap.recorded
           ELSE qcall.snap.recorded \subseteq qcall'.snap.recorded
<1>1. \A q \in Quals : out[q] = NoSnapshot \/ out[q] \in Qualifications
  BY StorageFacts DEF RetrainingInv, QualStoresOK, QualificationsStored
<1>2. ASSUME NEW q \in Quals, Start(q)
      PROVE  qcall.at = "idle" /\ qcall'.run = q /\ out[q] = NoSnapshot
  BY <1>2 DEF Start, QPublish
<1>3. ASSUME NEW q \in Quals, Cancel(q) \/ Retry(q) \/ StartValidation(q) \/ StartObservation(q)
      PROVE  /\ qcall.at = "idle" /\ qcall'.run = q
             /\ RecordedIn(out[q]) \subseteq qcall'.snap.recorded
  <2>1. qcall.at = "idle" /\ out[q] \in Qualifications
    BY <1>1, <1>3 DEF Cancel, Retry, StartValidation, StartObservation, Ready, Visible
  <2>2. PICK st \in QualificationStates : \E then : QPublish(q, QGoto(out[q], st), then, 0)
    BY <1>3
    DEF Cancel, Retry, StartValidation, StartObservation, QualificationStates, Closed, Approvable,
        Running
  <2> QED
    BY <2>1, <2>2, QGotoFacts DEF QPublish, RecordedIn
<1>4. ASSUME NEW q \in Quals, NEW stage \in {"training", "shadow"}, Authorize(q, stage)
      PROVE  /\ qcall.at = "idle" /\ qcall'.run = q
             /\ RecordedIn(out[q]) \subseteq qcall'.snap.recorded
  <2> DEFINE n == Len(auths) + 1
             s == [out[q] EXCEPT !.tail = n, !.recorded = @ \cup {n}]
  <2>1. /\ qcall.at = "idle" /\ out[q] \in Qualifications /\ qcall'.run = q /\ qcall'.snap = s
    BY <1>1, <1>4 DEF Authorize, Visible
  <2>2. s.recorded = out[q].recorded \cup {n}
    BY <2>1 DEF Qualifications
  <2> QED
    BY <2>1, <2>2 DEF RecordedIn
<1>5. ASSUME NEW q \in Quals, NEW a \in DOMAIN auths, Revoke(q, a)
      PROVE  /\ qcall.at = "idle" /\ qcall'.run = q
             /\ RecordedIn(out[q]) \subseteq qcall'.snap.recorded
  <2> DEFINE s == [out[q] EXCEPT !.tail = 0, !.revoked = @ \cup {a}]
  <2>1. qcall.at = "idle" /\ out[q] \in Qualifications
    BY <1>1, <1>5 DEF Revoke, Visible
  <2>2. qcall'.run = q /\ qcall'.snap = s
    <3>1. \/ qcall' = qcall
          \/ qcall' = [at |-> "filed", run |-> q, then |-> "return", auth |-> 0, snap |-> s]
      BY <1>5 DEF Revoke
    <3> QED
      BY <2>1, <3>1
  <2>3. s.recorded = out[q].recorded
    BY <2>1 DEF Qualifications
  <2> QED
    BY <2>1, <2>2, <2>3 DEF RecordedIn
<1>6. ASSUME NEW q \in Quals, NEW a \in DOMAIN auths, Claim(q, a)
      PROVE  /\ qcall.at = "idle" /\ qcall'.run = q
             /\ RecordedIn(out[q]) \subseteq qcall'.snap.recorded
  BY <1>6 DEF Claim, Visible, RecordedIn
<1>7. CASE \/ RecordFile \/ StartCheck \/ CheckPasses \/ CheckBlocks \/ StartStage
           \/ Succeed \/ FailStage \/ Conclude
  <2>1. qcall.at # "idle" /\ qcall.snap \in Qualifications
    BY <1>7
    DEF RecordFile, StartCheck, CheckPasses, CheckBlocks, StartStage, Succeed, FailStage, Conclude,
        RetrainingInv, QualCallTypeOK, NoQualCall, QualCalls
  <2>2. \A st \in QualificationStates :
            /\ QGoto(qcall.snap, st) \in Qualifications
            /\ QGoto(qcall.snap, st).recorded = qcall.snap.recorded
    BY <2>1, QGotoFacts
  <2>3. ASSUME NEW s, NEW q, NEW then, NEW a, QPublish(q, s, then, a),
               s.recorded = qcall.snap.recorded
        PROVE  qcall.snap.recorded \subseteq qcall'.snap.recorded
    BY <2>3 DEF QPublish
  <2>4. CASE RecordFile
    BY <2>3, <2>4 DEF RecordFile
  <2>5. CASE StartCheck \/ CheckPasses \/ CheckBlocks \/ FailStage
    <3>1. PICK st \in QualificationStates :
            \E q, then, a : QPublish(q, QGoto(qcall.snap, st), then, a)
      BY <2>5
      DEF StartCheck, CheckPasses, CheckBlocks, FailStage, NextCheck, PassedCheck, BlockedCheck,
          AfterFailure, QualificationStates, Checking, Blocked, Approvable, Failed
    <3>2. QGoto(qcall.snap, st).recorded = qcall.snap.recorded
      BY <2>2, <3>1
    <3> QED
      BY <2>1, <3>1, <3>2 DEF QPublish
  <2>6. CASE StartStage
    <3>1. {"TRAINING", "SHADOW_ENROLLING"} \subseteq QualificationStates
      BY DEF QualificationStates, Running
    <3>2. ASSUME NEW s \in Qualifications
          PROVE  [s EXCEPT !.attempts = Append(@, day)].recorded = s.recorded
      BY DEF Qualifications
    <3> QED
      BY <2>2, <2>3, <2>6, <3>1, <3>2 DEF StartStage
  <2>7. CASE Succeed \/ Conclude
    <3>1. PICK st \in QualificationStates : \E stage :
            QPublish(qcall.run, [QGoto(qcall.snap, st) EXCEPT !.done = @ \cup {stage}], "return", 0)
      <4>1. {AfterStage(qcall.snap.state), "QUALIFIED", "FAILED"} \subseteq QualificationStates
        BY DEF AfterStage, QualificationStates, Approvable, Closed
      <4> QED
        BY <2>7, <4>1 DEF Succeed, Conclude
    <3>2. PICK stage :
            QPublish(qcall.run, [QGoto(qcall.snap, st) EXCEPT !.done = @ \cup {stage}], "return", 0)
      BY <3>1
    <3> DEFINE t == [QGoto(qcall.snap, st) EXCEPT !.done = @ \cup {stage}]
    <3>3. t.recorded = qcall.snap.recorded
      <4>1. ASSUME NEW s \in Qualifications
            PROVE  [s EXCEPT !.done = @ \cup {stage}].recorded = s.recorded
        BY DEF Qualifications
      <4> QED
        BY <2>2, <3>1, <4>1
    <3>4. qcall'.snap = t
      BY <3>2 DEF QPublish
    <3> HIDE DEF t
    <3> QED
      BY <2>1, <3>3, <3>4
  <2> QED
    BY <1>7, <2>1, <2>4, <2>5, <2>6, <2>7
<1>8. CASE RunStage \/ LifecycleLockBusy \/ StageEnds \/ TrainingRaises \/ QMoveIn \/ QPublished
  <2>1. qcall \in QualCalls /\ qcall.at # "idle"
    BY <1>8
    DEF RunStage, LifecycleLockBusy, StageEnds, TrainingRaises, QMoveIn, QPublished,
        RetrainingInv, QualCallTypeOK, NoQualCall
  <2>2. (\E at : qcall' = [qcall EXCEPT !.at = at]) \/ qcall' = NoQualCall
    BY <1>8 DEF RunStage, LifecycleLockBusy, StageEnds, TrainingRaises, QMoveIn, QPublished
  <2> QED
    BY <2>1, <2>2 DEF QualCalls, NoQualCall
<1>9. CASE FileWithoutEvent \/ QPublicationFails \/ QInterrupt
  BY <1>9 DEF FileWithoutEvent, QPublicationFails, QInterrupt, NoQualCall
<1> QED
  BY <1>2, <1>3, <1>4, <1>5, <1>6, <1>7, <1>8, <1>9 DEF Qualify, RecordedIn

\* What the command knew of is still on record.
LEMMA RecordsGrowStep ==
    ASSUME RetrainingInv, RecordsGrow, Qualify
    PROVE  RecordsGrow'
<1>1. PICK q \in Quals :
        /\ QualMoveOn(q)
        /\ qcall.at # "idle" => qcall.run = q
        /\ qcall'.at # "idle" => qcall'.run = q
  BY QualifyIsStep, StorageFacts DEF RetrainingInv, QualCallOK, QualStep
<1>2. SUFFICES ASSUME qcall'.at # "idle"
               PROVE  IF qcall'.at \in Publishing
                      THEN RecordedIn(bak'[q]) \subseteq qcall'.snap.recorded
                      ELSE RecordedIn(out'[q]) \subseteq qcall'.snap.recorded
  BY <1>1 DEF RecordsGrow, RecordedIn
<1>3. IF qcall.at = "idle" THEN RecordedIn(out[q]) \subseteq qcall'.snap.recorded
      ELSE qcall.snap.recorded \subseteq qcall'.snap.recorded
  BY <1>1, <1>2, RecordsForward
<1>4. qcall.at # "idle" =>
        /\ Protocol(qcall, out[q], bak[q], begun[q])
        /\ IF qcall.at \in Publishing THEN RecordedIn(bak[q]) \subseteq qcall.snap.recorded
           ELSE RecordedIn(out[q]) \subseteq qcall.snap.recorded
  BY <1>1 DEF RetrainingInv, RecordsGrow
<1> DEFINE u == out[q] b == bak[q] u2 == out'[q] b2 == bak'[q] n == begun[q] n2 == begun'[q]
<1>5. CASE Publishes(qcall, qcall', u, b, u2, b2)
  BY <1>3, <1>4, <1>5 DEF Publishes, Publishing
<1>6. CASE Places(qcall, qcall', u2, b, b2)
  BY <1>3, <1>4, <1>6 DEF Places, Publishing
<1>7. CASE Drops(qcall, qcall', u, u2, b2)
  <2>1. /\ qcall.at = "placed" /\ u2 = qcall.snap /\ qcall'.at \notin Publishing
        /\ qcall.snap.recorded \subseteq qcall'.snap.recorded
    BY <1>2, <1>3, <1>4, <1>7 DEF Drops, Protocol, Away, Publishing
  <2> QED
    BY <2>1 DEF RecordedIn
<1>8. CASE /\ Goes(qcall, qcall') \/ Takes(qcall, qcall', u, b) \/ Starts(qcall, qcall')
           /\ u2 = u
  BY <1>3, <1>4, <1>8 DEF Goes, Takes, Starts, Away, Publishing, Filing
<1> QED
  BY <1>1, <1>2, <1>5, <1>6, <1>7, <1>8 DEF QualMoveOn, Move, Leaves, RollsBack

\* An authorization stays on record, and in the backup as long as that may come back.
LEMMA StaysOnRecord ==
    ASSUME RetrainingInv, RecordsGrow, Qualify, NEW p \in Quals, NEW a, OnRecord(p, a),
           qcall.at \in Publishing /\ qcall.run = p => a \in RecordedIn(bak[p])
    PROVE  /\ OnRecord(p, a)'
           /\ qcall'.at \in Publishing /\ qcall'.run = p => a \in RecordedIn(bak'[p])
<1>1. PICK q \in Quals :
        /\ Only(q) /\ QualMoveOn(q)
        /\ qcall.at # "idle" => qcall.run = q
        /\ qcall'.at # "idle" => qcall'.run = q
  BY QualifyIsStep, StorageFacts DEF RetrainingInv, QualCallOK, QualStep
<1>2. CASE p # q
  <2>1. out'[p] = out[p] /\ bak'[p] = bak[p]
    BY <1>1, <1>2, QualificationAssumption DEF Only
  <2> QED
    BY <1>1, <1>2, <2>1 DEF OnRecord, RecordedIn, Publishing
<1>3. CASE p = q
  <2> DEFINE u == out[q] b == bak[q] u2 == out'[q] b2 == bak'[q] n == begun[q] n2 == begun'[q]
  <2>1. qcall.at # "idle" =>
          /\ Protocol(qcall, u, b, n)
          /\ qcall.at \in Publishing => RecordedIn(b) \subseteq qcall.snap.recorded
    BY <1>1 DEF RetrainingInv, RecordsGrow
  <2>2. a \in RecordedIn(u) \cup RecordedIn(b) /\ (qcall.at \in Publishing => a \in RecordedIn(b))
    BY <1>1, <1>3 DEF OnRecord, Publishing
  <2>3. SUFFICES /\ a \in RecordedIn(u2) \cup RecordedIn(b2)
                 /\ qcall'.at \in Publishing => a \in RecordedIn(b2)
    BY <1>3 DEF OnRecord, RecordedIn
  <2>4. CASE Publishes(qcall, qcall', u, b, u2, b2)
    <3>1. RecordedIn(b) = {}
      BY <2>4 DEF Publishes, RecordedIn
    <3> QED
      BY <2>2, <2>4, <3>1 DEF Publishes
  <2>5. CASE Places(qcall, qcall', u2, b, b2)
    BY <2>2, <2>5 DEF Places, Publishing
  <2>6. CASE Drops(qcall, qcall', u, u2, b2)
    <3>1. /\ qcall.at = "placed" /\ u2 = qcall.snap /\ qcall'.at \notin Publishing
      BY <2>1, <2>6 DEF Drops, Protocol, Away, Publishing
    <3>2. u2 # NoSnapshot /\ a \in qcall.snap.recorded
      <4>1. qcall.snap \in Qualifications
        BY <3>1 DEF RetrainingInv, QualCallTypeOK, NoQualCall, QualCalls
      <4> QED
        BY <2>1, <2>2, <3>1, <4>1, QualificationAssumption DEF Publishing
    <3> QED
      BY <3>1, <3>2 DEF RecordedIn
  <2>7. CASE RollsBack(qcall, qcall', u2, b, b2)
    BY <2>2, <2>7 DEF RollsBack, Publishing
  <2>8. CASE /\ \/ Leaves(qcall, qcall') \/ Goes(qcall, qcall') \/ Takes(qcall, qcall', u, b)
                \/ Starts(qcall, qcall')
             /\ u2 = u /\ b2 = b
    BY <2>2, <2>8 DEF Leaves, Goes, Takes, Starts, Away, Publishing, Filing
  <2> QED
    BY <1>1, <2>4, <2>5, <2>6, <2>7, <2>8 DEF QualMoveOn, Move
<1> QED
  BY <1>2, <1>3

\* A claim was there before, and nothing has been revoked since; or it is made in
\* this step.
LEMMA ClaimsForward ==
    ASSUME RetrainingInv, Qualify, NEW a \in DOMAIN auths', "claim" \in auths'[a].files
    PROVE  /\ a \in DOMAIN auths /\ auths'[a].of = auths[a].of /\ auths[a].of \in Quals
           /\ \/ /\ "claim" \in auths[a].files
                 /\ "revocation" \in auths'[a].files => "revocation" \in auths[a].files
              \/ /\ Claim(auths[a].of, a)
                 /\ "revocation" \in auths'[a].files => "revocation" \in auths[a].files
<1>0. /\ AuthsOK /\ Len(auths) \in Nat /\ DOMAIN auths = 1..Len(auths)
      /\ \A b \in DOMAIN auths : auths[b].of \in Quals
  BY AuthorizationsAreOf DEF RetrainingInv, AuthsOK
<1>1. CASE auths' = auths
  BY <1>0, <1>1
<1>2. ASSUME NEW p \in Quals, NEW stage \in {"training", "shadow"}, Authorize(p, stage)
      PROVE  auths'[a] = auths[a] /\ a \in DOMAIN auths
  <2>1. PICK until : auths' = Append(auths, [of |-> p, stage |-> stage, files |-> {},
                                             until |-> until])
    BY <1>2 DEF Authorize
  <2>2. /\ DOMAIN auths' = 1..(Len(auths) + 1)
        /\ \A b \in DOMAIN auths : auths'[b] = auths[b]
        /\ auths'[Len(auths) + 1].files = {}
    BY <1>0, <2>1 DEF AuthsOK
  <2> QED
    BY <1>0, <2>2
<1>3. ASSUME NEW b \in DOMAIN auths, NEW files \in SUBSET Files, Write(b, files)
      PROVE  /\ a \in DOMAIN auths /\ auths'[a].of = auths[a].of
             /\ auths'[a].files = IF a = b THEN auths[a].files \cup files ELSE auths[a].files
  <2>1. /\ DOMAIN auths' = DOMAIN auths
        /\ \A c \in DOMAIN auths :
            /\ auths'[c].of = auths[c].of
            /\ auths'[c].files = IF c = b THEN auths[c].files \cup files ELSE auths[c].files
    BY <1>0, <1>3, WriteFacts
  <2> QED
    BY <2>1
<1>4. ASSUME NEW p \in Quals, NEW b \in DOMAIN auths, Revoke(p, b)
      PROVE  /\ a \in DOMAIN auths /\ auths'[a].of = auths[a].of
             /\ auths'[a].files = auths[a].files
  <2>1. Write(b, {"revocation"}) /\ auths[b].files = {} /\ {"revocation"} \in SUBSET Files
    BY <1>4 DEF Revoke, Files
  <2>2. /\ a \in DOMAIN auths /\ auths'[a].of = auths[a].of
        /\ auths'[a].files = IF a = b THEN {"revocation"} ELSE auths[a].files
    BY <1>3, <2>1
  <2>3. a # b
    BY <2>2
  <2> QED
    BY <2>2, <2>3
<1>5. ASSUME NEW p \in Quals, NEW b \in DOMAIN auths, Claim(p, b)
      PROVE  /\ a \in DOMAIN auths /\ auths'[a].of = auths[a].of
             /\ "revocation" \in auths'[a].files => "revocation" \in auths[a].files
             /\ "claim" \in auths[a].files \/ Claim(auths[a].of, a)
  <2>1. Write(b, {"claim"}) /\ auths[b].of = p /\ {"claim"} \in SUBSET Files
    BY <1>5 DEF Claim, Files
  <2>2. /\ a \in DOMAIN auths /\ auths'[a].of = auths[a].of
        /\ auths'[a].files = IF a = b THEN auths[a].files \cup {"claim"} ELSE auths[a].files
    BY <1>3, <2>1
  <2> QED
    BY <1>5, <2>1, <2>2
<1>6. CASE Succeed \/ FailStage
  <2>1. /\ qcall \in QualCalls /\ qcall.auth \in Nat /\ qcall.auth <= Len(auths)
        /\ Receipt \/ SecondReceipt
    BY <1>6 DEF Succeed, FailStage, RetrainingInv, QualCallTypeOK, NoQualCall, QualCalls
  <2>2. CASE qcall.auth = 0
    BY <1>1, <2>1, <2>2 DEF Receipt, SecondReceipt
  <2>3. CASE qcall.auth # 0
    <3>0. qcall.auth \in DOMAIN auths
      BY <1>0, <2>1, <2>3
    <3>1. PICK files \in {{"receipt"}, {"receipt", "second receipt"}} : Write(qcall.auth, files)
      BY <2>1, <2>3 DEF Receipt, SecondReceipt
    <3>2. /\ a \in DOMAIN auths /\ auths'[a].of = auths[a].of
          /\ \A file \in {"claim", "revocation"} :
                file \in auths'[a].files <=> file \in auths[a].files
      <4>1. files \in SUBSET Files /\ "claim" \notin files /\ "revocation" \notin files
        BY DEF Files
      <4>2. /\ a \in DOMAIN auths /\ auths'[a].of = auths[a].of
            /\ auths'[a].files = IF a = qcall.auth THEN auths[a].files \cup files
                                 ELSE auths[a].files
        BY <1>3, <3>0, <3>1, <4>1
      <4> QED
        BY <4>1, <4>2
    <3> QED
      BY <1>0, <3>2
  <2> QED
    BY <2>2, <2>3
<1>7. CASE QuietStep \/ RunStage
  BY <1>1, <1>7, QuietOwes DEF RunStage
<1> QED
  BY <1>0, <1>2, <1>4, <1>5, <1>6, <1>7, QuietOrNot

LEMMA ClaimsAreValidStep ==
    ASSUME RetrainingInv, RecordsGrow, ClaimsAreValid, Qualify
    PROVE  ClaimsAreValid'
<1> SUFFICES ASSUME NEW a \in DOMAIN auths', "claim" \in auths'[a].files
             PROVE  /\ "revocation" \notin auths'[a].files
                    /\ a \in RecordedIn(out'[auths'[a].of]) \cup RecordedIn(bak'[auths'[a].of])
                    /\ qcall'.at \in Publishing /\ qcall'.run = auths'[a].of =>
                            a \in RecordedIn(bak'[auths'[a].of])
  BY DEF ClaimsAreValid, RecordedIn, OnRecord
<1> DEFINE p == auths[a].of
<1>1. /\ a \in DOMAIN auths /\ auths'[a].of = p /\ p \in Quals
      /\ "claim" \in auths[a].files \/ Claim(p, a)
      /\ "revocation" \in auths'[a].files => "revocation" \in auths[a].files
  BY ClaimsForward
<1>2. /\ "revocation" \notin auths[a].files /\ OnRecord(p, a)
      /\ qcall.at \in Publishing /\ qcall.run = p => a \in RecordedIn(bak[p])
  <2>1. CASE "claim" \in auths[a].files
    BY <1>1, <2>1 DEF ClaimsAreValid
  <2>2. CASE Claim(p, a)
    <3>1. /\ qcall.at = "idle" /\ out[p] # NoSnapshot /\ ~Mismatched(out[p], a)
          /\ "revocation" \notin auths[a].files
      BY <2>2 DEF Claim, Visible, Status
    <3>2. a \in out[p].recorded
      BY <3>1 DEF Mismatched
    <3> QED
      BY <3>1, <3>2 DEF OnRecord, RecordedIn, Publishing
  <2> QED
    BY <1>1, <2>1, <2>2
<1>3. /\ a \in RecordedIn(out'[p]) \cup RecordedIn(bak'[p])
      /\ qcall'.at \in Publishing /\ qcall'.run = p => a \in RecordedIn(bak'[p])
  <2> HIDE DEF p
  <2>1. ASSUME NEW x \in Quals, OnRecord(x, a),
               qcall.at \in Publishing /\ qcall.run = x => a \in RecordedIn(bak[x])
        PROVE  /\ a \in RecordedIn(out'[x]) \cup RecordedIn(bak'[x])
               /\ qcall'.at \in Publishing /\ qcall'.run = x => a \in RecordedIn(bak'[x])
    BY <2>1, StaysOnRecord DEF OnRecord, RecordedIn
  <2> QED
    BY <1>1, <1>2, <2>1
<1> QED
  BY <1>1, <1>2, <1>3

LEMMA AuthorizationStep ==
    ASSUME AuthorizationInv, [Next]_qualificationVars
    PROVE  AuthorizationInv'
<1>1. RetrainingInv' /\ ExecutionsArePaid'
  BY StepKeepsInv, PaidStep DEF AuthorizationInv
<1>2. CASE Qualify
  BY <1>1, <1>2, RecordsGrowStep, ClaimsAreValidStep DEF AuthorizationInv
<1>3. CASE \/ (Orchestrate \/ Operate \/ NextDay) /\ UNCHANGED <<auths, qcall>>
           \/ UNCHANGED qualificationVars
  <2>1. /\ auths' = auths /\ qcall' = qcall
        /\ \A q \in Quals : out'[q] = out[q] /\ bak'[q] = bak[q]
    BY <1>3, OthersKeepAuthorizations DEF AuthorizationInv
  <2>2. qcall.at # "idle" => qcall.run \in Quals
    BY DEF AuthorizationInv, RetrainingInv, QualCallTypeOK, NoQualCall, QualCalls
  <2>3. \A a \in DOMAIN auths : auths[a].of \in Quals
    BY AuthorizationsAreOf DEF AuthorizationInv, RetrainingInv
  <2>4. RecordsGrow'
    BY <2>1, <2>2 DEF AuthorizationInv, RecordsGrow, RecordedIn
  <2>5. ClaimsAreValid'
    BY <2>1, <2>3 DEF AuthorizationInv, ClaimsAreValid, OnRecord, RecordedIn
  <2> QED
    BY <1>1, <2>4, <2>5 DEF AuthorizationInv
<1> QED
  BY <1>2, <1>3 DEF Next

LEMMA InitAuthorizationInv ==
    ASSUME QualificationInit PROVE AuthorizationInv
<1>1. RetrainingInv
  BY InitRetrainingInv
<1>2. auths = <<>> /\ qcall.at = "idle"
  BY DEF QualificationInit, NoQualCall
<1>3. RecordsGrow /\ ClaimsAreValid
  BY <1>2 DEF RecordsGrow, ClaimsAreValid
<1>4. ExecutionsArePaid
  <2>1. ~Owed
    BY <1>2 DEF Owed, Publishing
  <2>2. ASSUME NEW q \in Quals PROVE begun[q] <= Cardinality(Claims(q))
    <3>1. begun[q] = 0
      BY QualificationAssumption DEF QualificationInit, LifecycleInit
    <3>2. Cardinality(Claims(q)) \in Nat
      BY <1>1, ClaimsFinite DEF RetrainingInv
    <3> QED
      BY <3>1, <3>2
  <2> QED
    BY <2>1, <2>2 DEF ExecutionsArePaid
<1> QED
  BY <1>1, <1>3, <1>4 DEF AuthorizationInv

\* Every execution of a qualification has used up an authorization of its own, none is
\* used that is revoked or off the record, whichever command is killed and whichever
\* publication fails (qualification/authorization.py, qualification/service.py).
THEOREM AuthorizationsAreUsedOnce == Spec => []AuthorizationUsedOnce
<1>1. QualificationInit => AuthorizationInv
  BY InitAuthorizationInv
<1>2. AuthorizationInv /\ [Next]_qualificationVars => AuthorizationInv'
  BY AuthorizationStep
<1>3. AuthorizationInv => AuthorizationUsedOnce
  BY DEF AuthorizationInv, AuthorizationUsedOnce, ExecutionsArePaid, Claims, ClaimsAreValid,
         OnRecord, RecordedIn
<1> QED
  BY <1>1, <1>2, <1>3, PTL DEF Spec

-----------------------------------------------------------------------------
(***************************************************************************)
(* That lifecycles, and qualifications, each keep the daily budget.  The   *)
(* command of a side is the only one that adds attempts to it, so what it  *)
(* has counted stays true until it publishes; a later day has no attempt.  *)
(***************************************************************************)

\* The attempts of owner o, with those that its command c is about to make visible.
ListOf(c, u, o) == AttemptsOf(IF c.at = "moved" /\ c.run = o THEN c.snap ELSE u[o])

\* The attempts of day d in the stores u of one side S.
Dated(S, c, u, d) ==
    {a \in S \X (1..MaxAttempts) :
        a[2] \in DOMAIN ListOf(c, u, a[1]) /\ ListOf(c, u, a[1])[a[2]] = d}

\* A dead publication hides o for ever.
Lost(c, u, b, o) == u[o] = NoSnapshot /\ b[o] # NoSnapshot /\ ~(c.at = "moved" /\ c.run = o)

\* No attempt of a side is dated later than today, t; unless one is lost, no day has
\* more than the budget, and a command that is due to add one finds room for it.
KeepsBudget(S, c, u, b, t, due) ==
    /\ \A o \in S : \A i \in DOMAIN ListOf(c, u, o) : ListOf(c, u, o)[i] <= t
    /\ (\A o \in S : ~Lost(c, u, b, o)) => \A d \in Days :
        /\ Cardinality(Dated(S, c, u, d)) <= Limit
        /\ due /\ d >= t => Cardinality(Dated(S, c, u, d)) < Limit

\* A command d that begins to publish adds at most an attempt of today that was due.
Announces(c, d, u, t, due) ==
    d.at = "moved" /\ c.at # "moved" =>
        \/ d.snap.attempts = AttemptsOf(u)
        \/ due /\ d.snap.attempts = Append(AttemptsOf(u), t)

LEMMA DatedFinite ==
    ASSUME NEW S \in SUBSET Owners, NEW c, NEW u, NEW d
    PROVE  IsFiniteSet(Dated(S, c, u, d)) /\ Cardinality(Dated(S, c, u, d)) \in Nat
<1>1. IsFiniteSet(S)
  BY LifecycleAssumption, FS_Subset
<1>2. IsFiniteSet(1..MaxAttempts)
  BY LifecycleAssumption, FS_Interval
<1>3. IsFiniteSet(S \X (1..MaxAttempts))
  BY <1>1, <1>2, FS_Product
<1>4. Dated(S, c, u, d) \in SUBSET (S \X (1..MaxAttempts))
  BY DEF Dated
<1> QED
  BY <1>3, <1>4, FS_Subset, FS_CardinalityType

\* What a move does to the attempts of its owner: they stay, some are taken back with
\* a publication, or the due one is added.  What is lost stays lost.
LEMMA MoveOfAttempts ==
    ASSUME NEW c, NEW d, NEW u, NEW b, NEW n, NEW u2, NEW b2, NEW n2, NEW t, NEW due,
           Typed(c, u, b, n), Typed(d, u2, b2, n2),
           Protocol(c, u, b, n), Move(c, d, u, b, n, u2, b2, n2),
           Announces(c, d, u, t, due)
    PROVE  LET l == AttemptsOf(IF c.at = "moved" THEN c.snap ELSE u)
               m == AttemptsOf(IF d.at = "moved" THEN d.snap ELSE u2)
           IN  /\ Prefix(m, l) \/ (due /\ m = Append(l, t))
               /\ u = NoSnapshot /\ b # NoSnapshot /\ c.at # "moved" =>
                    u2 = NoSnapshot /\ b2 # NoSnapshot /\ d.at # "moved"
<1> DEFINE l == AttemptsOf(IF c.at = "moved" THEN c.snap ELSE u)
           m == AttemptsOf(IF d.at = "moved" THEN d.snap ELSE u2)
<1>0. Kept(u, u) /\ Kept(b, b) /\ Kept(NoSnapshot, u) /\ Kept(NoSnapshot, b)
  BY KeptReflexive DEF Typed
<1>1. c.at # "idle" => Kept(c.snap, c.snap) /\ Kept(NoSnapshot, c.snap)
  BY KeptReflexive DEF Typed
<1>2. Prefix(l, l)
  BY <1>0, <1>1 DEF Kept
<1>3. Prefix(m, l) \/ (due /\ m = Append(l, t))
  <2>1. CASE (Leaves(c, d) \/ Goes(c, d) \/ Takes(c, d, u, b)) /\ u2 = u
    <3>1. CASE c.at = "moved"
      <4>1. u = NoSnapshot /\ Leaves(c, d)
        BY <2>1, <3>1 DEF Protocol, Goes, Takes, Away, Publishing
      <4>2. m = AttemptsOf(NoSnapshot)
        BY <2>1, <4>1 DEF Leaves
      <4> QED
        BY <1>1, <3>1, <4>2 DEF Kept
    <3>2. CASE c.at # "moved"
      <4>1. d.at # "moved"
        BY <2>1 DEF Leaves, Goes, Takes, Away, Publishing, Filing
      <4> QED
        BY <1>2, <2>1, <3>2, <4>1
    <3> QED
      BY <3>1, <3>2
  <2>2. CASE Publishes(c, d, u, b, u2, b2)
    <3>1. l = AttemptsOf(u) /\ m = d.snap.attempts
      BY <2>2 DEF Publishes, Publishing, Typed, IsSnapshot, AttemptsOf
    <3> QED
      BY <1>2, <2>2, <3>1 DEF Publishes, Publishing, Announces
  <2>3. CASE Places(c, d, u2, b, b2)
    BY <1>2, <2>3 DEF Places
  <2>4. CASE Drops(c, d, u, u2, b2)
    <3>1. c.at # "moved" /\ d.at # "moved" /\ u2 = u
      BY <2>4 DEF Drops, Away, Publishing
    <3> QED
      BY <1>2, <3>1
  <2>5. CASE RollsBack(c, d, u2, b, b2)
    <3>1. m = AttemptsOf(b) /\ l = AttemptsOf(c.snap) /\ Kept(b, c.snap)
      BY <2>5 DEF RollsBack, Protocol, Follows, Publishing
    <3> QED
      BY <3>1 DEF Kept
  <2>6. CASE Starts(c, d) /\ u2 = u
    <3>1. c.at # "moved" /\ d.at # "moved"
      BY <2>6 DEF Starts, Away, Publishing
    <3> QED
      BY <1>2, <2>6, <3>1
  <2> QED
    BY <2>1, <2>2, <2>3, <2>4, <2>5, <2>6 DEF Move
<1>4. ASSUME u = NoSnapshot, b # NoSnapshot, c.at # "moved"
      PROVE  u2 = NoSnapshot /\ b2 # NoSnapshot /\ d.at # "moved"
  <2>1. c.at = "idle"
    BY <1>4 DEF Protocol, Typed, IsSnapshot, Away, Publishing, Filing
  <2>2. ~Goes(c, d) /\ ~Starts(c, d)
    <3>1. "idle" \in {c.at, d.at} \cap Away
      BY <2>1 DEF Away
    <3> QED
      BY <3>1 DEF Goes, Starts
  <2>3. Leaves(c, d) /\ u2 = u /\ b2 = b
    BY <1>4, <2>1, <2>2 DEF Move, Takes, Publishes, Places, Drops, RollsBack, Publishing
  <2> QED
    BY <1>4, <2>3 DEF Leaves
<1> QED
  BY <1>3, <1>4

\* Fewer attempts of one owner are no more on any day.
LEMMA FewerDated ==
    ASSUME NEW S \in SUBSET Owners, NEW c, NEW u, NEW c2, NEW u2, NEW day1,
           \A p \in S : ListOf(c, u, p) \in AttemptLists /\ ListOf(c2, u2, p) \in AttemptLists,
           \A p \in S : Prefix(ListOf(c2, u2, p), ListOf(c, u, p))
    PROVE  /\ Cardinality(Dated(S, c2, u2, day1)) <= Cardinality(Dated(S, c, u, day1))
           /\ \A p \in S : \A i \in DOMAIN ListOf(c2, u2, p) :
                i \in DOMAIN ListOf(c, u, p) /\ ListOf(c2, u2, p)[i] = ListOf(c, u, p)[i]
<1>1. ASSUME NEW p \in S, NEW i \in DOMAIN ListOf(c2, u2, p)
      PROVE  i \in DOMAIN ListOf(c, u, p) /\ ListOf(c2, u2, p)[i] = ListOf(c, u, p)[i]
  <2>1. PICK k : k = ListOf(c, u, p)
    OBVIOUS
  <2>2. PICK l : l = ListOf(c2, u2, p)
    OBVIOUS
  <2>3. k \in Seq(Days) /\ l \in Seq(Days) /\ Len(l) <= Len(k) /\ SubSeq(k, 1, Len(l)) = l
    BY <2>1, <2>2, AttemptListsAreSequences DEF Prefix
  <2>4. i \in 1..Len(l)
    BY <2>2, <2>3
  <2>5. i \in 1..Len(k) /\ SubSeq(k, 1, Len(l))[i] = k[i]
    BY <2>3, <2>4
  <2> QED
    BY <2>1, <2>2, <2>3, <2>5
<1>2. Dated(S, c2, u2, day1) \in SUBSET Dated(S, c, u, day1)
  <2> SUFFICES ASSUME NEW a \in Dated(S, c2, u2, day1) PROVE a \in Dated(S, c, u, day1)
    OBVIOUS
  <2>1. /\ a \in S \X (1..MaxAttempts) /\ a[1] \in S
        /\ a[2] \in DOMAIN ListOf(c2, u2, a[1]) /\ ListOf(c2, u2, a[1])[a[2]] = day1
    BY DEF Dated
  <2>2. a[2] \in DOMAIN ListOf(c, u, a[1]) /\ ListOf(c, u, a[1])[a[2]] = day1
    BY <1>1, <2>1
  <2> QED
    BY <2>1, <2>2 DEF Dated
<1> QED
  BY <1>1, <1>2, DatedFinite, FS_Subset

\* Every list is one of the attempt lists.
Listed(S, c, u) == \A p \in S : ListOf(c, u, p) \in AttemptLists

\* What makes the lists of c and u those of c2 and u2 is one attempt more of owner o.
OneMore(S, c, u, c2, u2, o, t) ==
    /\ ListOf(c2, u2, o) = Append(ListOf(c, u, o), t)
    /\ \A p \in S \ {o} : ListOf(c2, u2, p) = ListOf(c, u, p)

\* One more attempt, of the day t, counts for that day and for no other.
LEMMA OneMoreDated ==
    ASSUME NEW S \in SUBSET Owners, NEW c, NEW u, NEW c2, NEW u2, NEW t \in Days,
           NEW o \in S, NEW day1 \in Days,
           Listed(S, c, u), Listed(S, c2, u2), OneMore(S, c, u, c2, u2, o, t)
    PROVE  /\ Cardinality(Dated(S, c2, u2, day1)) <=
                Cardinality(Dated(S, c, u, day1)) + (IF day1 = t THEN 1 ELSE 0)
           /\ \A i \in DOMAIN ListOf(c2, u2, o) :
                ListOf(c2, u2, o)[i] = t
                \/ (i \in DOMAIN ListOf(c, u, o) /\ ListOf(c2, u2, o)[i] = ListOf(c, u, o)[i])
<1> DEFINE e == <<o, Len(ListOf(c, u, o)) + 1>>
           D == Dated(S, c, u, day1)
           E == Dated(S, c2, u2, day1)
<1>1. ASSUME NEW i \in DOMAIN ListOf(c2, u2, o)
      PROVE  \/ i = Len(ListOf(c, u, o)) + 1 /\ ListOf(c2, u2, o)[i] = t
             \/ i \in DOMAIN ListOf(c, u, o) /\ ListOf(c2, u2, o)[i] = ListOf(c, u, o)[i]
  <2>1. PICK l : l = ListOf(c, u, o)
    OBVIOUS
  <2>2. l \in Seq(Days) /\ ListOf(c2, u2, o) = Append(l, t)
    BY <2>1, AttemptListsAreSequences DEF Listed, OneMore
  <2>3. i \in 1..(Len(l) + 1)
    BY <2>2
  <2>4. \/ i = Len(l) + 1 /\ Append(l, t)[i] = t
        \/ i \in DOMAIN l /\ Append(l, t)[i] = l[i]
    BY <2>2, <2>3
  <2> QED
    BY <2>1, <2>2, <2>4
<1>2. ASSUME NEW a \in E PROVE a \in D \/ (a = e /\ day1 = t)
  <2>1. /\ a \in S \X (1..MaxAttempts) /\ a[1] \in S
        /\ a[2] \in DOMAIN ListOf(c2, u2, a[1]) /\ ListOf(c2, u2, a[1])[a[2]] = day1
    BY DEF Dated
  <2>2. CASE a[1] # o
    BY <2>1, <2>2 DEF Dated, OneMore
  <2>3. CASE a[1] = o
    <3>1. a = <<o, a[2]>>
      BY <2>1, <2>3
    <3>2. CASE a[2] = Len(ListOf(c, u, o)) + 1 /\ ListOf(c2, u2, o)[a[2]] = t
      BY <2>1, <2>3, <3>1, <3>2
    <3>3. CASE a[2] \in DOMAIN ListOf(c, u, o) /\ ListOf(c2, u2, o)[a[2]] = ListOf(c, u, o)[a[2]]
      BY <2>1, <2>3, <3>3 DEF Dated
    <3> QED
      BY <1>1, <2>1, <2>3, <3>2, <3>3
  <2> QED
    BY <2>2, <2>3
<1>3. /\ IsFiniteSet(D) /\ Cardinality(D) \in Nat /\ Cardinality(E) \in Nat
      /\ IsFiniteSet(D \cup {e}) /\ Cardinality(D \cup {e}) <= Cardinality(D) + 1
  <2>1. IsFiniteSet(D) /\ Cardinality(D) \in Nat /\ Cardinality(E) \in Nat
    BY DatedFinite
  <2> HIDE DEF D, E, e
  <2>2. /\ IsFiniteSet(D \cup {e})
        /\ Cardinality(D \cup {e}) = IF e \in D THEN Cardinality(D) ELSE Cardinality(D) + 1
    BY <2>1, FS_AddElement
  <2> QED
    BY <2>1, <2>2
<1>4. Cardinality(E) <= Cardinality(D) + (IF day1 = t THEN 1 ELSE 0)
  <2>1. CASE day1 = t
    <3>1. E \in SUBSET (D \cup {e})
      BY <1>2
    <3>2. Cardinality(E) <= Cardinality(D \cup {e})
      BY <1>3, <3>1, FS_Subset
    <3>3. Cardinality(D \cup {e}) \in Nat
      BY <1>3, FS_CardinalityType
    <3> HIDE DEF D, E, e
    <3> QED
      BY <1>3, <2>1, <3>2, <3>3
  <2>2. CASE day1 # t
    <3>1. E \in SUBSET D
      BY <1>2, <2>2
    <3>2. Cardinality(E) <= Cardinality(D)
      BY <1>3, <3>1, FS_Subset
    <3> HIDE DEF D, E, e
    <3> QED
      BY <1>3, <2>2, <3>2
  <2> QED
    BY <2>1, <2>2
<1> QED
  BY <1>1, <1>4

\* The command of one side moves on the snapshot of o, and announces what it adds.
SideMove(S, o, c, d, u, b, n, u2, b2, n2, t, due) ==
    /\ \A p \in S : u[p] = NoSnapshot \/ IsSnapshot(u[p])
    /\ \A p \in S \ {o} : u2[p] = u[p] /\ b2[p] = b[p]
    /\ (c.at # "idle" => c.run = o) /\ (d.at # "idle" => d.run = o)
    /\ Typed(c, u[o], b[o], n) /\ Typed(d, u2[o], b2[o], n2)
    /\ Protocol(c, u[o], b[o], n) /\ Move(c, d, u[o], b[o], n, u2[o], b2[o], n2)
    /\ Announces(c, d, u[o], t, due)

LEMMA SideStep ==
    ASSUME NEW S \in SUBSET Owners, NEW o \in S, NEW t \in Days,
           NEW c, NEW d, NEW u, NEW b, NEW n, NEW u2, NEW b2, NEW n2,
           NEW due \in BOOLEAN, NEW due2 \in BOOLEAN,
           SideMove(S, o, c, d, u, b, n, u2, b2, n2, t, due),
           due2 => Cardinality(Dated(S, d, u2, t)) < Limit,
           KeepsBudget(S, c, u, b, t, due)
    PROVE  KeepsBudget(S, d, u2, b2, t, due2)
<1> DEFINE L(p) == ListOf(c, u, p)
           M(p) == ListOf(d, u2, p)
           Found == \A p \in S : ~Lost(c, u, b, p)
           Past == \A p \in S : \A i \in DOMAIN M(p) : M(p)[i] <= t
           Room == \A day1 \in Days : Cardinality(Dated(S, d, u2, day1)) <= Limit
<1>0. /\ \A p \in S : u[p] = NoSnapshot \/ IsSnapshot(u[p])
      /\ \A p \in S \ {o} : u2[p] = u[p] /\ b2[p] = b[p]
      /\ (c.at # "idle" => c.run = o) /\ (d.at # "idle" => d.run = o)
      /\ Typed(c, u[o], b[o], n) /\ Typed(d, u2[o], b2[o], n2)
      /\ Protocol(c, u[o], b[o], n) /\ Move(c, d, u[o], b[o], n, u2[o], b2[o], n2)
      /\ Announces(c, d, u[o], t, due)
  BY DEF SideMove
<1>1. /\ L(o) = AttemptsOf(IF c.at = "moved" THEN c.snap ELSE u[o])
      /\ M(o) = AttemptsOf(IF d.at = "moved" THEN d.snap ELSE u2[o])
      /\ \A p \in S \ {o} : L(p) = AttemptsOf(u[p]) /\ M(p) = AttemptsOf(u[p])
  BY <1>0 DEF ListOf
<1>2. /\ Prefix(M(o), L(o)) \/ (due /\ M(o) = Append(L(o), t))
      /\ Lost(c, u, b, o) => Lost(d, u2, b2, o)
  <2> HIDE DEF L, M
  <2> QED
    BY <1>0, <1>1, MoveOfAttempts DEF Lost
<1>3. \A p \in S \ {o} : Lost(c, u, b, p) => Lost(d, u2, b2, p)
  BY <1>0 DEF Lost
<1>4. \A p \in S : L(p) \in AttemptLists /\ M(p) \in AttemptLists
  <2>1. <<>> \in AttemptLists
    BY LifecycleAssumption, AttemptListsAreSequences
  <2>2. \A s : s = NoSnapshot \/ IsSnapshot(s) => AttemptsOf(s) \in AttemptLists
    BY <2>1 DEF AttemptsOf, IsSnapshot
  <2> HIDE DEF L, M
  <2> QED
    BY <1>0, <1>1, <2>2 DEF Typed
<1>5. \A p \in S : \A i \in DOMAIN L(p) : L(p)[i] <= t
  BY DEF KeepsBudget
<1>6. ASSUME Prefix(M(o), L(o)) PROVE Past /\ (Found => Room)
  <2>1. \A p \in S : Prefix(M(p), L(p))
    <3> HIDE DEF L, M
    <3> QED
      BY <1>1, <1>4, <1>6, PrefixFacts
  <2>2. ASSUME NEW day1 \in Days
        PROVE  /\ Cardinality(Dated(S, d, u2, day1)) <= Cardinality(Dated(S, c, u, day1))
               /\ \A p \in S : \A i \in DOMAIN M(p) : i \in DOMAIN L(p) /\ M(p)[i] = L(p)[i]
    BY <1>4, <2>1, FewerDated
  <2>3. Past
    <3> HIDE DEF L, M
    <3> QED
      BY <1>5, <2>2
  <2>4. Found => Room
    <3> SUFFICES ASSUME Found, NEW day1 \in Days
                 PROVE  Cardinality(Dated(S, d, u2, day1)) <= Limit
      OBVIOUS
    <3>1. Cardinality(Dated(S, c, u, day1)) <= Limit
      BY DEF KeepsBudget
    <3> QED
      BY <2>2, <3>1, DatedFinite, LifecycleAssumption
  <2> HIDE DEF Past, Found, Room
  <2> QED
    BY <2>3, <2>4
<1>7. ASSUME due, M(o) = Append(L(o), t) PROVE Past /\ (Found => Room)
  <2>1. ASSUME NEW day1 \in Days
        PROVE  /\ Cardinality(Dated(S, d, u2, day1)) <=
                    Cardinality(Dated(S, c, u, day1)) + (IF day1 = t THEN 1 ELSE 0)
               /\ \A i \in DOMAIN M(o) : M(o)[i] = t \/ (i \in DOMAIN L(o) /\ M(o)[i] = L(o)[i])
    <3>1. OneMore(S, c, u, d, u2, o, t)
      BY <1>1, <1>7 DEF OneMore
    <3>2. Listed(S, c, u) /\ Listed(S, d, u2)
      BY <1>4 DEF Listed
    <3>3. /\ Cardinality(Dated(S, d, u2, day1)) <=
                Cardinality(Dated(S, c, u, day1)) + (IF day1 = t THEN 1 ELSE 0)
          /\ \A i \in DOMAIN ListOf(d, u2, o) :
                ListOf(d, u2, o)[i] = t
                \/ (i \in DOMAIN ListOf(c, u, o) /\ ListOf(d, u2, o)[i] = ListOf(c, u, o)[i])
      BY ONLY <3>1, <3>2, OneMoreDated, S \in SUBSET Owners, o \in S, t \in Days, day1 \in Days
    <3> QED
      BY <3>3
  <2>2. Past
    <3>1. t <= t
      BY LifecycleAssumption DEF Days
    <3> HIDE DEF L, M
    <3> QED
      BY <1>1, <1>5, <2>1, <3>1
  <2>3. Found => Room
    <3> SUFFICES ASSUME Found, NEW day1 \in Days
                 PROVE  Cardinality(Dated(S, d, u2, day1)) <= Limit
      OBVIOUS
    <3>1. /\ Cardinality(Dated(S, c, u, day1)) <= Limit
          /\ day1 = t => Cardinality(Dated(S, c, u, day1)) < Limit
      BY <1>7, LifecycleAssumption DEF KeepsBudget, Days
    <3>2. /\ Cardinality(Dated(S, c, u, day1)) \in Nat
          /\ Cardinality(Dated(S, d, u2, day1)) \in Nat /\ Limit \in Nat
      BY DatedFinite, LifecycleAssumption
    <3> QED
      BY <2>1, <3>1, <3>2
  <2> HIDE DEF Past, Found, Room
  <2> QED
    BY <2>2, <2>3
<1>8. Past /\ (Found => Room)
  <2> HIDE DEF Past, Found, Room, L, M
  <2> QED
    BY <1>2, <1>6, <1>7
\* On a later day there is no attempt yet.
<1>9. ASSUME NEW day1 \in Days, due2, day1 >= t
      PROVE  Cardinality(Dated(S, d, u2, day1)) < Limit
  <2>1. CASE day1 = t
    BY <1>9, <2>1
  <2>2. CASE day1 # t
    <3>1. day1 > t
      BY <1>9, <2>2, LifecycleAssumption DEF Days
    <3>2. ASSUME NEW a \in Dated(S, d, u2, day1) PROVE FALSE
      <4>1. a[1] \in S /\ a[2] \in DOMAIN M(a[1]) /\ M(a[1])[a[2]] = day1
        BY DEF Dated
      <4>2. day1 <= t
        BY <1>8, <4>1
      <4> QED
        BY <3>1, <4>2, LifecycleAssumption DEF Days
    <3>3. Dated(S, d, u2, day1) = {}
      BY <3>2
    <3> QED
      BY <3>3, FS_EmptySet, LifecycleAssumption
  <2> QED
    BY <2>1, <2>2
<1>10. (\A p \in S : ~Lost(d, u2, b2, p)) => Found
  BY <1>2, <1>3
<1> QED
  BY <1>8, <1>9, <1>10 DEF KeepsBudget

-----------------------------------------------------------------------------
(***************************************************************************)
(* What each command adds: an attempt of today at most, which the controls *)
(* have allowed.                                                           *)
(***************************************************************************)

\* The event of a running command that keeps the attempts, or its end.
LEMMA EventAnnounces ==
    ASSUME CommandOK, call.at \in Points, NEW s, NEW then,
           Publish(s, then) \/ Transition(s, then) \/ EndCall,
           \/ s.attempts = call.snap.attempts
           \/ call.at = "stamp" /\ s.attempts = Append(call.snap.attempts, day)
    PROVE  /\ Announces(call, call', out[call'.run], day, call.at = "stamp")
           /\ call'.at # "stamp"
<1>1. call \in Commands /\ call.snap \in Lifecycles /\ call.at \notin Away
  BY CommandFacts DEF Points, Away, Publishing, Filing
<1>2. out[call.run] = call.snap /\ call.snap # NoSnapshot
  BY <1>1, LifecycleFacts DEF CommandOK, Protocol, IsSnapshot, Away
<1>3. CASE EndCall
  BY <1>3 DEF EndCall, NoCall, Announces
<1>4. CASE Publish(s, then)
  <2>1. call'.at = "moved" /\ call'.run = call.run /\ call'.snap = s
    BY <1>1, <1>4 DEF Publish, Commands
  <2> QED
    BY <1>2, <2>1 DEF Announces, AttemptsOf
<1> QED
  BY <1>3, <1>4 DEF Transition, Raise

LEMMA GotoAnnounces ==
    ASSUME CommandOK, call.at # "idle", NEW at, at # "moved", call' = [call EXCEPT !.at = at]
    PROVE  /\ Announces(call, call', out[call'.run], day, call.at = "stamp")
           /\ call'.at = at
BY CommandFacts DEF Commands, Announces

LEMMA OrchestrateAnnounces ==
    ASSUME CommandOK, Orchestrate
    PROVE  /\ Announces(call, call', out[call'.run], day, call.at = "stamp")
           /\ call'.at = "stamp" => BudgetAllows /\ UNCHANGED storeVars /\ call.at # "moved"
<1> DEFINE Done == /\ Announces(call, call', out[call'.run], day, call.at = "stamp")
                   /\ call'.at = "stamp" =>
                        BudgetAllows /\ UNCHANGED storeVars /\ call.at # "moved"
<1>1. ASSUME NEW r \in Requests, New(r) \/ Resume(r) \/ RevalidateEvidence(r)
      PROVE  Done
  <2>1. CASE New(r)
    <3>1. call'.at = "moved" /\ call'.run = r /\ call'.snap.attempts = <<>> /\ out[r] = NoSnapshot
      BY <2>1 DEF New, Begin
    <3> QED
      BY <3>1 DEF Announces, AttemptsOf
  <2>2. CASE Resume(r) \/ RevalidateEvidence(r)
    <3>1. call'.at \notin {"moved", "stamp"}
      BY <2>2 DEF Resume, RevalidateEvidence, Begin, Entry
    <3> QED
      BY <3>1 DEF Announces
  <2> QED
    BY <1>1, <2>1, <2>2
<1>2. CASE Recheck \/ CooldownBlocks \/ BudgetBlocks \/ Validate \/ Validated \/ Enroll
           \/ EnrollSucceeds \/ StageFails \/ Trained \/ TrainingFailed
  <2>1. call.at \in Points /\ call.snap \in Lifecycles
    BY <1>2, CommandFacts
    DEF Recheck, CooldownBlocks, BudgetBlocks, Controlled, Validate, Validated, Enroll,
        EnrollSucceeds, StageFails, Trained, TrainingFailed, Points
  <2>2. \A st, stage :
            /\ [call.snap EXCEPT !.state = st].attempts = call.snap.attempts
            /\ [call.snap EXCEPT !.state = st, !.done = @ \cup {stage}].attempts
                = call.snap.attempts
    BY <2>1 DEF Lifecycles
  <2>3. \/ \E st, then : \/ Publish([call.snap EXCEPT !.state = st], then)
                         \/ Transition([call.snap EXCEPT !.state = st], then)
        \/ \E st, stage, then :
                Transition([call.snap EXCEPT !.state = st, !.done = @ \cup {stage}], then)
    <3>1. CASE Recheck
      BY <3>1 DEF Recheck
    <3>2. CASE CooldownBlocks \/ BudgetBlocks \/ Validate \/ Enroll \/ StageFails \/ TrainingFailed
      BY <3>2 DEF CooldownBlocks, BudgetBlocks, Validate, Enroll, StageFails, TrainingFailed
    <3>3. CASE Validated \/ EnrollSucceeds \/ Trained
      BY <3>3 DEF Validated, EnrollSucceeds, Trained
    <3> QED
      BY <1>2, <3>1, <3>2, <3>3
  <2> QED
    BY <2>1, <2>2, <2>3, EventAnnounces
<1>3. CASE Approve
  BY <1>3, GotoAnnounces DEF Approve, Controlled, Goto
<1>4. CASE Attempt
  <2>1. call.at = "stamp" /\ call.at \in Points /\ call.snap \in Lifecycles
    BY <1>4, CommandFacts DEF Attempt, Points
  <2> DEFINE s == [call.snap EXCEPT !.state = "TRAINING", !.attempts = Append(@, day)]
  <2>2. Transition(s, "execute")
    BY <1>4 DEF Attempt
  <2>3. s.attempts = Append(call.snap.attempts, day)
    BY <2>1 DEF Lifecycles
  <2> HIDE DEF s
  <2> QED
    BY <2>1, <2>2, <2>3, EventAnnounces
<1>5. CASE StartExecution \/ MoveIn
  BY <1>5, GotoAnnounces DEF StartExecution, MoveIn
<1>6. CASE Refresh \/ Observe \/ TrackUnchanged
  <2>1. call.at \in Points /\ call.snap \in Lifecycles
    BY <1>6, CommandFacts DEF Refresh, Observe, TrackUnchanged, Points
  <2>2. \/ \E at \in {"observe", "track", "return"} : Goto(at)
        \/ \E s, then : Transition(s, then) /\ s.attempts = call.snap.attempts
    <3>1. CASE Refresh
      BY <3>1 DEF Refresh
    <3>2. CASE Observe
      <4>1. [call.snap EXCEPT !.state = "OBSERVATION_PENDING"].attempts = call.snap.attempts
        BY <2>1 DEF Lifecycles
      <4> QED
        BY <3>2, <4>1 DEF Observe
    <3>3. CASE TrackUnchanged
      <4>1. [call.snap EXCEPT !.state = "POLICY_REVIEW_REQUIRED",
                              !.status = "POLICY_REVIEW_REQUIRED"].attempts = call.snap.attempts
        BY <2>1 DEF Lifecycles
      <4> QED
        BY <3>3, <4>1 DEF TrackUnchanged
    <3> QED
      BY <1>6, <3>1, <3>2, <3>3
  <2> QED
    BY <2>1, <2>2, EventAnnounces, GotoAnnounces DEF Goto, Points
<1>7. CASE Track \/ Revalidate
  <2>1. call.at \in Points /\ call.snap \in Lifecycles
    BY <1>7, CommandFacts DEF Track, Revalidate, Points
  <2>2. CASE Track
    <3>1. PICK m \in call.snap.mature..Required, p \in Policies, ready \in BOOLEAN :
            LET counted == Counted(call.snap, m)
                final == IF m < Required THEN counted ELSE Evaluated(counted, p, ready)
            IN  Publish(final, "return") \/ Raise
      BY <2>2 DEF Track
    <3>2. m \in 0..Required
      BY <2>1, LifecycleAssumption DEF Lifecycles
    <3> DEFINE counted == Counted(call.snap, m)
               final == IF m < Required THEN counted ELSE Evaluated(counted, p, ready)
    <3>3. final.attempts = call.snap.attempts
      BY <2>1, <3>2, CountedIsLater, EvaluatedIsLater DEF SameHistory
    <3>4. Publish(final, "return") \/ Raise
      BY <3>1
    <3> HIDE DEF final
    <3> QED
      BY <2>1, <3>3, <3>4, EventAnnounces DEF Raise
  <2>3. CASE Revalidate
    <3>1. PICK p \in Policies, ready \in BOOLEAN :
            Transition(Evaluated(call.snap, p, ready), "return")
      BY <2>3 DEF Revalidate
    <3> QED
      BY <2>1, <3>1, EvaluatedIsLater, EventAnnounces DEF SameHistory
  <2> QED
    BY <1>7, <2>2, <2>3
<1>8. CASE Published
  <2>1. call.then \in Continuations
    BY <1>8 DEF Published, CommandOK, CommandTypeOK, NoCall, Publishing
  <2> QED
    BY <1>8, <2>1, GotoAnnounces DEF Published, Continuations
<1>9. CASE PublicationFails \/ Return \/ Interrupt
  BY <1>9 DEF PublicationFails, Return, Interrupt, EndCall, NoCall, Announces
<1> QED
  BY <1>1, <1>2, <1>3, <1>4, <1>5, <1>6, <1>7, <1>8, <1>9 DEF Orchestrate


\* A qualification has claimed its authorization to train.
QualDue == qcall.at = "claimed" /\ auths[qcall.auth].stage = "training"

\* The event of a running command, or of one that has filed, that keeps the attempts.
LEMMA QualEventAnnounces ==
    ASSUME QualCallOK, NEW q \in Quals, NEW s, NEW then, NEW a, QPublish(q, s, then, a),
           \/ qcall.at = "idle" /\ s.attempts = AttemptsOf(out[q])
           \/ /\ qcall.at \in QPoints \cup Filing /\ q = qcall.run
              /\ \/ s.attempts = qcall.snap.attempts
                 \/ QualDue /\ s.attempts = Append(qcall.snap.attempts, day)
    PROVE  Announces(qcall, qcall', out[qcall'.run], day, QualDue) /\ ~QualDue'
<1>1. qcall'.at = "moved" /\ qcall'.run = q /\ qcall'.snap = s
  BY DEF QPublish
<1>2. CASE qcall.at = "idle"
  BY <1>1, <1>2 DEF Announces, QualDue, QPoints, Filing
<1>3. CASE qcall.at \in QPoints \cup Filing
  <2>1. qcall.snap \in Qualifications
    BY <1>3, QualCallFacts DEF QPoints, Filing
  <2>2. /\ out[q] = qcall.snap \/ SameHistory(qcall.snap, out[q])
        /\ out[q] # NoSnapshot
    BY <1>3, <2>1, QualificationFacts
    DEF QualCallOK, Protocol, IsSnapshot, QPoints, Away, Publishing, Filing
  <2> QED
    BY <1>1, <1>3, <2>1, <2>2
    DEF Announces, QualDue, AttemptsOf, SameHistory, QPoints, Filing
<1> QED
  BY <1>2, <1>3

LEMMA QualGotoAnnounces ==
    ASSUME QualCallOK, qcall'.at \notin {"moved", "claimed"}
    PROVE  Announces(qcall, qcall', out[qcall'.run], day, QualDue) /\ ~QualDue'
BY DEF Announces, QualDue

LEMMA QualifyAnnounces ==
    ASSUME QualCallOK, day \in Days, Qualify
    PROVE  /\ Announces(qcall, qcall', out[qcall'.run], day, QualDue)
           /\ QualDue' => BudgetAllows /\ UNCHANGED storeVars /\ qcall.at = "idle"
<1> DEFINE Done == /\ Announces(qcall, qcall', out[qcall'.run], day, QualDue)
                   /\ QualDue' => BudgetAllows /\ UNCHANGED storeVars /\ qcall.at = "idle"
<1>1. ASSUME NEW q \in Quals, Start(q)
      PROVE  Done
  BY <1>1, QualEventAnnounces DEF Start, AttemptsOf
<1>2. ASSUME NEW q \in Quals, Cancel(q) \/ Retry(q) \/ StartValidation(q) \/ StartObservation(q)
      PROVE  Done
  <2>1. Visible(q) /\ out[q] \in Qualifications /\ out[q] # NoSnapshot
    BY <1>2
    DEF Cancel, Retry, StartValidation, StartObservation, Ready, Visible, QualCallOK, QualStoresOK,
        QualificationsStored
  <2>2. \E st \in QualificationStates : \E then : QPublish(q, QGoto(out[q], st), then, 0)
    BY <1>2
    DEF Cancel, Retry, StartValidation, StartObservation, QualificationStates, Closed, Approvable,
        Running
  <2> QED
    BY <2>1, <2>2, QGotoFacts, QualEventAnnounces DEF Visible, AttemptsOf
<1>3. ASSUME NEW q \in Quals, NEW stage \in {"training", "shadow"}, Authorize(q, stage)
      PROVE  Done
  <2>1. qcall'.at = "filed"
    BY <1>3 DEF Authorize
  <2> QED
    BY <2>1, QualGotoAnnounces
<1>4. ASSUME NEW q \in Quals, NEW a \in DOMAIN auths, Revoke(q, a)
      PROVE  Done
  <2>1. qcall'.at \in {"filed", "idle"}
    BY <1>4 DEF Revoke, Visible
  <2> QED
    BY <2>1, QualGotoAnnounces
<1>5. ASSUME NEW q \in Quals, NEW a \in DOMAIN auths, Claim(q, a)
      PROVE  Done
  <2>1. qcall'.at = "claimed" /\ qcall'.auth = a /\ qcall.at = "idle" /\ UNCHANGED storeVars
    BY <1>5 DEF Claim, Visible, lifecycleVars
  <2>2. auths'[a].stage = auths[a].stage
    BY <1>5, WriteFacts DEF Claim, Files, QualCallOK
  <2> QED
    BY <1>5, <2>1, <2>2 DEF Claim, MayStart, Announces, QualDue
<1>6. CASE RecordFile
  BY <1>6, QualCallFacts, QualEventAnnounces DEF RecordFile, Filing
<1>7. CASE StartCheck \/ CheckPasses \/ CheckBlocks \/ FailStage
  <2>1. qcall.at \in QPoints /\ qcall.snap \in Qualifications /\ qcall.run \in Quals
    BY <1>7, QualCallFacts DEF StartCheck, CheckPasses, CheckBlocks, FailStage, QPoints
  <2>2. \E st \in QualificationStates : \E then : QPublish(qcall.run, QGoto(qcall.snap, st), then, 0)
    <3> USE DEF QualificationStates, Checking, Blocked, Approvable, Failed
    <3>1. ASSUME NEW st
          PROVE  {NextCheck(st), PassedCheck(st), BlockedCheck(st), AfterFailure(st)}
                   \subseteq QualificationStates
      BY DEF NextCheck, PassedCheck, BlockedCheck, AfterFailure
    <3> HIDE DEF QualificationStates
    <3> QED
      BY <1>7, <3>1 DEF StartCheck, CheckPasses, CheckBlocks, FailStage
  <2> QED
    BY <2>1, <2>2, QGotoFacts, QualEventAnnounces
<1>8. CASE StartStage
  <2>1. qcall.at = "claimed" /\ qcall.snap \in Qualifications /\ qcall.run \in Quals
    BY <1>8, QualCallFacts DEF StartStage
  <2>2. CASE QualDue /\ QPublish(qcall.run,
                    [QGoto(qcall.snap, "TRAINING") EXCEPT !.attempts = Append(@, day)],
                    "run", qcall.auth)
    <3> DEFINE t == QGoto(qcall.snap, "TRAINING")
               s == [t EXCEPT !.attempts = Append(@, day)]
    <3>1. t \in Qualifications /\ t.attempts = qcall.snap.attempts
      BY <2>1, QGotoFacts DEF QualificationStates, Running
    <3>2. s.attempts = Append(qcall.snap.attempts, day)
      BY <3>1 DEF Qualifications
    <3>3. QPublish(qcall.run, s, "run", qcall.auth)
      BY <2>2
    <3> HIDE DEF s
    <3> QED
      BY <2>1, <2>2, <3>2, <3>3, QualEventAnnounces DEF Filing
  <2>3. CASE QPublish(qcall.run, QGoto(qcall.snap, "SHADOW_ENROLLING"), "run", qcall.auth)
    <3>1. QGoto(qcall.snap, "SHADOW_ENROLLING").attempts = qcall.snap.attempts
      BY <2>1, QGotoFacts DEF QualificationStates, Running
    <3> QED
      BY <2>1, <2>3, <3>1, QualEventAnnounces DEF Filing
  <2> QED
    BY <1>8, <2>2, <2>3 DEF StartStage, QualDue
<1>9. CASE Succeed
  <2> DEFINE st == AfterStage(qcall.snap.state)
             t == QGoto(qcall.snap, st)
             s == [t EXCEPT !.done = @ \cup {StageOf(qcall.snap.state)}]
  <2>1. qcall.at \in QPoints /\ qcall.snap \in Qualifications /\ qcall.run \in Quals
    BY <1>9, QualCallFacts DEF Succeed, QPoints
  <2>2. st \in QualificationStates
    BY DEF AfterStage, QualificationStates, Approvable
  <2>3. t \in Qualifications /\ t.attempts = qcall.snap.attempts
    BY <2>1, <2>2, QGotoFacts
  <2>4. s.attempts = qcall.snap.attempts
    BY <2>3 DEF Qualifications
  <2>5. QPublish(qcall.run, s, "return", 0)
    BY <1>9 DEF Succeed
  <2> HIDE DEF s
  <2> QED
    BY <2>1, <2>4, <2>5, QualEventAnnounces
<1>10. CASE Conclude
  <2>1. PICK verdict \in {"QUALIFIED", "FAILED"} :
            QPublish(qcall.run, [QGoto(qcall.snap, verdict) EXCEPT !.done = @ \cup {"observation"}],
                     "return", 0)
    BY <1>10 DEF Conclude
  <2> DEFINE t == QGoto(qcall.snap, verdict)
             s == [t EXCEPT !.done = @ \cup {"observation"}]
  <2>2. qcall.at \in QPoints /\ qcall.snap \in Qualifications /\ qcall.run \in Quals
    BY <1>10, QualCallFacts DEF Conclude, QPoints
  <2>3. t \in Qualifications /\ t.attempts = qcall.snap.attempts
    BY <2>2, QGotoFacts DEF QualificationStates, Closed
  <2>4. s.attempts = qcall.snap.attempts
    BY <2>3 DEF Qualifications
  <2>5. QPublish(qcall.run, s, "return", 0)
    BY <2>1
  <2> HIDE DEF s
  <2> QED
    BY <2>2, <2>4, <2>5, QualEventAnnounces
<1>11. CASE \/ FileWithoutEvent \/ QPublicationFails \/ QInterrupt
            \/ RunStage \/ LifecycleLockBusy \/ StageEnds \/ TrainingRaises \/ QMoveIn \/ QPublished
  <2>1. qcall \in QualCalls \/ qcall' = NoQualCall
    BY <1>11, QualCallFacts
    DEF FileWithoutEvent, QPublicationFails, QInterrupt, RunStage, LifecycleLockBusy, StageEnds,
        TrainingRaises, QMoveIn, QPublished
  <2>2. QPublished => qcall.then \in QContinuations
    BY DEF QPublished, QualCallOK, QualCallTypeOK, NoQualCall, Publishing
  <2>3. qcall'.at \notin {"moved", "claimed"}
    BY <1>11, <2>1, <2>2
    DEF FileWithoutEvent, QPublicationFails, QInterrupt, RunStage, LifecycleLockBusy, StageEnds,
        TrainingRaises, QMoveIn, QPublished, QualCalls, NoQualCall, QContinuations
  <2> QED
    BY <2>3, QualGotoAnnounces
<1> QED
  BY <1>1, <1>2, <1>3, <1>4, <1>5, <1>6, <1>7, <1>8, <1>9, <1>10, <1>11 DEF Qualify

-----------------------------------------------------------------------------
(***************************************************************************)
(* The inductive invariant of the budget.                                  *)
(***************************************************************************)

BudgetInv ==
    /\ RetrainingInv
    /\ KeepsBudget(Owners \ Quals, call, out, bak, day, call.at = "stamp")
    /\ KeepsBudget(Quals, qcall, out, bak, day, QualDue)

LEMMA SnapshotLists ==
    ASSUME RetrainingInv
    PROVE  /\ Quals \in SUBSET Owners
           /\ Listed(Owners, call, out) /\ Listed(Owners, qcall, out)
           /\ call.at # "idle" => IsSnapshot(call.snap)
           /\ qcall.at # "idle" => IsSnapshot(qcall.snap)
<1>1. \A p \in Owners : out[p] = NoSnapshot \/ IsSnapshot(out[p])
  BY StorageFacts DEF RetrainingInv
<1>2. call.at # "idle" => IsSnapshot(call.snap)
  BY LifecycleFacts DEF RetrainingInv, CommandTypeOK, NoCall, Commands
<1>3. qcall.at # "idle" => IsSnapshot(qcall.snap)
  BY QualificationFacts DEF RetrainingInv, QualCallTypeOK, NoQualCall, QualCalls
<1>4. <<>> \in AttemptLists
  BY LifecycleAssumption, AttemptListsAreSequences
<1>5. Listed(Owners, call, out) /\ Listed(Owners, qcall, out)
  BY <1>1, <1>2, <1>3, <1>4 DEF Listed, ListOf, AttemptsOf, IsSnapshot
<1> QED
  BY <1>2, <1>3, <1>5, QualificationAssumption

\* What the controls count covers the attempts of each side that is not publishing.
LEMMA TrainingsCover ==
    ASSUME NEW S \in SUBSET Owners, NEW c, c.at # "moved", NEW d
    PROVE  /\ Dated(S, c, out, d) \in SUBSET Trainings(out, d)
           /\ IsFiniteSet(Trainings(out, d)) /\ Cardinality(Trainings(out, d)) \in Nat
<1>1. IsFiniteSet(Trainings(out, d)) /\ Cardinality(Trainings(out, d)) \in Nat
  <2>1. IsFiniteSet(1..MaxAttempts) /\ IsFiniteSet(Owners)
    BY LifecycleAssumption, FS_Interval
  <2>2. IsFiniteSet(Owners \X (1..MaxAttempts))
    BY <2>1, FS_Product
  <2>3. Trainings(out, d) \in SUBSET (Owners \X (1..MaxAttempts))
    BY DEF Trainings
  <2> QED
    BY <2>2, <2>3, FS_Subset, FS_CardinalityType
<1>2. ASSUME NEW a \in Dated(S, c, out, d) PROVE a \in Trainings(out, d)
  <2>1. /\ a \in Owners \X (1..MaxAttempts)
        /\ a[2] \in DOMAIN AttemptsOf(out[a[1]]) /\ AttemptsOf(out[a[1]])[a[2]] = d
    BY DEF Dated, ListOf
  <2>2. out[a[1]] # NoSnapshot
    <3>1. DOMAIN <<>> = {}
      OBVIOUS
    <3> QED
      BY <2>1, <3>1 DEF AttemptsOf
  <2> QED
    BY <2>1, <2>2 DEF Trainings, AttemptsOf
<1> QED
  BY <1>1, <1>2

LEMMA RoomToday ==
    ASSUME NEW S \in SUBSET Owners, NEW d, d.at # "moved", BudgetAllows
    PROVE  Cardinality(Dated(S, d, out, day)) < Limit
<1>1. /\ Dated(S, d, out, day) \in SUBSET Trainings(out, day)
      /\ IsFiniteSet(Trainings(out, day)) /\ Cardinality(Trainings(out, day)) \in Nat
  BY TrainingsCover
<1>2. Cardinality(Dated(S, d, out, day)) <= Cardinality(Trainings(out, day))
  BY <1>1, FS_Subset
<1>3. Cardinality(Dated(S, d, out, day)) \in Nat
  BY DatedFinite
<1> QED
  BY <1>1, <1>2, <1>3, LifecycleAssumption DEF BudgetAllows

\* A step of somebody else, if only of the clock.
LEMMA SideUntouched ==
    ASSUME NEW S \in SUBSET Owners, NEW c, NEW u, NEW b, NEW u2, NEW b2, NEW due,
           NEW t \in Days, NEW t2 \in Days, t <= t2, Listed(S, c, u),
           \A p \in S : u2[p] = u[p] /\ b2[p] = b[p],
           KeepsBudget(S, c, u, b, t, due)
    PROVE  KeepsBudget(S, c, u2, b2, t2, due)
<1>1. \A p \in S : ListOf(c, u2, p) = ListOf(c, u, p)
  BY DEF ListOf
<1>2. \A p \in S : Lost(c, u2, b2, p) <=> Lost(c, u, b, p)
  BY DEF Lost
<1>3. ASSUME NEW day1 PROVE Dated(S, c, u2, day1) = Dated(S, c, u, day1)
  BY <1>1 DEF Dated
<1>4. ASSUME NEW p \in S, NEW i \in DOMAIN ListOf(c, u2, p)
      PROVE  ListOf(c, u2, p)[i] <= t2
  <2>1. PICK l : l = ListOf(c, u, p)
    OBVIOUS
  <2>2. l \in Seq(Days) /\ i \in DOMAIN l
    BY <1>1, <1>4, <2>1, AttemptListsAreSequences DEF Listed
  <2>3. l[i] \in Days /\ l[i] <= t
    BY <2>1, <2>2 DEF KeepsBudget
  <2>4. l[i] <= t2
    BY <2>3, LifecycleAssumption DEF Days
  <2> QED
    BY <1>1, <2>1, <2>4
<1>5. \A day1 \in Days : day1 >= t2 => day1 >= t
  BY LifecycleAssumption DEF Days
<1> QED
  BY <1>2, <1>3, <1>4, <1>5 DEF KeepsBudget

LEMMA SameDay == ASSUME Orchestrate \/ Qualify PROVE day' = day
<1>1. CASE Orchestrate
  BY <1>1, SMTT(30)
  DEF Orchestrate, New, Resume, RevalidateEvidence, Begin, Recheck, CooldownBlocks, BudgetBlocks,
      Approve, Attempt, StartExecution, Trained, TrainingFailed, Validate, Validated, Enroll,
      EnrollSucceeds, StageFails, Refresh, Observe, Track, TrackUnchanged, Revalidate, MoveIn,
      Published, PublicationFails, Return, Interrupt
<1>2. CASE Qualify
  BY <1>2, SMTT(10), ZenonT(60)
  DEF Qualify, Start, Cancel, Retry, StartValidation, StartObservation, Authorize, Revoke, Claim,
      RecordFile, FileWithoutEvent, StartCheck, CheckPasses, CheckBlocks, StartStage, RunStage,
      LifecycleLockBusy, StageEnds, TrainingRaises, Succeed, FailStage, Conclude, QMoveIn,
      QPublicationFails, QPublished, QInterrupt, controlVars, lifecycleVars
<1> QED
  BY <1>1, <1>2

\* The command of one side moves on one of its owners, and the other side looks on.
LEMMA SideMoves ==
    ASSUME RetrainingInv, RetrainingInv', day' = day, NEW S \in SUBSET Owners, NEW o \in S,
           Only(o), NEW c, NEW d, NEW due \in BOOLEAN, NEW due2 \in BOOLEAN,
           c.at # "idle" => /\ c.run = o /\ IsSnapshot(c.snap)
                            /\ Protocol(c, out[o], bak[o], begun[o]),
           d.at # "idle" => d.run = o /\ IsSnapshot(d.snap),
           Move(c, d, out[o], bak[o], begun[o], out'[o], bak'[o], begun'[o]),
           Announces(c, d, out[d.run], day, due),
           due2 => BudgetAllows /\ UNCHANGED storeVars /\ d.at # "moved",
           KeepsBudget(S, c, out, bak, day, due)
    PROVE  KeepsBudget(S, d, out', bak', day, due2)
<1>1. /\ \A p \in S : out[p] = NoSnapshot \/ IsSnapshot(out[p])
      /\ bak[o] = NoSnapshot \/ IsSnapshot(bak[o])
      /\ begun[o] \in Nat /\ begun'[o] \in Nat /\ day \in Days
  BY StorageFacts DEF RetrainingInv, Only
<1>2. /\ out'[o] = NoSnapshot \/ IsSnapshot(out'[o])
      /\ bak'[o] = NoSnapshot \/ IsSnapshot(bak'[o])
  <2>1. {out'[o], bak'[o]} \subseteq SnapshotsOf(o)
    BY DEF RetrainingInv, StorageOK, SnapshotsOf
  <2> QED
    BY <2>1, LifecycleFacts, QualificationFacts DEF SnapshotsOf
<1>3. Typed(c, out[o], bak[o], begun[o]) /\ Typed(d, out'[o], bak'[o], begun'[o])
  BY <1>1, <1>2 DEF Typed
<1>4. Protocol(c, out[o], bak[o], begun[o])
  <2>1. begun[o] <= Len(AttemptsOf(SettledOf(out[o], bak[o])))
    BY DEF RetrainingInv, AttemptsAreRecorded, Attempts, Settled, AttemptsOf, SettledOf
  <2>2. CASE c.at = "idle"
    BY <2>1, <2>2 DEF Protocol, Starting, Away, Publishing, Filing
  <2> QED
    BY <2>2
<1>5. Announces(c, d, out[o], day, due)
  BY DEF Announces
<1>6. due2 => Cardinality(Dated(S, d, out', day)) < Limit
  BY <1>1, RoomToday DEF storeVars
<1>7. \A p \in S \ {o} : out'[p] = out[p] /\ bak'[p] = bak[p]
  BY DEF Only
<1>8. SideMove(S, o, c, d, out, bak, begun[o], out', bak', begun'[o], day, due)
  BY <1>1, <1>3, <1>4, <1>5, <1>7 DEF SideMove
<1> QED
  BY <1>1, <1>6, <1>8, SideStep

LEMMA OrchestrateKeepsBudget ==
    ASSUME BudgetInv, RetrainingInv', Orchestrate, UNCHANGED <<auths, qcall>>
    PROVE  BudgetInv'
<1>1. CommandOK /\ day \in Days /\ RetrainingInv
  BY StorageFacts DEF BudgetInv, RetrainingInv, CommandOK
<1>2. PICK r \in Requests :
        /\ Only(r) /\ MoveOn(r)
        /\ call.at # "idle" => call.run = r
        /\ call'.at # "idle" => call'.run = r
  BY <1>1, OrchestrateIsStep DEF CommandStep
<1>3. r \in Owners \ Quals /\ Owners \ Quals \in SUBSET Owners /\ Quals \in SUBSET Owners
  BY LifecycleAssumption, QualificationAssumption
<1>4. call.at # "idle" => /\ call.run = r /\ IsSnapshot(call.snap)
                          /\ Protocol(call, out[r], bak[r], begun[r])
  BY <1>1, <1>2, SnapshotLists DEF RetrainingInv
<1>5. call'.at # "idle" => call'.run = r /\ IsSnapshot(call'.snap)
  BY <1>2, LifecycleFacts DEF RetrainingInv, CommandTypeOK, NoCall, Commands
<1>6. day' = day
  BY SameDay
<1>7. KeepsBudget(Owners \ Quals, call', out', bak', day, call'.at = "stamp")
  <2>1. /\ Announces(call, call', out[call'.run], day, call.at = "stamp")
        /\ call'.at = "stamp" => BudgetAllows /\ UNCHANGED storeVars /\ call'.at # "moved"
    BY <1>1, OrchestrateAnnounces
  <2>2. KeepsBudget(Owners \ Quals, call, out, bak, day, call.at = "stamp")
    BY DEF BudgetInv
  <2> QED
    BY <1>1, <1>2, <1>3, <1>4, <1>5, <1>6, <2>1, <2>2, SideMoves DEF MoveOn
<1>8. KeepsBudget(Quals, qcall, out', bak', day, QualDue)
  <2>1. Listed(Quals, qcall, out)
    BY <1>1, <1>3, SnapshotLists DEF Listed
  <2>2. \A p \in Quals : out'[p] = out[p] /\ bak'[p] = bak[p]
    BY <1>2, <1>3 DEF Only
  <2>3. day <= day
    BY <1>1, LifecycleAssumption DEF Days
  <2>4. KeepsBudget(Quals, qcall, out, bak, day, QualDue)
    BY DEF BudgetInv
  <2> QED
    BY <1>1, <1>3, <2>1, <2>2, <2>3, <2>4, SideUntouched
<1>9. qcall' = qcall /\ (QualDue <=> QualDue')
  BY DEF QualDue
<1> QED
  BY <1>6, <1>7, <1>8, <1>9 DEF BudgetInv, QualDue

LEMMA QualifyKeepsBudget ==
    ASSUME BudgetInv, RetrainingInv', Qualify
    PROVE  BudgetInv'
<1>1. QualCallOK /\ day \in Days /\ RetrainingInv
  BY StorageFacts DEF BudgetInv, RetrainingInv, QualCallOK
<1>2. PICK q \in Quals :
        /\ Only(q) /\ QualMoveOn(q)
        /\ qcall.at # "idle" => qcall.run = q
        /\ qcall'.at # "idle" => qcall'.run = q
  BY <1>1, QualifyIsStep DEF QualStep
<1>3. Owners \ Quals \in SUBSET Owners /\ Quals \in SUBSET Owners
  BY QualificationAssumption
<1>4. qcall.at # "idle" => /\ qcall.run = q /\ IsSnapshot(qcall.snap)
                           /\ Protocol(qcall, out[q], bak[q], begun[q])
  BY <1>1, <1>2, SnapshotLists DEF RetrainingInv
<1>5. qcall'.at # "idle" => qcall'.run = q /\ IsSnapshot(qcall'.snap)
  BY <1>2, QualificationFacts DEF RetrainingInv, QualCallTypeOK, NoQualCall, QualCalls
<1>6. day' = day /\ call' = call
  BY SameDay, QualifyLeavesCall
<1>7. KeepsBudget(Quals, qcall', out', bak', day, QualDue')
  <2>1. /\ Announces(qcall, qcall', out[qcall'.run], day, QualDue)
        /\ QualDue' => BudgetAllows /\ UNCHANGED storeVars /\ qcall'.at # "moved"
    BY <1>1, QualifyAnnounces DEF QualDue
  <2>2. KeepsBudget(Quals, qcall, out, bak, day, QualDue)
    BY DEF BudgetInv
  <2>3. QualDue \in BOOLEAN /\ QualDue' \in BOOLEAN
    BY DEF QualDue
  <2> QED
    BY <1>1, <1>2, <1>3, <1>4, <1>5, <1>6, <2>1, <2>2, <2>3, SideMoves DEF QualMoveOn
<1>8. KeepsBudget(Owners \ Quals, call, out', bak', day, call.at = "stamp")
  <2>1. Listed(Owners \ Quals, call, out)
    BY <1>1, SnapshotLists DEF Listed
  <2>2. \A p \in Owners \ Quals : out'[p] = out[p] /\ bak'[p] = bak[p]
    BY <1>2 DEF Only
  <2>3. day <= day
    BY <1>1, LifecycleAssumption DEF Days
  <2>4. KeepsBudget(Owners \ Quals, call, out, bak, day, call.at = "stamp")
    BY DEF BudgetInv
  <2> QED
    BY <1>1, <1>3, <2>1, <2>2, <2>3, <2>4, SideUntouched
<1> QED
  BY <1>6, <1>7, <1>8 DEF BudgetInv

LEMMA OthersKeepBudget ==
    ASSUME BudgetInv, RetrainingInv', UNCHANGED <<storeVars, call, qcall, auths>>,
           day' = day \/ NextDay
    PROVE  BudgetInv'
<1>1. day \in Days /\ day' \in Days /\ day <= day' /\ RetrainingInv
  BY LifecycleAssumption DEF BudgetInv, RetrainingInv, NextDay, Days
<1>2. Owners \ Quals \in SUBSET Owners /\ Quals \in SUBSET Owners
  BY QualificationAssumption
<1>3. Listed(Owners \ Quals, call, out) /\ Listed(Quals, qcall, out)
  BY <1>1, <1>2, SnapshotLists DEF Listed
<1>4. out' = out /\ bak' = bak /\ call' = call /\ qcall' = qcall /\ auths' = auths
  BY DEF storeVars
<1>5. KeepsBudget(Owners \ Quals, call, out', bak', day', call.at = "stamp")
  BY <1>1, <1>2, <1>3, <1>4, SideUntouched DEF BudgetInv
<1>6. KeepsBudget(Quals, qcall, out', bak', day', QualDue)
  BY <1>1, <1>2, <1>3, <1>4, SideUntouched DEF BudgetInv
<1> QED
  BY <1>4, <1>5, <1>6 DEF BudgetInv, QualDue

LEMMA BudgetStep ==
    ASSUME BudgetInv, [Next]_qualificationVars
    PROVE  BudgetInv'
<1>1. RetrainingInv' /\ Surroundings
  BY StepKeepsInv DEF BudgetInv
<1>2. CASE Qualify
  BY <1>1, <1>2, QualifyKeepsBudget
<1>3. CASE Orchestrate /\ UNCHANGED <<auths, qcall>>
  BY <1>1, <1>3, OrchestrateKeepsBudget
<1>4. CASE (Operate \/ NextDay) /\ UNCHANGED <<auths, qcall>>
  BY <1>1, <1>4, OperateSurroundings, OthersKeepBudget DEF Surroundings
<1>5. CASE UNCHANGED qualificationVars
  BY <1>1, <1>5, OthersKeepBudget DEF qualificationVars, lifecycleVars, controlVars
<1> QED
  BY <1>2, <1>3, <1>4, <1>5 DEF Next

LEMMA InitBudgetInv == ASSUME QualificationInit PROVE BudgetInv
<1>1. RetrainingInv
  BY InitRetrainingInv
<1>2. PICK history \in Histories : StoreInit(history)
  BY DEF QualificationInit, LifecycleInit
<1>3. /\ out = history /\ day = 0 /\ call.at = "idle" /\ qcall.at = "idle"
      /\ \A o \in Owners : bak[o] = NoSnapshot
      /\ \A q \in Quals : out[q] = NoSnapshot
  BY <1>2, QualificationAssumption
  DEF StoreInit, QualificationInit, LifecycleInit, NoCall, NoQualCall
<1>4. \A d \in Days : Cardinality(Trainings(out, d)) <= IF d = 0 THEN Limit ELSE 0
  BY <1>2, <1>3, HistoryAssumption
<1>5. ASSUME NEW S \in SUBSET Owners, NEW c, c.at = "idle", Listed(S, c, out)
      PROVE  KeepsBudget(S, c, out, bak, day, FALSE)
  <2>1. ASSUME NEW d \in Days
        PROVE  /\ Dated(S, c, out, d) \in SUBSET Trainings(out, d)
               /\ IsFiniteSet(Trainings(out, d)) /\ Cardinality(Trainings(out, d)) \in Nat
    BY <1>5, TrainingsCover
  <2>2. ASSUME NEW d \in Days PROVE Cardinality(Dated(S, c, out, d)) <= Limit
    <3>1. Cardinality(Dated(S, c, out, d)) <= Cardinality(Trainings(out, d))
      BY <2>1, FS_Subset
    <3> QED
      BY <1>4, <2>1, <3>1, DatedFinite, LifecycleAssumption
  <2>3. ASSUME NEW p \in S, NEW i \in DOMAIN ListOf(c, out, p)
        PROVE  ListOf(c, out, p)[i] <= day
    <3>1. PICK l : l = ListOf(c, out, p)
      OBVIOUS
    <3>2. l \in Seq(Days) /\ i \in 1..Len(l) /\ Len(l) <= MaxAttempts
      BY <1>5, <2>3, <3>1, AttemptListsAreSequences DEF Listed
    <3>3. l[i] \in Days /\ i \in 1..MaxAttempts
      BY <3>2, LifecycleAssumption
    <3>4. <<p, i>> \in Trainings(out, l[i])
      <4>1. <<p, i>> \in Dated(S, c, out, l[i])
        BY <2>3, <3>1, <3>3 DEF Dated
      <4> QED
        BY <2>1, <3>3, <4>1
    <3>5. l[i] = 0
      <4>1. Cardinality(Trainings(out, l[i])) # 0
        BY <2>1, <3>3, <3>4, FS_EmptySet
      <4> QED
        BY <1>4, <2>1, <3>3, <4>1
    <3> QED
      BY <1>3, <3>1, <3>5
  <2> QED
    BY <2>2, <2>3 DEF KeepsBudget
<1>6. Listed(Owners \ Quals, call, out) /\ Listed(Quals, qcall, out)
      /\ Owners \ Quals \in SUBSET Owners /\ Quals \in SUBSET Owners
  BY <1>1, SnapshotLists DEF Listed
<1>7. (call.at = "stamp") = FALSE /\ QualDue = FALSE
  BY <1>3 DEF QualDue
<1> QED
  BY <1>1, <1>3, <1>5, <1>6, <1>7 DEF BudgetInv

\* Neither the lifecycles nor the qualifications exceed the daily budget on their own,
\* on any day: no later one, either, if training is approved before midnight and recorded
\* after it, and whichever publication fails (orchestration/controls.py,
\* qualification/service.py).
THEOREM EachSideStaysInBudget == Spec => []EachSideKeepsBudget
<1>1. QualificationInit => BudgetInv
  BY InitBudgetInv
<1>2. BudgetInv /\ [Next]_qualificationVars => BudgetInv'
  BY BudgetStep
<1>3. ASSUME BudgetInv PROVE EachSideKeepsBudget
  <2>0. RetrainingInv
    BY <1>3 DEF BudgetInv
  <2>1. ASSUME NEW S \in SUBSET Owners, NEW c, NEW due, NEW d \in Days,
               c.at = "moved" => out[c.run] = NoSnapshot,
               KeepsBudget(S, c, out, bak, day, due),
               \A o \in S : out[o] = NoSnapshot => bak[o] = NoSnapshot
        PROVE  Cardinality({t \in Trainings(out, d) : t[1] \in S}) <= Limit
    <3> DEFINE T == {t \in Trainings(out, d) : t[1] \in S}
    <3>1. Cardinality(Dated(S, c, out, d)) <= Limit
      BY <2>1 DEF KeepsBudget, Lost
    <3>2. T \in SUBSET Dated(S, c, out, d)
      BY <2>1 DEF Trainings, Dated, ListOf, AttemptsOf
    <3>3. IsFiniteSet(Dated(S, c, out, d)) /\ Cardinality(Dated(S, c, out, d)) \in Nat
      BY DatedFinite
    <3>4. Cardinality(T) <= Cardinality(Dated(S, c, out, d)) /\ Cardinality(T) \in Nat
      BY <3>2, <3>3, FS_Subset, FS_CardinalityType
    <3> HIDE DEF T
    <3>5. Cardinality(T) <= Limit
      BY <3>1, <3>3, <3>4, LifecycleAssumption
    <3> QED
      BY <3>5 DEF T
  <2>2. /\ call.at = "moved" => out[call.run] = NoSnapshot
        /\ qcall.at = "moved" => out[qcall.run] = NoSnapshot
    BY <2>0 DEF RetrainingInv, Protocol
  <2>3. /\ KeepsBudget(Owners \ Quals, call, out, bak, day, call.at = "stamp")
        /\ KeepsBudget(Quals, qcall, out, bak, day, QualDue)
    BY <1>3 DEF BudgetInv
  <2>4. Owners \ Quals \in SUBSET Owners /\ Quals \in SUBSET Owners
    BY QualificationAssumption
  <2> QED
    BY <2>1, <2>2, <2>3, <2>4 DEF EachSideKeepsBudget
<1> QED
  BY <1>1, <1>2, <1>3, PTL DEF Spec
=============================================================================
