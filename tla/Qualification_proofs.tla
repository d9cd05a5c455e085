------------------------------ MODULE Qualification_proofs ------------------------------
(***************************************************************************)
(* Proofs about the whole retraining system: lifecycles, qualifications    *)
(* and the executions of both, for any number of requests, qualifications, *)
(* policies, authorizations and faults.                                    *)
(***************************************************************************)
EXTENDS Qualification, RetrainingLifecycle_proofs

-----------------------------------------------------------------------------
(***************************************************************************)
(* What the command of a qualification holds.                              *)
(***************************************************************************)

QPoints == {"check", "run", "executing", "working", "succeeded", "failed", "conclude"}
QContinuations == {"check", "run", "conclude", "return"}

Authorizations ==
    [of : Quals, stage : {"training", "shadow"}, files : SUBSET Files, until : Days]

AuthsOK == auths \in Seq(Authorizations) /\ Len(auths) <= MaxAuths

QualCalls ==
    [at : QPoints \cup Publishing \cup Filing, run : Quals, snap : Qualifications,
     then : QContinuations \cup {"idle"}, auth : Nat]

QualCallTypeOK ==
    \/ qcall = NoQualCall
    \/ /\ qcall \in QualCalls /\ qcall.auth <= Len(auths)
       /\ qcall.at \in Publishing => qcall.then \in QContinuations
       /\ qcall.at = "claimed" =>
            /\ qcall.auth \in DOMAIN auths
            /\ auths[qcall.auth].stage = "training" => Len(qcall.snap.attempts) < MaxAttempts

QualificationsStored(q) == {out[q], bak[q]} \subseteq Qualifications \cup {NoSnapshot}

QualStoresOK ==
    /\ Stored(out) /\ Stored(bak) /\ begun \in [Owners -> Nat]
    /\ \A q \in Quals : QualificationsStored(q)

QualCallOK ==
    /\ QualCallTypeOK /\ QualStoresOK /\ AuthsOK
    /\ qcall.at # "idle" => Protocol(qcall, out[qcall.run], bak[qcall.run], begun[qcall.run])

QualMoveOn(q) == Move(qcall, qcall', out[q], bak[q], begun[q], out'[q], bak'[q], begun'[q])

QualStep ==
    /\ QualCallTypeOK' /\ AuthsOK'
    /\ \E q \in Quals :
        /\ Only(q) /\ QualificationsStored(q)' /\ QualMoveOn(q)
        /\ qcall.at # "idle" => qcall.run = q
        /\ qcall'.at # "idle" => qcall'.run = q

LEMMA QualStoreMoves ==
    ASSUME QualStoresOK, NEW o \in Owners, UNCHANGED begun
    PROVE  /\ UNCHANGED storeVars => Only(o) /\ out'[o] = out[o] /\ bak'[o] = bak[o]
           /\ Aside(o) => Only(o) /\ out'[o] = NoSnapshot /\ bak'[o] = out[o]
           /\ \A s : In(o, s) => Only(o) /\ out'[o] = s /\ bak'[o] = bak[o]
           /\ DropBackup(o) => Only(o) /\ out'[o] = out[o] /\ bak'[o] = NoSnapshot
           /\ RollBack(o) => Only(o) /\ out'[o] = bak[o] /\ bak'[o] = NoSnapshot
BY DEF QualStoresOK, Stored, Only, storeVars, Aside, In, DropBackup, RollBack

LEMMA QualificationFacts ==
    ASSUME NEW s \in Qualifications
    PROVE  /\ IsSnapshot(s) /\ s.state \in QualificationStates /\ s.attempts \in AttemptLists
           /\ s.done \in SUBSET Stages /\ Len(s.attempts) \in Nat
BY QualificationAssumption, PrefixFacts DEF Qualifications, IsSnapshot

LEMMA QGotoFacts ==
    ASSUME NEW s \in Qualifications, NEW st \in QualificationStates
    PROVE  /\ QGoto(s, st) \in Qualifications
           /\ QGoto(s, st).attempts = s.attempts /\ QGoto(s, st).done = s.done
           /\ QGoto(s, st).state = st /\ QGoto(s, st).recorded = s.recorded
<1>1. 0 \in 0..MaxAuths
  BY QualificationAssumption
<1>2. [s EXCEPT !.state = st] \in Qualifications
  BY DEF Qualifications
<1>3. QGoto(s, st) = [[s EXCEPT !.state = st] EXCEPT !.tail = 0]
  BY DEF QGoto
<1> QED
  BY <1>1, <1>2, <1>3 DEF Qualifications

LEMMA QualCallFacts ==
    ASSUME QualCallOK, qcall.at # "idle"
    PROVE  /\ qcall \in QualCalls /\ qcall.snap \in Qualifications
           /\ qcall.run \in Quals /\ qcall.run \in Owners
BY QualificationAssumption DEF QualCallOK, QualCallTypeOK, NoQualCall, QualCalls

\* A snapshot that continues another, as for lifecycles.
LEMMA LaterQualification ==
    ASSUME NEW s \in Qualifications, NEW t \in Qualifications,
           \/ t.attempts = s.attempts
           \/ \E d \in Days : t.attempts = Append(s.attempts, d),
           s.done \subseteq t.done
    PROVE  Follows(t, s)
BY QualificationFacts, PrefixFacts DEF Follows, Kept, AttemptsOf, ResultsOf, IsSnapshot

\* A file beside an authorization changes nothing else.
LEMMA WriteFacts ==
    ASSUME AuthsOK, NEW a \in DOMAIN auths, NEW files \in SUBSET Files, Write(a, files)
    PROVE  /\ AuthsOK' /\ Len(auths') = Len(auths) /\ DOMAIN auths' = DOMAIN auths
           /\ \A b \in DOMAIN auths :
                /\ auths'[b].of = auths[b].of /\ auths'[b].stage = auths[b].stage
                /\ auths'[b].files =
                    IF b = a THEN auths[b].files \cup files ELSE auths[b].files
<1> DEFINE n == Len(auths)
<1>1. n \in Nat /\ DOMAIN auths = 1..n /\ auths \in [1..n -> Authorizations]
  BY DEF AuthsOK
<1>2. auths' \in [1..n -> Authorizations]
  BY <1>1 DEF Write, Authorizations
<1>3. auths' \in Seq(Authorizations) /\ Len(auths') = n
  BY <1>1, <1>2
<1> QED
  BY <1>1, <1>2, <1>3 DEF Write, AuthsOK, Authorizations

-----------------------------------------------------------------------------
(***************************************************************************)
(* Every action of a qualification is a move on its snapshot.              *)
(***************************************************************************)

\* The command ends or goes on and stores nothing.
LEMMA QualGoesIsStep ==
    ASSUME QualCallOK, qcall.at # "idle", UNCHANGED <<storeVars, begun>>,
           AuthsOK', Len(auths') = Len(auths),
           \/ qcall' = NoQualCall
           \/ /\ qcall.at \in QPoints
              /\ \E at \in QPoints \ {"run"} : qcall' = [qcall EXCEPT !.at = at]
    PROVE  QualStep
<1>1. /\ qcall \in QualCalls /\ qcall.snap \in Qualifications
      /\ qcall.run \in Quals /\ qcall.run \in Owners
  BY QualCallFacts
<1>2. Only(qcall.run) /\ out'[qcall.run] = out[qcall.run] /\ bak'[qcall.run] = bak[qcall.run]
  BY <1>1, QualStoreMoves DEF QualCallOK
<1>3. CASE qcall' = NoQualCall
  BY <1>1, <1>2, <1>3
  DEF QualCallOK, QualStoresOK, QualificationsStored, QualStep, QualCallTypeOK, NoQualCall,
      QualMoveOn, Move, Leaves
<1>4. ASSUME NEW at \in QPoints \ {"run"}, qcall.at \in QPoints,
             qcall' = [qcall EXCEPT !.at = at]
      PROVE  QualStep
  <2>1. /\ qcall' \in QualCalls /\ qcall'.at = at /\ qcall'.snap = qcall.snap
        /\ qcall'.run = qcall.run /\ qcall'.auth = qcall.auth
    BY <1>1, <1>4 DEF QualCalls
  <2>2. QualCallTypeOK'
    BY <1>1, <1>4, <2>1
    DEF QualCallOK, QualCallTypeOK, NoQualCall, QPoints, Publishing
  <2>3. Goes(qcall, qcall')
    BY <1>4, <2>1 DEF Goes, Away, Publishing, Filing, Starting, QPoints
  <2> QED
    BY <1>1, <1>2, <2>1, <2>2, <2>3
    DEF QualCallOK, QualStoresOK, QualificationsStored, QualStep, QualMoveOn, Move
<1> QED
  BY <1>3, <1>4

\* q is free to publish s: what s continues is visible and nothing is left behind.
LEMMA QualPublishIsStep ==
    ASSUME QualCallOK, NEW q \in Quals,
           bak[q] = NoSnapshot,
           qcall.at = "idle" \/ (qcall.run = q /\ qcall.at \notin Publishing),
           NEW s \in Qualifications, NEW then \in QContinuations, Follows(s, out[q]),
           then = "run" /\ s.state = "TRAINING" =>
                Len(AttemptsOf(out[q])) < Len(s.attempts),
           NEW a \in 0..Len(auths), QPublish(q, s, then, a),
           AuthsOK', Len(auths') = Len(auths), UNCHANGED begun
    PROVE  QualStep
<1>1. q \in Owners
  BY QualificationAssumption
<1>2. /\ Only(q) /\ out'[q] = NoSnapshot /\ bak'[q] = out[q] /\ begun'[q] = begun[q]
  BY <1>1, QualStoreMoves DEF QualCallOK, QPublish
<1>3. /\ qcall' \in QualCalls /\ qcall'.at = "moved" /\ qcall'.snap = s
      /\ qcall'.then = then /\ qcall'.run = q /\ qcall'.auth = a
  BY DEF QualCallOK, AuthsOK, QualCalls, QPublish, Publishing
<1>4. QualCallTypeOK'
  BY <1>3 DEF QualCallTypeOK
<1>5. Starting(qcall') => then = "run" /\ s.state = "TRAINING"
  BY <1>3 DEF Starting, QContinuations
<1>6. Publishes(qcall, qcall', out[q], bak[q], out'[q], bak'[q])
  BY <1>2, <1>3, <1>5 DEF Publishes, Publishing
<1> QED
  BY <1>1, <1>2, <1>3, <1>4, <1>6
  DEF QualCallOK, QualStoresOK, QualificationsStored, QualStep, QualMoveOn, Move

\* The next event of a running command.
LEMMA QualEventIsStep ==
    ASSUME QualCallOK, qcall.at \in QPoints,
           NEW s \in Qualifications, s.attempts = qcall.snap.attempts,
           qcall.snap.done \subseteq s.done,
           NEW then \in QContinuations, then = "run" => s.state # "TRAINING",
           QPublish(qcall.run, s, then, 0),
           AuthsOK', Len(auths') = Len(auths), UNCHANGED begun
    PROVE  QualStep
<1>1. qcall.at # "idle" /\ qcall.at \notin Publishing
  BY DEF QPoints, Publishing
<1>2. qcall.snap \in Qualifications /\ qcall.run \in Quals
  BY <1>1, QualCallFacts
<1>3. out[qcall.run] = qcall.snap /\ bak[qcall.run] = NoSnapshot
  BY <1>1 DEF QualCallOK, Protocol, QPoints, Away, Publishing, Filing
<1>4. Follows(s, out[qcall.run])
  BY <1>2, <1>3, LaterQualification
<1>5. 0 \in 0..Len(auths)
  BY DEF QualCallOK, AuthsOK
<1> QED
  BY <1>1, <1>2, <1>3, <1>4, <1>5, QualPublishIsStep

\* The first event of a command that only publishes.
LEMMA QualOpeningIsStep ==
    ASSUME QualCallOK, NEW q \in Quals, Ready(q),
           NEW st \in QualificationStates, NEW then \in QContinuations,
           then = "run" => st # "TRAINING",
           QPublish(q, QGoto(out[q], st), then, 0),
           UNCHANGED <<auths, begun>>
    PROVE  QualStep
<1> DEFINE s == QGoto(out[q], st)
<1>1. out[q] \in Qualifications /\ bak[q] = NoSnapshot /\ qcall.at = "idle"
  BY DEF Ready, Visible, Stale, QualCallOK, QualStoresOK, QualificationsStored
<1>2. /\ s \in Qualifications /\ s.attempts = out[q].attempts /\ s.done = out[q].done
      /\ s.state = st
  BY <1>1, QGotoFacts
<1>3. Follows(s, out[q])
  BY <1>1, <1>2, LaterQualification
<1>4. 0 \in 0..Len(auths) /\ AuthsOK'
  BY DEF QualCallOK, AuthsOK
<1> QED
  BY <1>1, <1>2, <1>3, <1>4, QualPublishIsStep

LEMMA QualOpenings ==
    ASSUME QualCallOK, NEW q \in Quals,
           Start(q) \/ Cancel(q) \/ Retry(q) \/ StartValidation(q) \/ StartObservation(q)
    PROVE  QualStep
<1> USE DEF QContinuations, QualificationStates, Running, Closed, Approvable, Checking
<1>1. CASE Start(q)
  <2> DEFINE s == [state |-> "CREATED", attempts |-> <<>>, done |-> {}, tail |-> 0,
                   recorded |-> {}, revoked |-> {}]
  <2>1. s \in Qualifications
    BY AttemptListsAreSequences, LifecycleAssumption, QualificationAssumption
    DEF Qualifications
  <2>2. Follows(s, out[q])
    BY <1>1, <2>1, QualificationFacts, PrefixFacts
    DEF Start, Follows, Kept, AttemptsOf, ResultsOf, IsSnapshot
  <2>3. 0 \in 0..Len(auths) /\ AuthsOK' /\ Len(auths') = Len(auths)
    BY <1>1 DEF Start, QualCallOK, AuthsOK
  <2>4. QPublish(q, s, "check", 0) /\ bak[q] = NoSnapshot /\ qcall.at = "idle" /\ UNCHANGED begun
    BY <1>1 DEF Start, Stale, controlVars
  <2> HIDE DEF s
  <2> QED
    BY <2>1, <2>2, <2>3, <2>4, QualPublishIsStep
<1>2. CASE Cancel(q)
  BY <1>2, QualOpeningIsStep DEF Cancel, controlVars
<1>3. CASE Retry(q)
  BY <1>3, QualOpeningIsStep DEF Retry, controlVars
<1>4. CASE StartValidation(q)
  BY <1>4, QualOpeningIsStep DEF StartValidation, controlVars
<1>5. CASE StartObservation(q)
  BY <1>5, QualOpeningIsStep DEF StartObservation, controlVars
<1> QED
  BY <1>1, <1>2, <1>3, <1>4, <1>5

LEMMA QualChecks ==
    ASSUME QualCallOK, StartCheck \/ CheckPasses \/ CheckBlocks
    PROVE  QualStep
<1>1. qcall.at \in QPoints /\ qcall.snap \in Qualifications
      /\ UNCHANGED <<begun, auths>> /\ AuthsOK' /\ Len(auths') = Len(auths)
  BY QualCallFacts DEF StartCheck, CheckPasses, CheckBlocks, QPoints, controlVars, QualCallOK, AuthsOK
<1>2. PICK st \in QualificationStates \ {"TRAINING"}, then \in {"check", "return"} :
            QPublish(qcall.run, QGoto(qcall.snap, st), then, 0)
  <2> USE DEF QualificationStates, Checking, Blocked, Approvable
  <2>1. ASSUME NEW st
        PROVE  {NextCheck(st), PassedCheck(st), BlockedCheck(st)}
                 \subseteq QualificationStates \ {"TRAINING"}
    BY DEF NextCheck, PassedCheck, BlockedCheck
  <2> HIDE DEF QualificationStates
  <2>2. CASE StartCheck
    BY <2>1, <2>2 DEF StartCheck
  <2>3. CASE CheckPasses
    BY <2>1, <2>3 DEF CheckPasses
  <2>4. CASE CheckBlocks
    BY <2>1, <2>4 DEF CheckBlocks
  <2> QED
    BY <2>2, <2>3, <2>4
<1> DEFINE s == QGoto(qcall.snap, st)
<1>3. s \in Qualifications /\ s.attempts = qcall.snap.attempts /\ s.done = qcall.snap.done
      /\ s.state = st
  BY <1>1, <1>2, QGotoFacts
<1> QED
  BY <1>1, <1>2, <1>3, QualEventIsStep DEF QContinuations

\* A command that first writes a file beside an authorization.
LEMMA FilingIsStep ==
    ASSUME QualCallOK, NEW q \in Quals, Visible(q), AuthsOK', UNCHANGED <<storeVars, begun>>,
           qcall' \in QualCalls, qcall'.at \in Filing, qcall'.run = q,
           qcall'.auth <= Len(auths'), SameHistory(qcall'.snap, out[q]),
           qcall'.at = "claimed" =>
                /\ qcall'.auth \in DOMAIN auths'
                /\ auths'[qcall'.auth].stage = "training" =>
                        Len(qcall'.snap.attempts) < MaxAttempts
    PROVE  QualStep
<1>1. q \in Owners
  BY QualificationAssumption
<1>2. Only(q) /\ out'[q] = out[q] /\ bak'[q] = bak[q] /\ begun'[q] = begun[q]
  BY <1>1, QualStoreMoves DEF QualCallOK
<1>3. QualCallTypeOK'
  BY DEF QualCallTypeOK, Publishing, Filing
<1>4. Takes(qcall, qcall', out[q], bak[q])
  BY DEF Visible, Takes, Starting, Publishing, Filing
<1> QED
  BY <1>2, <1>3, <1>4
  DEF Visible, QualCallOK, QualStoresOK, QualificationsStored, QualStep, QualMoveOn, Move

LEMMA QualFilings ==
    ASSUME QualCallOK, day \in Days, NEW q \in Quals, Visible(q),
           \/ \E stage \in {"training", "shadow"} : Authorize(q, stage)
           \/ \E a \in DOMAIN auths : Revoke(q, a) \/ Claim(q, a)
    PROVE  QualStep
<1>0. /\ out[q] \in Qualifications /\ UNCHANGED <<storeVars, begun>>
      /\ auths \in Seq(Authorizations) /\ Len(auths) <= MaxAuths /\ Len(auths) \in Nat
      /\ DOMAIN auths = 1..Len(auths)
  <2>1. UNCHANGED lifecycleVars
    BY DEF Authorize, Revoke, Claim
  <2>2. out[q] \in Qualifications
    BY DEF Visible, QualCallOK, QualStoresOK, QualificationsStored
  <2> QED
    BY <2>1, <2>2 DEF lifecycleVars, controlVars, QualCallOK, AuthsOK
<1>1. ASSUME NEW stage \in {"training", "shadow"}, Authorize(q, stage)
      PROVE  QualStep
  <2> DEFINE s == [out[q] EXCEPT !.tail = Len(auths) + 1, !.recorded = @ \cup {Len(auths) + 1}]
  <2>1. PICK until \in Days : auths' = Append(auths, [of |-> q, stage |-> stage, files |-> {},
                                                     until |-> until])
    BY <1>1 DEF Authorize
  <2>2. [of |-> q, stage |-> stage, files |-> {}, until |-> until] \in Authorizations
    BY DEF Authorizations
  <2>3. AuthsOK' /\ Len(auths') = Len(auths) + 1
    <3>1. auths' \in Seq(Authorizations) /\ Len(auths') = Len(auths) + 1
      BY <1>0, <2>1, <2>2
    <3> QED
      BY <1>0, <1>1, <3>1, QualificationAssumption DEF Authorize, AuthsOK
  <2>4. Len(auths) + 1 \in 1..MaxAuths
    BY <1>0, <1>1, QualificationAssumption DEF Authorize
  <2>5. s = [[out[q] EXCEPT !.tail = Len(auths) + 1] EXCEPT !.recorded = @ \cup {Len(auths) + 1}]
    OBVIOUS
  <2>6. [out[q] EXCEPT !.tail = Len(auths) + 1] \in Qualifications
    BY <1>0, <2>4, QualificationAssumption, SMTT(30) DEF Qualifications
  <2>7. s \in Qualifications /\ SameHistory(s, out[q])
    BY <1>0, <2>4, <2>5, <2>6 DEF Qualifications, SameHistory
  <2>8. qcall' = [at |-> "filed", run |-> q, then |-> "return", auth |-> 0, snap |-> s]
    BY <1>1 DEF Authorize
  <2> HIDE DEF s
  <2> QED
    BY <1>0, <2>3, <2>7, <2>8, FilingIsStep DEF QualCalls, QContinuations, Filing
<1>2. ASSUME NEW a \in DOMAIN auths, Revoke(q, a)
      PROVE  QualStep
  <2>1. AuthsOK' /\ Len(auths') = Len(auths)
    BY <1>2, WriteFacts DEF Revoke, Files, QualCallOK
  <2>2. CASE UNCHANGED qcall
    <3>1. qcall' = NoQualCall /\ q \in Owners
      BY <2>2, QualificationAssumption
      DEF Visible, QualCallOK, QualCallTypeOK, NoQualCall, QualCalls, QPoints, Publishing, Filing
    <3>2. Only(q) /\ out'[q] = out[q] /\ bak'[q] = bak[q]
      BY <1>0, <3>1, QualStoreMoves DEF QualCallOK
    <3> QED
      BY <1>0, <2>1, <2>2, <3>1, <3>2
      DEF Visible, QualCallOK, QualStoresOK, QualificationsStored, QualStep, QualCallTypeOK,
          NoQualCall, QualMoveOn, Move, Leaves
  <2>3. CASE out[q].state \in Approvable
    <3> DEFINE s == [out[q] EXCEPT !.tail = 0, !.revoked = @ \cup {a}]
    <3>1. s = [[out[q] EXCEPT !.tail = 0] EXCEPT !.revoked = @ \cup {a}]
      OBVIOUS
    <3>2. 0 \in 0..MaxAuths /\ a \in 1..MaxAuths
      BY <1>0, QualificationAssumption
    <3>3. [out[q] EXCEPT !.tail = 0] \in Qualifications
      BY <1>0, <3>2 DEF Qualifications
    <3>4. s \in Qualifications /\ SameHistory(s, out[q])
      BY <1>0, <3>1, <3>2, <3>3 DEF Qualifications, SameHistory
    <3>5. qcall' = [at |-> "filed", run |-> q, then |-> "return", auth |-> 0, snap |-> s]
      BY <1>2, <2>3 DEF Revoke
    <3> HIDE DEF s
    <3> QED
      BY <1>0, <2>1, <3>4, <3>5, FilingIsStep DEF QualCalls, QContinuations, Filing
  <2> QED
    BY <1>2, <2>2, <2>3 DEF Revoke
<1>3. ASSUME NEW a \in DOMAIN auths, Claim(q, a)
      PROVE  QualStep
  <2>1. /\ AuthsOK' /\ Len(auths') = Len(auths) /\ DOMAIN auths' = DOMAIN auths
        /\ auths'[a].stage = auths[a].stage
    BY <1>3, WriteFacts DEF Claim, Files, QualCallOK
  <2>2. qcall' = [at |-> "claimed", run |-> q, snap |-> out[q], then |-> "idle", auth |-> a]
    BY <1>3 DEF Claim
  <2>3. auths'[a].stage = "training" => Len(out[q].attempts) < MaxAttempts
    BY <1>3, <2>1 DEF Claim, MayStart
  <2> QED
    BY <1>0, <2>1, <2>2, <2>3, FilingIsStep DEF QualCalls, Filing, SameHistory
<1> QED
  BY <1>1, <1>2, <1>3

LEMMA QualRecords ==
    ASSUME QualCallOK, RecordFile \/ FileWithoutEvent
    PROVE  QualStep
<1>0. /\ qcall.at \in Filing /\ qcall.at # "idle" /\ qcall.at \notin Publishing
      /\ UNCHANGED <<begun, auths>> /\ AuthsOK' /\ Len(auths') = Len(auths)
      /\ qcall.snap \in Qualifications /\ qcall.run \in Quals
  BY QualCallFacts
  DEF RecordFile, FileWithoutEvent, Filing, Publishing, lifecycleVars, controlVars, QualCallOK,
      AuthsOK
<1>1. CASE RecordFile
  <2>1. out[qcall.run] \in Qualifications /\ SameHistory(qcall.snap, out[qcall.run])
    BY <1>0 DEF QualCallOK, Protocol, QualStoresOK, QualificationsStored
  <2>2. Follows(qcall.snap, out[qcall.run])
    BY <1>0, <2>1, LaterQualification DEF SameHistory
  <2>3. 0 \in 0..Len(auths)
    BY DEF QualCallOK, AuthsOK
  <2> QED
    BY <1>0, <1>1, <2>2, <2>3, QualPublishIsStep DEF RecordFile, Stale, QContinuations
<1>2. CASE FileWithoutEvent
  BY <1>0, <1>2, QualGoesIsStep DEF FileWithoutEvent, lifecycleVars
<1> QED
  BY <1>1, <1>2

LEMMA StartStageIsStep ==
    ASSUME QualCallOK, day \in Days, StartStage
    PROVE  QualStep
<1>0. /\ qcall.at = "claimed" /\ qcall.at # "idle" /\ qcall.at \notin Publishing
      /\ UNCHANGED <<begun, auths>> /\ AuthsOK' /\ Len(auths') = Len(auths)
      /\ qcall.snap \in Qualifications /\ qcall.run \in Quals
      /\ qcall.auth \in DOMAIN auths /\ qcall.auth \in 0..Len(auths)
      /\ bak[qcall.run] = NoSnapshot
  BY QualCallFacts
  DEF StartStage, Publishing, controlVars, QualCallOK, QualCallTypeOK, NoQualCall, AuthsOK, Stale
<1>1. /\ out[qcall.run] \in Qualifications /\ out[qcall.run] # NoSnapshot
      /\ SameHistory(qcall.snap, out[qcall.run])
  BY <1>0, QualificationAssumption
  DEF QualCallOK, Protocol, Filing, QualStoresOK, QualificationsStored
<1>2. CASE auths[qcall.auth].stage = "training"
  <2> DEFINE t == QGoto(qcall.snap, "TRAINING")
             s == [t EXCEPT !.attempts = Append(@, day)]
  <2>1. t \in Qualifications /\ t.attempts = qcall.snap.attempts /\ t.done = qcall.snap.done
        /\ t.state = "TRAINING"
    BY <1>0, QGotoFacts DEF QualificationStates, Running
  <2>2. Len(qcall.snap.attempts) < MaxAttempts
    BY <1>0, <1>2 DEF QualCallOK, QualCallTypeOK, NoQualCall
  <2>3. /\ s \in Qualifications /\ s.done = qcall.snap.done /\ s.state = "TRAINING"
        /\ s.attempts = Append(qcall.snap.attempts, day)
    BY <2>1, <2>2, AnotherAttempt, QualificationFacts DEF Qualifications
  <2>4. Follows(s, out[qcall.run])
    BY <1>1, <2>3, LaterQualification DEF SameHistory
  <2>5. Len(AttemptsOf(out[qcall.run])) < Len(s.attempts)
    BY <1>1, <2>3, QualificationFacts, PrefixFacts DEF SameHistory, AttemptsOf
  <2>6. QPublish(qcall.run, s, "run", qcall.auth)
    BY <1>2 DEF StartStage
  <2> HIDE DEF s
  <2> QED
    BY <1>0, <2>3, <2>4, <2>5, <2>6, QualPublishIsStep DEF QContinuations
<1>3. CASE auths[qcall.auth].stage = "shadow"
  <2> DEFINE s == QGoto(qcall.snap, "SHADOW_ENROLLING")
  <2>1. s \in Qualifications /\ s.attempts = qcall.snap.attempts /\ s.done = qcall.snap.done
        /\ s.state = "SHADOW_ENROLLING"
    BY <1>0, QGotoFacts DEF QualificationStates, Running
  <2>2. Follows(s, out[qcall.run])
    BY <1>1, <2>1, LaterQualification DEF SameHistory
  <2>3. QPublish(qcall.run, s, "run", qcall.auth)
    BY <1>3 DEF StartStage
  <2> HIDE DEF s
  <2> QED
    BY <1>0, <2>1, <2>2, <2>3, QualPublishIsStep DEF QContinuations
<1> QED
  BY <1>2, <1>3 DEF StartStage

LEMMA RunStageIsStep ==
    ASSUME QualCallOK, RunStage
    PROVE  QualStep
<1>0. /\ qcall.at = "run" /\ qcall.at # "idle"
      /\ UNCHANGED <<auths, storeVars>> /\ AuthsOK' /\ Len(auths') = Len(auths)
      /\ qcall \in QualCalls /\ qcall.snap \in Qualifications
      /\ qcall.run \in Quals /\ qcall.run \in Owners
  BY QualCallFacts DEF RunStage, QualCallOK, AuthsOK
<1>1. CASE qcall.snap.state = "TRAINING"
  <2>1. /\ qcall' = [qcall EXCEPT !.at = "executing"]
        /\ begun' = [begun EXCEPT ![qcall.run] = @ + 1]
    BY <1>1 DEF RunStage
  <2>2. /\ qcall' \in QualCalls /\ qcall'.at = "executing" /\ qcall'.snap = qcall.snap
        /\ qcall'.run = qcall.run /\ qcall'.auth = qcall.auth
    BY <1>0, <2>1 DEF QualCalls, QPoints
  <2>3. /\ Only(qcall.run) /\ begun'[qcall.run] = begun[qcall.run] + 1
        /\ out'[qcall.run] = out[qcall.run] /\ bak'[qcall.run] = bak[qcall.run]
    BY <1>0, <2>1 DEF QualCallOK, QualStoresOK, Only, Stored, storeVars
  <2>4. Starts(qcall, qcall')
    BY <1>0, <1>1, <2>2 DEF Starts, Starting, Away, Publishing, Filing
  <2>5. QualCallTypeOK'
    BY <1>0, <2>2 DEF QualCallOK, QualCallTypeOK, NoQualCall, Publishing
  <2> QED
    BY <1>0, <2>2, <2>3, <2>4, <2>5
    DEF QualCallOK, QualStoresOK, QualificationsStored, QualStep, QualMoveOn, Move
<1>2. CASE qcall.snap.state # "TRAINING"
  <2>1. qcall' = [qcall EXCEPT !.at = "working"] /\ UNCHANGED begun
    BY <1>2 DEF RunStage
  <2> QED
    BY <1>0, <2>1, QualGoesIsStep DEF QPoints
<1> QED
  BY <1>1, <1>2

LEMMA ReceiptFacts ==
    ASSUME QualCallOK, qcall.at # "idle", Receipt \/ SecondReceipt
    PROVE  AuthsOK' /\ Len(auths') = Len(auths)
<1>1. qcall \in QualCalls /\ qcall.auth <= Len(auths) /\ Len(auths) \in Nat
      /\ DOMAIN auths = 1..Len(auths)
  BY DEF QualCallOK, QualCallTypeOK, NoQualCall, AuthsOK
<1>2. CASE qcall.auth = 0
  BY <1>2 DEF Receipt, SecondReceipt, QualCallOK, AuthsOK
<1>3. CASE qcall.auth # 0
  <2>1. qcall.auth \in DOMAIN auths
    BY <1>1, <1>3 DEF QualCalls
  <2> QED
    BY <1>3, <2>1, WriteFacts DEF Receipt, SecondReceipt, Files, QualCallOK
<1> QED
  BY <1>2, <1>3

LEMMA QualStages ==
    ASSUME QualCallOK,
           \/ LifecycleLockBusy \/ StageEnds \/ TrainingRaises
           \/ Succeed \/ FailStage \/ Conclude
    PROVE  QualStep
<1>0. /\ qcall.at # "idle" /\ qcall.at \in QPoints
      /\ qcall.snap \in Qualifications /\ qcall.run \in Quals
  BY QualCallFacts
  DEF LifecycleLockBusy, StageEnds, TrainingRaises, Succeed, FailStage, Conclude, QPoints
<1>1. CASE LifecycleLockBusy \/ StageEnds \/ TrainingRaises
  <2>1. /\ UNCHANGED <<auths, storeVars, begun>> /\ AuthsOK' /\ Len(auths') = Len(auths)
    BY <1>1
    DEF LifecycleLockBusy, StageEnds, TrainingRaises, lifecycleVars, controlVars, QualCallOK,
        AuthsOK
  <2>2. \E at \in {"succeeded", "failed"} : qcall' = [qcall EXCEPT !.at = at]
    BY <1>1 DEF LifecycleLockBusy, StageEnds, TrainingRaises
  <2> QED
    BY <1>0, <2>1, <2>2, QualGoesIsStep DEF QPoints
<1>2. CASE Succeed
  <2> DEFINE st == AfterStage(qcall.snap.state)
             t == QGoto(qcall.snap, st)
             s == [t EXCEPT !.done = @ \cup {StageOf(qcall.snap.state)}]
  <2>1. st \in QualificationStates /\ StageOf(qcall.snap.state) \in Stages
    BY DEF AfterStage, StageOf, QualificationStates, Approvable, Stages
  <2>2. t \in Qualifications /\ t.attempts = qcall.snap.attempts /\ t.done = qcall.snap.done
    BY <1>0, <2>1, QGotoFacts
  <2>3. s \in Qualifications /\ s.attempts = qcall.snap.attempts
        /\ qcall.snap.done \subseteq s.done
    BY <2>1, <2>2 DEF Qualifications
  <2>4. /\ QPublish(qcall.run, s, "return", 0) /\ AuthsOK' /\ Len(auths') = Len(auths)
        /\ UNCHANGED begun
    BY <1>0, <1>2, ReceiptFacts DEF Succeed, controlVars
  <2> HIDE DEF s
  <2> QED
    BY <1>0, <2>3, <2>4, QualEventIsStep DEF QContinuations
<1>3. CASE FailStage
  <2> DEFINE st == AfterFailure(qcall.snap.state)
             s == QGoto(qcall.snap, st)
  <2>1. st \in QualificationStates
    BY DEF AfterFailure, QualificationStates, Failed
  <2>2. s \in Qualifications /\ s.attempts = qcall.snap.attempts /\ s.done = qcall.snap.done
    BY <1>0, <2>1, QGotoFacts
  <2>3. /\ QPublish(qcall.run, s, "return", 0) /\ AuthsOK' /\ Len(auths') = Len(auths)
        /\ UNCHANGED begun
    BY <1>0, <1>3, ReceiptFacts DEF FailStage, controlVars
  <2> HIDE DEF s
  <2> QED
    BY <1>0, <2>2, <2>3, QualEventIsStep DEF QContinuations
<1>4. CASE Conclude
  <2>1. PICK verdict \in {"QUALIFIED", "FAILED"} :
            QPublish(qcall.run, [QGoto(qcall.snap, verdict) EXCEPT !.done = @ \cup {"observation"}],
                     "return", 0)
    BY <1>4 DEF Conclude
  <2> DEFINE t == QGoto(qcall.snap, verdict)
             s == [t EXCEPT !.done = @ \cup {"observation"}]
  <2>2. verdict \in QualificationStates /\ "observation" \in Stages
    BY DEF QualificationStates, Closed, Stages
  <2>3. t \in Qualifications /\ t.attempts = qcall.snap.attempts /\ t.done = qcall.snap.done
    BY <1>0, <2>2, QGotoFacts
  <2>4. s \in Qualifications /\ s.attempts = qcall.snap.attempts
        /\ qcall.snap.done \subseteq s.done
    BY <2>2, <2>3 DEF Qualifications
  <2>5. /\ QPublish(qcall.run, s, "return", 0) /\ AuthsOK' /\ Len(auths') = Len(auths)
        /\ UNCHANGED begun
    BY <1>4, <2>1 DEF Conclude, controlVars, QualCallOK, AuthsOK
  <2> HIDE DEF s
  <2> QED
    BY <1>0, <2>4, <2>5, QualEventIsStep DEF QContinuations
<1> QED
  BY <1>1, <1>2, <1>3, <1>4

LEMMA QualPublications ==
    ASSUME QualCallOK,
           QMoveIn \/ QPublicationFails \/ QPublished \/ QInterrupt
    PROVE  QualStep
<1>0. /\ qcall.at # "idle" /\ UNCHANGED <<auths, begun>> /\ AuthsOK' /\ Len(auths') = Len(auths)
  BY DEF QMoveIn, QPublicationFails, QPublished, QInterrupt, controlVars, QualCallOK, AuthsOK
<1>1. /\ qcall \in QualCalls /\ qcall.snap \in Qualifications /\ qcall.run \in Quals
      /\ qcall.run \in Owners /\ QualificationsStored(qcall.run)
  BY <1>0, QualCallFacts DEF QualCallOK, QualStoresOK
<1>2. CASE QMoveIn
  <2>1. /\ qcall' \in QualCalls /\ qcall'.at = "placed" /\ qcall'.snap = qcall.snap
        /\ qcall'.run = qcall.run /\ qcall'.then = qcall.then /\ qcall'.auth = qcall.auth
    BY <1>1, <1>2 DEF QMoveIn, QualCalls, Publishing
  <2>2. /\ Only(qcall.run) /\ out'[qcall.run] = qcall.snap /\ bak'[qcall.run] = bak[qcall.run]
        /\ begun'[qcall.run] = begun[qcall.run]
    BY <1>0, <1>1, <1>2, QualStoreMoves DEF QMoveIn, QualCallOK
  <2>3. QualCallTypeOK'
    BY <1>0, <1>2, <2>1 DEF QMoveIn, QualCallOK, QualCallTypeOK, NoQualCall, Publishing
  <2>4. Places(qcall, qcall', out'[qcall.run], bak[qcall.run], bak'[qcall.run])
    BY <1>2, <2>1, <2>2 DEF Places, QMoveIn
  <2> QED
    BY <1>0, <1>1, <2>1, <2>2, <2>3, <2>4 DEF QualStep, QualMoveOn, Move, QualificationsStored
<1>3. CASE QPublished
  <2>0. qcall.then \in QContinuations
    BY <1>3 DEF QPublished, QualCallOK, QualCallTypeOK, NoQualCall, Publishing
  <2>1. /\ Only(qcall.run) /\ out'[qcall.run] = out[qcall.run] /\ bak'[qcall.run] = NoSnapshot
        /\ begun'[qcall.run] = begun[qcall.run]
    BY <1>0, <1>1, <1>3, QualStoreMoves DEF QPublished, QualCallOK
  <2>2. CASE qcall.then = "return"
    <3>1. qcall' = NoQualCall
      BY <1>3, <2>2 DEF QPublished
    <3>2. Drops(qcall, qcall', out[qcall.run], out'[qcall.run], bak'[qcall.run])
      BY <1>3, <2>1, <3>1 DEF Drops, QPublished, NoQualCall
    <3> QED
      BY <1>0, <1>1, <2>1, <3>1, <3>2
      DEF QualCallTypeOK, NoQualCall, QualStep, QualMoveOn, Move, QualificationsStored
  <2>3. CASE qcall.then # "return"
    <3>1. /\ qcall' \in QualCalls /\ qcall'.at = qcall.then /\ qcall'.snap = qcall.snap
          /\ qcall'.run = qcall.run /\ qcall'.auth = qcall.auth
      BY <1>1, <1>3, <2>0, <2>3 DEF QPublished, QualCalls, QPoints, QContinuations
    <3>2. QualCallTypeOK'
      BY <1>0, <1>3, <2>0, <2>3, <3>1
      DEF QPublished, QualCallOK, QualCallTypeOK, NoQualCall, Publishing, QContinuations
    <3>3. Drops(qcall, qcall', out[qcall.run], out'[qcall.run], bak'[qcall.run])
      BY <1>3, <2>0, <2>1, <2>3, <3>1
      DEF Drops, QPublished, QContinuations, Away, Publishing, Filing
    <3> QED
      BY <1>0, <1>1, <2>1, <3>1, <3>2, <3>3 DEF QualStep, QualMoveOn, Move, QualificationsStored
  <2> QED
    BY <2>2, <2>3
<1>4. CASE QPublicationFails
  <2>1. /\ Only(qcall.run) /\ out'[qcall.run] = bak[qcall.run] /\ bak'[qcall.run] = NoSnapshot
        /\ begun'[qcall.run] = begun[qcall.run]
    BY <1>0, <1>1, <1>4, QualStoreMoves DEF QPublicationFails, QualCallOK
  <2>2. QualCallTypeOK' /\ qcall'.at = "idle"
    BY <1>4 DEF QPublicationFails, QualCallTypeOK, NoQualCall
  <2>3. RollsBack(qcall, qcall', out'[qcall.run], bak[qcall.run], bak'[qcall.run])
    BY <1>4, <2>1, <2>2 DEF RollsBack, QPublicationFails, Publishing
  <2> QED
    BY <1>0, <1>1, <2>1, <2>2, <2>3 DEF QualStep, QualMoveOn, Move, QualificationsStored
<1>5. CASE QInterrupt
  BY <1>0, <1>5, QualGoesIsStep DEF QInterrupt
<1> QED
  BY <1>2, <1>3, <1>4, <1>5

LEMMA QualifyIsStep ==
    ASSUME QualCallOK, day \in Days, Qualify
    PROVE  QualStep
<1>1. ASSUME NEW q \in Quals,
             Start(q) \/ Cancel(q) \/ Retry(q) \/ StartValidation(q) \/ StartObservation(q)
      PROVE  QualStep
  BY <1>1, QualOpenings
<1>2. ASSUME NEW q \in Quals,
             \/ \E stage \in {"training", "shadow"} : Authorize(q, stage)
             \/ \E a \in DOMAIN auths : Revoke(q, a) \/ Claim(q, a)
      PROVE  QualStep
  <2>1. Visible(q)
    BY <1>2 DEF Authorize, Revoke, Claim
  <2> QED
    BY <1>2, <2>1, QualFilings
<1>3. CASE RecordFile \/ FileWithoutEvent
  BY <1>3, QualRecords
<1>4. CASE StartCheck \/ CheckPasses \/ CheckBlocks
  BY <1>4, QualChecks
<1>5. CASE StartStage
  BY <1>5, StartStageIsStep
<1>6. CASE RunStage
  BY <1>6, RunStageIsStep
<1>7. CASE LifecycleLockBusy \/ StageEnds \/ TrainingRaises \/ Succeed \/ FailStage \/ Conclude
  BY <1>7, QualStages
<1>8. CASE QMoveIn \/ QPublicationFails \/ QPublished \/ QInterrupt
  BY <1>8, QualPublications
<1> QED
  BY <1>1, <1>2, <1>3, <1>4, <1>5, <1>6, <1>7, <1>8 DEF Qualify

-----------------------------------------------------------------------------
(***************************************************************************)
(* The inductive invariant of the system.                                  *)
(***************************************************************************)

SnapshotsOf(o) == {NoSnapshot} \cup (IF o \in Quals THEN Qualifications ELSE Lifecycles)

StorageOK ==
    /\ Stored(out) /\ Stored(bak) /\ begun \in [Owners -> Nat]
    /\ \A o \in Owners : {out[o], bak[o]} \subseteq SnapshotsOf(o)

RetrainingInv ==
    /\ ExecutionInv /\ faults \in 0..MaxFaults
    /\ day \in Days /\ lifeLock \in Callers \cup {NoOne}
    /\ StorageOK /\ CommandTypeOK /\ QualCallTypeOK /\ AuthsOK
    /\ call.at # "idle" => Protocol(call, out[call.run], bak[call.run], begun[call.run])
    /\ qcall.at # "idle" => Protocol(qcall, out[qcall.run], bak[qcall.run], begun[qcall.run])
    /\ AttemptsAreRecorded

\* Whatever is settled of any owner is kept.
HistoryIsKept == \A o \in Owners : Kept(SettledOf(out[o], bak[o]), SettledOf(out'[o], bak'[o]))

LEMMA StorageFacts ==
    ASSUME StorageOK
    PROVE  /\ StoresOK /\ QualStoresOK
           /\ \A o \in Owners : /\ out[o] = NoSnapshot \/ IsSnapshot(out[o])
                                /\ bak[o] = NoSnapshot \/ IsSnapshot(bak[o])
                                /\ begun[o] \in Nat
<1>1. \A r \in Requests : r \in Owners /\ r \notin Quals
  BY LifecycleAssumption, QualificationAssumption
<1>2. \A q \in Quals : q \in Owners
  BY QualificationAssumption
<1>3. StoresOK
  BY <1>1 DEF StorageOK, SnapshotsOf, StoresOK, LifecyclesStored
<1>4. QualStoresOK
  BY <1>2 DEF StorageOK, SnapshotsOf, QualStoresOK, QualificationsStored
<1>5. ASSUME NEW o \in Owners
      PROVE  /\ out[o] = NoSnapshot \/ IsSnapshot(out[o])
             /\ bak[o] = NoSnapshot \/ IsSnapshot(bak[o])
             /\ begun[o] \in Nat
  BY LifecycleFacts, QualificationFacts DEF StorageOK, SnapshotsOf
<1> QED
  BY <1>3, <1>4, <1>5

LEMMA InitRetrainingInv == ASSUME QualificationInit PROVE RetrainingInv
<1>1. ExecutionInv /\ faults \in 0..MaxFaults
  BY InitExecutionInv, ExecutionAssumption DEF QualificationInit, LifecycleInit, ExecutionInit
<1>2. day \in Days /\ lifeLock \in Callers \cup {NoOne}
  BY LifecycleAssumption DEF QualificationInit, LifecycleInit, Days
<1>3. PICK history \in Histories : StoreInit(history)
  BY DEF QualificationInit, LifecycleInit
<1>4. /\ history \in [Owners -> Lifecycles \cup {NoSnapshot}]
      /\ \A q \in Quals : history[q] = NoSnapshot
  BY LifecycleAssumption, QualificationAssumption
<1>5. StorageOK
  BY <1>3, <1>4 DEF StoreInit, StorageOK, Stored, SnapshotsOf, QualificationInit, LifecycleInit
<1>6. CommandTypeOK /\ call.at = "idle" /\ QualCallTypeOK /\ qcall.at = "idle"
  BY DEF QualificationInit, LifecycleInit, CommandTypeOK, NoCall, QualCallTypeOK, NoQualCall
<1>7. AuthsOK
  BY QualificationAssumption DEF QualificationInit, AuthsOK
<1>8. AttemptsAreRecorded
  <2> SUFFICES ASSUME NEW o \in Owners PROVE begun[o] <= Len(Attempts(o))
    BY DEF AttemptsAreRecorded
  <2>1. begun[o] = 0
    BY DEF QualificationInit, LifecycleInit
  <2>2. Len(Attempts(o)) \in Nat
    BY <1>5, StorageFacts, KeptReflexive DEF Attempts, Settled, AttemptsOf
  <2> QED
    BY <2>1, <2>2
<1> QED
  BY <1>1, <1>2, <1>5, <1>6, <1>7, <1>8 DEF RetrainingInv

\* Steps outside the stores keep them.
LEMMA StoresUntouched ==
    ASSUME RetrainingInv, UNCHANGED <<storeVars, begun, call, qcall, auths>>,
           lifeLock' = lifeLock
    PROVE  /\ StorageOK' /\ CommandTypeOK' /\ QualCallTypeOK' /\ AuthsOK'
           /\ call'.at # "idle" =>
                Protocol(call', out'[call'.run], bak'[call'.run], begun'[call'.run])
           /\ qcall'.at # "idle" =>
                Protocol(qcall', out'[qcall'.run], bak'[qcall'.run], begun'[qcall'.run])
           /\ AttemptsAreRecorded' /\ HistoryIsKept
<1>1. /\ out' = out /\ bak' = bak /\ begun' = begun /\ call' = call /\ qcall' = qcall
      /\ auths' = auths
  BY DEF storeVars
<1>2. StorageOK' /\ CommandTypeOK' /\ QualCallTypeOK' /\ AuthsOK'
  BY <1>1
  DEF RetrainingInv, StorageOK, Stored, CommandTypeOK, QualCallTypeOK, AuthsOK
<1>3. AttemptsAreRecorded'
  BY <1>1 DEF RetrainingInv, AttemptsAreRecorded, Attempts, Settled
<1>4. HistoryIsKept
  BY <1>1, StorageFacts, KeptReflexive DEF RetrainingInv, HistoryIsKept, SettledOf
<1>5. /\ call'.at # "idle" =>
            Protocol(call', out'[call'.run], bak'[call'.run], begun'[call'.run])
      /\ qcall'.at # "idle" =>
            Protocol(qcall', out'[qcall'.run], bak'[qcall'.run], begun'[qcall'.run])
  BY <1>1 DEF RetrainingInv
<1> QED
  BY <1>2, <1>3, <1>4, <1>5

\* A move on the snapshot of one owner, whose command goes from c to d.
LEMMA OwnerMoves ==
    ASSUME RetrainingInv, NEW o \in Owners, Only(o), {out'[o], bak'[o]} \subseteq SnapshotsOf(o),
           NEW c, NEW d, Move(c, d, out[o], bak[o], begun[o], out'[o], bak'[o], begun'[o]),
           c.at # "idle" => IsSnapshot(c.snap) /\ Protocol(c, out[o], bak[o], begun[o]),
           d.at # "idle" => IsSnapshot(d.snap)
    PROVE  /\ StorageOK' /\ AttemptsAreRecorded' /\ HistoryIsKept
           /\ Protocol(d, out'[o], bak'[o], begun'[o])
<1>1. StorageOK'
  BY DEF RetrainingInv, StorageOK, Only, SnapshotsOf
<1>2. \A p \in Owners :
        /\ out[p] = NoSnapshot \/ IsSnapshot(out[p])
        /\ bak[p] = NoSnapshot \/ IsSnapshot(bak[p])
        /\ begun[p] \in Nat /\ begun'[p] \in Nat
  BY StorageFacts DEF RetrainingInv, Only
<1>3. /\ out'[o] = NoSnapshot \/ IsSnapshot(out'[o])
      /\ bak'[o] = NoSnapshot \/ IsSnapshot(bak'[o])
  BY LifecycleFacts, QualificationFacts DEF SnapshotsOf
<1>4. Protocol(c, out[o], bak[o], begun[o])
  <2>1. begun[o] <= Len(AttemptsOf(SettledOf(out[o], bak[o])))
    BY DEF RetrainingInv, AttemptsAreRecorded, Attempts, Settled, AttemptsOf, SettledOf
  <2>2. CASE c.at = "idle"
    BY <2>1, <2>2 DEF Protocol, Starting, Away, Publishing, Filing
  <2> QED
    BY <2>2
<1>5. Typed(c, out[o], bak[o], begun[o]) /\ Typed(d, out'[o], bak'[o], begun'[o])
  BY <1>2, <1>3 DEF Typed
<1>6. /\ Protocol(d, out'[o], bak'[o], begun'[o])
      /\ Kept(SettledOf(out[o], bak[o]), SettledOf(out'[o], bak'[o]))
  BY <1>4, <1>5, MoveKeeps
<1>7. HistoryIsKept
  <2> SUFFICES ASSUME NEW p \in Owners \ {o}
               PROVE  Kept(SettledOf(out[p], bak[p]), SettledOf(out'[p], bak'[p]))
    BY <1>6 DEF HistoryIsKept
  <2> QED
    BY <1>2, KeptReflexive DEF Only, SettledOf
<1>8. AttemptsAreRecorded'
  <2> SUFFICES ASSUME NEW p \in Owners PROVE begun'[p] <= Len(Attempts(p))'
    BY DEF AttemptsAreRecorded
  <2>1. CASE p = o
    BY <1>6, <2>1 DEF Protocol, Attempts, Settled, AttemptsOf, SettledOf
  <2>2. CASE p # o
    BY <2>2 DEF Only, RetrainingInv, AttemptsAreRecorded, Attempts, Settled
  <2> QED
    BY <2>1, <2>2
<1> QED
  BY <1>1, <1>6, <1>7, <1>8

LEMMA OrchestrateKeeps ==
    ASSUME RetrainingInv, Orchestrate, UNCHANGED <<auths, qcall>>
    PROVE  /\ StorageOK' /\ CommandTypeOK' /\ QualCallTypeOK' /\ AuthsOK'
           /\ call'.at # "idle" =>
                Protocol(call', out'[call'.run], bak'[call'.run], begun'[call'.run])
           /\ qcall'.at # "idle" =>
                Protocol(qcall', out'[qcall'.run], bak'[qcall'.run], begun'[qcall'.run])
           /\ AttemptsAreRecorded' /\ HistoryIsKept
<1>1. CommandOK /\ day \in Days
  BY StorageFacts DEF RetrainingInv, CommandOK
<1>2. CommandStep
  BY <1>1, OrchestrateIsStep
<1>3. PICK r \in Requests :
        /\ Only(r) /\ LifecyclesStored(r)' /\ MoveOn(r)
        /\ call.at # "idle" => call.run = r
        /\ call'.at # "idle" => call'.run = r
  BY <1>2 DEF CommandStep
<1>4. r \in Owners /\ r \notin Quals /\ {out'[r], bak'[r]} \subseteq SnapshotsOf(r)
  BY <1>3, LifecycleAssumption, QualificationAssumption DEF LifecyclesStored, SnapshotsOf
<1>5. call.at # "idle" => IsSnapshot(call.snap) /\ Protocol(call, out[r], bak[r], begun[r])
  BY <1>1, <1>3, CommandFacts, LifecycleFacts DEF RetrainingInv
<1>6. call'.at # "idle" => IsSnapshot(call'.snap)
  BY <1>2, LifecycleFacts DEF CommandStep, CommandTypeOK, NoCall, Commands
<1>7. /\ StorageOK' /\ AttemptsAreRecorded' /\ HistoryIsKept
      /\ Protocol(call', out'[r], bak'[r], begun'[r])
  BY <1>3, <1>4, <1>5, <1>6, OwnerMoves DEF MoveOn
<1>8. call'.at # "idle" => Protocol(call', out'[call'.run], bak'[call'.run], begun'[call'.run])
  BY <1>3, <1>7
<1>9. QualCallTypeOK' /\ AuthsOK'
  BY DEF RetrainingInv, QualCallTypeOK, AuthsOK
<1>10. qcall'.at # "idle" =>
            Protocol(qcall', out'[qcall'.run], bak'[qcall'.run], begun'[qcall'.run])
  <2> SUFFICES ASSUME qcall.at # "idle"
               PROVE  Protocol(qcall, out'[qcall.run], bak'[qcall.run], begun'[qcall.run])
    OBVIOUS
  <2>1. qcall.run \in Owners /\ qcall.run # r
    BY <1>4, QualificationAssumption DEF RetrainingInv, QualCallTypeOK, NoQualCall, QualCalls
  <2>2. /\ out'[qcall.run] = out[qcall.run] /\ bak'[qcall.run] = bak[qcall.run]
        /\ begun'[qcall.run] = begun[qcall.run]
    BY <1>3, <2>1, SMTT(30) DEF Only
  <2> QED
    BY <2>2 DEF RetrainingInv
<1> QED
  BY <1>2, <1>7, <1>8, <1>9, <1>10 DEF CommandStep

\* A qualification touches neither the command of a lifecycle nor its lock.
LEMMA QualifyLeavesCall ==
    ASSUME Qualify
    PROVE  call' = call /\ (lifeLock = "lifecycle" => lifeLock' = "lifecycle")
<1>1. NoOne # "lifecycle"
  BY LifecycleAssumption, ExecutionAssumption
<1> QED
  BY <1>1, SMTT(10), ZenonT(60)
  DEF Qualify, Start, Cancel, Retry, StartValidation, StartObservation, Authorize, Revoke, Claim,
      RecordFile, FileWithoutEvent, StartCheck, CheckPasses, CheckBlocks, StartStage, RunStage,
      LifecycleLockBusy, StageEnds, TrainingRaises, Succeed, FailStage, Conclude, QMoveIn,
      QPublicationFails, QPublished, QInterrupt, LeaveLifecycleLock, controlVars, lifecycleVars

LEMMA QualifyKeeps ==
    ASSUME RetrainingInv, Qualify
    PROVE  /\ StorageOK' /\ CommandTypeOK' /\ QualCallTypeOK' /\ AuthsOK'
           /\ call'.at # "idle" =>
                Protocol(call', out'[call'.run], bak'[call'.run], begun'[call'.run])
           /\ qcall'.at # "idle" =>
                Protocol(qcall', out'[qcall'.run], bak'[qcall'.run], begun'[qcall'.run])
           /\ AttemptsAreRecorded' /\ HistoryIsKept
<1>1. QualCallOK /\ day \in Days
  BY StorageFacts DEF RetrainingInv, QualCallOK
<1>2. QualStep
  BY <1>1, QualifyIsStep
<1>3. PICK q \in Quals :
        /\ Only(q) /\ QualificationsStored(q)' /\ QualMoveOn(q)
        /\ qcall.at # "idle" => qcall.run = q
        /\ qcall'.at # "idle" => qcall'.run = q
  BY <1>2 DEF QualStep
<1>4. q \in Owners /\ q \notin Requests /\ {out'[q], bak'[q]} \subseteq SnapshotsOf(q)
  BY <1>3, QualificationAssumption DEF QualificationsStored, SnapshotsOf
<1>5. qcall.at # "idle" => IsSnapshot(qcall.snap) /\ Protocol(qcall, out[q], bak[q], begun[q])
  BY <1>1, <1>3, QualCallFacts, QualificationFacts DEF RetrainingInv
<1>6. qcall'.at # "idle" => IsSnapshot(qcall'.snap)
  BY <1>2, QualificationFacts DEF QualStep, QualCallTypeOK, NoQualCall, QualCalls
<1>7. /\ StorageOK' /\ AttemptsAreRecorded' /\ HistoryIsKept
      /\ Protocol(qcall', out'[q], bak'[q], begun'[q])
  BY <1>3, <1>4, <1>5, <1>6, OwnerMoves DEF QualMoveOn
<1>8. qcall'.at # "idle" =>
        Protocol(qcall', out'[qcall'.run], bak'[qcall'.run], begun'[qcall'.run])
  BY <1>3, <1>7
<1>9. call' = call /\ (lifeLock = "lifecycle" => lifeLock' = "lifecycle")
  BY QualifyLeavesCall
<1>10. CommandTypeOK'
  BY <1>9 DEF RetrainingInv, CommandTypeOK
<1>11. call'.at # "idle" =>
            Protocol(call', out'[call'.run], bak'[call'.run], begun'[call'.run])
  <2> SUFFICES ASSUME call.at # "idle"
               PROVE  Protocol(call, out'[call.run], bak'[call.run], begun'[call.run])
    BY <1>9
  <2>1. call.run \in Owners /\ call.run # q
    BY <1>4, LifecycleAssumption DEF RetrainingInv, CommandTypeOK, NoCall, Commands
  <2>2. /\ out'[call.run] = out[call.run] /\ bak'[call.run] = bak[call.run]
        /\ begun'[call.run] = begun[call.run]
    BY <1>3, <2>1 DEF Only
  <2> QED
    BY <2>2 DEF RetrainingInv
<1> QED
  BY <1>2, <1>7, <1>8, <1>10, <1>11 DEF QualStep

\* What a step does outside the stores: it is a step of some execution or none, it
\* counts its faults, and the lifecycle lock and the day keep their ranges.
Surroundings ==
    /\ ExecutionStep /\ (faults' = faults \/ Fault)
    /\ lifeLock' \in {lifeLock, NoOne, "lifecycle", "qualification"}
    /\ day' = day \/ NextDay

LEMMA OrchestrateSurroundings ==
    ASSUME CommandTypeOK, Orchestrate
    PROVE  Surroundings
<1> USE DEF executionVars, core
<1>1. "lifecycle" \in Callers /\ Requests \subseteq Identities
  BY LifecycleAssumption
<1>2. /\ day' = day
      /\ lifeLock' \in {lifeLock, NoOne, "lifecycle"}
  BY DEF Orchestrate, New, Resume, RevalidateEvidence, Begin, Recheck, CooldownBlocks, BudgetBlocks,
         Approve, Attempt, StartExecution, Trained, TrainingFailed, Validate, Validated, Enroll,
         EnrollSucceeds, StageFails, Refresh, Observe, Track, TrackUnchanged, Revalidate, MoveIn,
         Published, PublicationFails, Return, Interrupt, Transition, Publish, Raise, EndCall, Goto
<1>3. CASE \/ \E r \in Requests : New(r) \/ Resume(r) \/ RevalidateEvidence(r)
           \/ Recheck \/ CooldownBlocks \/ BudgetBlocks \/ Approve \/ Attempt
           \/ Validate \/ Validated \/ Enroll \/ EnrollSucceeds \/ StageFails
           \/ Refresh \/ Observe \/ Track \/ TrackUnchanged \/ Revalidate
           \/ MoveIn \/ Published \/ PublicationFails \/ Return
  <2>1. UNCHANGED core /\ (faults' = faults \/ Fault)
    BY <1>3
    DEF New, Resume, RevalidateEvidence, Recheck, CooldownBlocks, BudgetBlocks, Approve, Attempt,
        Validate, Validated, Enroll, EnrollSucceeds, StageFails, Refresh, Observe, Track,
        TrackUnchanged, Revalidate, MoveIn, Published, PublicationFails, Return
  <2> QED
    BY <1>2, <2>1 DEF Surroundings, ExecutionStep
<1>4. CASE StartExecution
  <2>1. call.run \in Identities
    BY <1>1, <1>4 DEF StartExecution, CommandTypeOK, NoCall, Commands
  <2>2. Request("lifecycle", call.run)
    BY <1>4 DEF StartExecution
  <2>3. faults' = faults \/ Fault
    BY <2>2 DEF Request, Execute, Reuse, Refuse, RefuseIncomplete
  <2> QED
    BY <1>1, <1>2, <2>1, <2>2, <2>3 DEF Surroundings, ExecutionStep
<1>5. CASE Trained \/ TrainingFailed
  <2>1. Collect("lifecycle") /\ (faults' = faults \/ Fault)
    BY <1>5 DEF Trained, TrainingFailed
  <2> QED
    BY <1>1, <1>2, <2>1 DEF Surroundings, ExecutionStep
<1>6. CASE Interrupt
  <2>1. Fault /\ (KillExecution("lifecycle") \/ UNCHANGED core)
    BY <1>6 DEF Interrupt
  <2> QED
    BY <1>1, <1>2, <2>1 DEF Surroundings, ExecutionStep
<1> QED
  BY <1>3, <1>4, <1>5, <1>6 DEF Orchestrate

LEMMA QualifySurroundings ==
    ASSUME QualCallTypeOK, Qualify
    PROVE  Surroundings
<1> USE DEF executionVars, core, lifecycleVars, controlVars
<1>1. "qualification" \in Callers /\ Quals \subseteq Identities
  BY LifecycleAssumption, QualificationAssumption, SMTT(30)
<1>2. /\ day' = day
      /\ lifeLock' \in {lifeLock, NoOne, "qualification"}
  BY SMTT(10), ZenonT(60) DEF Qualify, Start, Cancel, Retry, StartValidation, StartObservation, Authorize, Revoke, Claim,
         RecordFile, FileWithoutEvent, StartCheck, CheckPasses, CheckBlocks, StartStage, RunStage,
         LifecycleLockBusy, StageEnds, TrainingRaises, Succeed, FailStage, Conclude, QMoveIn,
         QPublicationFails, QPublished, QInterrupt, LeaveLifecycleLock
<1>3. CASE \/ \E q \in Quals :
                \/ Start(q) \/ Cancel(q) \/ Retry(q) \/ StartValidation(q) \/ StartObservation(q)
                \/ \E stage \in {"training", "shadow"} : Authorize(q, stage)
                \/ \E a \in DOMAIN auths : Revoke(q, a) \/ Claim(q, a)
           \/ RecordFile \/ FileWithoutEvent \/ StartCheck \/ CheckPasses \/ CheckBlocks
           \/ StartStage \/ LifecycleLockBusy \/ Succeed \/ FailStage \/ Conclude
           \/ QMoveIn \/ QPublicationFails \/ QPublished
  <2>1. UNCHANGED core /\ (faults' = faults \/ Fault)
    BY <1>3, SMTT(10), ZenonT(60)
    DEF Start, Cancel, Retry, StartValidation, StartObservation, Authorize, Revoke, Claim,
        RecordFile, FileWithoutEvent, StartCheck, CheckPasses, CheckBlocks, StartStage,
        LifecycleLockBusy, Succeed, FailStage, Conclude, QMoveIn, QPublicationFails, QPublished
  <2> QED
    BY <1>2, <2>1 DEF Surroundings, ExecutionStep
<1>4. CASE RunStage
  <2>1. CASE Request("qualification", qcall.run)
    <3>1. qcall.run \in Identities
      BY <1>1, <1>4 DEF RunStage, QualCallTypeOK, NoQualCall, QualCalls
    <3>2. faults' = faults \/ Fault
      BY <2>1 DEF Request, Execute, Reuse, Refuse, RefuseIncomplete
    <3> QED
      BY <1>1, <1>2, <2>1, <3>1, <3>2 DEF Surroundings, ExecutionStep
  <2>2. CASE UNCHANGED executionVars
    BY <1>2, <2>2 DEF Surroundings, ExecutionStep
  <2> QED
    BY <1>4, <2>1, <2>2 DEF RunStage
<1>5. CASE StageEnds \/ TrainingRaises
  <2>1. (Collect("qualification") \/ UNCHANGED core) /\ (faults' = faults \/ Fault)
    BY <1>5 DEF StageEnds, TrainingRaises
  <2> QED
    BY <1>1, <1>2, <2>1 DEF Surroundings, ExecutionStep
<1>6. CASE QInterrupt
  <2>1. Fault /\ (KillExecution("qualification") \/ UNCHANGED core)
    BY <1>6 DEF QInterrupt
  <2> QED
    BY <1>1, <1>2, <2>1 DEF Surroundings, ExecutionStep
<1> QED
  BY <1>3, <1>4, <1>5, <1>6 DEF Qualify

LEMMA OperateSurroundings ==
    ASSUME Operate \/ NextDay
    PROVE  Surroundings /\ UNCHANGED <<storeVars, begun, call>> /\ lifeLock' = lifeLock
<1> USE DEF executionVars, core, controlVars
<1>1. "operator" \in Callers /\ Requests \subseteq Identities
  BY LifecycleAssumption
<1>2. CASE NextDay
  BY <1>2 DEF NextDay, Surroundings, ExecutionStep
<1>3. CASE Operate
  <2>1. UNCHANGED <<storeVars, day, lifeLock, call, begun>>
    BY <1>3 DEF Operate
  <2>2. ExecutionStep
    BY <1>1, <1>3, SMTT(30) DEF Operate, ExecutionStep
  <2>3. faults' = faults \/ Fault
    BY <1>3
    DEF Operate, Request, Execute, Reuse, Refuse, RefuseIncomplete, Work, Advance, Place, Undo,
        Complete, Fail, StartUndo, EndUndo, Recover
  <2> QED
    BY <2>1, <2>2, <2>3 DEF Surroundings
<1> QED
  BY <1>2, <1>3

\* Every step keeps the invariant, what is published and what is settled.
LEMMA StepKeepsInv ==
    ASSUME RetrainingInv, [Next]_qualificationVars
    PROVE  RetrainingInv' /\ PublishedStays /\ HistoryIsKept /\ Surroundings
<1> DEFINE Rest ==
        /\ StorageOK' /\ CommandTypeOK' /\ QualCallTypeOK' /\ AuthsOK'
        /\ call'.at # "idle" =>
            Protocol(call', out'[call'.run], bak'[call'.run], begun'[call'.run])
        /\ qcall'.at # "idle" =>
            Protocol(qcall', out'[qcall'.run], bak'[qcall'.run], begun'[qcall'.run])
        /\ AttemptsAreRecorded' /\ HistoryIsKept
<1>1. Surroundings /\ Rest
  <2>1. CASE Qualify
    BY <2>1, QualifyKeeps, QualifySurroundings DEF RetrainingInv
  <2>2. CASE Orchestrate /\ UNCHANGED <<auths, qcall>>
    BY <2>2, OrchestrateKeeps, OrchestrateSurroundings DEF RetrainingInv
  <2>3. CASE (Operate \/ NextDay) /\ UNCHANGED <<auths, qcall>>
    BY <2>3, OperateSurroundings, StoresUntouched
  <2>4. CASE UNCHANGED qualificationVars
    <3>1. Surroundings
      BY <2>4
      DEF Surroundings, ExecutionStep, qualificationVars, lifecycleVars, controlVars,
          executionVars, core
    <3> QED
      BY <2>4, <3>1, StoresUntouched DEF qualificationVars, lifecycleVars, controlVars
  <2> QED
    BY <2>1, <2>2, <2>3, <2>4 DEF Next
<1>2. ExecutionInv' /\ PublishedStays
  BY <1>1, ExecutionStepInv DEF Surroundings, RetrainingInv
<1>3. faults' \in 0..MaxFaults
  BY <1>1, ExecutionAssumption DEF Surroundings, RetrainingInv, Fault
<1>4. lifeLock' \in Callers \cup {NoOne}
  BY <1>1, LifecycleAssumption DEF Surroundings, RetrainingInv
<1>5. day' \in Days
  BY <1>1, LifecycleAssumption DEF Surroundings, RetrainingInv, NextDay, Days
<1> QED
  BY <1>1, <1>2, <1>3, <1>4, <1>5 DEF RetrainingInv

THEOREM RetrainingInvariant == Spec => []RetrainingInv
<1>1. QualificationInit => RetrainingInv
  BY InitRetrainingInv
<1>2. RetrainingInv /\ [Next]_qualificationVars => RetrainingInv'
  BY StepKeepsInv
<1> QED
  BY <1>1, <1>2, PTL DEF Spec

-----------------------------------------------------------------------------
(***************************************************************************)
(* What it proves.                                                         *)
(***************************************************************************)

\* The stores, the calls and the authorizations keep their types.
THEOREM RetrainingTypeCorrect == Spec => []TypeOK
<1>1. ASSUME RetrainingInv PROVE TypeOK
  <2>1. ExecutionTypeOK
    BY <1>1 DEF RetrainingInv, ExecutionInv, CoreTypeOK, ExecutionTypeOK, Calls
  <2>2. call.at \in {"idle", "moved", "placed"} \cup Points
    BY <1>1 DEF RetrainingInv, CommandTypeOK, NoCall, Commands, Publishing
  <2>3. qcall.auth \in 0..Len(auths)
    BY <1>1 DEF RetrainingInv, QualCallTypeOK, NoQualCall, QualCalls, AuthsOK
  <2> QED
    BY <1>1, <2>1, <2>2, <2>3
    DEF RetrainingInv, StorageOK, SnapshotsOf, AuthsOK, Authorizations, TypeOK
<1> QED
  BY <1>1, RetrainingInvariant, PTL

\* No execution escapes the history that budget and cooldown are computed from.
THEOREM TrainingsAreRecorded == Spec => []AttemptsAreRecorded
<1>1. RetrainingInv => AttemptsAreRecorded
  BY DEF RetrainingInv
<1> QED
  BY <1>1, RetrainingInvariant, PTL

\* Beside lifecycles and qualifications the journals of executions stay truthful.
THEOREM JournalsAreTruthful == Spec => []JournalIsTruthful
<1>1. RetrainingInv => JournalIsTruthful
  BY ExecutionInvSuffices DEF RetrainingInv
<1> QED
  BY <1>1, RetrainingInvariant, PTL

\* A published candidate is never removed, nor trained again, whoever asks for it.
THEOREM PublicationIsFinal == Spec => PublishedIsFinal
<1>1. ASSUME RetrainingInv, [Next]_qualificationVars
      PROVE  [\A x \in Identities : placed[x] = Directories =>
                placed'[x] = Directories
                /\ (journal'[x] = "CREATED" => journal[x] = "CREATED")]_executionVars
  BY <1>1, StepKeepsInv DEF PublishedStays
<1> QED
  BY <1>1, RetrainingInvariant, PTL DEF Spec, PublishedIsFinal

\* No settled attempt and no result is lost, wherever a publication stops.
THEOREM HistoryIsNeverLost == Spec => HistoryIsDurable
<1>1. ASSUME RetrainingInv, [Next]_qualificationVars
      PROVE  [\A o \in Owners :
                /\ Len(Attempts(o)) <= Len(Attempts(o)')
                /\ SubSeq(Attempts(o)', 1, Len(Attempts(o))) = Attempts(o)
                /\ Results(o) \subseteq Results(o)']_qualificationVars
  <2>1. HistoryIsKept
    BY <1>1, StepKeepsInv
  <2>2. ASSUME NEW o \in Owners
        PROVE  /\ Attempts(o) = AttemptsOf(SettledOf(out[o], bak[o]))
               /\ Attempts(o)' = AttemptsOf(SettledOf(out'[o], bak'[o]))
               /\ Results(o) = ResultsOf(SettledOf(out[o], bak[o]))
               /\ Results(o)' = ResultsOf(SettledOf(out'[o], bak'[o]))
    BY DEF Attempts, Results, Settled, AttemptsOf, ResultsOf, SettledOf
  <2> QED
    BY <2>1, <2>2 DEF HistoryIsKept, Kept, Prefix
<1> QED
  BY <1>1, RetrainingInvariant, PTL DEF Spec, HistoryIsDurable
=============================================================================
