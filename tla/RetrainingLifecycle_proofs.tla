-------------------------- MODULE RetrainingLifecycle_proofs --------------------------
(***************************************************************************)
(* Proofs about executions and lifecycles, for any owners, identities,     *)
(* policies, limits and faults.  First the execution of a training: its    *)
(* lemmas speak of steps on the journal, the directories, the callers and  *)
(* the lock, whoever takes them, so that the systems that contain          *)
(* executions can cite them.  Then what a command does to the snapshot of  *)
(* its lifecycle or qualification: the orders in which commands rename and *)
(* return are brought under a few moves (Move), of which one lemma shows   *)
(* that they lose nothing, and every action of the orchestrator is shown   *)
(* to be a move.                                                           *)
(***************************************************************************)
EXTENDS RetrainingLifecycle, TLAPS

core == <<journal, placed, exec, prodLock>>

Calls == [at : {"idle", "returned", "raised"} \cup Busy, id : Identities \cup {NoIdentity}]

CoreTypeOK ==
    /\ journal \in [Identities -> Statuses]
    /\ placed \in [Identities -> SUBSET Directories]
    /\ exec \in [Callers -> Calls]
    /\ prodLock \in Callers \cup {NoOne}

\* The lock is held by the one caller that is at work, on an identity whose journal
\* is open and which is not published as long as it is undone.
WorkIsLocked ==
    \A c \in Callers :
        /\ exec[c].at \in Busy <=> prodLock = c
        /\ exec[c].at \in Busy => exec[c].id \in Identities /\ journal[exec[c].id] \in Open
        /\ exec[c].at = "undoing" => placed[exec[c].id] # Directories

\* Nothing is placed before the validation, everything is at the end.
PlacedAsJournalled ==
    \A x \in Identities :
        /\ journal[x] = "CREATED" => placed[x] = {}
        /\ journal[x] = "COMPLETED" => placed[x] = Directories

\* The inductive invariant.
ExecutionInv == CoreTypeOK /\ WorkIsLocked /\ PlacedAsJournalled /\ CandidateIsWhole

\* A step of an execution, with or without its fault counted.
ExecutionStep ==
    \/ \E c \in Callers :
        \/ \E x \in Identities : Request(c, x)
        \/ Work(c) \/ Collect(c) \/ KillExecution(c)
    \/ \E x \in Identities : Recover(x)
    \/ UNCHANGED core

\* What is published stays published and is not begun anew.
PublishedStays ==
    \A x \in Identities : placed[x] = Directories =>
        placed'[x] = Directories /\ (journal'[x] = "CREATED" => journal[x] = "CREATED")

-----------------------------------------------------------------------------

LEMMA InitExecutionInv == ASSUME ExecutionInit PROVE ExecutionInv
BY ExecutionAssumption
DEF ExecutionInit, ExecutionInv, CoreTypeOK, WorkIsLocked, PlacedAsJournalled, CandidateIsWhole,
    Idle, Busy, Calls, Statuses, Retryable

\* Requests: only Execute writes, and only where nothing is placed.
LEMMA RequestStep ==
    ASSUME ExecutionInv, NEW c \in Callers, NEW x \in Identities, Request(c, x)
    PROVE  ExecutionInv' /\ PublishedStays
<1> USE ExecutionAssumption
    DEF ExecutionInv, CoreTypeOK, Calls, Statuses, Retryable, Open, Busy, Idle, Directories
<1>1. CASE Execute(c, x)
  <2>1. CoreTypeOK'
    BY <1>1 DEF Execute
  <2>2. WorkIsLocked'
    BY <1>1 DEF Execute, WorkIsLocked
  <2>3. PlacedAsJournalled' /\ CandidateIsWhole' /\ PublishedStays
    BY <1>1 DEF Execute, PlacedAsJournalled, CandidateIsWhole, PublishedStays
  <2> QED
    BY <2>1, <2>2, <2>3
<1>2. CASE Reuse(c, x) \/ Refuse(c, x) \/ RefuseIncomplete(c, x)
  <2>0. /\ UNCHANGED <<journal, placed, prodLock>>
        /\ exec[c] = Idle
        /\ \E at \in {"returned", "raised"} : exec' = [exec EXCEPT ![c] = [at |-> at, id |-> x]]
    BY <1>2 DEF Reuse, Refuse, RefuseIncomplete
  <2>1. CoreTypeOK'
    BY <2>0
  <2>2. WorkIsLocked'
    BY <2>0 DEF WorkIsLocked
  <2>3. PlacedAsJournalled' /\ CandidateIsWhole' /\ PublishedStays
    BY <2>0 DEF PlacedAsJournalled, CandidateIsWhole, PublishedStays
  <2> QED
    BY <2>1, <2>2, <2>3
<1> QED
  BY <1>1, <1>2 DEF Request

\* The steps of the caller that holds the lock.
LEMMA WorkStep ==
    ASSUME ExecutionInv, NEW c \in Callers, Work(c)
    PROVE  ExecutionInv' /\ PublishedStays
<1> DEFINE x == exec[c].id
<1> USE ExecutionAssumption
    DEF ExecutionInv, CoreTypeOK, Calls, Statuses, Retryable, Open, Busy, Idle, Directories
<1>0. /\ exec[c].at \in Busy
      /\ x \in Identities /\ journal[x] \in Open
      /\ \A b \in Callers : exec[b].at \in Busy => b = c
  BY DEF Work, Advance, Place, Undo, Complete, Fail, StartUndo, EndUndo, WorkIsLocked
<1>1. CASE Advance(c)
  <2>1. CoreTypeOK' /\ WorkIsLocked'
    BY <1>0, <1>1 DEF Advance, WorkIsLocked
  <2>2. PlacedAsJournalled' /\ CandidateIsWhole' /\ PublishedStays
    BY <1>0, <1>1 DEF Advance, PlacedAsJournalled, CandidateIsWhole, PublishedStays
  <2> QED
    BY <2>1, <2>2
<1>2. ASSUME NEW d \in Directories, Place(c, d)
      PROVE  ExecutionInv' /\ PublishedStays
  <2>1. CoreTypeOK' /\ WorkIsLocked'
    BY <1>0, <1>2 DEF Place, WorkIsLocked
  <2>2. CandidateIsWhole'
    BY <1>0, <1>2 DEF Place, CandidateIsWhole, Before
  <2>3. PlacedAsJournalled' /\ PublishedStays
    BY <1>0, <1>2 DEF Place, PlacedAsJournalled, PublishedStays
  <2> QED
    BY <2>1, <2>2, <2>3
<1>3. ASSUME NEW d \in Directories, Undo(c, d)
      PROVE  ExecutionInv' /\ PublishedStays
  <2>1. placed[x] # Directories /\ journal[x] # "COMPLETED"
    BY <1>0, <1>3 DEF Undo, WorkIsLocked
  <2>2. Before(d) \in SUBSET Directories /\ d \notin Before(d)
    BY DEF Before
  <2>3. CoreTypeOK' /\ WorkIsLocked'
    BY <1>0, <1>3, <2>2 DEF Undo, WorkIsLocked
  <2>4. CandidateIsWhole'
    BY <1>0, <1>3 DEF Undo, CandidateIsWhole, Before
  <2>5. PlacedAsJournalled' /\ PublishedStays
    <3>1. placed[x] # {}
      BY <1>3 DEF Undo
    <3> QED
      BY <1>0, <1>3, <2>1, <3>1 DEF Undo, PlacedAsJournalled, PublishedStays
  <2> QED
    BY <2>3, <2>4, <2>5
<1>4. CASE Complete(c)
  <2>1. CoreTypeOK' /\ WorkIsLocked'
    BY <1>0, <1>4 DEF Complete, Leave, WorkIsLocked
  <2>2. PlacedAsJournalled' /\ CandidateIsWhole' /\ PublishedStays
    BY <1>0, <1>4 DEF Complete, Leave, PlacedAsJournalled, CandidateIsWhole, PublishedStays
  <2> QED
    BY <2>1, <2>2
<1>5. CASE Fail(c) \/ EndUndo(c)
  <2>0. /\ Recorded(x)
        /\ Leave(c, "raised")
        /\ UNCHANGED placed
    BY <1>5 DEF Fail, EndUndo
  <2>1. CoreTypeOK' /\ WorkIsLocked'
    BY <1>0, <2>0 DEF Recorded, Leave, WorkIsLocked
  <2>2. PlacedAsJournalled' /\ CandidateIsWhole' /\ PublishedStays
    BY <1>0, <2>0 DEF Recorded, PlacedAsJournalled, CandidateIsWhole, PublishedStays
  <2> QED
    BY <2>1, <2>2
<1>6. CASE StartUndo(c)
  <2>1. CoreTypeOK' /\ WorkIsLocked'
    BY <1>0, <1>6 DEF StartUndo, WorkIsLocked
  <2>2. PlacedAsJournalled' /\ CandidateIsWhole' /\ PublishedStays
    BY <1>6 DEF StartUndo, PlacedAsJournalled, CandidateIsWhole, PublishedStays
  <2> QED
    BY <2>1, <2>2
<1> QED
  BY <1>1, <1>2, <1>3, <1>4, <1>5, <1>6 DEF Work

\* The caller goes on, or dies; the journal and the directories stay.
LEMMA LeaveStep ==
    ASSUME ExecutionInv, NEW c \in Callers, Collect(c) \/ KillExecution(c)
    PROVE  ExecutionInv' /\ PublishedStays
<1> USE ExecutionAssumption
    DEF ExecutionInv, CoreTypeOK, Calls, Statuses, Retryable, Open, Busy, Idle, Directories
<1>1. CoreTypeOK'
  BY DEF Collect, KillExecution
<1>2. WorkIsLocked'
  BY DEF Collect, KillExecution, WorkIsLocked
<1>3. PlacedAsJournalled' /\ CandidateIsWhole' /\ PublishedStays
  BY DEF Collect, KillExecution, PlacedAsJournalled, CandidateIsWhole, PublishedStays
<1> QED
  BY <1>1, <1>2, <1>3

\* Under the lock nobody else is at work, so the journal that recovery closes is
\* that of a dead run.
LEMMA RecoverStep ==
    ASSUME ExecutionInv, NEW x \in Identities, Recover(x)
    PROVE  ExecutionInv' /\ PublishedStays
<1> USE ExecutionAssumption
    DEF ExecutionInv, CoreTypeOK, Calls, Statuses, Retryable, Open, Busy, Idle, Directories
<1>1. CoreTypeOK'
  BY DEF Recover
<1>2. WorkIsLocked'
  BY DEF Recover, WorkIsLocked
<1>3. PlacedAsJournalled' /\ CandidateIsWhole' /\ PublishedStays
  BY DEF Recover, PlacedAsJournalled, CandidateIsWhole, PublishedStays
<1> QED
  BY <1>1, <1>2, <1>3

LEMMA ExecutionStepInv ==
    ASSUME ExecutionInv, ExecutionStep
    PROVE  ExecutionInv' /\ PublishedStays
<1>1. CASE UNCHANGED core
  BY <1>1
  DEF core, ExecutionInv, CoreTypeOK, WorkIsLocked, PlacedAsJournalled, CandidateIsWhole,
      PublishedStays
<1> QED
  BY <1>1, RequestStep, WorkStep, LeaveStep, RecoverStep DEF ExecutionStep

\* The invariant says all that the properties ask for.
LEMMA ExecutionInvSuffices == ASSUME ExecutionInv PROVE JournalIsTruthful /\ CandidateIsWhole
BY DEF ExecutionInv, CoreTypeOK, WorkIsLocked, PlacedAsJournalled, JournalIsTruthful

-----------------------------------------------------------------------------

LEMMA NextIsExecutionStep ==
    ASSUME [ExecutionNext]_executionVars PROVE ExecutionStep
BY DEF ExecutionNext, ExecutionStep, executionVars, core

\* Executions alone keep the invariant.
THEOREM ExecutionInvariant == ExecutionSpec => []ExecutionInv
<1>1. ExecutionInit => ExecutionInv
  BY InitExecutionInv
<1>2. ExecutionInv /\ [ExecutionNext]_executionVars => ExecutionInv'
  BY NextIsExecutionStep, ExecutionStepInv
<1> QED
  BY <1>1, <1>2, PTL DEF ExecutionSpec

\* A registration is never published without its artifact, nor the execution
\* record without the registration, wherever a publication or its undoing stopped.
THEOREM CandidatesAreWhole == ExecutionSpec => []CandidateIsWhole
<1>1. ExecutionInv => CandidateIsWhole
  BY ExecutionInvSuffices
<1> QED
  BY <1>1, ExecutionInvariant, PTL

-----------------------------------------------------------------------------
(***************************************************************************)
(* Lists of attempts.                                                      *)
(***************************************************************************)

LEMMA AttemptListsAreSequences ==
    AttemptLists = {l \in Seq(Days) : Len(l) <= MaxAttempts}
<1>1. MaxAttempts \in Nat
  BY LifecycleAssumption
<1>2. ASSUME NEW l \in AttemptLists PROVE l \in Seq(Days) /\ Len(l) <= MaxAttempts
  <2>1. PICK n \in 0..MaxAttempts : l \in [1..n -> Days]
    BY DEF AttemptLists
  <2> QED
    BY <1>1, <2>1
<1>3. ASSUME NEW l \in Seq(Days), Len(l) <= MaxAttempts PROVE l \in AttemptLists
  <2>1. Len(l) \in 0..MaxAttempts /\ l \in [1..Len(l) -> Days]
    BY <1>1, <1>3
  <2> QED
    BY <2>1 DEF AttemptLists
<1> QED
  BY <1>2, <1>3

\* l is where k began.
Prefix(l, k) == Len(l) <= Len(k) /\ SubSeq(k, 1, Len(l)) = l

LEMMA PrefixFacts ==
    ASSUME NEW l \in AttemptLists
    PROVE  /\ Len(l) \in Nat /\ Prefix(l, l) /\ Prefix(<<>>, l)
           /\ \A d \in Days : Prefix(l, Append(l, d)) /\ Len(l) < Len(Append(l, d))
<1>1. l \in Seq(Days)
  BY AttemptListsAreSequences
<1>2. SubSeq(l, 1, Len(l)) = l
  BY <1>1
<1>3. SubSeq(l, 1, 0) = <<>>
  BY <1>1
<1>4. ASSUME NEW d \in Days
      PROVE  SubSeq(Append(l, d), 1, Len(l)) = l /\ Len(Append(l, d)) = Len(l) + 1
  BY <1>1
<1> QED
  BY <1>1, <1>2, <1>3, <1>4 DEF Prefix

\* Another attempt fits where the bound admits one.
LEMMA AnotherAttempt ==
    ASSUME NEW l \in AttemptLists, Len(l) < MaxAttempts, NEW d \in Days
    PROVE  Append(l, d) \in AttemptLists
<1>1. l \in Seq(Days)
  BY AttemptListsAreSequences
<1>2. Append(l, d) \in Seq(Days) /\ Len(Append(l, d)) = Len(l) + 1 /\ Len(l) \in Nat
  BY <1>1
<1>3. MaxAttempts \in Nat
  BY LifecycleAssumption
<1> QED
  BY <1>2, <1>3, AttemptListsAreSequences

-----------------------------------------------------------------------------
(***************************************************************************)
(* The moves of a command c, which are the same for lifecycles and for     *)
(* qualifications.  u is the snapshot under its name, b the backup and n   *)
(* the number of executions begun.                                         *)
(***************************************************************************)

IsSnapshot(s) == s # NoSnapshot /\ s.attempts \in AttemptLists

AttemptsOf(s) == IF s = NoSnapshot THEN <<>> ELSE s.attempts
ResultsOf(s) == IF s = NoSnapshot THEN {} ELSE s.done
SettledOf(u, b) == IF b # NoSnapshot THEN b ELSE u

\* Nothing that s tells is missing from t.
Kept(s, t) == Prefix(AttemptsOf(s), AttemptsOf(t)) /\ ResultsOf(s) \subseteq ResultsOf(t)

\* s may be published after old; the first snapshot tells of nothing.
Follows(s, old) == Kept(old, s) /\ (old = NoSnapshot => Kept(s, old))

SameHistory(s, t) == s.attempts = t.attempts /\ s.done = t.done

Publishing == {"moved", "placed"}
Filing == {"filed", "claimed"}
Away == {"idle"} \cup Publishing \cup Filing

\* The command will begin an execution before it publishes again.
Starting(c) ==
    \/ c.at = "execute"
    \/ c.at \in Publishing /\ c.then = "execute"
    \/ c.at = "run" /\ c.snap.state = "TRAINING"
    \/ c.at \in Publishing /\ c.then = "run" /\ c.snap.state = "TRAINING"

\* What the command can rely on.
Protocol(c, u, b, n) ==
    /\ c.at = "moved" => u = NoSnapshot /\ Follows(c.snap, b)
    /\ c.at = "placed" => u = c.snap /\ Follows(c.snap, b)
    /\ c.at \in Filing => u # NoSnapshot /\ SameHistory(c.snap, u)
    /\ c.at \notin Away => u = c.snap /\ b = NoSnapshot
    /\ Starting(c) => n < Len(c.snap.attempts)
    /\ n <= Len(AttemptsOf(SettledOf(u, b)))

Typed(c, u, b, n) ==
    /\ c.at # "idle" => IsSnapshot(c.snap)
    /\ u = NoSnapshot \/ IsSnapshot(u)
    /\ b = NoSnapshot \/ IsSnapshot(b)
    /\ n \in Nat

Leaves(c, d) == d.at = "idle"

Goes(c, d) == {c.at, d.at} \cap Away = {} /\ d.snap = c.snap /\ ~Starting(d)

Takes(c, d, u, b) ==
    /\ c.at = "idle" /\ u # NoSnapshot /\ ~Starting(d)
    /\ \/ d.at \in Filing /\ SameHistory(d.snap, u)
       \/ d.at \notin Away /\ d.snap = u /\ b = NoSnapshot

Publishes(c, d, u, b, u2, b2) ==
    /\ c.at \notin Publishing /\ d.at = "moved" /\ b = NoSnapshot
    /\ u2 = NoSnapshot /\ b2 = u
    /\ Follows(d.snap, u)
    /\ Starting(d) => Len(AttemptsOf(u)) < Len(d.snap.attempts)

Places(c, d, u2, b, b2) ==
    /\ c.at = "moved" /\ u2 = c.snap /\ b2 = b
    /\ d.at = "placed" /\ d.snap = c.snap /\ d.then = c.then

Drops(c, d, u, u2, b2) ==
    /\ c.at = "placed" /\ u2 = u /\ b2 = NoSnapshot
    /\ d.at = "idle" \/ (d.at = c.then /\ d.at \notin Away /\ d.snap = c.snap)

RollsBack(c, d, u2, b, b2) ==
    c.at \in Publishing /\ u2 = b /\ b2 = NoSnapshot /\ d.at = "idle"

Starts(c, d) == Starting(c) /\ {c.at, d.at} \cap Away = {} /\ d.snap = c.snap /\ ~Starting(d)

Move(c, d, u, b, n, u2, b2, n2) ==
    \/ (Leaves(c, d) \/ Goes(c, d) \/ Takes(c, d, u, b)) /\ u2 = u /\ b2 = b /\ n2 = n
    \/ /\ \/ Publishes(c, d, u, b, u2, b2) \/ Places(c, d, u2, b, b2)
          \/ Drops(c, d, u, u2, b2) \/ RollsBack(c, d, u2, b, b2)
       /\ n2 = n
    \/ Starts(c, d) /\ u2 = u /\ b2 = b /\ n2 = n + 1

LEMMA KeptReflexive ==
    ASSUME NEW s, s = NoSnapshot \/ IsSnapshot(s)
    PROVE  Kept(s, s) /\ Kept(NoSnapshot, s) /\ Len(AttemptsOf(s)) \in Nat
<1>1. AttemptsOf(s) \in AttemptLists
  <2>1. <<>> \in AttemptLists
    BY LifecycleAssumption, AttemptListsAreSequences
  <2> QED
    BY <2>1 DEF AttemptsOf, IsSnapshot
<1> QED
  BY <1>1, PrefixFacts DEF Kept, AttemptsOf, ResultsOf

\* A move keeps what the next one relies on, and everything the settled snapshot tells.
LEMMA MoveKeeps ==
    ASSUME NEW c, NEW d, NEW u, NEW b, NEW n, NEW u2, NEW b2, NEW n2,
           Typed(c, u, b, n), Typed(d, u2, b2, n2),
           Protocol(c, u, b, n), Move(c, d, u, b, n, u2, b2, n2)
    PROVE  Protocol(d, u2, b2, n2) /\ Kept(SettledOf(u, b), SettledOf(u2, b2))
<1>1. Kept(u, u) /\ Kept(b, b) /\ Kept(NoSnapshot, u2)
      /\ Len(AttemptsOf(u)) \in Nat /\ Len(AttemptsOf(b)) \in Nat
      /\ Len(AttemptsOf(u2)) \in Nat /\ Len(AttemptsOf(b2)) \in Nat
  BY KeptReflexive DEF Typed
<1>2. Kept(SettledOf(u, b), SettledOf(u2, b2))
  BY <1>1
  DEF Typed, Protocol, Move, Publishes, Places, Drops, RollsBack, Follows, SettledOf, Publishing
<1>3. n2 = n => n2 <= Len(AttemptsOf(SettledOf(u2, b2)))
  BY <1>1, <1>2 DEF Typed, Protocol, Kept, Prefix, SettledOf
<1>4. CASE (Leaves(c, d) \/ Goes(c, d) \/ Takes(c, d, u, b)) /\ u2 = u /\ b2 = b /\ n2 = n
  BY <1>2, <1>3, <1>4
  DEF Protocol, Leaves, Goes, Takes, Away, Publishing, Filing, Starting, SameHistory
<1>5. CASE Publishes(c, d, u, b, u2, b2) /\ n2 = n
  BY <1>1, <1>2, <1>3, <1>5
  DEF Typed, Protocol, Publishes, Away, Publishing, Filing, SettledOf
<1>6. CASE (Places(c, d, u2, b, b2) \/ Drops(c, d, u, u2, b2) \/ RollsBack(c, d, u2, b, b2))
           /\ n2 = n
  BY <1>2, <1>3, <1>6
  DEF Protocol, Places, Drops, RollsBack, Away, Publishing, Filing, Starting
<1>7. CASE Starts(c, d) /\ u2 = u /\ b2 = b /\ n2 = n + 1
  <2>1. u = c.snap /\ b = NoSnapshot /\ u # NoSnapshot /\ n < Len(u.attempts)
    BY <1>7 DEF Starts, Protocol, Typed, IsSnapshot, Away, Publishing, Filing
  <2>2. n2 <= Len(AttemptsOf(SettledOf(u2, b2)))
    BY <1>1, <1>7, <2>1 DEF AttemptsOf, SettledOf, Typed
  <2> QED
    BY <1>2, <1>7, <2>1, <2>2 DEF Starts, Protocol, Away, Publishing, Filing
<1> QED
  BY <1>4, <1>5, <1>6, <1>7 DEF Move

-----------------------------------------------------------------------------
(***************************************************************************)
(* Every action of the orchestrator is a move on the snapshot of one       *)
(* request.                                                                *)
(***************************************************************************)

\* Where a command goes on after a publication.
Continuations == {"training", "execute", "validation", "validate", "shadow", "enroll",
                  "observe", "track", "return"}

Commands ==
    [at : Points \cup Publishing, run : Requests, snap : Lifecycles,
     then : Continuations \cup {"idle"}]

CommandTypeOK ==
    \/ call = NoCall
    \/ /\ call \in Commands /\ lifeLock = "lifecycle"
       /\ call.at \in Publishing => call.then \in Continuations
       /\ call.at = "readiness" => call.snap.attempts = <<>>
       /\ call.at = "stamp" => Len(call.snap.attempts) < MaxAttempts

Stored(f) == f = [o \in Owners |-> f[o]]

LifecyclesStored(r) == {out[r], bak[r]} \subseteq Lifecycles \cup {NoSnapshot}

StoresOK ==
    /\ Stored(out) /\ Stored(bak) /\ begun \in [Owners -> Nat]
    /\ \A r \in Requests : LifecyclesStored(r)

CommandOK ==
    /\ CommandTypeOK /\ StoresOK
    /\ call.at # "idle" => Protocol(call, out[call.run], bak[call.run], begun[call.run])

\* Nothing is stored or begun for another owner.
Only(o) ==
    /\ Stored(out') /\ Stored(bak') /\ begun' \in [Owners -> Nat]
    /\ \A p \in Owners \ {o} : out'[p] = out[p] /\ bak'[p] = bak[p] /\ begun'[p] = begun[p]

MoveOn(r) == Move(call, call', out[r], bak[r], begun[r], out'[r], bak'[r], begun'[r])

CommandStep ==
    /\ CommandTypeOK'
    /\ \E r \in Requests :
        /\ Only(r) /\ LifecyclesStored(r)' /\ MoveOn(r)
        /\ call.at # "idle" => call.run = r
        /\ call'.at # "idle" => call'.run = r

LEMMA StoreMoves ==
    ASSUME StoresOK, NEW o \in Owners, UNCHANGED begun
    PROVE  /\ UNCHANGED storeVars => Only(o) /\ out'[o] = out[o] /\ bak'[o] = bak[o]
           /\ Aside(o) => Only(o) /\ out'[o] = NoSnapshot /\ bak'[o] = out[o]
           /\ \A s : In(o, s) => Only(o) /\ out'[o] = s /\ bak'[o] = bak[o]
           /\ DropBackup(o) => Only(o) /\ out'[o] = out[o] /\ bak'[o] = NoSnapshot
           /\ RollBack(o) => Only(o) /\ out'[o] = bak[o] /\ bak'[o] = NoSnapshot
BY DEF StoresOK, Stored, Only, storeVars, Aside, In, DropBackup, RollBack

LEMMA LifecycleFacts ==
    ASSUME NEW s \in Lifecycles
    PROVE  /\ IsSnapshot(s) /\ s.state \in LifecycleStates /\ s.attempts \in AttemptLists
           /\ s.done \in SUBSET Stages /\ Len(s.attempts) \in Nat
BY LifecycleAssumption, PrefixFacts DEF Lifecycles, IsSnapshot

\* What keeps the attempts and adds at most a result may be published next.
LEMMA LaterSnapshot ==
    ASSUME NEW s \in Lifecycles, NEW t \in Lifecycles,
           t.attempts = s.attempts, s.done \subseteq t.done
    PROVE  Follows(t, s)
BY LifecycleFacts, PrefixFacts DEF Follows, Kept, AttemptsOf, ResultsOf, IsSnapshot

\* The command ends, whatever it leaves behind.
LEMMA EndIsStep ==
    ASSUME CommandOK, call.at # "idle", UNCHANGED <<storeVars, begun>>, call' = NoCall
    PROVE  CommandStep
<1>1. call \in Commands /\ call.run \in Requests /\ call.run \in Owners
  BY LifecycleAssumption DEF CommandOK, CommandTypeOK, NoCall, Commands
<1>2. Only(call.run) /\ out'[call.run] = out[call.run] /\ bak'[call.run] = bak[call.run]
  BY <1>1, StoreMoves DEF CommandOK
<1> QED
  BY <1>1, <1>2
  DEF CommandOK, StoresOK, LifecyclesStored, CommandStep, CommandTypeOK, NoCall, MoveOn, Move,
      Leaves

LEMMA GotoIsStep ==
    ASSUME CommandOK, call.at \in Points, UNCHANGED <<lifeLock, storeVars, begun>>,
           NEW at \in Points \ {"execute", "readiness"}, call' = [call EXCEPT !.at = at],
           at = "stamp" => Len(call.snap.attempts) < MaxAttempts
    PROVE  CommandStep
<1>1. call \in Commands /\ call.run \in Requests /\ call.run \in Owners
  BY LifecycleAssumption DEF CommandOK, CommandTypeOK, NoCall, Commands, Points
<1>2. Only(call.run) /\ out'[call.run] = out[call.run] /\ bak'[call.run] = bak[call.run]
  BY <1>1, StoreMoves DEF CommandOK
<1>3. call' \in Commands /\ call'.at = at /\ call'.snap = call.snap /\ call'.run = call.run
  BY <1>1 DEF Commands
<1>4. CommandTypeOK'
  BY <1>1, <1>3 DEF CommandOK, CommandTypeOK, NoCall, Points, Publishing
<1>5. Goes(call, call')
  BY <1>3 DEF Goes, Away, Publishing, Filing, Starting, Points
<1> QED
  BY <1>1, <1>2, <1>3, <1>4, <1>5
  DEF CommandOK, StoresOK, LifecyclesStored, CommandStep, MoveOn, Move

LEMMA PublishIsStep ==
    ASSUME CommandOK, call.at \in Points,
           NEW s \in Lifecycles, NEW then \in Continuations, Follows(s, call.snap),
           then = "execute" => Len(call.snap.attempts) < Len(s.attempts),
           Publish(s, then), UNCHANGED begun
    PROVE  CommandStep
<1>1. call \in Commands /\ call.run \in Requests /\ call.run \in Owners
  BY LifecycleAssumption DEF CommandOK, CommandTypeOK, NoCall, Commands, Points
<1>2. /\ Only(call.run) /\ out'[call.run] = NoSnapshot /\ bak'[call.run] = out[call.run]
      /\ begun'[call.run] = begun[call.run]
  BY <1>1, StoreMoves DEF CommandOK, Publish
<1>3. /\ call' \in Commands /\ call'.at = "moved" /\ call'.snap = s /\ call'.then = then
      /\ call'.run = call.run
  BY <1>1 DEF Commands, Publish, Publishing
<1>4. CommandTypeOK'
  BY <1>3 DEF CommandOK, CommandTypeOK, NoCall, Points, Publish
<1>5. out[call.run] = call.snap /\ bak[call.run] = NoSnapshot
  BY DEF CommandOK, Protocol, Points, Away, Publishing, Filing
<1>6. call.snap \in Lifecycles /\ call.snap # NoSnapshot
  BY <1>1, LifecycleAssumption DEF Commands
<1>7. Starting(call') => then = "execute"
  BY <1>3 DEF Starting, Continuations
<1>8. Publishes(call, call', out[call.run], bak[call.run], out'[call.run], bak'[call.run])
  BY <1>2, <1>3, <1>5, <1>6, <1>7 DEF Publishes, Publishing, Points, AttemptsOf
<1> QED
  BY <1>1, <1>2, <1>3, <1>4, <1>5, <1>6, <1>8
  DEF LifecyclesStored, CommandStep, MoveOn, Move

LEMMA TransitionIsStep ==
    ASSUME CommandOK, call.at \in Points,
           NEW s \in Lifecycles, NEW then \in Continuations, Follows(s, call.snap),
           then = "execute" => Len(call.snap.attempts) < Len(s.attempts),
           Transition(s, then), UNCHANGED begun
    PROVE  CommandStep
<1>1. CASE s.state \in Targets(call.snap.state)
  BY <1>1, PublishIsStep DEF Transition
<1>2. CASE s.state \notin Targets(call.snap.state)
  BY <1>2, EndIsStep DEF Transition, Raise, EndCall, Points
<1> QED
  BY <1>1, <1>2

\* A command begins by reading a visible snapshot, or with the first one it will publish.
LEMMA BeginIsStep ==
    ASSUME CommandOK, NEW r \in Requests, UNCHANGED <<storeVars, begun>>,
           NEW s \in Lifecycles, NEW at \in {"readiness", "training", "validation", "shadow",
                                             "refresh", "revalidate", "return", "moved"},
           NEW then \in {"idle", "training", "return"},
           Begin(r, s, at, then), at = "readiness" => s.attempts = <<>>,
           \/ at # "moved" /\ s = out[r]
           \/ at = "moved" /\ then # "idle" /\ out[r] = NoSnapshot /\ Follows(s, NoSnapshot)
    PROVE  CommandStep
<1>1. r \in Owners
  BY LifecycleAssumption
<1>2. Only(r) /\ out'[r] = out[r] /\ bak'[r] = bak[r] /\ begun'[r] = begun[r]
  BY <1>1, StoreMoves DEF CommandOK
<1>3. /\ call' \in Commands /\ call'.at = at /\ call'.snap = s /\ call'.then = then
      /\ call'.run = r /\ bak[r] = NoSnapshot
  BY DEF Commands, Begin, Publishing, Points, Continuations, Stale
<1>4. CommandTypeOK'
  BY <1>3 DEF CommandTypeOK, Begin, Publishing, Continuations
<1>5. call = NoCall /\ call.at = "idle" /\ ~Starting(call')
  BY <1>3, LifecycleAssumption, ExecutionAssumption
  DEF CommandOK, CommandTypeOK, Begin, NoCall, Starting, Publishing
<1>6. CASE at # "moved"
  <2>1. Takes(call, call', out[r], bak[r])
    BY <1>3, <1>5, <1>6, LifecycleAssumption DEF Takes, Away, Publishing, Filing
  <2> QED
    BY <1>2, <1>3, <1>4, <1>5, <2>1 DEF CommandStep, MoveOn, Move, CommandOK, StoresOK, LifecyclesStored
<1>7. CASE at = "moved"
  <2>1. Publishes(call, call', out[r], bak[r], out'[r], bak'[r])
    BY <1>2, <1>3, <1>5, <1>7 DEF Publishes, Publishing
  <2> QED
    BY <1>2, <1>3, <1>4, <1>5, <2>1 DEF CommandStep, MoveOn, Move, CommandOK, StoresOK, LifecyclesStored
<1> QED
  BY <1>6, <1>7

\* New, Resume, RevalidateEvidence and Recheck.
LEMMA OpeningSteps ==
    ASSUME CommandOK, NEW r \in Requests,
           New(r) \/ Resume(r) \/ RevalidateEvidence(r) \/ Recheck
    PROVE  CommandStep
<1> DEFINE first(ready) ==
        [state |-> ReadinessState(ready), attempts |-> <<>>, done |-> {},
         mature |-> 0, status |-> "NOT_READY", evaluated |-> NoPolicy]
<1>0. \A ready \in BOOLEAN :
        /\ ReadinessState(ready) \in LifecycleStates
        /\ AfterReadiness(ready) \in {"training", "return"}
  BY DEF ReadinessState, AfterReadiness, LifecycleStates, Rechecked, Trainable
<1>1. ASSUME New(r) PROVE CommandStep
  <2>1. PICK ready \in BOOLEAN : Begin(r, first(ready), "moved", AfterReadiness(ready))
    BY <1>1 DEF New
  <2>2. first(ready) \in Lifecycles
    BY <1>0, AttemptListsAreSequences, LifecycleAssumption DEF Lifecycles
  <2>3. Follows(first(ready), NoSnapshot)
    BY <2>2, LifecycleFacts, PrefixFacts DEF Follows, Kept, AttemptsOf, ResultsOf, IsSnapshot
  <2> QED
    BY <1>0, <1>1, <2>1, <2>2, <2>3, BeginIsStep DEF New
<1>2. ASSUME Resume(r) \/ RevalidateEvidence(r) PROVE CommandStep
  <2>1. /\ out[r] \in Lifecycles
        /\ Entry(out[r]) \in {"readiness", "training", "validation", "shadow", "refresh", "return"}
        /\ Entry(out[r]) = "readiness" => out[r].attempts = <<>>
    BY <1>2 DEF Resume, RevalidateEvidence, CommandOK, StoresOK, LifecyclesStored, Entry
  <2> QED
    BY <1>2, <2>1, BeginIsStep DEF Resume, RevalidateEvidence
<1>3. ASSUME Recheck PROVE CommandStep
  <2>1. PICK ready \in BOOLEAN :
            Publish([call.snap EXCEPT !.state = ReadinessState(ready)], AfterReadiness(ready))
    BY <1>3 DEF Recheck
  <2>2. call.snap \in Lifecycles /\ call.at \in Points
    BY <1>3 DEF Recheck, CommandOK, CommandTypeOK, NoCall, Commands, Points
  <2>3. [call.snap EXCEPT !.state = ReadinessState(ready)] \in Lifecycles
    BY <1>0, <2>2 DEF Lifecycles
  <2>4. Follows([call.snap EXCEPT !.state = ReadinessState(ready)], call.snap)
    BY <2>2, <2>3, LaterSnapshot DEF Lifecycles
  <2> QED
    BY <1>0, <1>3, <2>1, <2>2, <2>3, <2>4, PublishIsStep DEF Recheck, Continuations
<1> QED
  BY <1>1, <1>2, <1>3

LEMMA CommandFacts ==
    ASSUME CommandOK, call.at # "idle"
    PROVE  call \in Commands /\ call.snap \in Lifecycles /\ call.run \in Requests
BY DEF CommandOK, CommandTypeOK, NoCall, Commands

\* Only the state changes.
LEMMA StateIsStep ==
    ASSUME CommandOK, call.at \in Points, UNCHANGED begun,
           NEW st \in LifecycleStates, NEW then \in Continuations \ {"execute"},
           Transition([call.snap EXCEPT !.state = st], then)
    PROVE  CommandStep
<1> DEFINE t == [call.snap EXCEPT !.state = st]
<1>1. call.snap \in Lifecycles
  BY CommandFacts DEF Points
<1>2. t \in Lifecycles /\ t.attempts = call.snap.attempts /\ t.done = call.snap.done
  BY <1>1 DEF Lifecycles
<1> QED
  BY <1>1, <1>2, LaterSnapshot, TransitionIsStep

\* The state changes and a result is added.
LEMMA ResultIsStep ==
    ASSUME CommandOK, call.at \in Points, UNCHANGED begun,
           NEW st \in LifecycleStates, NEW stage \in Stages,
           NEW then \in Continuations \ {"execute"},
           Transition([call.snap EXCEPT !.state = st, !.done = @ \cup {stage}], then)
    PROVE  CommandStep
<1> DEFINE t == [call.snap EXCEPT !.state = st, !.done = @ \cup {stage}]
<1>1. call.snap \in Lifecycles
  BY CommandFacts DEF Points
<1>2. /\ t \in Lifecycles /\ t.attempts = call.snap.attempts
      /\ t.done = call.snap.done \cup {stage}
  BY <1>1 DEF Lifecycles
<1> QED
  BY <1>1, <1>2, LaterSnapshot, TransitionIsStep

LEMMA TrainingSteps ==
    ASSUME CommandOK, day \in Days,
           \/ CooldownBlocks \/ BudgetBlocks \/ Approve \/ Attempt
           \/ StartExecution \/ Trained \/ TrainingFailed
    PROVE  CommandStep
<1> USE DEF Points, Continuations, LifecycleStates, Rechecked, Trainable
<1>1. CASE CooldownBlocks \/ BudgetBlocks
  BY <1>1, StateIsStep DEF CooldownBlocks, BudgetBlocks, Controlled
<1>2. CASE Approve
  BY <1>2, GotoIsStep DEF Approve, Controlled, Goto
<1>3. CASE Attempt
  <2> DEFINE s == [call.snap EXCEPT !.state = "TRAINING", !.attempts = Append(@, day)]
  <2>1. call.snap \in Lifecycles /\ Len(call.snap.attempts) < MaxAttempts
    BY <1>3, CommandFacts DEF Attempt, CommandOK, CommandTypeOK, NoCall
  <2>2. /\ s \in Lifecycles /\ s.done = call.snap.done
        /\ s.attempts = Append(call.snap.attempts, day)
    BY <2>1, AnotherAttempt DEF Lifecycles
  <2>3. Follows(s, call.snap) /\ Len(call.snap.attempts) < Len(s.attempts)
    BY <2>1, <2>2, LifecycleFacts, PrefixFacts
    DEF Follows, Kept, AttemptsOf, ResultsOf, IsSnapshot
  <2> QED
    BY <1>3, <2>2, <2>3, TransitionIsStep DEF Attempt
<1>4. CASE StartExecution
  <2>1. /\ call \in Commands /\ call.run \in Requests /\ call.run \in Owners
        /\ call.snap \in Lifecycles /\ call.at = "execute"
    BY <1>4, CommandFacts, LifecycleAssumption DEF StartExecution
  <2>2. /\ call' \in Commands /\ call'.at = "executing" /\ call'.snap = call.snap
        /\ call'.run = call.run /\ call'.then = call.then
    BY <1>4, <2>1 DEF StartExecution, Commands
  <2>3. /\ Only(call.run) /\ begun'[call.run] = begun[call.run] + 1
        /\ out'[call.run] = out[call.run] /\ bak'[call.run] = bak[call.run]
    BY <1>4, <2>1 DEF StartExecution, CommandOK, StoresOK, Only, Stored, storeVars
  <2>4. Starts(call, call')
    BY <2>1, <2>2 DEF Starts, Starting, Away, Publishing, Filing
  <2>5. CommandTypeOK'
    BY <1>4, <2>1, <2>2
    DEF StartExecution, CommandOK, CommandTypeOK, NoCall, Publishing
  <2> QED
    BY <2>1, <2>2, <2>3, <2>4, <2>5 DEF CommandStep, MoveOn, Move, CommandOK, StoresOK, LifecyclesStored
<1>5. CASE Trained
  <2>1. "training" \in Stages
    BY DEF Stages
  <2> QED
    BY <1>5, <2>1, ResultIsStep DEF Trained
<1>6. CASE TrainingFailed
  BY <1>6, StateIsStep DEF TrainingFailed
<1> QED
  BY <1>1, <1>2, <1>3, <1>4, <1>5, <1>6

LEMMA StageSteps ==
    ASSUME CommandOK,
           \/ Validate \/ Validated \/ Enroll \/ EnrollSucceeds \/ StageFails
           \/ Refresh \/ Observe \/ TrackUnchanged
    PROVE  CommandStep
<1> USE DEF Points, Continuations, LifecycleStates, Rechecked, Trainable, Enrolled, Observing,
            Evaluable
<1>1. CASE Validate \/ Validated \/ Enroll \/ EnrollSucceeds \/ StageFails
  <2>1. "validation" \in Stages /\ "shadow" \in Stages
    BY DEF Stages
  <2>2. CASE Validate \/ Enroll \/ StageFails
    BY <2>2, StateIsStep DEF Validate, Enroll, StageFails
  <2>3. CASE Validated
    BY <2>1, <2>3, ResultIsStep DEF Validated
  <2>4. CASE EnrollSucceeds
    BY <2>1, <2>4, ResultIsStep DEF EnrollSucceeds
  <2> QED
    BY <1>1, <2>2, <2>3, <2>4
<1>2. CASE Refresh
  BY <1>2, GotoIsStep, TransitionIsStep, LaterSnapshot, CommandFacts DEF Refresh, Goto
<1>3. CASE Observe
  BY <1>3, GotoIsStep, StateIsStep DEF Observe, Goto
<1>4. CASE TrackUnchanged
  <2>1. PICK s \in Lifecycles :
            /\ s.attempts = call.snap.attempts /\ s.done = call.snap.done
            /\ Transition(s, "return") \/ Goto("return")
    BY <1>4, CommandFacts DEF TrackUnchanged, Lifecycles
  <2> QED
    BY <1>4, <2>1, GotoIsStep, TransitionIsStep, LaterSnapshot, CommandFacts
    DEF TrackUnchanged, Goto
<1> QED
  BY <1>1, <1>2, <1>3, <1>4

\* A verdict keeps the attempts and the results.
LEMMA EvaluatedIsLater ==
    ASSUME NEW s \in Lifecycles, NEW p \in Policies, NEW ready \in BOOLEAN
    PROVE  /\ Evaluated(s, p, ready) \in Lifecycles
           /\ SameHistory(Evaluated(s, p, ready), s)
BY DEF Evaluated, Drift, Lifecycles, LifecycleStates, Enrolled, Evaluable, SameHistory

LEMMA CountedIsLater ==
    ASSUME NEW s \in Lifecycles, NEW m \in 0..Required
    PROVE  /\ Counted(s, m) \in Lifecycles
           /\ Counted(s, m).attempts = s.attempts
           /\ Counted(s, m).done = s.done \cup {"observation"}
<1>1. Progress(m) \in LifecycleStates
  BY DEF Progress, LifecycleStates, Enrolled, Observing
<1> QED
  BY <1>1 DEF Counted, Lifecycles, Stages

LEMMA EvidenceSteps ==
    ASSUME CommandOK, Track \/ Revalidate
    PROVE  CommandStep
<1> USE DEF Points, Continuations
<1>0. call.snap \in Lifecycles
  BY CommandFacts DEF Track, Revalidate
<1>1. CASE Track
  <2>1. PICK m \in call.snap.mature..Required, p \in Policies, ready \in BOOLEAN :
            LET counted == Counted(call.snap, m)
                final == IF m < Required THEN counted ELSE Evaluated(counted, p, ready)
            IN  Publish(final, "return") \/ Raise
    BY <1>1 DEF Track
  <2>2. m \in 0..Required
    BY <1>0, LifecycleAssumption DEF Lifecycles
  <2> DEFINE counted == Counted(call.snap, m)
             final == IF m < Required THEN counted ELSE Evaluated(counted, p, ready)
  <2>3. final \in Lifecycles /\ Follows(final, call.snap)
    BY <1>0, <2>2, CountedIsLater, EvaluatedIsLater, LaterSnapshot DEF SameHistory
  <2>4. Publish(final, "return") \/ Raise
    BY <2>1
  <2> QED
    BY <1>1, <2>3, <2>4, PublishIsStep, EndIsStep DEF Track, Raise, EndCall
<1>2. CASE Revalidate
  <2>1. PICK p \in Policies, ready \in BOOLEAN :
            Transition(Evaluated(call.snap, p, ready), "return")
    BY <1>2 DEF Revalidate
  <2>2. /\ Evaluated(call.snap, p, ready) \in Lifecycles
        /\ Follows(Evaluated(call.snap, p, ready), call.snap)
    BY <1>0, EvaluatedIsLater, LaterSnapshot DEF SameHistory
  <2> QED
    BY <1>2, <2>1, <2>2, TransitionIsStep DEF Revalidate
<1> QED
  BY <1>1, <1>2

LEMMA PublicationSteps ==
    ASSUME CommandOK,
           MoveIn \/ Published \/ PublicationFails \/ Return \/ Interrupt
    PROVE  CommandStep
<1>0. call.at # "idle"
  BY DEF MoveIn, Published, PublicationFails, Return, Interrupt, Publishing
<1>1. /\ call \in Commands /\ call.snap \in Lifecycles /\ call.run \in Requests
      /\ call.run \in Owners /\ LifecyclesStored(call.run)
  BY <1>0, CommandFacts, LifecycleAssumption DEF CommandOK, StoresOK
<1>2. CASE MoveIn
  <2>1. /\ call' \in Commands /\ call'.at = "placed" /\ call'.snap = call.snap
        /\ call'.run = call.run /\ call'.then = call.then
    BY <1>1, <1>2 DEF MoveIn, Commands, Publishing
  <2>2. /\ Only(call.run) /\ out'[call.run] = call.snap /\ bak'[call.run] = bak[call.run]
        /\ begun'[call.run] = begun[call.run]
    BY <1>1, <1>2, StoreMoves DEF MoveIn, CommandOK
  <2>3. CommandTypeOK'
    BY <1>2, <2>1 DEF MoveIn, CommandOK, CommandTypeOK, NoCall, Publishing
  <2>4. Places(call, call', out'[call.run], bak[call.run], bak'[call.run])
    BY <1>2, <2>1, <2>2 DEF Places, MoveIn
  <2> QED
    BY <1>1, <2>1, <2>2, <2>3, <2>4 DEF CommandStep, MoveOn, Move, LifecyclesStored
<1>3. CASE Published
  <2>0. call.then \in Continuations
    BY <1>3 DEF Published, CommandOK, CommandTypeOK, NoCall, Publishing
  <2>1. /\ call' \in Commands /\ call'.at = call.then /\ call'.snap = call.snap
        /\ call'.run = call.run
    BY <1>1, <1>3, <2>0 DEF Published, Commands, Points, Continuations
  <2>2. /\ Only(call.run) /\ out'[call.run] = out[call.run] /\ bak'[call.run] = NoSnapshot
        /\ begun'[call.run] = begun[call.run]
    BY <1>1, <1>3, StoreMoves DEF Published, CommandOK
  <2>3. CommandTypeOK'
    BY <1>3, <2>0, <2>1
    DEF Published, CommandOK, CommandTypeOK, NoCall, Publishing, Continuations
  <2>4. Drops(call, call', out[call.run], out'[call.run], bak'[call.run])
    BY <1>3, <2>0, <2>1, <2>2
    DEF Drops, Published, Continuations, Away, Publishing, Filing
  <2> QED
    BY <1>1, <2>1, <2>2, <2>3, <2>4 DEF CommandStep, MoveOn, Move, LifecyclesStored
<1>4. CASE PublicationFails
  <2>1. /\ Only(call.run) /\ out'[call.run] = bak[call.run] /\ bak'[call.run] = NoSnapshot
        /\ begun'[call.run] = begun[call.run]
    BY <1>1, <1>4, StoreMoves DEF PublicationFails, CommandOK
  <2>2. CommandTypeOK' /\ call'.at = "idle"
    BY <1>4 DEF PublicationFails, EndCall, CommandTypeOK, NoCall
  <2>3. RollsBack(call, call', out'[call.run], bak[call.run], bak'[call.run])
    BY <1>4, <2>1, <2>2 DEF RollsBack, PublicationFails, Publishing
  <2> QED
    BY <1>1, <2>1, <2>2, <2>3 DEF CommandStep, MoveOn, Move, LifecyclesStored
<1>5. CASE Return \/ Interrupt
  BY <1>0, <1>5, EndIsStep DEF Return, Interrupt, EndCall
<1> QED
  BY <1>2, <1>3, <1>4, <1>5

LEMMA OrchestrateIsStep ==
    ASSUME CommandOK, day \in Days, Orchestrate
    PROVE  CommandStep
<1>1. CASE \E r \in Requests : New(r) \/ Resume(r) \/ RevalidateEvidence(r)
  BY <1>1, OpeningSteps
<1>2. CASE Recheck
  <2>1. call.run \in Requests
    BY <1>2, CommandFacts DEF Recheck
  <2> QED
    BY <1>2, <2>1, OpeningSteps
<1>3. CASE CooldownBlocks \/ BudgetBlocks \/ Approve \/ Attempt
           \/ StartExecution \/ Trained \/ TrainingFailed
  BY <1>3, TrainingSteps
<1>4. CASE Validate \/ Validated \/ Enroll \/ EnrollSucceeds \/ StageFails
           \/ Refresh \/ Observe \/ TrackUnchanged
  BY <1>4, StageSteps
<1>5. CASE Track \/ Revalidate
  BY <1>5, EvidenceSteps
<1>6. CASE MoveIn \/ Published \/ PublicationFails \/ Return \/ Interrupt
  BY <1>6, PublicationSteps
<1> QED
  BY <1>1, <1>2, <1>3, <1>4, <1>5, <1>6 DEF Orchestrate
=============================================================================
