-------------------------- MODULE ChampionRegistry_proofs --------------------------
(***************************************************************************)
(* Safety of the apply transaction for any models, requests, appliers,     *)
(* writers and number of commands.  The inductive invariant has five       *)
(* parts, proved one after the other: the types with who may hold the      *)
(* registry lock (LockInv), what is on disk at each stage of a transaction *)
(* (Stages), an argument about the ancestors of the current registry       *)
(* (Lineage) that keeps commits in one chain, one champion per content     *)
(* (Unique), and what each version was built from (Built).                 *)
(***************************************************************************)
EXTENDS ChampionRegistry, TLAPS

\* Places between the second lock and the end of the two contexts.
Locked == {"locked", "recovered", "validated", "journaled", "backed", "published",
           "switched", "recorded", "undoing", "release"}

\* Only one process is inside the registry lock, and an applier has a request.
LockInv ==
    /\ TypeOK
    /\ \A a \in Appliers : pc[a] \in Locked => regLock = a
    /\ \A w \in Writers : loaded[w] # Nobody => regLock = w
    /\ \A a \in Appliers : pc[a] # "idle" => job[a] \in Requests /\ Created(job[a])

-----------------------------------------------------------------------------
(* Types and locks *)

\* A request that has been created is a record; its version's content is typed.
LEMMA CreatedRecord ==
    ASSUME TypeOK, NEW r \in Requests, Created(r)
    PROVE  /\ req[r] \in RequestRecords
           /\ Base(r) \in Bytes
           /\ Switched(r) \in [Models -> Statuses]
BY RegistryAssumption DEF TypeOK, Created, RequestRecords, Base, Switched, Statuses

\* The initial state: every lock is free and nobody has a request.
LEMMA InitLockInv == Init => LockInv
BY RegistryAssumption
DEF Init, LockInv, TypeOK, Bytes, Statuses, Places, Locked, RequestRecords, Created

\* Every step keeps the types and the lock's owner.
LEMMA StepLockInv == LockInv /\ [Next]_vars => LockInv'
<1> SUFFICES ASSUME LockInv, [Next]_vars PROVE LockInv'
  OBVIOUS
<1> USE RegistryAssumption
<1> USE DEF LockInv, TypeOK, Places, Locked, Created, files, requests, At, Goto
<1>1. ASSUME NEW r \in Requests, NEW kind \in {"promotion", "rollback"}, NEW m \in Models,
             Create(r, kind, m)
      PROVE  LockInv'
  <2>1. PICK c \in Models : req' = [req EXCEPT ![r] =
                [kind |-> kind, target |-> m, champion |-> c, base |-> registry]]
    BY <1>1 DEF Create, Champions
  <2>2. [kind |-> kind, target |-> m, champion |-> c, base |-> registry] \in RequestRecords
    BY DEF RequestRecords
  <2>3. req' \in [Requests -> RequestRecords \cup {NoRequest}]
    BY <2>1, <2>2
  <2>4. \A q \in Requests : Created(q) => Created(q)'
    BY <2>1, <2>2 DEF RequestRecords
  <2> QED
    BY <1>1, <2>3, <2>4 DEF Create
<1>2. ASSUME NEW r \in Requests, Review(r) \/ Approve(r) \/ Expire(r) PROVE LockInv'
  BY <1>2 DEF Review, Approve, Expire
<1>3. ASSUME NEW a \in Appliers, NEW r \in Requests, BeginApply(a, r) PROVE LockInv'
  BY <1>3 DEF BeginApply
<1>4. ASSUME NEW a \in Appliers, LockProduction(a) \/ LockRegistry(a) \/ Validate(a)
      PROVE  LockInv'
  BY <1>4 DEF LockProduction, LockRegistry, Validate
<1>5. ASSUME NEW a \in Appliers, Refused(a) \/ Release(a) \/ Crash(a) PROVE LockInv'
  <2>1. Leave(a) /\ UNCHANGED <<files, requests, loaded>>
    BY <1>5 DEF Refused, Release, Crash
  <2>2. TypeOK'
    BY <2>1 DEF Leave
  <2>3. \A b \in Appliers : b # a => pc'[b] = pc[b] /\ job'[b] = job[b]
    BY <2>1 DEF Leave
  <2>4. pc'[a] = "idle"
    BY <2>1 DEF Leave
  <2> QED
    BY <2>1, <2>2, <2>3, <2>4 DEF Leave
<1>6. ASSUME NEW a \in Appliers, Recover(a) \/ UndoSwitch(a) PROVE LockInv'
  <2>1. job[a] \in Requests /\ Base(job[a]) \in Bytes
    BY <1>6, CreatedRecord DEF Recover, UndoSwitch
  <2> QED
    BY <1>6, <2>1 DEF Recover, UndoSwitch
<1>7. ASSUME NEW a \in Appliers, WriteJournal(a) \/ BackUp(a) PROVE LockInv'
  <2>1. pc[a] \in {"validated", "journaled"} /\ job[a] \in Requests /\ regLock = a
    BY <1>7 DEF WriteJournal, BackUp
  <2>2. CASE WriteJournal(a)
    BY <2>1, <2>2 DEF WriteJournal
  <2>3. CASE BackUp(a)
    BY <2>1, <2>3 DEF BackUp
  <2> QED
    BY <1>7, <2>2, <2>3
<1>8. ASSUME NEW a \in Appliers, PublishVersion(a) PROVE LockInv'
  <2>1. job[a] \in Requests /\ Switched(job[a]) \in [Models -> Statuses]
    BY <1>8, CreatedRecord DEF PublishVersion
  <2>2. content' \in [Bytes -> [Models -> Statuses]]
    BY <1>8, <2>1 DEF PublishVersion
  <2> QED
    BY <1>8, <2>1, <2>2 DEF PublishVersion
<1>9. ASSUME NEW a \in Appliers, Switch(a) PROVE LockInv'
  <2>1. job[a] \in Bytes
    BY <1>9 DEF Switch, Bytes
  <2> QED
    BY <1>9, <2>1 DEF Switch
<1>10. ASSUME NEW a \in Appliers, WriteHistory(a) \/ WriteManifest(a) PROVE LockInv'
  <2>1. pc[a] \in {"switched", "recorded"} /\ job[a] \in Requests /\ regLock = a
    BY <1>10 DEF WriteHistory, WriteManifest
  <2>2. CASE WriteHistory(a)
    BY <2>1, <2>2 DEF WriteHistory
  <2>3. CASE WriteManifest(a)
    BY <2>1, <2>3 DEF WriteManifest
  <2> QED
    BY <1>10, <2>2, <2>3
<1>11. ASSUME NEW a \in Appliers, Abort(a) \/ UndoFails(a) \/ UndoHistory(a) PROVE LockInv'
  BY <1>11 DEF Abort, UndoFails, UndoHistory
<1>12. ASSUME NEW w \in Writers, Load(w) \/ AbandonCommand(w) PROVE LockInv'
  BY <1>12 DEF Load, AbandonCommand, Unload
<1>13. ASSUME NEW w \in Writers, NEW m \in Models, Command(w, m) PROVE LockInv'
  <2>1. PICK status \in [Models -> Statuses] : Persist(w, status)
    BY <1>13 DEF Command, RegisterModel, PromoteModel, RetireModel, Registered, Promoted,
                 Retired, Statuses
  <2>2. writes + 1 \in 0..MaxWrites /\ writes + 1 \in Bytes
    BY <2>1 DEF Persist, Bytes
  <2>3. content' \in [Bytes -> [Models -> Statuses]]
    BY <2>1, <2>2 DEF Persist
  <2> QED
    BY <2>1, <2>2, <2>3 DEF Persist, Unload
<1>14. CASE UNCHANGED vars
  BY <1>14 DEF vars
<1> QED
  BY <1>1, <1>2, <1>3, <1>4, <1>5, <1>6, <1>7, <1>8, <1>9, <1>10, <1>11, <1>12, <1>13, <1>14
  DEF Next, Proceed

\* Types and lock ownership hold in every reachable state.
THEOREM RegistryLockInvariant == Spec => []LockInv
BY InitLockInv, StepLockInv, PTL DEF Spec

\* Type correctness of the registry's files and processes.
THEOREM RegistryTypeCorrect == Spec => []TypeOK
<1>1. LockInv => TypeOK
  BY DEF LockInv
<1> QED
  BY <1>1, RegistryLockInvariant, PTL
-----------------------------------------------------------------------------
(* What is on disk at each stage *)

\* A request's version could be put in force and taken back.
Complete(r) == Created(r) /\ r \in pending \cap versions /\ Base(r) \in backups
Sound(b) == b \in Requests => Complete(b)

\* What an applier has on disk at each place.
Stage(a) ==
    /\ pc[a] \in Locked \ {"locked", "release"} => job[a] \notin committed
    /\ pc[a] \in {"validated", "journaled", "backed", "published"} => registry = Base(job[a])
    /\ pc[a] \in {"journaled", "backed", "published"} => job[a] \in pending
    /\ pc[a] \in {"backed", "published"} => Base(job[a]) \in backups
    /\ pc[a] = "published" => job[a] \in versions
    /\ pc[a] \in {"switched", "recorded"} => registry = job[a]
    /\ pc[a] = "recorded" => job[a] \in history

Stages ==
    /\ \A a \in Appliers : Stage(a)
    /\ Sound(registry)
    /\ \A r \in Requests : Created(r) => Sound(Base(r))
    /\ \A r \in committed : Complete(r) /\ r \in history

\* The initial state: no request, nothing committed.
LEMMA InitStages == Init => Stages
BY RegistryAssumption, SMTT(30) DEF Init, Stages, Stage, Sound, Created, Locked

\* Every step keeps what is on disk in order.
LEMMA StepStages == LockInv /\ Stages /\ [Next]_vars => Stages'
<1> SUFFICES ASSUME LockInv, Stages, [Next]_vars PROVE Stages'
  OBVIOUS
<1> USE RegistryAssumption
<1> USE DEF LockInv, TypeOK, Places, Locked, files, requests, At, Goto,
            Stages, Stage, Sound, Complete
<1>1. ASSUME NEW r \in Requests, NEW kind \in {"promotion", "rollback"}, NEW m \in Models,
             Create(r, kind, m)
      PROVE  Stages'
  <2>1. PICK c : req' = [req EXCEPT ![r] =
                [kind |-> kind, target |-> m, champion |-> c, base |-> registry]]
    BY <1>1 DEF Create
  <2>2. \A q \in Requests : q # r => (Created(q)' <=> Created(q)) /\ Base(q)' = Base(q)
    BY <2>1 DEF Created, Base
  <2>3. ~Created(r) /\ Base(r)' = registry
    BY <1>1, <2>1 DEF Create, Created, Base
  <2>4. UNCHANGED <<files, pc, job>>
    BY <1>1 DEF Create
  <2>5. \A q \in Requests : Complete(q) => Complete(q)'
    BY <2>2, <2>3, <2>4
  <2>6. \A a \in Appliers : Stage(a)'
    BY <2>2, <2>3, <2>4
  <2> QED
    BY <2>2, <2>3, <2>4, <2>5, <2>6
<1>2. ASSUME NEW r \in Requests, Review(r) \/ Approve(r) \/ Expire(r) PROVE Stages'
  BY <1>2 DEF Review, Approve, Expire, Created, Base
<1>3. ASSUME NEW a \in Appliers, NEW r \in Requests, BeginApply(a, r) PROVE Stages'
  BY <1>3 DEF BeginApply, Created, Base
<1>4. ASSUME NEW a \in Appliers, LockProduction(a) \/ LockRegistry(a) PROVE Stages'
  BY <1>4 DEF LockProduction, LockRegistry, Created, Base
<1>5. ASSUME NEW a \in Appliers, Refused(a) \/ Release(a) \/ Crash(a) PROVE Stages'
  <2>1. Leave(a) /\ UNCHANGED <<files, requests>>
    BY <1>5 DEF Refused, Release, Crash
  <2>2. \A b \in Appliers : b # a => pc'[b] = pc[b] /\ job'[b] = job[b]
    BY <2>1 DEF Leave
  <2>3. pc'[a] = "idle"
    BY <2>1 DEF Leave
  <2> QED
    BY <2>1, <2>2, <2>3 DEF Created, Base
<1>6. ASSUME NEW a \in Appliers, Recover(a) PROVE Stages'
  BY <1>6 DEF Recover, Created, Base
<1>7. ASSUME NEW a \in Appliers, Validate(a) PROVE Stages'
  BY <1>7 DEF Validate, Valid, Created, Base
<1>8. ASSUME NEW a \in Appliers, WriteJournal(a) PROVE Stages'
  BY <1>8 DEF WriteJournal, Created, Base
<1>9. ASSUME NEW a \in Appliers, BackUp(a) PROVE Stages'
  BY <1>9 DEF BackUp, Created, Base
<1>10. ASSUME NEW a \in Appliers, PublishVersion(a) PROVE Stages'
  BY <1>10 DEF PublishVersion, Created, Base
<1>11. ASSUME NEW a \in Appliers, Switch(a) PROVE Stages'
  BY <1>11 DEF Switch, Created, Base
<1>12. ASSUME NEW a \in Appliers, WriteHistory(a) PROVE Stages'
  BY <1>12 DEF WriteHistory, Created, Base
<1>13. ASSUME NEW a \in Appliers, WriteManifest(a) PROVE Stages'
  BY <1>13 DEF WriteManifest, Created, Base
<1>14. ASSUME NEW a \in Appliers, Abort(a) \/ UndoFails(a) PROVE Stages'
  BY <1>14 DEF Abort, UndoFails, Created, Base
<1>15. ASSUME NEW a \in Appliers, UndoSwitch(a) PROVE Stages'
  BY <1>15 DEF UndoSwitch, Created, Base
<1>16. ASSUME NEW a \in Appliers, UndoHistory(a) PROVE Stages'
  BY <1>16 DEF UndoHistory, Created, Base
<1>17. ASSUME NEW w \in Writers, Load(w) \/ AbandonCommand(w) PROVE Stages'
  BY <1>17 DEF Load, AbandonCommand, Unload, Created, Base
<1>18. ASSUME NEW w \in Writers, NEW m \in Models, Command(w, m) PROVE Stages'
  <2>1. PICK status : Persist(w, status)
    BY <1>18 DEF Command, RegisterModel, PromoteModel, RetireModel
  <2>2. regLock = w /\ \A a \in Appliers : pc[a] \notin Locked
    BY <2>1 DEF Persist
  <2>3. writes + 1 \in 0..MaxWrites /\ registry' \notin Requests
    BY <2>1 DEF Persist
  <2> QED
    BY <2>1, <2>2, <2>3 DEF Persist, Created, Base
<1>19. CASE UNCHANGED vars
  BY <1>19 DEF vars, Created, Base
<1> QED
  BY <1>1, <1>2, <1>3, <1>4, <1>5, <1>6, <1>7, <1>8, <1>9, <1>10, <1>11, <1>12, <1>13,
     <1>14, <1>15, <1>16, <1>17, <1>18, <1>19
  DEF Next, Proceed

\* What is on disk at each stage, in every reachable state.
THEOREM RegistryStages == Spec => []Stages
BY InitStages, StepStages, RegistryLockInvariant, PTL DEF Spec

\* Write-ahead: a switched, uncommitted registry can always be taken back.
THEOREM RegistryUncommittedIsRecoverable == Spec => []UncommittedIsRecoverable
<1>1. Stages => UncommittedIsRecoverable
  BY DEF Stages, Sound, Complete, UncommittedIsRecoverable
<1> QED
  BY <1>1, RegistryStages, PTL

\* What a committed transaction left behind is never removed.
THEOREM RegistryCommittedIsComplete == Spec => []CommittedIsComplete
<1>1. Stages => CommittedIsComplete
  BY DEF Stages, Complete, CommittedIsComplete
<1> QED
  BY <1>1, RegistryStages, PTL
-----------------------------------------------------------------------------
(* Commits form a chain *)

\* Contents that exist, or whose request does.
Known == 0..writes \cup {r \in Requests : Created(r)}

\* A holds the ancestors of the registry back to the last commit or command, a
\* chain with the registry at its end; D holds what a commit has left behind,
\* the parents of committed transactions among them.
LineageOf(A, D) ==
    /\ A \subseteq Known /\ D \subseteq Known /\ A \cap D = {}
    /\ registry \in A
    /\ \A b \in A \cap Requests : Base(b) # registry
    /\ \A b, c \in A \cap Requests : Base(b) = Base(c) => b = c
    /\ \A b \in (A \cap Requests) \ committed : Base(b) \in A
    /\ \A b \in (D \cap Requests) \ committed : Base(b) \in D
    /\ \A r \in committed : Base(r) \in D

Lineage ==
    /\ \A r \in Requests : Created(r) => Base(r) \in Known \ {r}
    /\ CommitsFormAChain
    /\ \E A, D \in SUBSET Bytes : LineageOf(A, D)

\* What the lineage is made of, for steps that leave it alone.
lineage == <<registry, writes, req, committed>>

\* The initial registry is its own lineage.
LEMMA InitLineage == Init => Lineage
<1> SUFFICES ASSUME Init PROVE Lineage
  OBVIOUS
<1>1. LineageOf({0}, {})
  BY RegistryAssumption DEF Init, LineageOf, Known
<1>2. {0} \in SUBSET Bytes
  BY RegistryAssumption DEF Bytes
<1> QED
  BY <1>1, <1>2 DEF Init, Lineage, CommitsFormAChain, Created

\* Every step keeps the lineage.
LEMMA StepLineage == LockInv /\ Stages /\ Lineage /\ [Next]_vars => Lineage'
<1> SUFFICES ASSUME LockInv, Stages, Lineage, [Next]_vars PROVE Lineage'
  OBVIOUS
<1> USE RegistryAssumption
<1>1. PICK A, D \in SUBSET Bytes : LineageOf(A, D)
  BY DEF Lineage
<1>2. CASE UNCHANGED lineage
  BY <1>2 DEF lineage, Lineage, LineageOf, Known, CommitsFormAChain, Created, Base
<1>3. ASSUME NEW r \in Requests, NEW kind \in {"promotion", "rollback"}, NEW m \in Models,
             Create(r, kind, m)
      PROVE  Lineage'
  <2>1. PICK c : req' = [req EXCEPT ![r] =
                [kind |-> kind, target |-> m, champion |-> c, base |-> registry]]
    BY <1>3 DEF Create
  <2>2. \A q \in Requests : q # r => (Created(q)' <=> Created(q)) /\ Base(q)' = Base(q)
    BY <2>1 DEF Created, Base, LockInv, TypeOK
  <2>3. ~Created(r) /\ Base(r)' = registry
    BY <1>3, <2>1 DEF Create, Base, LockInv, TypeOK
  <2>4. UNCHANGED <<registry, writes, committed>>
    BY <1>3 DEF Create, files
  <2>5. r \notin Known /\ r \notin committed
    BY <2>3 DEF Known, Stages, Complete, LockInv, TypeOK
  <2>6. Known \subseteq Known'
    BY <2>2, <2>3, <2>4 DEF Known
  <2>7. LineageOf(A, D)'
    <3>1. \A b \in Requests : b \in A \cup D \cup committed => Base(b)' = Base(b)
      BY <1>1, <2>2, <2>5 DEF LineageOf
    <3>2. committed \subseteq Requests
      BY DEF LockInv, TypeOK
    <3>3. A \subseteq Known' /\ D \subseteq Known'
      BY <1>1, <2>6 DEF LineageOf
    <3> QED
      BY <1>1, <2>4, <3>1, <3>2, <3>3 DEF LineageOf
  <2>8. \A q \in Requests : Created(q)' => Base(q)' \in Known' \ {q}
    BY <1>1, <2>2, <2>3, <2>4, <2>5, <2>6 DEF LineageOf, Lineage
  <2>9. CommitsFormAChain'
    BY <2>2, <2>4, <2>5 DEF Lineage, CommitsFormAChain, LockInv, TypeOK
  <2> QED
    BY <2>7, <2>8, <2>9 DEF Lineage
<1>4. ASSUME NEW a \in Appliers, Recover(a) \/ UndoSwitch(a), registry' # registry PROVE Lineage'
  <2>1. job[a] \in Requests \ committed /\ registry = job[a] /\ registry' = Base(job[a])
    BY <1>4 DEF Recover, UndoSwitch, Unrecoverable, At, LockInv, TypeOK, Stages, Stage, Locked
  <2>2. UNCHANGED <<writes, req, committed>>
    BY <1>4 DEF Recover, UndoSwitch, requests
  <2>3. Known' = Known /\ \A q : Base(q)' = Base(q)
    BY <2>2 DEF Known, Created, Base
  <2>4. PICK B \in SUBSET Bytes : B = A \ {registry}
    OBVIOUS
  <2>5. LineageOf(B, D)'
    BY <1>1, <1>4, <2>1, <2>2, <2>3, <2>4 DEF LineageOf, LockInv, TypeOK
  <2> QED
    BY <2>2, <2>3, <2>5 DEF Lineage, CommitsFormAChain, Created
<1>5. ASSUME NEW a \in Appliers, Switch(a) PROVE Lineage'
  <2>1. PICK x : x = job[a]
    OBVIOUS
  <2>2. x \in Requests \ committed /\ registry = Base(x) /\ registry' = x
    BY <1>5, <2>1 DEF Switch, At, LockInv, TypeOK, Stages, Stage, Locked
  <2>3. UNCHANGED <<writes, req, committed>>
    BY <1>5 DEF Switch, requests
  <2>4. Known' = Known /\ \A q : Base(q)' = Base(q)
    BY <2>3 DEF Known, Created, Base
  <2>5. x \in Known /\ Base(x) # x
    BY <1>5, <2>1, <2>2 DEF Switch, At, LockInv, Known, Lineage
  <2>6. x \notin A /\ x \notin D
    BY <1>1, <2>2 DEF LineageOf
  <2>7. \A b \in A \cap Requests : Base(b) # x
    BY <1>1, <2>2, <2>6 DEF LineageOf
  <2>8. PICK B \in SUBSET Bytes : B = A \cup {x}
    BY <2>2 DEF Bytes
  <2>9. LineageOf(B, D)'
    BY <1>1, <2>2, <2>3, <2>4, <2>5, <2>6, <2>7, <2>8 DEF LineageOf
  <2> QED
    BY <2>3, <2>4, <2>9 DEF Lineage, CommitsFormAChain, Created
<1>6. ASSUME NEW a \in Appliers, WriteManifest(a) PROVE Lineage'
  <2>1. PICK x : x = job[a]
    OBVIOUS
  <2>2. x \in Requests \ committed /\ registry = x /\ committed' = committed \cup {x}
    BY <1>6, <2>1 DEF WriteManifest, At, LockInv, TypeOK, Stages, Stage, Locked
  <2>3. UNCHANGED <<registry, writes, req>>
    BY <1>6 DEF WriteManifest, requests
  <2>4. Known' = Known /\ \A q : Base(q)' = Base(q)
    BY <2>3 DEF Known, Created, Base
  <2>5. x \in A /\ Base(x) \in A \ {x}
    BY <1>1, <2>2 DEF LineageOf
  <2>6. PICK B, E \in SUBSET Bytes : B = {x} /\ E = D \cup (A \ {x})
    BY <2>2 DEF Bytes
  <2>7. LineageOf(B, E)'
    BY <1>1, <2>2, <2>3, <2>4, <2>5, <2>6 DEF LineageOf
  <2>8. \A r \in committed : Base(r) # Base(x)
    BY <1>1, <2>5 DEF LineageOf
  <2>9. CommitsFormAChain'
    BY <2>2, <2>4, <2>8 DEF Lineage, CommitsFormAChain
  <2> QED
    BY <2>3, <2>4, <2>7, <2>9 DEF Lineage, Created
<1>7. ASSUME NEW w \in Writers, NEW m \in Models, Command(w, m) PROVE Lineage'
  <2>1. PICK n : n = writes + 1
    OBVIOUS
  <2>2. /\ writes < MaxWrites /\ registry' = n /\ writes' = n
        /\ UNCHANGED <<req, committed>>
    BY <1>7, <2>1 DEF Command, RegisterModel, PromoteModel, RetireModel, Persist, requests
  <2>3. n \in Bytes /\ n \notin Requests /\ n \notin Known
    <3>1. writes \in 0..MaxWrites /\ MaxWrites \in Nat
      BY DEF LockInv, TypeOK
    <3>2. n \in 0..MaxWrites /\ n \notin 0..writes
      BY <2>1, <2>2, <3>1
    <3>3. n \notin Requests
      BY <3>2
    <3> QED
      BY <3>2, <3>3 DEF Bytes, Known
  <2>4. \A q : Base(q)' = Base(q) /\ Created(q)' = Created(q)
    BY <2>2 DEF Created, Base
  <2>5. Known' = Known \cup {n}
    <3>1. writes \in Nat
      BY DEF LockInv, TypeOK
    <3>2. 0..n = 0..writes \cup {n}
      BY <2>1, <3>1
    <3>3. {r \in Requests : Created(r)}' = {r \in Requests : Created(r)}
      BY <2>4
    <3> QED
      BY <2>2, <3>2, <3>3 DEF Known
  <2>6. PICK B \in SUBSET Bytes : B = {n}
    BY <2>3
  <2>7. LineageOf(B, D)'
    BY <1>1, <2>2, <2>3, <2>4, <2>5, <2>6 DEF LineageOf
  <2>8. \A r \in Requests : Created(r)' => Base(r)' \in Known' \ {r}
    BY <2>4, <2>5 DEF Lineage
  <2>9. CommitsFormAChain'
    BY <2>2, <2>4 DEF Lineage, CommitsFormAChain
  <2> QED
    BY <2>7, <2>8, <2>9 DEF Lineage
<1>8. CASE \E a \in Appliers : (Proceed(a) \/ Crash(a)) /\ ~Switch(a) /\ ~WriteManifest(a)
  <2>1. PICK a \in Appliers : (Proceed(a) \/ Crash(a)) /\ ~Switch(a) /\ ~WriteManifest(a)
    BY <1>8
  <2>2. CASE Recover(a) \/ UndoSwitch(a)
    BY <1>2, <1>4, <2>2 DEF Recover, UndoSwitch, lineage, requests
  <2>3. CASE ~Recover(a) /\ ~UndoSwitch(a)
    <3>1. UNCHANGED lineage
      BY <2>1, <2>3
      DEF Proceed, LockProduction, LockRegistry, Refused, Validate, WriteJournal, BackUp,
          PublishVersion, WriteHistory, Abort, UndoFails, UndoHistory, Release, Crash,
          Leave, files, requests, lineage
    <3> QED
      BY <1>2, <3>1
  <2> QED
    BY <2>2, <2>3
<1>9. ASSUME NEW r \in Requests, Review(r) \/ Approve(r) \/ Expire(r) PROVE Lineage'
  BY <1>2, <1>9 DEF Review, Approve, Expire, files, lineage
<1>10. ASSUME NEW a \in Appliers, NEW r \in Requests, BeginApply(a, r) PROVE Lineage'
  BY <1>2, <1>10 DEF BeginApply, files, requests, lineage
<1>11. ASSUME NEW w \in Writers, Load(w) \/ AbandonCommand(w) PROVE Lineage'
  BY <1>2, <1>11 DEF Load, AbandonCommand, files, requests, lineage
<1>12. CASE UNCHANGED vars
  BY <1>2, <1>12 DEF vars, files, requests, lineage
<1> QED
  BY <1>3, <1>5, <1>6, <1>7, <1>8, <1>9, <1>10, <1>11, <1>12 DEF Next

\* The lineage holds in every reachable state.
LEMMA RegistryLineage == Spec => []Lineage
BY InitLineage, StepLineage, RegistryLockInvariant, RegistryStages, PTL DEF Spec

\* No approval is spent twice and no restored registry is committed over again:
\* committed transactions replaced different registries, in one chain.
THEOREM RegistryCommitsFormAChain == Spec => []CommitsFormAChain
<1>1. Lineage => CommitsFormAChain
  BY DEF Lineage
<1> QED
  BY <1>1, RegistryLineage, PTL
-----------------------------------------------------------------------------
(* One champion *)

\* No status function with two champions.
AtMostOne(status) == \A m, n \in Champions(status) : m = n

\* Every content has at most one champion, and a transaction that has been
\* validated replaces the one its parent has.
Unique ==
    /\ \A b \in Bytes : AtMostOne(content[b])
    /\ \A a \in Appliers :
          pc[a] \in {"validated", "journaled", "backed"}
              => req[job[a]].champion \in Champions(content[Base(job[a])])

\* A version changes the champion's place with the target's.
LEMMA SwitchedIsUnique ==
    ASSUME TypeOK, NEW r \in Requests, Created(r), AtMostOne(content[Base(r)]),
           req[r].champion \in Champions(content[Base(r)])
    PROVE  AtMostOne(Switched(r))
<1>1. req[r].champion \in Models /\ req[r].target \in Models
  BY CreatedRecord DEF RequestRecords
<1>2. content[Base(r)] \in [Models -> Statuses]
  BY CreatedRecord DEF TypeOK
<1> QED
  BY <1>1, <1>2 DEF AtMostOne, Champions, Switched

\* A registry command keeps a single champion in what it writes.
LEMMA CommandIsUnique ==
    ASSUME LockInv, Unique, NEW w \in Writers, NEW m \in Models, Command(w, m)
    PROVE  \E status : Persist(w, status) /\ AtMostOne(status)
<1> DEFINE s == content[loaded[w]]
<1>1. s \in [Models -> Statuses] /\ AtMostOne(s)
  BY DEF Command, RegisterModel, PromoteModel, RetireModel, LockInv, TypeOK, Unique
<1>2. /\ AtMostOne(Registered(s, m))
      /\ AtMostOne(Promoted(s, m))
      /\ AtMostOne(Retired(s, m))
  BY <1>1 DEF AtMostOne, Champions, Registered, Promoted, Retired
<1> QED
  BY <1>2 DEF Command, RegisterModel, PromoteModel, RetireModel

\* The first registry has one champion, by assumption.
LEMMA InitUnique == Init => Unique
BY RegistryAssumption DEF Init, Unique, AtMostOne

\* Every step keeps one champion per content.
LEMMA StepUnique == LockInv /\ Stages /\ Unique /\ [Next]_vars => Unique'
<1> SUFFICES ASSUME LockInv, Stages, Unique, [Next]_vars PROVE Unique'
  OBVIOUS
<1> USE RegistryAssumption
<1>1. ASSUME NEW r \in Requests, NEW kind \in {"promotion", "rollback"}, NEW m \in Models,
             Create(r, kind, m)
      PROVE  Unique'
  <2>1. \A q \in Requests : Created(q) => req'[q] = req[q]
    BY <1>1 DEF Create, LockInv, TypeOK
  <2>2. \A a \in Appliers : pc[a] # "idle" => job[a] \in Requests /\ Created(job[a])
    BY DEF LockInv
  <2> QED
    BY <1>1, <2>1, <2>2 DEF Create, Unique, AtMostOne, Champions, Base, files
<1>2. ASSUME NEW a \in Appliers, PublishVersion(a) PROVE Unique'
  <2>1. PICK r \in Requests : r = job[a] /\ Created(r)
    BY <1>2 DEF PublishVersion, At, LockInv
  <2>2. AtMostOne(Switched(r))
    BY <1>2, <2>1, CreatedRecord, SwitchedIsUnique DEF PublishVersion, At, LockInv, Unique
  <2>3. \A b \in Bytes : content'[b] = IF b = r THEN Switched(r) ELSE content[b]
    BY <1>2, <2>1 DEF PublishVersion, LockInv, TypeOK
  <2>4. \A b \in Appliers : b # a => pc[b] \notin Locked
    BY <1>2 DEF PublishVersion, At, LockInv, Locked
  <2>5. pc' = [pc EXCEPT ![a] = "published"] /\ pc \in [Appliers -> Places]
    BY <1>2 DEF PublishVersion, Goto, LockInv, TypeOK
  <2>6. \A b \in Appliers : pc'[b] \notin {"validated", "journaled", "backed"}
    BY <2>4, <2>5 DEF Locked
  <2> QED
    BY <2>2, <2>3, <2>6 DEF Unique, AtMostOne, Champions
<1>3. ASSUME NEW w \in Writers, NEW m \in Models, Command(w, m) PROVE Unique'
  <2>1. PICK status : Persist(w, status) /\ AtMostOne(status)
    BY <1>3, CommandIsUnique
  <2>2. \A b \in Bytes : content'[b] = IF b = writes + 1 THEN status ELSE content[b]
    BY <2>1 DEF Persist, LockInv, TypeOK
  <2>3. \A a \in Appliers : pc'[a] \notin {"validated", "journaled", "backed"}
    BY <2>1 DEF Persist, LockInv, Locked, TypeOK
  <2> QED
    BY <2>1, <2>2, <2>3 DEF Unique, AtMostOne, Champions
<1>4. ASSUME NEW a \in Appliers, Validate(a) PROVE Unique'
  BY <1>4 DEF Validate, Valid, At, Goto, Unique, AtMostOne, Champions, Base, LockInv, TypeOK,
              files, requests
<1>5. ASSUME NEW a \in Appliers, ~PublishVersion(a), ~Validate(a), Proceed(a) \/ Crash(a)
      PROVE  Unique'
  <2>1. UNCHANGED <<content, req>>
    BY <1>5
    DEF Proceed, LockProduction, LockRegistry, Refused, Recover, WriteJournal, BackUp, Switch,
        WriteHistory, WriteManifest, Abort, UndoSwitch, UndoFails, UndoHistory, Release, Crash,
        Leave, files, requests
  <2>2. \A b \in Appliers : pc'[b] \in {"validated", "journaled", "backed"} =>
            pc[b] \in {"validated", "journaled", "backed"} /\ job'[b] = job[b]
    BY <1>5
    DEF Proceed, LockProduction, LockRegistry, Refused, Recover, WriteJournal, BackUp, Switch,
        WriteHistory, WriteManifest, Abort, UndoSwitch, UndoFails, UndoHistory, Release, Crash,
        Leave, At, Goto, LockInv, TypeOK
  <2> QED
    BY <2>1, <2>2 DEF Unique, AtMostOne, Champions, Base
<1>6. ASSUME NEW r \in Requests, Review(r) \/ Approve(r) \/ Expire(r) PROVE Unique'
  BY <1>6 DEF Review, Approve, Expire, files, Unique, AtMostOne, Champions, Base
<1>7. ASSUME NEW a \in Appliers, NEW r \in Requests, BeginApply(a, r) PROVE Unique'
  BY <1>7 DEF BeginApply, Goto, files, requests, Unique, AtMostOne, Champions, Base,
              LockInv, TypeOK
<1>8. ASSUME NEW w \in Writers, Load(w) \/ AbandonCommand(w) PROVE Unique'
  BY <1>8 DEF Load, AbandonCommand, files, requests, Unique, AtMostOne, Champions, Base
<1>9. CASE UNCHANGED vars
  BY <1>9 DEF vars, files, requests, Unique, AtMostOne, Champions, Base
<1> QED
  BY <1>1, <1>2, <1>3, <1>4, <1>5, <1>6, <1>7, <1>8, <1>9 DEF Next, Proceed

\* Readers of the registry see at most one champion, whatever mixture of
\* transactions, interruptions and commands has written it.
THEOREM RegistryOneChampion == Spec => []OneChampion
<1>1. Spec => []Unique
  BY InitUnique, StepUnique, RegistryLockInvariant, RegistryStages, PTL DEF Spec
<1>2. LockInv /\ Unique => OneChampion
  BY DEF LockInv, TypeOK, Unique, AtMostOne, OneChampion
<1> QED
  BY <1>1, <1>2, RegistryLockInvariant, PTL
-----------------------------------------------------------------------------
(* What a version is made of *)

\* Places a transaction reaches only after its approval has been validated.
Approved == {"validated", "journaled", "backed", "published", "switched", "recorded"}

\* Versions are built from the frozen parent, which names both models; a writer
\* has loaded the registry it is about to replace; validated means approved.
Built ==
    /\ \A r \in Requests : Created(r) =>
          content[Base(r)][req[r].target] # "absent" /\ content[Base(r)][req[r].champion] # "absent"
    /\ \A r \in versions : Created(r) /\ content[r] = Switched(r)
    /\ \A w \in Writers : loaded[w] # Nobody => loaded[w] = registry
    /\ \A a \in Appliers : pc[a] \in Approved => approval[job[a]] \in {"approved", "expired"}

\* The initial state: no request, no version, nothing loaded.
LEMMA InitBuilt == Init => Built
BY DEF Init, Built, Created, Approved

\* A published version is never rebuilt differently, and neither a request's
\* record nor the content of its parent ever changes.
LEMMA StepSettled ==
    ASSUME LockInv, Stages, Lineage, Built, [Next]_vars
    PROVE  /\ \A r \in Requests : Created(r) =>
                 req'[r] = req[r] /\ Base(r)' = Base(r) /\ content'[Base(r)] = content[Base(r)]
           /\ \A r \in versions : content'[r] = content[r]
           /\ \A r \in versions : Switched(r)' = Switched(r)
<1> DEFINE Settled == /\ \A r \in Requests : Created(r) =>
                            req'[r] = req[r] /\ content'[Base(r)] = content[Base(r)]
                      /\ \A r \in versions : content'[r] = content[r]
<1> USE RegistryAssumption
<1>1. Settled
  <2>1. CASE UNCHANGED <<content, req>>
    BY <2>1
  <2>2. ASSUME NEW r \in Requests, NEW kind \in {"promotion", "rollback"}, NEW m \in Models,
               Create(r, kind, m)
        PROVE  Settled
    BY <2>2 DEF Create, LockInv, TypeOK, files
  <2>3. ASSUME NEW a \in Appliers, PublishVersion(a) PROVE Settled
    <3>1. PICK x \in Requests : x = job[a]
      BY <2>3 DEF PublishVersion, At, LockInv
    <3>2. UNCHANGED req /\ content' = [content EXCEPT ![x] = Switched(x)]
      BY <2>3, <3>1 DEF PublishVersion, requests
    <3>3. x \in versions => content'[x] = content[x]
      BY <3>2 DEF Built, LockInv, TypeOK
    <3>4. \A r \in Requests : Created(r) /\ Base(r) = x => x \in versions
      BY DEF Stages, Sound, Complete
    <3> QED
      BY <3>2, <3>3, <3>4 DEF LockInv, TypeOK
  <2>4. ASSUME NEW w \in Writers, NEW m \in Models, Command(w, m) PROVE Settled
    <3>1. PICK status : Persist(w, status)
      BY <2>4 DEF Command, RegisterModel, PromoteModel, RetireModel
    <3>2. UNCHANGED req /\ content' = [content EXCEPT ![writes + 1] = status]
      BY <3>1 DEF Persist, requests
    <3>3. writes + 1 \in 0..MaxWrites /\ writes + 1 \notin 0..writes
      BY <3>1 DEF Persist, LockInv, TypeOK
    <3>4. writes + 1 \notin Requests /\ writes + 1 \notin Known
      BY <3>3 DEF Known
    <3>5. \A r \in Requests : Created(r) => Base(r) # writes + 1
      BY <3>4 DEF Lineage
    <3> QED
      BY <3>2, <3>4, <3>5 DEF LockInv, TypeOK
  <2>5. ASSUME NEW a \in Appliers, ~PublishVersion(a), Proceed(a) \/ Crash(a)
        PROVE  UNCHANGED <<content, req>>
    BY <2>5
    DEF Proceed, LockProduction, LockRegistry, Refused, Recover, Validate, WriteJournal, BackUp,
        Switch, WriteHistory, WriteManifest, Abort, UndoSwitch, UndoFails, UndoHistory, Release,
        Crash, Leave, files, requests
  <2>6. ASSUME NEW r \in Requests, Review(r) \/ Approve(r) \/ Expire(r)
        PROVE  UNCHANGED <<content, req>>
    BY <2>6 DEF Review, Approve, Expire, files
  <2>7. ASSUME NEW a \in Appliers, NEW r \in Requests, BeginApply(a, r)
        PROVE  UNCHANGED <<content, req>>
    BY <2>7 DEF BeginApply, files, requests
  <2>8. ASSUME NEW w \in Writers, Load(w) \/ AbandonCommand(w)
        PROVE  UNCHANGED <<content, req>>
    BY <2>8 DEF Load, AbandonCommand, files, requests
  <2>9. CASE UNCHANGED vars
    BY <2>9 DEF vars, files, requests
  <2> HIDE DEF Settled
  <2> QED
    BY <2>1, <2>2, <2>3, <2>4, <2>5, <2>6, <2>7, <2>8, <2>9 DEF Next
<1>2. \A r \in Requests : Created(r) => Base(r)' = Base(r)
  BY <1>1 DEF Base
<1>3. \A r \in versions : Switched(r)' = Switched(r)
  BY <1>1, <1>2 DEF Switched, Built, LockInv, TypeOK
<1> QED
  BY <1>1, <1>2, <1>3

\* Every step keeps versions what they were built to be.
LEMMA StepBuilt == LockInv /\ Stages /\ Lineage /\ Built /\ [Next]_vars => Built'
<1> SUFFICES ASSUME LockInv, Stages, Lineage, Built, [Next]_vars PROVE Built'
  OBVIOUS
<1> USE RegistryAssumption
<1>1. \A r \in Requests : Created(r)' =>
          /\ content'[Base(r)'][req'[r].target] # "absent"
          /\ content'[Base(r)'][req'[r].champion] # "absent"
  <2>1. ASSUME NEW r \in Requests, ~Created(r), Created(r)'
        PROVE  /\ content'[Base(r)'][req'[r].target] # "absent"
               /\ content'[Base(r)'][req'[r].champion] # "absent"
    <3>1. req'[r] # req[r]
      BY <2>1 DEF Created
    <3>2. PICK kind \in {"promotion", "rollback"}, m \in Models : Create(r, kind, m)
      BY <3>1
      DEF Next, Create, Review, Approve, Expire, BeginApply, Proceed, LockProduction, LockRegistry,
          Refused, Recover, Validate, WriteJournal, BackUp, PublishVersion, Switch, WriteHistory,
          WriteManifest, Abort, UndoSwitch, UndoFails, UndoHistory, Release, Crash, Load,
          AbandonCommand, Command, RegisterModel, PromoteModel, RetireModel, Persist,
          requests, vars, LockInv, TypeOK
    <3>3. PICK c \in Champions(content[registry]) : req' = [req EXCEPT ![r] =
                  [kind |-> kind, target |-> m, champion |-> c, base |-> registry]]
      BY <3>2 DEF Create
    <3>4. Base(r)' = registry /\ req'[r].target = m /\ req'[r].champion = c
      BY <3>3 DEF Base, LockInv, TypeOK
    <3> QED
      BY <3>2, <3>3, <3>4 DEF Create, Champions, files
  <2> QED
    BY <2>1, StepSettled DEF Built
<1>2. \A r \in versions' : Created(r)' /\ content'[r] = Switched(r)'
  <2>1. \A r \in versions : Created(r)' /\ content'[r] = Switched(r)'
    BY StepSettled DEF Built, Created, LockInv, TypeOK
  <2>2. ASSUME NEW r \in versions', r \notin versions
        PROVE  Created(r)' /\ content'[r] = Switched(r)'
    <3>1. PICK a \in Appliers : PublishVersion(a)
      BY <2>2
      DEF Next, Create, Review, Approve, Expire, BeginApply, Proceed, LockProduction, LockRegistry,
          Refused, Recover, Validate, WriteJournal, BackUp, PublishVersion, Switch, WriteHistory,
          WriteManifest, Abort, UndoSwitch, UndoFails, UndoHistory, Release, Crash, Load,
          AbandonCommand, Command, RegisterModel, PromoteModel, RetireModel, Persist,
          files, requests, vars
    <3>2. r \in Requests /\ r = job[a] /\ Created(r)
      BY <2>2, <3>1 DEF PublishVersion, At, LockInv
    <3>3. UNCHANGED req /\ content'[r] = Switched(r)
      BY <3>1, <3>2 DEF PublishVersion, requests, LockInv, TypeOK, Bytes
    <3>4. Switched(r)' = Switched(r)
      BY <3>2, <3>3, StepSettled DEF Switched
    <3> QED
      BY <3>2, <3>3, <3>4 DEF Created
  <2> QED
    BY <2>1, <2>2
<1>3. \A w \in Writers : loaded'[w] # Nobody => loaded'[w] = registry'
  <2>1. CASE UNCHANGED <<registry, loaded>>
    BY <2>1 DEF Built
  <2>2. ASSUME NEW v \in Writers, Load(v) \/ AbandonCommand(v)
        PROVE  /\ registry' = registry
               /\ \A w \in Writers : loaded'[w] \in {loaded[w], registry, Nobody}
    BY <2>2 DEF Load, AbandonCommand, Unload, files, LockInv, TypeOK
  <2>3. ASSUME NEW v \in Writers, NEW m \in Models, Command(v, m)
        PROVE  \A w \in Writers : loaded'[w] = Nobody
    BY <2>3 DEF Command, RegisterModel, PromoteModel, RetireModel, Persist, Unload,
                LockInv, TypeOK
  <2>4. ASSUME NEW a \in Appliers, Recover(a) \/ Switch(a) \/ UndoSwitch(a)
        PROVE  \A w \in Writers : loaded'[w] = Nobody
    <3>1. pc[a] \in Locked /\ UNCHANGED loaded
      BY <2>4 DEF Recover, Switch, UndoSwitch, At, Locked
    <3> QED
      BY <3>1 DEF LockInv
  <2>5. ASSUME NEW a \in Appliers, ~Recover(a), ~Switch(a), ~UndoSwitch(a), Proceed(a) \/ Crash(a)
        PROVE  UNCHANGED <<registry, loaded>>
    BY <2>5
    DEF Proceed, LockProduction, LockRegistry, Refused, Validate, WriteJournal, BackUp,
        PublishVersion, WriteHistory, WriteManifest, Abort, UndoFails, UndoHistory, Release,
        Crash, files
  <2>6. ASSUME NEW r \in Requests, NEW kind \in {"promotion", "rollback"}, NEW m \in Models,
               Create(r, kind, m)
        PROVE  UNCHANGED <<registry, loaded>>
    BY <2>6 DEF Create, files
  <2>7. ASSUME NEW r \in Requests, Review(r) \/ Approve(r) \/ Expire(r)
        PROVE  UNCHANGED <<registry, loaded>>
    BY <2>7 DEF Review, Approve, Expire, files
  <2>8. ASSUME NEW a \in Appliers, NEW r \in Requests, BeginApply(a, r)
        PROVE  UNCHANGED <<registry, loaded>>
    BY <2>8 DEF BeginApply, files
  <2>9. CASE UNCHANGED vars
    BY <2>1, <2>9 DEF vars, files
  <2>10. CASE \E v \in Writers : Load(v) \/ AbandonCommand(v)
    BY <2>2, <2>10 DEF Built
  <2>11. CASE \E v \in Writers, m \in Models : Command(v, m)
    BY <2>3, <2>11
  <2>12. CASE \E a \in Appliers : Proceed(a) \/ Crash(a)
    BY <2>1, <2>4, <2>5, <2>12
  <2> QED
    BY <2>1, <2>6, <2>7, <2>8, <2>9, <2>10, <2>11, <2>12 DEF Next
<1>4. \A a \in Appliers : pc'[a] \in Approved => approval'[job'[a]] \in {"approved", "expired"}
  <2>1. \A r \in Requests : approval[r] \in {"approved", "expired"}
                                => approval'[r] \in {"approved", "expired"}
    BY DEF Next, Create, Review, Approve, Expire, BeginApply, Proceed, LockProduction,
           LockRegistry, Refused, Recover, Validate, WriteJournal, BackUp, PublishVersion, Switch,
           WriteHistory, WriteManifest, Abort, UndoSwitch, UndoFails, UndoHistory, Release, Crash,
           Load, AbandonCommand, Command, RegisterModel, PromoteModel, RetireModel, Persist,
           requests, vars, LockInv, TypeOK
  <2>2. ASSUME NEW a \in Appliers, pc'[a] \in Approved
        PROVE  job'[a] = job[a] /\ (pc[a] \in Approved \/ Validate(a))
    <3> USE DEF At, Goto, Leave, Approved, LockInv, TypeOK
    <3>1. CASE UNCHANGED <<pc, job>>
      BY <2>2, <3>1
    <3>2. ASSUME NEW b \in Appliers, Proceed(b) \/ Crash(b)
          PROVE  job'[a] = job[a] /\ (pc[a] \in Approved \/ Validate(a))
      BY <2>2, <3>2
      DEF Proceed, LockProduction, LockRegistry, Refused, Recover, Validate, WriteJournal, BackUp,
          PublishVersion, Switch, WriteHistory, WriteManifest, Abort, UndoSwitch, UndoFails,
          UndoHistory, Release, Crash
    <3>3. ASSUME NEW b \in Appliers, NEW r \in Requests, BeginApply(b, r)
          PROVE  job'[a] = job[a] /\ (pc[a] \in Approved \/ Validate(a))
      BY <2>2, <3>3 DEF BeginApply
    <3>4. CASE ~ \E b \in Appliers : Proceed(b) \/ Crash(b) \/ \E r \in Requests : BeginApply(b, r)
      BY <3>1, <3>4
      DEF Next, Create, Review, Approve, Expire, Load, AbandonCommand, Command, RegisterModel,
          PromoteModel, RetireModel, Persist, vars
    <3> QED
      BY <3>2, <3>3, <3>4
  <2>3. \A a \in Appliers : pc'[a] \in Approved => approval[job[a]] \in {"approved", "expired"}
    BY <2>2 DEF Validate, Valid, Built
  <2>4. \A a \in Appliers : pc'[a] \in Approved => job[a] \in Requests
    BY <2>2 DEF Validate, At, Approved, LockInv
  <2> QED
    BY <2>1, <2>2, <2>3, <2>4
<1> QED
  BY <1>1, <1>2, <1>3, <1>4 DEF Built

\* Versions stay what they were built to be in every reachable state.
LEMMA RegistryBuilt == Spec => []Built
BY InitBuilt, StepBuilt, RegistryLockInvariant, RegistryStages, RegistryLineage, PTL DEF Spec

\* A transaction commits over its own bytes, built from the approved parent, and
\* only with a human's approval: nothing that happens between the switch and the
\* manifest can put another registry, or other bytes, under its commit.
THEOREM RegistryCommitIsInForce == Spec => CommitIsInForce
<1>1. LockInv /\ Stages /\ Built /\ [Next]_vars
        => [\A r \in Requests : r \in committed' \ committed
               => registry = r /\ approval[r] \in {"approved", "expired"} /\ content[r] = Switched(r)]_vars
  <2> SUFFICES ASSUME LockInv, Stages, Built, [Next]_vars, NEW r \in committed' \ committed
               PROVE  /\ registry = r
                      /\ approval[r] \in {"approved", "expired"}
                      /\ content[r] = Switched(r)
    OBVIOUS
  <2>1. PICK a \in Appliers : WriteManifest(a)
    BY DEF Next, Create, Review, Approve, Expire, BeginApply, Proceed, LockProduction,
           LockRegistry, Refused, Recover, Validate, WriteJournal, BackUp, PublishVersion, Switch,
           WriteHistory, WriteManifest, Abort, UndoSwitch, UndoFails, UndoHistory, Release, Crash,
           Load, AbandonCommand, Command, RegisterModel, PromoteModel, RetireModel, Persist,
           files, requests, vars
  <2>2. r = job[a] /\ pc[a] = "recorded" /\ r \in Requests
    BY <2>1 DEF WriteManifest, At, LockInv
  <2>3. registry = r /\ r \in versions
    BY <2>2 DEF Stages, Stage, Sound, Complete
  <2> QED
    BY <2>2, <2>3 DEF Built, Approved
<1> QED
  BY <1>1, RegistryLockInvariant, RegistryStages, RegistryBuilt, PTL DEF Spec, CommitIsInForce

\* No model disappears from the registry, neither by a switch, nor by its undo,
\* nor by a command that writes back what it loaded.
THEOREM RegistryLosesNoModel == Spec => NoModelIsLost
<1>1. LockInv /\ Stages /\ Lineage /\ Built /\ [Next]_vars
        => [\A m \in Models : content[registry][m] # "absent"
               => content'[registry'][m] # "absent"]_vars
  <2> SUFFICES ASSUME LockInv, Stages, Lineage, Built, [Next]_vars, NEW m \in Models,
                      content[registry][m] # "absent"
               PROVE  content'[registry'][m] # "absent"
    OBVIOUS
  <2>1. CASE UNCHANGED <<registry, content>>
    BY <2>1
  <2>2. ASSUME NEW a \in Appliers, PublishVersion(a) PROVE content'[registry'][m] # "absent"
    <3>1. job[a] \in Requests /\ Created(job[a]) /\ registry = Base(job[a])
      BY <2>2 DEF PublishVersion, At, LockInv, Stages, Stage
    <3>2. registry' = registry
      BY <2>2 DEF PublishVersion
    <3> QED
      BY <3>1, <3>2, StepSettled
  <2>3. ASSUME NEW a \in Appliers, Switch(a) PROVE content'[registry'][m] # "absent"
    <3>1. PICK r \in versions : r = job[a] /\ registry = Base(r)
      BY <2>3 DEF Switch, At, Stages, Stage
    <3>2. content' = content /\ registry' = r /\ content[r] = Switched(r)
      BY <2>3, <3>1 DEF Switch, Built
    <3> QED
      BY <3>1, <3>2, RegistryAssumption DEF Switched, LockInv, TypeOK
  <2>4. ASSUME NEW a \in Appliers, Recover(a) \/ UndoSwitch(a), registry' # registry
        PROVE  content'[registry'][m] # "absent"
    <3>1. PICK r \in Requests : r = job[a] /\ registry = r /\ registry' = Base(r)
      BY <2>4 DEF Recover, UndoSwitch, Unrecoverable, At, LockInv, Stages, Stage
    <3>2. r \in versions
      BY <3>1 DEF Stages, Sound, Complete
    <3>3. /\ content' = content
          /\ content[r] = Switched(r)
          /\ content[Base(r)][req[r].target] # "absent"
          /\ content[Base(r)][req[r].champion] # "absent"
      BY <2>4, <3>2 DEF Recover, UndoSwitch, Built, LockInv, TypeOK
    <3>4. Base(r) \in Bytes
      BY <3>2, CreatedRecord DEF Built, LockInv
    <3>5. content[Base(r)] \in [Models -> Statuses]
      BY <3>4 DEF LockInv, TypeOK
    <3>6. m \notin {req[r].target, req[r].champion} => Switched(r)[m] = content[Base(r)][m]
      BY <3>5 DEF Switched
    <3>7. content[Base(r)][m] # "absent"
      BY <3>1, <3>3, <3>6
    <3> QED
      BY <3>1, <3>3, <3>7
  <2>5. ASSUME NEW w \in Writers, NEW n \in Models, Command(w, n)
        PROVE  content'[registry'][m] # "absent"
    <3>1. loaded[w] = registry /\ content[registry] \in [Models -> Statuses]
      BY <2>5 DEF Command, RegisterModel, PromoteModel, RetireModel, Built, LockInv, TypeOK
    <3>2. PICK status : Persist(w, status) /\ status[m] # "absent"
      BY <2>5, <3>1 DEF Command, RegisterModel, PromoteModel, RetireModel,
                        Registered, Promoted, Retired
    <3>3. writes + 1 \in Bytes
      BY <3>2, RegistryAssumption DEF Persist, LockInv, TypeOK, Bytes
    <3> QED
      BY <3>2, <3>3 DEF Persist, LockInv, TypeOK
  <2>6. ASSUME NEW a \in Appliers, ~Recover(a), ~Switch(a), ~UndoSwitch(a), ~PublishVersion(a),
               Proceed(a) \/ Crash(a)
        PROVE  UNCHANGED <<registry, content>>
    BY <2>6
    DEF Proceed, LockProduction, LockRegistry, Refused, Validate, WriteJournal, BackUp,
        WriteHistory, WriteManifest, Abort, UndoFails, UndoHistory, Release, Crash, files
  <2>7. ASSUME NEW a \in Appliers, Recover(a) \/ UndoSwitch(a) PROVE content' = content
    BY <2>7 DEF Recover, UndoSwitch
  <2>8. ASSUME NEW r \in Requests, NEW kind \in {"promotion", "rollback"}, NEW n \in Models,
               Create(r, kind, n)
        PROVE  UNCHANGED <<registry, content>>
    BY <2>8 DEF Create, files
  <2>9. ASSUME NEW r \in Requests, Review(r) \/ Approve(r) \/ Expire(r)
        PROVE  UNCHANGED <<registry, content>>
    BY <2>9 DEF Review, Approve, Expire, files
  <2>10. ASSUME NEW a \in Appliers, NEW r \in Requests, BeginApply(a, r)
         PROVE  UNCHANGED <<registry, content>>
    BY <2>10 DEF BeginApply, files
  <2>11. ASSUME NEW w \in Writers, Load(w) \/ AbandonCommand(w)
         PROVE  UNCHANGED <<registry, content>>
    BY <2>11 DEF Load, AbandonCommand, files
  <2>12. CASE UNCHANGED vars
    BY <2>1, <2>12 DEF vars, files
  <2>13. CASE \E a \in Appliers : Proceed(a) \/ Crash(a)
    BY <2>1, <2>2, <2>3, <2>4, <2>6, <2>7, <2>13
  <2> QED
    BY <2>1, <2>5, <2>8, <2>9, <2>10, <2>11, <2>12, <2>13 DEF Next
<1> QED
  BY <1>1, RegistryLockInvariant, RegistryStages, RegistryLineage, RegistryBuilt, PTL
  DEF Spec, NoModelIsLost
=============================================================================
