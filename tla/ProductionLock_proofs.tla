------------------------- MODULE ProductionLock_proofs -------------------------
(***************************************************************************)
(* Proofs about ProductionLock for any sets of runners and detectors.      *)
(*                                                                         *)
(* Mutual exclusion is not inductive by itself: it follows from the two    *)
(* facts that say who owns the kernel lock (CriticalHoldsLock,             *)
(* ProbeHoldsLock), which are inductive with the type invariant.           *)
(***************************************************************************)
EXTENDS ProductionLock, TLAPS

\* The inductive invariant: types, and who owns the kernel lock.
LockInv == TypeOK /\ CriticalHoldsLock /\ ProbeHoldsLock

\* The initial state satisfies the inductive invariant: nobody has the lock.
LEMMA InitLockInv == Init => LockInv
BY LockAssumption
DEF Init, LockInv, TypeOK, CriticalHoldsLock, ProbeHoldsLock, RunnerStates, Critical

\* Every step of every runner and detector preserves the inductive invariant.
LEMMA StepLockInv == LockInv /\ [Next]_vars => LockInv'
<1> SUFFICES ASSUME LockInv, [Next]_vars PROVE LockInv'
  OBVIOUS
<1> USE LockAssumption
<1> USE DEF LockInv, TypeOK, CriticalHoldsLock, ProbeHoldsLock, RunnerStates, Critical
<1>1. ASSUME NEW r \in Runners, Flock(r) PROVE LockInv'
  BY <1>1 DEF Flock
<1>2. ASSUME NEW r \in Runners, FlockBusy(r) PROVE LockInv'
  BY <1>2 DEF FlockBusy
<1>3. ASSUME NEW r \in Runners, Refuse(r) PROVE LockInv'
  BY <1>3 DEF Refuse
<1>4. ASSUME NEW r \in Runners, TruncateOwner(r) PROVE LockInv'
  BY <1>4 DEF TruncateOwner
<1>5. ASSUME NEW r \in Runners, WriteOwner(r) PROVE LockInv'
  BY <1>5 DEF WriteOwner
<1>6. ASSUME NEW r \in Runners, WriteOwnerFails(r) PROVE LockInv'
  BY <1>6 DEF WriteOwnerFails
<1>7. ASSUME NEW r \in Runners, ClearOwner(r) PROVE LockInv'
  BY <1>7 DEF ClearOwner
<1>8. ASSUME NEW r \in Runners, Unlock(r) PROVE LockInv'
  BY <1>8 DEF Unlock
<1>9. ASSUME NEW r \in Runners, Again(r) PROVE LockInv'
  BY <1>9 DEF Again
<1>10. ASSUME NEW r \in Runners, Crash(r) PROVE LockInv'
  BY <1>10 DEF Crash
<1>11. ASSUME NEW d \in Detectors, DetectNoFile(d) PROVE LockInv'
  BY <1>11 DEF DetectNoFile
<1>12. ASSUME NEW d \in Detectors, Probe(d) PROVE LockInv'
  BY <1>12 DEF Probe
<1>13. ASSUME NEW d \in Detectors, ProbeFree(d) PROVE LockInv'
  BY <1>13 DEF ProbeFree
<1>14. ASSUME NEW d \in Detectors, ProbeBusy(d) PROVE LockInv'
  BY <1>14 DEF ProbeBusy
<1>15. ASSUME NEW d \in Detectors, DetectOwner(d) PROVE LockInv'
  BY <1>15 DEF DetectOwner
<1>16. ASSUME NEW d \in Detectors, DetectorCrash(d) PROVE LockInv'
  BY <1>16 DEF DetectorCrash
<1>17. CASE UNCHANGED vars
  BY <1>17 DEF vars
<1> QED
  BY <1>1, <1>2, <1>3, <1>4, <1>5, <1>6, <1>7, <1>8, <1>9, <1>10, <1>11, <1>12,
     <1>13, <1>14, <1>15, <1>16, <1>17
  DEF Next, RunnerStep, Proceed, DetectorStep

\* The inductive invariant holds in every reachable state.
THEOREM LockInvariant == Spec => []LockInv
<1>1. Init => LockInv
  BY InitLockInv
<1>2. LockInv /\ [Next]_vars => LockInv'
  BY StepLockInv
<1> QED
  BY <1>1, <1>2, PTL DEF Spec

\* Type correctness of the lock, for any sets of processes.
THEOREM LockTypeCorrect == Spec => []TypeOK
<1>1. LockInv => TypeOK
  BY DEF LockInv
<1> QED
  BY <1>1, LockInvariant, PTL

\* Two operations are never inside production_lock() together.
THEOREM LockMutualExclusion == Spec => []MutualExclusion
<1>1. LockInv => MutualExclusion
  BY DEF LockInv, CriticalHoldsLock, MutualExclusion
<1> QED
  BY <1>1, LockInvariant, PTL
-----------------------------------------------------------------------------
(* Who may own the lock, and whose name the file bears. *)

\* Every step leaves the lock free or owned by a process that is using it.
LEMMA StepHolderIsActive ==
    LockInv /\ HolderIsActive /\ [Next]_vars => HolderIsActive'
<1> SUFFICES ASSUME LockInv, HolderIsActive, [Next]_vars PROVE HolderIsActive'
  OBVIOUS
<1> USE LockAssumption
<1> USE DEF LockInv, TypeOK, CriticalHoldsLock, ProbeHoldsLock, HolderIsActive,
            RunnerStates, Critical
<1>1. ASSUME NEW r \in Runners, RunnerStep(r) PROVE HolderIsActive'
  <2>1. CASE Flock(r) \/ FlockBusy(r)
    BY <2>1 DEF Flock, FlockBusy
  <2>2. CASE Refuse(r) \/ TruncateOwner(r) \/ WriteOwner(r) \/ ClearOwner(r)
    BY <2>2 DEF Refuse, TruncateOwner, WriteOwner, ClearOwner
  <2>3. CASE WriteOwnerFails(r) \/ Unlock(r) \/ Crash(r)
    BY <2>3 DEF WriteOwnerFails, Unlock, Crash
  <2>4. CASE Again(r)
    BY <2>4 DEF Again
  <2> QED
    BY <1>1, <2>1, <2>2, <2>3, <2>4 DEF RunnerStep, Proceed
<1>2. ASSUME NEW d \in Detectors, DetectorStep(d) PROVE HolderIsActive'
  <2>1. CASE DetectNoFile(d) \/ ProbeBusy(d) \/ DetectOwner(d)
    BY <2>1 DEF DetectNoFile, ProbeBusy, DetectOwner
  <2>2. CASE Probe(d) \/ ProbeFree(d) \/ DetectorCrash(d)
    BY <2>2 DEF Probe, ProbeFree, DetectorCrash
  <2> QED
    BY <1>2, <2>1, <2>2 DEF DetectorStep
<1>3. CASE UNCHANGED vars
  BY <1>3 DEF vars
<1> QED
  BY <1>1, <1>2, <1>3 DEF Next

\* No crash, failed write or refusal leaves the repository locked by nobody.
THEOREM LockHolderIsActive == Spec => []HolderIsActive
<1>1. Init => HolderIsActive
  BY LockAssumption DEF Init, HolderIsActive
<1>2. LockInv /\ HolderIsActive /\ [Next]_vars => HolderIsActive'
  BY StepHolderIsActive
<1> QED
  BY <1>1, <1>2, LockInvariant, PTL DEF Spec

\* While an operation works, the lock file names it: a run that ends never
\* erases the metadata of the run that follows it.
THEOREM LockOwnerFileNamesRun == Spec => []OwnerFileNamesRun
<1>1. Init => OwnerFileNamesRun
  BY DEF Init, OwnerFileNamesRun
<1>2. LockInv /\ OwnerFileNamesRun /\ [Next]_vars => OwnerFileNamesRun'
  <2> SUFFICES ASSUME LockInv, OwnerFileNamesRun, [Next]_vars PROVE OwnerFileNamesRun'
    OBVIOUS
  <2> USE DEF LockInv, TypeOK, CriticalHoldsLock, OwnerFileNamesRun, Critical
  <2>1. ASSUME NEW r \in Runners, RunnerStep(r) PROVE OwnerFileNamesRun'
    <3>1. CASE Flock(r) \/ FlockBusy(r) \/ Refuse(r) \/ Unlock(r) \/ Again(r) \/ Crash(r)
      BY <3>1 DEF Flock, FlockBusy, Refuse, Unlock, Again, Crash
    <3>2. CASE TruncateOwner(r) \/ WriteOwner(r)
      BY <3>2 DEF TruncateOwner, WriteOwner
    <3>3. CASE WriteOwnerFails(r) \/ ClearOwner(r)
      BY <3>3 DEF WriteOwnerFails, ClearOwner
    <3> QED
      BY <2>1, <3>1, <3>2, <3>3 DEF RunnerStep, Proceed
  <2>2. ASSUME NEW d \in Detectors, DetectorStep(d) PROVE OwnerFileNamesRun'
    BY <2>2 DEF DetectorStep, DetectNoFile, Probe, ProbeFree, ProbeBusy,
                DetectOwner, DetectorCrash
  <2>3. CASE UNCHANGED vars
    BY <2>3 DEF vars
  <2> QED
    BY <2>1, <2>2, <2>3 DEF Next
<1> QED
  BY <1>1, <1>2, LockInvariant, PTL DEF Spec

-----------------------------------------------------------------------------
(* The lock implements the mutual-exclusion service. *)

\* A step changes the set of runners inside as an Enter, a Leave or not at all.
LEMMA StepRefinesMutex == LockInv /\ [Next]_vars => [Service!Next]_({r \in Runners : pc[r] \in Critical})
<1> DEFINE Inside == {r \in Runners : pc[r] \in Critical}
<1> SUFFICES ASSUME LockInv, [Next]_vars
             PROVE Inside' = Inside \/ \E r \in Runners : Service!Enter(r) \/ Service!Leave(r)
  BY DEF Service!Next
<1> USE LockAssumption
<1> USE DEF LockInv, TypeOK, CriticalHoldsLock, RunnerStates, Critical
<1>1. ASSUME NEW r \in Runners, Flock(r) PROVE Service!Enter(r)
  <2>1. Inside = {}
    BY <1>1 DEF Flock
  <2>2. Inside' = {r}
    BY <1>1, <2>1 DEF Flock
  <2> QED
    BY <2>1, <2>2 DEF Service!Enter
<1>2. ASSUME NEW r \in Runners, WriteOwnerFails(r) \/ Unlock(r) \/ Crash(r)
      PROVE Inside' = Inside \/ Service!Leave(r)
  <2>1. CASE pc[r] \in Critical
    <3>1. Inside = {r}
      BY <2>1
    <3>2. Inside' = {}
      BY <1>2, <3>1 DEF WriteOwnerFails, Unlock, Crash
    <3> QED
      BY <3>1, <3>2 DEF Service!Leave
  <2>2. CASE pc[r] \notin Critical
    BY <1>2, <2>2 DEF WriteOwnerFails, Unlock, Crash
  <2> QED
    BY <2>1, <2>2
<1>3. ASSUME NEW r \in Runners,
             FlockBusy(r) \/ Refuse(r) \/ TruncateOwner(r) \/ WriteOwner(r)
               \/ ClearOwner(r) \/ Again(r)
      PROVE Inside' = Inside
  BY <1>3 DEF FlockBusy, Refuse, TruncateOwner, WriteOwner, ClearOwner, Again
<1>4. ASSUME NEW d \in Detectors, DetectorStep(d) PROVE Inside' = Inside
  BY <1>4 DEF DetectorStep, DetectNoFile, Probe, ProbeFree, ProbeBusy,
              DetectOwner, DetectorCrash
<1>5. CASE UNCHANGED vars
  BY <1>5 DEF vars
<1> QED
  BY <1>1, <1>2, <1>3, <1>4, <1>5 DEF Next, RunnerStep, Proceed

\* Every behaviour of the lock is one of the mutual-exclusion service.
THEOREM LockImplementsMutex == Spec => ImplementsMutex
<1>1. Init => Service!Init
  BY DEF Init, Service!Init, Critical
<1>2. LockInv /\ [Next]_vars => [Service!Next]_({r \in Runners : pc[r] \in Critical})
  BY StepRefinesMutex
<1> QED
  BY <1>1, <1>2, LockInvariant, PTL DEF Spec, ImplementsMutex, Service!Spec
=============================================================================
