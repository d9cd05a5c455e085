----------------------------- MODULE ProductionLock -----------------------------
(***************************************************************************)
(* orchestration/lock.py: one flock'ed file with the owner's metadata in   *)
(* it.  Runners are operations (pipeline runs, full updates, registry and  *)
(* lifecycle commands) that call acquire_production_lock, work, and        *)
(* release.  Detectors call detect_production_lock_owner, which finds out  *)
(* whether the lock is free by taking it.                                  *)
(*                                                                         *)
(* The kernel lock (holder) and the file contents (metadata) are separate  *)
(* state: the kernel drops the former when a process dies, nothing clears  *)
(* the latter, and the code writes it after flock and erases it before     *)
(* LOCK_UN.  Every system call that another process can observe is a step. *)
(***************************************************************************)

CONSTANTS Runners,     \* processes that acquire the lock to work under it
          Detectors,   \* processes that ask who owns it
          Nobody,      \* no process
          Unreadable   \* file contents that _read_owner decodes to no owner

ASSUME LockAssumption ==
    /\ Runners \cap Detectors = {}
    /\ Nobody \notin Runners \cup Detectors
    /\ Unreadable \notin Runners \cup Detectors \cup {Nobody}

VARIABLES holder,    \* the process whose open descriptor owns the kernel lock
          exists,    \* the lock file has been created (it is never unlinked)
          metadata,  \* the owner the file's JSON names
          pc,        \* where each runner is in acquire / work / release
          blocker,   \* the process that held the lock when a runner's flock failed
          blamed,    \* the owner named by the runner's ProductionLockError
          dpc,       \* where each detector is
          answer     \* what each detector's last call returned

vars == <<holder, exists, metadata, pc, blocker, blamed, dpc, answer>>

RunnerStates == {"idle", "reading", "refused", "flocked", "writing",
                 "running", "cleared", "released", "failed", "dead"}

\* From the moment flock succeeds until LOCK_UN.
Critical == {"flocked", "writing", "running", "cleared"}

TypeOK ==
    /\ holder \in Runners \cup Detectors \cup {Nobody}
    /\ exists \in BOOLEAN
    /\ metadata \in Runners \cup {Unreadable}
    /\ pc \in [Runners -> RunnerStates]
    /\ blocker \in [Runners -> Runners \cup Detectors \cup {Nobody}]
    /\ blamed \in [Runners -> Runners \cup {Unreadable, Nobody}]
    /\ dpc \in [Detectors -> {"idle", "probing", "reading", "dead"}]
    /\ answer \in [Detectors -> Runners \cup {Unreadable, Nobody}]

Init ==
    /\ holder = Nobody
    /\ exists = FALSE
    /\ metadata = Unreadable
    /\ pc = [r \in Runners |-> "idle"]
    /\ blocker = [r \in Runners |-> Nobody]
    /\ blamed = [r \in Runners |-> Nobody]
    /\ dpc = [d \in Detectors |-> "idle"]
    /\ answer = [d \in Detectors |-> Nobody]

-----------------------------------------------------------------------------
(* acquire_production_lock *)

\* Mutant of Flock: the exclusive flag is forgotten, a held lock is granted again.
SharedFlock(r) ==
    /\ pc[r] = "idle"
    /\ holder' = r
    /\ exists' = TRUE
    /\ pc' = [pc EXCEPT ![r] = "flocked"]
    /\ UNCHANGED <<metadata, blocker, blamed, dpc, answer>>

\* open("a+") creates the file; flock(LOCK_EX | LOCK_NB) succeeds.
Flock(r) ==
    /\ pc[r] = "idle"
    /\ holder = Nobody
    /\ holder' = r
    /\ exists' = TRUE
    /\ pc' = [pc EXCEPT ![r] = "flocked"]
    /\ UNCHANGED <<metadata, blocker, blamed, dpc, answer>>

\* Mutant of FlockBusy: open("w+") erases the owner's metadata before flock.
TruncatingFlockBusy(r) ==
    /\ pc[r] = "idle"
    /\ holder # Nobody
    /\ exists' = TRUE
    /\ metadata' = Unreadable
    /\ blocker' = [blocker EXCEPT ![r] = holder]
    /\ pc' = [pc EXCEPT ![r] = "reading"]
    /\ UNCHANGED <<holder, blamed, dpc, answer>>

\* flock fails with EAGAIN: some other descriptor owns the kernel lock.
FlockBusy(r) ==
    /\ pc[r] = "idle"
    /\ holder # Nobody
    /\ exists' = TRUE
    /\ blocker' = [blocker EXCEPT ![r] = holder]
    /\ pc' = [pc EXCEPT ![r] = "reading"]
    /\ UNCHANGED <<holder, metadata, blamed, dpc, answer>>

\* Mutant of Refuse: the error names whatever process blocked, probes included.
RefuseNamingBlocker(r) ==
    /\ pc[r] = "reading"
    /\ blamed' = [blamed EXCEPT ![r] = blocker[r]]
    /\ pc' = [pc EXCEPT ![r] = "refused"]
    /\ UNCHANGED <<holder, exists, metadata, blocker, dpc, answer>>

\* The refused runner reads whatever the file holds by now and raises.
Refuse(r) ==
    /\ pc[r] = "reading"
    /\ blamed' = [blamed EXCEPT ![r] = metadata]
    /\ pc' = [pc EXCEPT ![r] = "refused"]
    /\ UNCHANGED <<holder, exists, metadata, blocker, dpc, answer>>

\* _write_owner, first half: truncate is visible to readers at once.
TruncateOwner(r) ==
    /\ pc[r] = "flocked"
    /\ metadata' = Unreadable
    /\ pc' = [pc EXCEPT ![r] = "writing"]
    /\ UNCHANGED <<holder, exists, blocker, blamed, dpc, answer>>

\* _write_owner, second half: the JSON reaches the file at flush.
WriteOwner(r) ==
    /\ pc[r] = "writing"
    /\ metadata' = r
    /\ pc' = [pc EXCEPT ![r] = "running"]
    /\ UNCHANGED <<holder, exists, blocker, blamed, dpc, answer>>

\* Mutant of WriteOwnerFails: the descriptor stays open when the write fails.
LeakingWriteOwnerFails(r) ==
    /\ pc[r] = "writing"
    /\ metadata' \in {Unreadable, r}
    /\ pc' = [pc EXCEPT ![r] = "failed"]
    /\ UNCHANGED <<holder, exists, blocker, blamed, dpc, answer>>

\* An I/O error in _write_owner: the descriptor is closed, which unlocks.
WriteOwnerFails(r) ==
    /\ \/ pc[r] = "flocked" /\ UNCHANGED metadata
       \/ pc[r] = "writing" /\ metadata' \in {Unreadable, r}
    /\ holder' = Nobody
    /\ pc' = [pc EXCEPT ![r] = "failed"]
    /\ UNCHANGED <<exists, blocker, blamed, dpc, answer>>

-----------------------------------------------------------------------------
(* release_production_lock and the death of a process *)

\* seek / truncate / flush; an error there is swallowed until after LOCK_UN.
ClearOwner(r) ==
    /\ pc[r] = "running"
    /\ metadata' \in {Unreadable, metadata}
    /\ pc' = [pc EXCEPT ![r] = "cleared"]
    /\ UNCHANGED <<holder, exists, blocker, blamed, dpc, answer>>

\* Mutant of Unlock: the handle is marked released, the descriptor is not closed.
ForgottenUnlock(r) ==
    /\ pc[r] = "cleared"
    /\ pc' = [pc EXCEPT ![r] = "released"]
    /\ UNCHANGED <<holder, exists, metadata, blocker, blamed, dpc, answer>>

\* flock(LOCK_UN) and close.
Unlock(r) ==
    /\ pc[r] = "cleared"
    /\ holder' = Nobody
    /\ pc' = [pc EXCEPT ![r] = "released"]
    /\ UNCHANGED <<exists, metadata, blocker, blamed, dpc, answer>>

\* The process goes on to another operation that takes the lock.
Again(r) ==
    /\ pc[r] \in {"refused", "released", "failed"}
    /\ pc' = [pc EXCEPT ![r] = "idle"]
    /\ blocker' = [blocker EXCEPT ![r] = Nobody]
    /\ blamed' = [blamed EXCEPT ![r] = Nobody]
    /\ UNCHANGED <<holder, exists, metadata, dpc, answer>>

\* Killed: the kernel closes the descriptor; the file keeps what it holds.
Crash(r) ==
    /\ pc[r] \in Critical \cup {"reading"}
    /\ holder' = IF holder = r THEN Nobody ELSE holder
    /\ pc' = [pc EXCEPT ![r] = "dead"]
    /\ UNCHANGED <<exists, metadata, blocker, blamed, dpc, answer>>

-----------------------------------------------------------------------------
(* detect_production_lock_owner *)

\* No lock file: None without opening anything.
DetectNoFile(d) ==
    /\ dpc[d] = "idle"
    /\ ~exists
    /\ answer' = [answer EXCEPT ![d] = Nobody]
    /\ UNCHANGED <<holder, exists, metadata, pc, blocker, blamed, dpc>>

\* The probe takes the exclusive lock itself.
Probe(d) ==
    /\ dpc[d] = "idle"
    /\ exists
    /\ holder = Nobody
    /\ holder' = d
    /\ dpc' = [dpc EXCEPT ![d] = "probing"]
    /\ UNCHANGED <<exists, metadata, pc, blocker, blamed, answer>>

\* LOCK_UN; the answer is None.
ProbeFree(d) ==
    /\ dpc[d] = "probing"
    /\ holder' = Nobody
    /\ answer' = [answer EXCEPT ![d] = Nobody]
    /\ dpc' = [dpc EXCEPT ![d] = "idle"]
    /\ UNCHANGED <<exists, metadata, pc, blocker, blamed>>

ProbeBusy(d) ==
    /\ dpc[d] = "idle"
    /\ exists
    /\ holder # Nobody
    /\ dpc' = [dpc EXCEPT ![d] = "reading"]
    /\ UNCHANGED <<holder, exists, metadata, pc, blocker, blamed, answer>>

\* The owner returned is what the file names when it is read.
DetectOwner(d) ==
    /\ dpc[d] = "reading"
    /\ answer' = [answer EXCEPT ![d] = metadata]
    /\ dpc' = [dpc EXCEPT ![d] = "idle"]
    /\ UNCHANGED <<holder, exists, metadata, pc, blocker, blamed>>

\* A detector killed while it probes: the kernel unlocks for it.
DetectorCrash(d) ==
    /\ dpc[d] \in {"probing", "reading"}
    /\ holder' = IF holder = d THEN Nobody ELSE holder
    /\ dpc' = [dpc EXCEPT ![d] = "dead"]
    /\ UNCHANGED <<exists, metadata, pc, blocker, blamed, answer>>

-----------------------------------------------------------------------------

\* The steps a runner takes by itself once it has begun to acquire.
Proceed(r) ==
    \/ Refuse(r) \/ TruncateOwner(r) \/ WriteOwner(r) \/ WriteOwnerFails(r)
    \/ ClearOwner(r) \/ Unlock(r)

RunnerStep(r) == Flock(r) \/ FlockBusy(r) \/ Proceed(r) \/ Again(r) \/ Crash(r)

DetectorStep(d) ==
    \/ DetectNoFile(d) \/ Probe(d) \/ ProbeFree(d) \/ ProbeBusy(d)
    \/ DetectOwner(d) \/ DetectorCrash(d)

Next ==
    \/ \E r \in Runners : RunnerStep(r)
    \/ \E d \in Detectors : DetectorStep(d)

Spec == Init /\ [][Next]_vars

\* A started operation ends (the protected work terminates or its process is
\* killed) and a probe is two system calls in a row; nobody is obliged to begin.
Fairness ==
    /\ \A r \in Runners : WF_vars(Proceed(r))
    /\ \A d \in Detectors : WF_vars(ProbeFree(d) \/ DetectOwner(d))

FairSpec == Spec /\ Fairness

-----------------------------------------------------------------------------
(* Properties *)

\* Whoever is between flock and LOCK_UN owns the kernel lock: the ownership
\* every operation under production_lock() relies on.
CriticalHoldsLock == \A r \in Runners : pc[r] \in Critical => holder = r

\* A detector owns the kernel lock exactly while it probes.
ProbeHoldsLock == \A d \in Detectors : dpc[d] = "probing" => holder = d

\* A lock that is owned is owned by a process that is in the middle of using
\* it: no crash, failed write or refused call leaves it locked for ever.
HolderIsActive ==
    /\ holder \in Runners => pc[holder] \in Critical
    /\ holder \in Detectors => dpc[holder] = "probing"

\* Two operations are never inside the lock together (lock.py: the guarantee
\* every caller of production_lock() builds on).
MutualExclusion ==
    \A r, s \in Runners : pc[r] \in Critical /\ pc[s] \in Critical => r = s

\* While an operation works, the lock file names it and nobody else: the
\* owner is erased before LOCK_UN, so a finished run never erases the metadata
\* of the run that follows it.
OwnerFileNamesRun == \A r \in Runners : pc[r] = "running" => metadata = r

\* Once held, the lock is given up: a finished, failed or killed holder never
\* leaves the repository locked.
LockIsGivenUp ==
    \A p \in Runners \cup Detectors : holder = p ~> holder # p

\* Abstraction: the critical sections implement the mutual-exclusion service.
Service == INSTANCE MutexLock WITH inside <- {r \in Runners : pc[r] \in Critical}
ImplementsMutex == Service!Spec

\* lock.py's ProductionLockError says "another production run is active": a
\* runner is refused only while another runner holds the lock.
RefusedOnlyByActiveRun ==
    \A r \in Runners : pc[r] = "refused" => blocker[r] \in Runners

\* docs/production_run_lock.md: a competing run fails with the active owner's
\* PID: an owner named in a refusal is the process that held the lock.
RefusalNamesActiveRun ==
    \A r \in Runners :
        pc[r] = "refused" /\ blamed[r] \in Runners => blamed[r] = blocker[r]
=============================================================================
