----------------------------- MODULE RetrainingExecution -----------------------------
(***************************************************************************)
(* retraining/execution: one training identity is trained at a time under  *)
(* the production lock, followed in an append-only journal, and published  *)
(* by moving three directories into place one after the other.  A failure  *)
(* may fall on any step and a kill between any two; the recovery command   *)
(* closes the journal a dead run has left open.                            *)
(*                                                                         *)
(* Of a journal only its last event matters, and of DATA_READY, TRAINING   *)
(* and ARTIFACT_VALIDATING, in which nothing is published yet, the last.   *)
(* The lock is refused, never awaited, and the rest of the production      *)
(* system may hold it at any time.                                         *)
(***************************************************************************)
EXTENDS Naturals

CONSTANTS Callers,      \* processes that execute: commands and orchestrators
          Identities,   \* frozen training identities
          NoIdentity,
          NoOne,
          MaxFaults     \* bound: failures and kills

ASSUME ExecutionAssumption ==
    /\ NoOne \notin Callers
    /\ NoIdentity \notin Identities
    /\ MaxFaults \in Nat

VARIABLES journal,    \* status of the last journal event of each identity
          placed,     \* the published directories of each identity
          exec,       \* what each caller's execution is doing, and on which identity
          prodLock,   \* the caller that holds runs/.production.lock
          faults      \* failures and kills so far

executionVars == <<journal, placed, exec, prodLock, faults>>

Open == {"CREATED", "ARTIFACT_VALIDATING"}
Retryable == {"MISSING", "FAILED", "INTERRUPTED"}
Statuses == Open \cup Retryable \cup {"COMPLETED"}

Directories == {"artifact", "registration", "execution"}
Idle == [at |-> "idle", id |-> NoIdentity]
Busy == {"working", "undoing"}

ExecutionTypeOK ==
    /\ journal \in [Identities -> Statuses]
    /\ placed \in [Identities -> SUBSET Directories]
    /\ exec \in [Callers -> [at : {"idle", "returned", "raised"} \cup Busy,
                             id : Identities \cup {NoIdentity}]]
    /\ prodLock \in Callers \cup {NoOne}
    /\ faults \in 0..MaxFaults

ExecutionInit ==
    /\ journal = [x \in Identities |-> "MISSING"]
    /\ placed = [x \in Identities |-> {}]
    /\ exec = [c \in Callers |-> Idle]
    /\ prodLock = NoOne
    /\ faults = 0

\* A fault that the bound still admits.
Fault == faults < MaxFaults /\ faults' = faults + 1

\* The caller's execution ends and the lock is released with it.
Leave(c, at) ==
    /\ exec' = [exec EXCEPT ![c].at = at]
    /\ prodLock' = NoOne

-----------------------------------------------------------------------------
(***************************************************************************)
(* execute.                                                                *)
(***************************************************************************)

\* Mutant of Execute: what has been published already is not looked for.
ExecuteAgain(c, x) ==
    /\ exec[c] = Idle /\ prodLock = NoOne
    /\ prodLock' = c
    /\ exec' = [exec EXCEPT ![c] = [at |-> "working", id |-> x]]
    /\ journal' = [journal EXCEPT ![x] = "CREATED"]
    /\ UNCHANGED <<placed, faults>>

\* Nothing published, no attempt open: a new journal attempt begins.
Execute(c, x) ==
    /\ exec[c] = Idle /\ prodLock = NoOne
    /\ placed[x] = {} /\ journal[x] \in Retryable
    /\ prodLock' = c
    /\ exec' = [exec EXCEPT ![c] = [at |-> "working", id |-> x]]
    /\ journal' = [journal EXCEPT ![x] = "CREATED"]
    /\ UNCHANGED <<placed, faults>>

\* All three directories are there: the earlier result is returned.
Reuse(c, x) ==
    /\ exec[c] = Idle /\ prodLock = NoOne
    /\ placed[x] = Directories
    /\ exec' = [exec EXCEPT ![c] = [at |-> "returned", id |-> x]]
    /\ UNCHANGED <<journal, placed, prodLock, faults>>

\* The lock is busy or the inputs are invalid.
Refuse(c, x) ==
    /\ exec[c] = Idle
    /\ Fault
    /\ exec' = [exec EXCEPT ![c] = [at |-> "raised", id |-> x]]
    /\ UNCHANGED <<journal, placed, prodLock>>

\* Some but not all directories are there, or the last attempt is still open.
RefuseIncomplete(c, x) ==
    /\ exec[c] = Idle /\ prodLock = NoOne
    /\ \/ placed[x] \notin {{}, Directories}
       \/ placed[x] = {} /\ journal[x] \notin Retryable
    /\ exec' = [exec EXCEPT ![c] = [at |-> "raised", id |-> x]]
    /\ UNCHANGED <<journal, placed, prodLock, faults>>

\* Data prepared, training started and finished.
Advance(c) ==
    LET x == exec[c].id IN
    /\ exec[c].at = "working"
    /\ journal[x] = "CREATED"
    /\ journal' = [journal EXCEPT ![x] = "ARTIFACT_VALIDATING"]
    /\ UNCHANGED <<placed, exec, prodLock, faults>>

\* Mutant of Before: the registration is moved before the artifact.
BeforeSwapped(d) ==
    CASE d = "registration" -> {}
      [] d = "artifact" -> {"registration"}
      [] d = "execution" -> {"artifact", "registration"}

\* The directories that must be there before d is moved.
Before(d) ==
    CASE d = "artifact" -> {}
      [] d = "registration" -> {"artifact"}
      [] d = "execution" -> {"artifact", "registration"}

Place(c, d) ==
    LET x == exec[c].id IN
    /\ exec[c].at = "working"
    /\ journal[x] = "ARTIFACT_VALIDATING"
    /\ placed[x] = Before(d)
    /\ placed' = [placed EXCEPT ![x] = @ \cup {d}]
    /\ UNCHANGED <<journal, exec, prodLock, faults>>

Complete(c) ==
    LET x == exec[c].id IN
    /\ exec[c].at = "working"
    /\ placed[x] = Directories
    /\ journal' = [journal EXCEPT ![x] = "COMPLETED"]
    /\ Leave(c, "returned")
    /\ UNCHANGED <<placed, faults>>

\* The exception is written to the journal, if that can still be written.
Recorded(x) ==
    \/ journal' = [journal EXCEPT ![x] = "FAILED"]
    \/ UNCHANGED journal

\* A step before the first move fails, or the last append after all of them.
Fail(c) ==
    LET x == exec[c].id IN
    /\ exec[c].at = "working"
    /\ placed[x] \in {{}, Directories}
    /\ Fault
    /\ Recorded(x)
    /\ Leave(c, "raised")
    /\ UNCHANGED placed

\* A move fails: what has been moved is removed again, the last one first.
StartUndo(c) ==
    /\ exec[c].at = "working"
    /\ placed[exec[c].id] \notin {{}, Directories}
    /\ Fault
    /\ exec' = [exec EXCEPT ![c].at = "undoing"]
    /\ UNCHANGED <<journal, placed, prodLock>>

Undo(c, d) ==
    LET x == exec[c].id IN
    /\ exec[c].at = "undoing"
    /\ placed[x] = Before(d) \cup {d}
    /\ placed' = [placed EXCEPT ![x] = Before(d)]
    /\ UNCHANGED <<journal, exec, prodLock, faults>>

\* Everything is removed, or a removal fails as well and leaves the rest.
EndUndo(c) ==
    LET x == exec[c].id IN
    /\ exec[c].at = "undoing"
    /\ \/ placed[x] = {} /\ UNCHANGED faults
       \/ placed[x] # {} /\ Fault
    /\ Recorded(x)
    /\ Leave(c, "raised")
    /\ UNCHANGED placed

\* The kernel drops the lock of a killed process; its files stay as they are.
KillExecution(c) ==
    /\ exec' = [exec EXCEPT ![c] = Idle]
    /\ prodLock' = IF prodLock = c THEN NoOne ELSE prodLock
    /\ UNCHANGED <<journal, placed>>

\* The caller goes on with the result of its execution.
Collect(c) ==
    /\ exec[c].at \in {"returned", "raised"}
    /\ exec' = [exec EXCEPT ![c] = Idle]
    /\ UNCHANGED <<journal, placed, prodLock>>

\* Mutant of Recover: without the lock a run that is still alive looks dead.
RecoverUnlocked(x) ==
    /\ journal[x] \in Open
    /\ journal' = [journal EXCEPT ![x] = "INTERRUPTED"]
    /\ UNCHANGED <<placed, exec, prodLock, faults>>

\* The recovery command: under the production lock, an open journal is closed.
Recover(x) ==
    /\ prodLock = NoOne
    /\ journal[x] \in Open
    /\ journal' = [journal EXCEPT ![x] = "INTERRUPTED"]
    /\ UNCHANGED <<placed, exec, prodLock, faults>>

Request(c, x) == Execute(c, x) \/ Reuse(c, x) \/ Refuse(c, x) \/ RefuseIncomplete(c, x)

Work(c) ==
    \/ Advance(c)
    \/ \E d \in Directories : Place(c, d) \/ Undo(c, d)
    \/ Complete(c) \/ Fail(c)
    \/ StartUndo(c) \/ EndUndo(c)

ExecutionNext ==
    \/ \E c \in Callers :
        \/ \E x \in Identities : Request(c, x)
        \/ Work(c)
        \/ Collect(c) /\ UNCHANGED faults
        \/ exec[c] # Idle /\ Fault /\ KillExecution(c)
    \/ \E x \in Identities : Recover(x)

ExecutionSpec == ExecutionInit /\ [][ExecutionNext]_executionVars

-----------------------------------------------------------------------------
(***************************************************************************)
(* Properties.                                                             *)
(***************************************************************************)

\* A candidate registration never stands without the model artifact it points
\* to, nor an execution record without the registration, however a publication
\* or its undoing was interrupted.
CandidateIsWhole ==
    \A x \in Identities :
        /\ "registration" \in placed[x] => "artifact" \in placed[x]
        /\ "execution" \in placed[x] => "registration" \in placed[x]

\* A journal says COMPLETED only of an identity whose three directories are in
\* place, and INTERRUPTED or FAILED only when no process is at work on it any
\* more: recovery never declares a live run dead.
JournalIsTruthful ==
    \A x \in Identities :
        /\ journal[x] = "COMPLETED" => placed[x] = Directories
        /\ journal[x] \notin Open => \A c \in Callers : exec[c].id = x => exec[c].at \notin Busy

\* A published candidate is never removed and its identity never trained again,
\* however its journal ended.
PublishedIsFinal ==
    [][\A x \in Identities : placed[x] = Directories =>
            placed'[x] = Directories /\ (journal'[x] = "CREATED" => journal[x] = "CREATED")]_executionVars
=============================================================================
