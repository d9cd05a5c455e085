----------------------------- MODULE ChampionRegistry -----------------------------
(***************************************************************************)
(* models/registry.json and everything that writes it: the apply           *)
(* transaction of a promotion (models/promotion/apply.py) or a rollback    *)
(* (rollback.py), its recovery after an interruption, and the registry     *)
(* commands (models/registry.py), which take the registry lock only.       *)
(*                                                                         *)
(* A registry file is known by its hash, so contents are names: 0 is the   *)
(* first registry, n the one the n-th registry command wrote (it carries a *)
(* time stamp), and request r names the version that r's transaction       *)
(* builds from its frozen parent (its bytes are reproduced on a retry: the *)
(* activation time comes from the journal).  The content variable says     *)
(* which status each model has in it.  One model type and one deployment   *)
(* slot.  promoted.json, which nothing reads, is left out.                 *)
(***************************************************************************)
EXTENDS Naturals

CONSTANTS Models,
          Requests,        \* promotion and rollback requests
          Appliers,        \* processes running apply
          Writers,         \* processes running register, promote or retire
          MaxWrites,       \* bound: registry commands that write
          InitialStatus,   \* status of each model in the first registry
          Nobody,          \* a free lock; an applier without a request
          NoRequest        \* a request that has not been created

Statuses == {"absent", "candidate", "champion", "retired"}
Bytes == (0..MaxWrites) \cup Requests

\* ModelRegistry and load_registry_records refuse two champions of one type.
Champions(status) == {m \in Models : status[m] = "champion"}

ASSUME RegistryAssumption ==
    /\ MaxWrites \in Nat
    /\ InitialStatus \in [Models -> Statuses]
    /\ \A m, n \in Champions(InitialStatus) : m = n
    /\ Requests \cap (0..MaxWrites) = {}
    /\ Appliers \cap Writers = {}
    /\ Nobody \notin Appliers \cup Writers \cup Requests
    /\ NoRequest \notin [kind : {"promotion", "rollback"}, target : Models,
                         champion : Models, base : Bytes]

VARIABLES registry,    \* what registry.json holds
          content,     \* the statuses each registry content gives
          writes,      \* registry commands that have written
          req,         \* the frozen content of each request
          approval,    \* its human decision: none, reviewing, approved, expired
          pending,     \* requests whose apply_pending.json exists
          backups,     \* contents kept as registry_versions/registry_source_<hash>
          versions,    \* requests whose registry_versions/<version>.json exists
          history,     \* requests whose champion_history record exists
          committed,   \* requests whose apply manifest exists
          production,  \* who holds runs/.production.lock
          regLock,     \* who holds models/.registry.lock
          pc,          \* where each applier is
          job,         \* the request it applies
          existed,     \* history_preexisting, as the applier saw it
          loaded       \* the registry a writer has loaded, or Nobody

files == <<registry, content, writes, pending, backups, versions, history, committed>>
requests == <<req, approval>>
vars == <<files, requests, production, regLock, pc, job, existed, loaded>>

Created(r) == req[r] # NoRequest
Base(r) == req[r].base

\* The status a transaction expects its target to have.
Expected(r) == IF req[r].kind = "promotion" THEN "candidate" ELSE "retired"

\* Mutant of Switched: the replaced champion keeps its status.
TwoChampions(r) ==
    [content[Base(r)] EXCEPT ![req[r].target] = "champion"]

\* build_promoted_registry, build_rollback_registry: the two models change places.
Switched(r) ==
    [content[Base(r)] EXCEPT ![req[r].champion] = "retired", ![req[r].target] = "champion"]

Init ==
    /\ registry = 0
    /\ content = [b \in Bytes |-> InitialStatus]
    /\ writes = 0
    /\ req = [r \in Requests |-> NoRequest]
    /\ approval = [r \in Requests |-> "none"]
    /\ pending = {}
    /\ backups = {}
    /\ versions = {}
    /\ history = {}
    /\ committed = {}
    /\ production = Nobody
    /\ regLock = Nobody
    /\ pc = [a \in Appliers |-> "idle"]
    /\ job = [a \in Appliers |-> Nobody]
    /\ existed = [a \in Appliers |-> FALSE]
    /\ loaded = [w \in Writers |-> Nobody]

-----------------------------------------------------------------------------
(* Requests and decisions: no lock is held *)

\* A past champion for the slot: some assignment record names it, either side.
HistoricalChampion(m) ==
    \E h \in history : m \in {req[h].target, req[h].champion}

\* PromotionGovernanceService.create, RollbackService.create: freeze the target,
\* the champion and the registry's hash.  They are read one after the other without
\* a lock; a request that mixes two registries never passes Valid, and one that
\* passes is what a single reading of the registry it names gives.
Create(r, kind, m) ==
    /\ ~Created(r)
    /\ IF kind = "promotion" THEN content[registry][m] = "candidate"
       ELSE content[registry][m] = "retired" /\ HistoricalChampion(m)
    /\ \E c \in Champions(content[registry]) :
          req' = [req EXCEPT ![r] = [kind |-> kind, target |-> m, champion |-> c,
                                     base |-> registry]]
    /\ UNCHANGED <<files, approval, production, regLock, pc, job, existed, loaded>>

\* _review_inputs: the registry is the one the request was frozen with.
Review(r) ==
    /\ Created(r)
    /\ approval[r] = "none"
    /\ registry = Base(r)
    /\ approval' = [approval EXCEPT ![r] = "reviewing"]
    /\ UNCHANGED <<files, req, production, regLock, pc, job, existed, loaded>>

\* _decide publishes the event; the registry may have changed since, which raises
\* after the event has been stored.  A rejected request is one nobody approves.  A
\* rollback's event hashes the registry once more: if it is not the request's any
\* longer, no apply accepts the event, and the request is left in review.
Approve(r) ==
    /\ approval[r] = "reviewing"
    /\ approval' = [approval EXCEPT ![r] = "approved"]
    /\ UNCHANGED <<files, req, production, regLock, pc, job, existed, loaded>>

\* expires_at passes.
Expire(r) ==
    /\ approval[r] = "approved"
    /\ approval' = [approval EXCEPT ![r] = "expired"]
    /\ UNCHANGED <<files, req, production, regLock, pc, job, existed, loaded>>

-----------------------------------------------------------------------------
(* PromotionApplyService.apply and RollbackService.apply *)

Goto(a, place) == pc' = [pc EXCEPT ![a] = place]
At(a, place) == pc[a] = place

\* The first _committed, before any lock.
BeginApply(a, r) ==
    /\ At(a, "idle")
    /\ Created(r)
    /\ r \notin committed
    /\ job' = [job EXCEPT ![a] = r]
    /\ Goto(a, "checked")
    /\ UNCHANGED <<files, requests, production, regLock, existed, loaded>>

LockProduction(a) ==
    /\ At(a, "checked")
    /\ production = Nobody
    /\ production' = a
    /\ Goto(a, "production")
    /\ UNCHANGED <<files, requests, regLock, job, existed, loaded>>

LockRegistry(a) ==
    /\ At(a, "production")
    /\ regLock = Nobody
    /\ regLock' = a
    /\ Goto(a, "locked")
    /\ UNCHANGED <<files, requests, production, job, existed, loaded>>

\* Leaving both contexts; a process that leaves forgets everything.
Leave(a) ==
    /\ production' = IF production = a THEN Nobody ELSE production
    /\ regLock' = IF regLock = a THEN Nobody ELSE regLock
    /\ pc' = [pc EXCEPT ![a] = "idle"]
    /\ job' = [job EXCEPT ![a] = Nobody]
    /\ existed' = [existed EXCEPT ![a] = FALSE]

\* ProductionLockError: either lock is held by somebody else.
Refused(a) ==
    /\ \/ At(a, "checked") /\ production # Nobody
       \/ At(a, "production") /\ regLock # Nobody
    /\ Leave(a)
    /\ UNCHANGED <<files, requests, loaded>>

\* _recover_interrupted_switch raises on a journal it cannot follow: no version
\* file, or a registry that is neither the parent nor the pending version.
Unrecoverable(r) ==
    /\ r \in pending
    /\ \/ r \notin versions
       \/ registry \notin {Base(r), r}
       \/ registry = r /\ Base(r) \notin backups

\* The second _committed and _recover_interrupted_switch.
Recover(a) ==
    /\ At(a, "locked")
    /\ job[a] \notin committed
    /\ ~Unrecoverable(job[a])
    /\ registry' = IF job[a] \in pending THEN Base(job[a]) ELSE registry
    /\ Goto(a, "recovered")
    /\ UNCHANGED <<content, writes, pending, backups, versions, history, committed,
                   requests, production, regLock, job, existed, loaded>>

\* Mutants of Valid: the hash bound at review is ignored; so is the decision.
ValidUnbound(r) ==
    /\ approval[r] = "approved"
    /\ content[registry][req[r].target] = Expected(r)
ValidUnapproved(r) ==
    /\ registry = Base(r)
    /\ content[registry][req[r].target] = Expected(r)

\* validate_apply_preconditions, validate_rollback_approval.  A rollback is bound to the
\* latest assignment record that names its target, which its own would replace.
Valid(r) ==
    /\ approval[r] = "approved"
    /\ registry = Base(r)
    /\ content[registry][req[r].target] = Expected(r)
    /\ req[r].champion \in Champions(content[registry])
    /\ req[r].kind = "rollback" => HistoricalChampion(req[r].target) /\ r \notin history

Validate(a) ==
    /\ At(a, "recovered")
    /\ Valid(job[a])
    /\ Goto(a, "validated")
    /\ UNCHANGED <<files, requests, production, regLock, job, existed, loaded>>

\* apply_pending.json, the journal.
WriteJournal(a) ==
    /\ At(a, "validated")
    /\ pending' = pending \cup {job[a]}
    /\ Goto(a, "journaled")
    /\ UNCHANGED <<registry, content, writes, backups, versions, history, committed,
                   requests, production, regLock, job, existed, loaded>>

\* publish_registry_versions: first the bytes that are about to be replaced ...
BackUp(a) ==
    /\ At(a, "journaled")
    /\ backups' = backups \cup {registry}
    /\ Goto(a, "backed")
    /\ UNCHANGED <<registry, content, writes, pending, versions, history, committed,
                   requests, production, regLock, job, existed, loaded>>

\* Mutant of PublishVersion: only the payload is built, the file is not written.
ForgetVersion(a) ==
    /\ At(a, "backed")
    /\ content' = [content EXCEPT ![job[a]] = Switched(job[a])]
    /\ existed' = [existed EXCEPT ![a] = job[a] \in history]
    /\ Goto(a, "published")
    /\ UNCHANGED <<registry, writes, pending, backups, versions, history, committed,
                   requests, production, regLock, job, loaded>>

\* ... then the new version; history_preexisting is read before the switch.
PublishVersion(a) ==
    /\ At(a, "backed")
    /\ versions' = versions \cup {job[a]}
    /\ content' = [content EXCEPT ![job[a]] = Switched(job[a])]
    /\ existed' = [existed EXCEPT ![a] = job[a] \in history]
    /\ Goto(a, "published")
    /\ UNCHANGED <<registry, writes, pending, backups, history, committed,
                   requests, production, regLock, job, loaded>>

Switch(a) ==
    /\ At(a, "published")
    /\ registry' = job[a]
    /\ Goto(a, "switched")
    /\ UNCHANGED <<content, writes, pending, backups, versions, history, committed,
                   requests, production, regLock, job, existed, loaded>>

WriteHistory(a) ==
    /\ At(a, "switched")
    /\ history' = history \cup {job[a]}
    /\ Goto(a, "recorded")
    /\ UNCHANGED <<registry, content, writes, pending, backups, versions, committed,
                   requests, production, regLock, job, existed, loaded>>

\* Mutant of WriteManifest: written as soon as the registry has been switched.
EarlyManifest(a) ==
    /\ pc[a] \in {"switched", "recorded"}
    /\ committed' = committed \cup {job[a]}
    /\ Goto(a, "release")
    /\ UNCHANGED <<registry, content, writes, pending, backups, versions, history,
                   requests, production, regLock, job, existed, loaded>>

\* manifest.json, the commit marker, is written last.
WriteManifest(a) ==
    /\ At(a, "recorded")
    /\ committed' = committed \cup {job[a]}
    /\ Goto(a, "release")
    /\ UNCHANGED <<registry, content, writes, pending, backups, versions, history,
                   requests, production, regLock, job, existed, loaded>>

\* Any exception before the switch: committed already, an unrecoverable journal,
\* a failed precondition, an I/O error.
Abort(a) ==
    /\ \/ At(a, "locked")
       \/ pc[a] \in {"recovered", "validated", "journaled", "backed", "published"}
    /\ Goto(a, "release")
    /\ UNCHANGED <<files, requests, production, regLock, job, existed, loaded>>

\* An exception after the switch: the parent's bytes are put back ...
UndoSwitch(a) ==
    /\ pc[a] \in {"switched", "recorded"}
    /\ registry' = Base(job[a])
    /\ Goto(a, "undoing")
    /\ UNCHANGED <<content, writes, pending, backups, versions, history, committed,
                   requests, production, regLock, job, existed, loaded>>

\* ... and then the assignment record goes, if this attempt wrote it.
UndoHistory(a) ==
    /\ At(a, "undoing")
    /\ history' = IF existed[a] THEN history ELSE history \ {job[a]}
    /\ Goto(a, "release")
    /\ UNCHANGED <<registry, content, writes, pending, backups, versions, committed,
                   requests, production, regLock, job, existed, loaded>>

\* Either of the two may raise as well; the rest is then left as it is.
UndoFails(a) ==
    /\ pc[a] \in {"switched", "recorded", "undoing"}
    /\ Goto(a, "release")
    /\ UNCHANGED <<files, requests, production, regLock, job, existed, loaded>>

Release(a) ==
    /\ At(a, "release")
    /\ Leave(a)
    /\ UNCHANGED <<files, requests, loaded>>

\* Killed: the kernel drops both locks, the files stay.
Crash(a) ==
    /\ ~At(a, "idle")
    /\ Leave(a)
    /\ UNCHANGED <<files, requests, loaded>>

-----------------------------------------------------------------------------
(* ModelRegistry.register_model, promote_model, retire_model *)

\* Mutant of Load: the records are loaded without the lock.
LoadUnlocked(w) ==
    /\ loaded[w] = Nobody
    /\ loaded' = [loaded EXCEPT ![w] = registry]
    /\ UNCHANGED <<files, requests, production, regLock, pc, job, existed>>

\* The registry lock and _load_records.
Load(w) ==
    /\ loaded[w] = Nobody
    /\ regLock = Nobody
    /\ regLock' = w
    /\ loaded' = [loaded EXCEPT ![w] = registry]
    /\ UNCHANGED <<files, requests, production, pc, job, existed>>

Unload(w) ==
    /\ loaded' = [loaded EXCEPT ![w] = Nobody]
    /\ regLock' = IF regLock = w THEN Nobody ELSE regLock

\* Mutant of Promoted: the demoted champion gets a status of its own.
PromotedOverFormer(s, m) ==
    [n \in Models |-> CASE n = m -> "champion"
                        [] n # m /\ s[n] = "champion" -> "former"
                        [] OTHER -> s[n]]

\* The new records of each command, from the loaded ones.
Registered(s, m) == [s EXCEPT ![m] = "candidate"]
Promoted(s, m) ==
    [n \in Models |-> CASE n = m -> "champion"
                        [] n # m /\ s[n] = "champion" -> "candidate"
                        [] OTHER -> s[n]]
Retired(s, m) == [s EXCEPT ![m] = "retired"]

\* _persist: new bytes, built from what was loaded.
Persist(w, status) ==
    /\ loaded[w] # Nobody
    /\ writes < MaxWrites
    /\ writes' = writes + 1
    /\ content' = [content EXCEPT ![writes + 1] = status]
    /\ registry' = writes + 1
    /\ Unload(w)
    /\ UNCHANGED <<pending, backups, versions, history, committed, requests,
                   production, pc, job, existed>>

RegisterModel(w, m) ==
    /\ loaded[w] # Nobody
    /\ content[loaded[w]][m] = "absent"
    /\ Persist(w, Registered(content[loaded[w]], m))

PromoteModel(w, m) ==
    /\ loaded[w] # Nobody
    /\ content[loaded[w]][m] = "candidate"
    /\ Persist(w, Promoted(content[loaded[w]], m))

RetireModel(w, m) ==
    /\ loaded[w] # Nobody
    /\ content[loaded[w]][m] \in {"candidate", "champion"}
    /\ Persist(w, Retired(content[loaded[w]], m))

\* A refusal, an early return or a kill: nothing is written.
AbandonCommand(w) ==
    /\ loaded[w] # Nobody
    /\ Unload(w)
    /\ UNCHANGED <<files, requests, production, pc, job, existed>>

-----------------------------------------------------------------------------

\* What an applier does by itself once it has begun.
Proceed(a) ==
    \/ LockProduction(a) \/ LockRegistry(a) \/ Refused(a) \/ Recover(a) \/ Validate(a)
    \/ WriteJournal(a) \/ BackUp(a) \/ PublishVersion(a) \/ Switch(a) \/ WriteHistory(a)
    \/ WriteManifest(a) \/ Abort(a) \/ UndoSwitch(a) \/ UndoFails(a) \/ UndoHistory(a)
    \/ Release(a)

Command(w, m) == RegisterModel(w, m) \/ PromoteModel(w, m) \/ RetireModel(w, m)

Next ==
    \/ \E r \in Requests, kind \in {"promotion", "rollback"}, m \in Models : Create(r, kind, m)
    \/ \E r \in Requests : Review(r) \/ Approve(r) \/ Expire(r)
    \/ \E a \in Appliers, r \in Requests : BeginApply(a, r)
    \/ \E a \in Appliers : Proceed(a) \/ Crash(a)
    \/ \E w \in Writers : Load(w) \/ AbandonCommand(w)
    \/ \E w \in Writers, m \in Models : Command(w, m)

Spec == Init /\ [][Next]_vars

-----------------------------------------------------------------------------
(* Properties *)

Places == {"idle", "checked", "production", "locked", "recovered", "validated",
           "journaled", "backed", "published", "switched", "recorded", "undoing", "release"}

RequestRecords == [kind : {"promotion", "rollback"}, target : Models,
                   champion : Models, base : Bytes]

TypeOK ==
    /\ registry \in Bytes
    /\ content \in [Bytes -> [Models -> Statuses]]
    /\ writes \in 0..MaxWrites
    /\ req \in [Requests -> RequestRecords \cup {NoRequest}]
    /\ approval \in [Requests -> {"none", "reviewing", "approved", "expired"}]
    /\ pending \subseteq Requests
    /\ backups \subseteq Bytes
    /\ versions \subseteq Requests
    /\ history \subseteq Requests
    /\ committed \subseteq Requests
    /\ production \in Appliers \cup {Nobody}
    /\ regLock \in Appliers \cup Writers \cup {Nobody}
    /\ pc \in [Appliers -> Places]
    /\ job \in [Appliers -> Requests \cup {Nobody}]
    /\ existed \in [Appliers -> BOOLEAN]
    /\ loaded \in [Writers -> Bytes \cup {Nobody}]

\* docs/model_registry.md: "Only one champion may exist per model type" - in the
\* file readers see, after any mixture of transactions, interruptions and commands.
OneChampion == \A m, n \in Champions(content[registry]) : m = n

\* Write-ahead: a switched registry whose transaction has not committed can be
\* taken back, because its journal, its version and its parent's bytes are all
\* on disk before the switch.
UncommittedIsRecoverable ==
    registry \in Requests \ committed
        => registry \in pending \cap versions /\ Base(registry) \in backups

\* _committed re-reads the assignment record and the version of a committed
\* request and raises if either is gone: no later failure, retry or undo of
\* another transaction removes them, and the parent's bytes stay as well.
CommittedIsComplete ==
    \A r \in committed : r \in pending \cap versions \cap history /\ Base(r) \in backups

\* Two committed transactions never replaced the same registry: whatever is
\* interrupted, restored and retried, commits form one chain of parents, and an
\* approval given for a registry is not spent on another one.
CommitsFormAChain ==
    \A r, s \in committed : Base(r) = Base(s) => r = s

\* A transaction commits over its own bytes, which a human approved: the
\* registry at the commit is the version built from the approved parent.
CommitIsInForce ==
    [][\A r \in Requests : r \in committed' \ committed
          => registry = r /\ approval[r] \in {"approved", "expired"} /\ content[r] = Switched(r)]_vars

\* No model ever disappears from the registry: neither a transaction that puts
\* back its parent nor a command that writes what it loaded loses what another
\* process has registered.
NoModelIsLost ==
    [][\A m \in Models :
          content[registry][m] # "absent" => content'[registry'][m] # "absent"]_vars

\* docs/recovery_manual.md: an interrupted apply is finished with "the existing
\* idempotent apply or rollback command" while its hashes and approval remain
\* valid: its recovery accepts a registry that is the parent or the target.
InterruptedApplyResumes ==
    \A r \in pending \ committed :
        /\ regLock = Nobody
        /\ registry \in {Base(r), r}
        /\ approval[r] = "approved"
        => ~Unrecoverable(r)
=============================================================================
