# Verification of ashare-lgbm-quant

TLA+ specifications of the parts of this repository whose correctness depends on
the order of things: processes that share files, locks, audit records, retries,
kills and restarts. Model checking is done with TLC on the small instances below;
theorems are proved with TLAPS for every value of the constants.

## 1. The system

A Python program (package `ashare_quant`) that downloads China A-share data, builds
features, ranks stocks with a LightGBM champion model, publishes one report per
trading date, trades it on paper, monitors the model, and manages the champion's
replacement. There is no server: every operation is a short-lived process started
by a systemd timer or an operator. Processes interact only through files, most of
them JSON replaced atomically, and two `flock` files. What can go wrong therefore
lies between the files, not inside one function.

| Component | State it keeps | Operations | Interacts with | Hard behaviour |
|---|---|---|---|---|
| production lock (`orchestration/lock.py`) | kernel lock and owner metadata in one file | acquire, release, probe the owner | every writing command | interleaved system calls, kills, failed writes |
| run manifest (`orchestration/run_manifest.py`) | status, current stage, stage list, closed-loop ids | create, stage start/end, failure, status, bind ids | pipeline, full update | calls in unplanned orders |
| production pipeline (`orchestration/production.py`, `daily.py`, `publication.py`, `closed_loop.py`) | report artifacts, pending and published summary, closed-loop manifest | one run of a date: hard stages, soft stages, validation, commit | lock, manifest, paper trading, every producer | partial failure, kills, publication before success |
| schedulers (`orchestration/scheduler.py`) | one audit record per invocation | automatic date decision, skip, attempts, full update | pipeline, trade calendar | decisions without the lock, retries |
| model registry (`models/registry.py`) | `registry.json`, history | register, promote, retire, read champion | inference, promotion | a second writer that takes only the registry lock |
| champion promotion and rollback (`models/promotion/`) | requests, approval events, registry versions, pending switch, champion history, commit manifest | request, review, apply, rollback, recovery of an interrupted switch | registry, both locks | a five-file commit interrupted anywhere |
| paper trading (`paper_trading/`) | orders, trades, positions, equity ledgers | init, rebalance, execute, report | pipeline | trade rows as commit marker, replay |
| retraining execution (`retraining/execution/`) | journal events and three directories per training identity | execute, recover | production lock, lifecycle, qualification | three renames undone or killed halfway, recovery beside live runs |
| retraining lifecycle (`retraining/orchestration/`) | one snapshot per lifecycle, its backup while it is replaced | run, resume, revalidate-evidence | execution, lifecycle lock, budget and cooldown over all stores | resumption from what a dead command left, readers without a lock |
| retraining qualification (`retraining/qualification/`) | one snapshot per run, an authorization file with revocation, claim and receipt | start, authorize, revoke, advance, cancel | execution, lifecycle lock, the lifecycles' controls | files and events written one after the other |
| retraining triggers, readiness, validation, shadow (`retraining/`) | one report directory each | evaluate | lifecycle, qualification | idempotent evaluations |
| monitoring (`monitoring/`) | alerts, observations, performance | observe, alert life cycle | pipeline, retraining | maturity of observations, alert reopening |
| governance (`governance/`) | snapshots, recovery previews | read-only views | registry, manifests | reading what an interruption left |
| data (`data/`) | raw parquet/CSV stores, event evidence | ingest, validate, review, compile | tushare, schedulers | retry, idempotent merge |
| features, labels, universe, strategy, research | derived datasets and reports | build, select, explain | pipeline | pure computations |
| model training, backtest, diagnostics | artifacts of one run | train, evaluate, simulate | registry | pure computations |

What makes each of them correct, in the terms the modules use, is the list of
properties in section 4; the hazards they answer, each at its line, are in
`PROJECT.json` under "hazards".

## 2. Modules
| Module | Extends / instantiates | Models |
|---|---|---|
| `MutexLock` | - | abstract promise of the lock: at most one runner inside |
| `ProductionLock` | `MutexLock` (INSTANCE) | `orchestration/lock.py`, one system call per step |
| `ProductionLock_proofs` | `ProductionLock`, TLAPS | theorems about the lock |
| `RunManifestOps` | - | each operation of `orchestration/run_manifest.py` as a guard (`May...`) and the manifest it leaves |
| `RunManifest` | `RunManifestOps` | one manifest and a caller that uses the API in any order |
| `RunManifest_proofs` | `RunManifest`, TLAPS | theorems about the manifest |
| `ProductionPipeline` | `RunManifestOps` | one trading date: triggers, scheduler, stages, publication, retries, full update, kills |
| `MCProductionPipeline` | `ProductionPipeline` | its instances |
| `ProductionPipeline_proofs` | `ProductionPipeline`, `MutexLock` (INSTANCE), TLAPS | theorems about the pipeline |
| `ChampionRegistry` | - | `registry.json`: promotion and rollback transactions with recovery, registry commands, requests and decisions |
| `MCChampionRegistry` | `ChampionRegistry` | its instances |
| `ChampionRegistry_proofs` | `ChampionRegistry`, TLAPS | theorems about the transactions |
| `PaperLedger` | Functions, FiniteSetsExt | orders, execution and the three ledgers of a paper account, with interruption and replay |
| `MCPaperLedger` | `PaperLedger` | its instances |
| `PaperLedger_proofs` | `PaperLedger`, TLAPS | theorems about the account, and the lemmas on sums and recursion they need |
| `RetrainingExecution` | - | `retraining/execution/`: one training identity at a time, journal, publication of three directories, recovery |
| `SnapshotStore` | - | how lifecycles and qualifications replace their snapshot: aside, in, drop the backup, or roll back |
| `RetrainingLifecycle` | `RetrainingExecution`, `SnapshotStore` | `retraining/orchestration/`: the commands of a lifecycle, budget and cooldown |
| `Qualification` | `RetrainingLifecycle` | `retraining/qualification/`: authorizations and the stages they pay for; the composed system and its properties |
| `MCRetraining` | `Qualification` | its instance |
| `RetrainingLifecycle_proofs` | `RetrainingLifecycle`, TLAPS | theorems about the execution; lemmas: every step of a command is one of a few moves, and a move loses nothing |
| `Qualification_proofs` | `Qualification`, `RetrainingLifecycle_proofs` | the inductive invariant of the composed system, and what follows from it |
| `RetrainingEvidence_proofs` | `Qualification_proofs` | promotion evidence is backed; authorizations are used once; each side keeps the budget |

How they compose. `RunManifestOps` is written once as pure operations and used
twice: `RunManifest` calls it in every order to show what the API guarantees by
itself, `ProductionPipeline` calls it in the order the pipeline does, for many runs
at once. `ProductionPipeline` takes the lock as an atomic test-and-set (`holder`);
that this is sound is what `ProductionLock` shows: its critical section, with all
its system calls, failed writes, probes and kills, implements `MutexLock`
(`ImplementsMutex`, checked and proved), and the invocations use `holder` as no more
than that service (`PipelineLockIsMutex`). `ChampionRegistry` uses two locks of the
same kind. `PaperLedger` has one process at a time, because its commands run under
the production lock (`cli/__init__.py`, `run_paper_trading_command`) or inside the
pipeline's paper-trading stage. The retraining modules are composed by extension,
because their parts write the same variables: a lifecycle and a qualification each call
`Request`, `Work` and `Collect` of `RetrainingExecution` under a caller of their own,
publish through `SnapshotStore`, and read each other's snapshots for the controls;
`Qualification.Next` interleaves both with the operator's `retraining execute` and
recovery commands and with midnight.

Definitions whose comment begins "Mutant of" are wrong variants of the definition
that follows them. No action uses them; each shows that a property notices the bug
(`PROJECT.json`, "mutants").
## 3. How state and actions correspond to the code
Every write that another process can see is a step of its own, because a process can
be killed, or overtaken, between any two of them. `atomic_write_json` and
`_atomic_write_parquet` (temporary file, then rename) are one step each.

**ProductionLock.** `holder` is the kernel's `flock` state, `metadata` the JSON in
the file; they are separate because the kernel drops the first when a process dies
and nobody clears the second. `acquire_production_lock` is `Flock` or `FlockBusy`
followed by `Refuse`, then `TruncateOwner` and `WriteOwner` (or `WriteOwnerFails`);
`release_production_lock` is `ClearOwner` and `Unlock`; `detect_production_lock_owner`
is `Probe`, `ProbeFree`, `ProbeBusy`, `DetectOwner`: the probe takes the exclusive
lock it asks about. `blocker` is a history variable: who held the lock when a
runner was refused.

**RunManifestOps / RunManifest.** A manifest is a record of status, current stage,
stage statuses ("absent" for a stage not in the list) and closed-loop identities. A
call that raises changes nothing, so it is the absence of a step. `record_failure`
with or without a named stage, the early return of an idempotent stage start, and
the refusal of success over an unfinished stage are in the `May...` operators.

**ProductionPipeline.** An invocation's `pc` follows `ProductionScheduler.run`:
`deciding` and `checking` are the automatic decision made without the lock, from
`create` to `release` it is inside `production_lock()`, `report`, `escaped` (the full
update's handler, which records a failure of the run) and `closing` (a handler about to
close the audit record) are the code after it. One stage of each sort stands for the stages of that sort: a data
stage, a report stage (it writes an artifact), paper trading (it writes and, on
failure, removes the pending summary), publication, a soft stage, the closed-loop
manifest. Three things end a run early without a result. `Escape` is an exception that no
handler of the pipeline catches: it may come from everywhere inside the lock except the
operation of a soft stage, and the scheduler's own handler still closes the audit record
(`Escaped`, `CloseEscaped`). `Unreported` is one that leaves the scheduler as well: the
audit writes are outside every handler, or in the last one, and so is the full update's
`record_failure`; the process dies with its audit record running. `Crash` is a kill. A
failed attempt may always be retried below the bound, because what makes an error
transient is its text. A `Validate` step is
`validate_production_publication`, which checks existence and linkage only.

**ChampionRegistry.** A registry file is known by its hash everywhere in the code,
so `registry` holds a name: 0, the number of the registry command that wrote it, or
the request whose transaction built it. `content` says what each name means. The
five files of a transaction are `pending` (journal), `backups` and `versions`
(`registry_versions/`), `registry` itself, `history` (assignment record) and
`committed` (apply manifest); `pc` gives the order in which `apply` writes them.
`Abort` is any exception before the switch; after it the code undoes
(`UndoSwitch`, `UndoHistory`), and the undo may fail too (`UndoFails`). `Recover` is
what the next apply of the same request does with a journal it finds. A decision is
two steps (`Review`, `Approve`) because the reviewer validates the registry before
the event is published and checks it again only afterwards. `Create` is one
step although the code reads hash, models and champion one after the other without a
lock: a request that mixes registries never passes `Valid`, which compares all of it with
one registry under the lock, and can only make an apply fail before it writes; a request
that passes is one that a single reading gives, made no later than its review. Likewise a
rollback's event, which hashes the registry once more, either agrees with the request or
is never accepted, as if the request were left in review. Registry
commands (`Load`, then `RegisterModel`, `PromoteModel`, `RetireModel` or
`AbandonCommand`) hold the registry lock only.

**PaperLedger.** `positions`, `equity` and `trades` are the Parquet ledgers, by
session; `at` and `step` are all a running execution adds to them. Everything else is
derived, as in the code: `Held` is `_current_positions`, `Cash` is `_current_cash`,
`PositionRows`, `EquityRow` and `TradeRows` are what `_execute_portfolio` computes from
them. An execution reads only rows of earlier sessions, so computing a row at the
time it is appended gives what the code computed at its start. Lots, hundredths of
money, percent rates and one price per code and session keep the arithmetic exact;
sales, lower and upper limits, missing prices, insufficient cash and the order of
ranks are kept. `closed` in the equity row is the dependence of `win_rate` on all
trades.

**RetrainingExecution.** `journal` is the status of the last event of an identity's
journal, `placed` the subset of its three directories that bear their name, `exec` what
each caller's execution is doing, `prodLock` the production lock. `Execute`, `Reuse`,
`Refuse` and `RefuseIncomplete` are the four ways `execute` may begin; `Advance`, `Place`
and `Complete` its work; `Fail`, `StartUndo`, `Undo` and `EndUndo` the handlers of
`replace_targets_atomically` and `execute`; `KillExecution` leaves journal and
directories as they are. `Recover` is the recovery command, which tests the lock and
closes an open journal.

**SnapshotStore.** `out` is the snapshot under its own name, which is all that readers
see, `bak` the backup in `.tmp`. `LifecycleStorage.publish` is `Aside`, `In`,
`DropBackup`, or `RollBack` after an error; a kill in between leaves `bak` behind
(`Stale`) and every later publish of that owner raises. `Settled` is the last snapshot
whose publication has ended, visible or not.

**RetrainingLifecycle.** `call` is the one command that holds the lifecycle lock: where
it is, the request, the snapshot in its hands, and where it goes on after the
publication under way. `Entry` is `_continue`'s choice from the state it reads,
`Targets` the transition table of `lifecycle.py`; a transition the table forbids raises
and ends the command (`Raise`). `Approve` is the budget check, `Attempt` the TRAINING
event, which carries its own time and may therefore fall on the next day. Validation,
enrollment and prediction are single steps that succeed or fail; `Track` takes any
number of newly matured sessions and any policy in force. `begun` is a history
variable: executions each owner has begun.

**Qualification.** `qcall` is the command that holds the qualification lock. An
authorization is a record of whom and what it is for, its last day, and the files beside
it; `recorded`, `revoked` and `tail` in the snapshot are its events. `Status` is
`_authorization_state` in the code's order. `Authorize`, `Revoke` and `Claim` write the
file, `RecordFile` and `StartStage` then publish the event, `Succeed` and `FailStage`
write the receipt and publish the outcome; a kill may fall between any two. If the receipt
of a success is in place and its publication raises, the handler writes one of a failure
beside it (`SecondReceipt`), and the authorization is INVALID from then on.
`RunStage` takes the lifecycle lock for the time of the stage.
## 4. Runs: what each checks and shows
States are distinct states found by TLC.

| Run | Config | States | Shows |
|---|---|---|---|
| `lock` | `MCProductionLock.cfg` | 435 000 | `MutualExclusion`; `HolderIsActive`: no orphaned kernel lock after any failure or kill; `OwnerFileNamesRun`; `LockIsGivenUp` (liveness); `ImplementsMutex` (refinement) |
| `manifest` | `MCRunManifest.cfg` | 403 | every call order: `SuccessIsComplete`, `OneStageInProgress`, `TerminalRunIsFrozen`, `ProgressOnly`; no state without a successor |
| `pipeline` | `MCPipeline.cfg` | 266 000 | `InsideHoldsLock`; `SkipIsJustified`: a skip decided without the lock is backed by a successful run; `ReportedSuccessIsReal`; `TerminalRunsFrozen`; `SuccessOverOwnFiles`: success is never declared over a mixture of two runs' files; `InvocationsFinish` (liveness): only a process that dies leaves its audit record running |
| `pipeline_retry` | `MCPipelineRetry.cfg` | 1 970 000 | `RunningIsAccountedFor`, `PendingIsUnpublished` with a retry per invocation |
| `registry` | `MCChampionRegistry.cfg` | 959 000 | `OneChampion`; `UncommittedIsRecoverable`; `CommittedIsComplete`; `CommitsFormAChain`; `CommitIsInForce`; `NoModelIsLost` |
| `paper` | `MCPaperLedger.cfg` | 13 800 | `LedgersAgree`; `CashIsCovered`; `ReplayIsSafe`; `TradingCreatesNoValue` |
| `retraining` | `MCRetraining.cfg` | 996 000 | `JournalIsTruthful`; `PublishedIsFinal`; `AttemptsAreRecorded`: no training escapes budget and cooldown; `EachSideKeepsBudget`; `HistoryIsDurable`: no publication loses an attempt or a result; `EvidenceIsBacked`; `AuthorizationUsedOnce` |
| `lock_spurious_refusal` | `MCLockSpuriousRefusal.cfg` | violation | an owner probe refuses a run (section 7) |
| `pipeline_repeat` | `MCPipelineRepeat.cfg` | violation | a valid publication is repeated |
| `pipeline_left_running` | `MCPipelineLeftRunning.cfg` | violation | a process that was not killed leaves its manifest running after a soft stage |
| `registry_resume` | `MCRegistryResume.cfg` | violation | an interrupted apply cannot be resumed |
| `paper_interrupted` | `MCPaperInterrupted.cfg` | violation | holdings nobody paid for |

Every passing run also checks its module's `TypeOK`. Deadlock is not checked where
the system may stop: invocations and applies end, and nobody is obliged to start another.
## 5. Bounds, symmetry, fairness
**Bounds.** Lock: three runners and one detector, so that a run can be refused by a
run, by a probe, and by a run whose predecessor's metadata is still in the file; runners
come back (`Again`) without bound. Manifest: three stages, so that one can be current,
one finished and one undeclared; one closed-loop key with two identities.
Pipeline: two invocations of any kind and one stage of each sort without retries, and
timer and manual invocations with `MaxAttempts = 2` over the hard stages: two are enough
for every pairwise overlap of a decision, a lock, a publication and a late report,
and the lock leaves no three-way overlap inside. Registry: three models (a
champion, a candidate, one not yet registered), two requests of either kind, two
appliers, one registry command process with `MaxWrites = 2`; with two requests a
commit can make the other stale, be rolled back, or be interrupted by it. Paper
account: two codes, `TopN = 2`, `LastSession = 3`, three kinds of market day; cash
and rates are chosen so that the second purchase of a session meets a balance that
covers its price and not its costs. Session 2 buys, session 3 sells, rebalances and
reads rows and trades of session 2; what each leaves is read back once more by
`LedgersAgree`. Orders of the last session are never due, so none are frozen.

Retraining: one request and one qualification of it (both retrain the same model, so
each blocks the other by cooldown), a third owner of another model that may have used up
the first day's budget, two days, two policies, `Limit`, `Cooldown` and `Required` 1, two
attempts and two authorizations (a failed attempt needs a second), and one failure or kill
at any step. The third caller is an operator who runs `retraining execute` by hand. One
fault is enough for every half-finished publication, and all commands go on after it;
the proofs (section 6) have no such bound. The constraint `Focus` leaves out
interleavings of sides that have nothing left to share: `SidesMeet` keeps the overlap of
lifecycle and qualification to the part that reads the common controls and the lifecycle
lock, and does not follow a qualification beyond its end; `OperatorMeetsLifecycle` keeps
the operator's executions away from qualifications, whose identity is another one. What
the constraint hides from TLC, the theorems cover.

**Symmetry.** `InvocationSymmetry` and `RegistrySymmetry` (requests and appliers) are used
in runs without liveness properties: the definitions treat these model values
alike, and the configurations give none of them a role.

**Fairness.** The lock and the pipeline state weak fairness of what a process does by
itself once it has begun (`Proceed`), and nothing else: nobody is obliged to start an
operation, a kill may come at any time, and an error of the file system never has to
(`Escape` and `Unreported` are outside `Proceed`). The code justifies it: there is no
blocking wait in it, since `flock` is taken with `LOCK_NB` and a busy lock is an immediate
error, and retries are bounded. That stages themselves terminate is assumed.
The other modules have safety properties only and state no fairness.

**Environment.** The verdicts of readiness, validation, shadow prediction and
evidence evaluation are inputs of the retraining model, chosen freely at each step.
`PaperLedger` assumes that sessions are executed in order (`InTurn`)
and that the stored market data of a session do not change between an interruption
and the replay; with `Replayed = TRUE` also that an interrupted session is executed
again before the next one. The run `paper_interrupted` drops the last assumption.
## 6. Proofs
All theorems hold for every value of the constants that satisfies the named
assumptions (`LockAssumption`, `ManifestAssumption`, `NoRunAssumption`, `PipelineAssumption`,
`StageAssumption`, `RegistryAssumption`, `PaperAssumption`, `NoneAssumption`,
`ExecutionAssumption`, `LifecycleAssumption`, `HistoryAssumption`, `QualificationAssumption`): any numbers of
processes, requests, stages, attempts, models, commands, codes, sessions, lifecycles,
qualifications, policies, days and faults. The assumptions say only that
special values differ from ordinary ones, that bounds are numbers (a run's attempts at most three, as the settings accept), that
owners are finitely many, that the first
registry has at most one champion of the type, that a request or qualification has no
history before the model starts, that what other lifecycles have trained before is past
and kept the daily budget, that the stages of a plan have names, those with
handling of their own are none of the others and a report stage is not a soft one, and
that codes are finitely many, what can be traded has a price and rates are below 100 percent.

**ProductionLock_proofs.** The inductive invariant `LockInv` is the type invariant
with `CriticalHoldsLock` (whoever is between flock and LOCK_UN is `holder`) and
`ProbeHoldsLock`. Mutual exclusion is not inductive by itself, since nothing in it
says that a free `holder` means an empty critical section. `LockMutualExclusion`,
`LockHolderIsActive` and `LockTypeCorrect` follow; `LockOwnerFileNamesRun` needs
one more induction on top, because only the holder writes the file. `LockImplementsMutex` maps each step to
`Enter`, `Leave` or a stutter of `MutexLock`.

**RunManifest_proofs.** `ManifestInv` is the type with `SuccessIsComplete` and
`OneStageInProgress`. One lemma per operation says that it takes a consistent
manifest to a consistent one; since `RunManifestOps` is what the pipeline uses too,
they apply to it as well. `ManifestTerminalIsFrozen` and `ManifestProgressOnly` are the action
properties; for the second, an operation composed of two (`record_failure` fails a named
stage, then the run) is shown to progress because each part does.

**ChampionRegistry_proofs.** Five invariants, each resting on the ones before.
`LockInv` (types; an applier at a place between the locks is the owner of the
registry lock; a writer that has loaded is): with it, whatever one process knows of
the files while it holds the lock cannot be changed by another. `Stages` says what an
unfinished apply has on disk at each of its places, and that a registry, a parent
of a request and a committed request are complete: journal, version and the
parent's bytes exist. `UncommittedIsRecoverable` and `CommittedIsComplete` are read
off it. `Lineage` is the argument for `CommitsFormAChain`: the contents that exist are
split into A, the ancestors of the registry in force back to the last commit or
command, and D, what commits have left behind; parents of committed transactions
are in D, the registry is always in A, the two are disjoint, and no member of A has
the registry as its parent. A transaction validated against the registry therefore
has a parent no commit has used. A recovery moves back along A, a switch extends it,
a commit moves the ancestors to D, a command starts a new A. `Unique` (at most one
champion in every content, and a validated transaction replaces the one its parent
has) gives `OneChampion`. `Built` says what a version is made of: a published version is
still `Switched` of its parent, whose two models exist in it; a writer that has loaded has
loaded the registry in force; a validated transaction was approved. Its step needs
`StepSettled`: a published version is never rebuilt differently, and the content of a
request's parent never changes, because a parent is an older content (`Lineage`) or a
published version (`Stages`). `CommitIsInForce` and `NoModelIsLost` follow.

**ProductionPipeline_proofs.** `PipelineInv` says, for each place of an invocation, what
its record (`Control`), its position in the plan (`Position`), its manifests (`Recorded`)
and the files behind it (`OwnFiles`) are, and that whoever is inside has the lock. A run
at work has a manifest that says running, one that it has left does not, and later
attempts have none yet. `SkipIsJustified` is not inductive alone: a skip relies on what
was `seen` before, possibly of a run that went on since, so `References` adds that
whatever a summary, a check or a pending file names is a production run with a manifest.
`SuccessOverOwnFiles` rests on `OwnFiles`, which holds because only a run inside the lock
writes files, each stage is done once in the order of the plan, and the publication stage
comes after every report stage. Each step of an invocation is shown to leave the records
of the others alone (`Alone`), so the argument is about one invocation at a time.
The runs' invariants and action properties are all proved from it, and that the
invocations inside change as `MutexLock` lets them: only `AcquireLock` brings one inside,
and it finds nobody there.

**PaperLedger_proofs.** The first part is about data: a sum over a finite set does not
depend on the order in which it is taken, adds over a disjoint union, and is monotone;
the last of some sessions exists; a recursive function whose steps agree is the same
function. The library's induction theorems cannot be used, so these are proved from a
least or smallest counterexample. With them, `CashAfter` is non-negative after each rank
(a purchase is limited by the balance and its own costs), and what an execution computes
is a function of the rows of earlier sessions (`ResultSame`). `PaperInv` says where rows
may exist (`OrdersInv`, `RowsInv`), that of the session being executed nothing is committed and nothing follows
it, its equity row being the one it computes (`Running`), and that no prefix of the committed trades overdraws
(`Solvent`); `CashCovers` and `TradingOnlyCosts` need nothing about replay. `ReplayInv`
adds, under the hypothesis `Replayed` of the `paper` run, that what an unfinished
session has left is what it would append now and no later session has rows (`Faithful`),
and that the session being executed is the only unfinished one (`Alone`); `AgreeInv` that the ledgers agree for every session that reads no
unfinished one, which is the induction `LedgersAgree` needs: the positions of a session
are those of the one before plus its trades. Without `Replayed` both are false, as the
run `paper_interrupted` shows.

**RetrainingLifecycle_proofs, on executions.** `ExecutionInv`: the lock is held by the one caller at
work, that caller's journal is open, and the directories in place form a prefix of the
order they are moved in. It gives `CandidatesAreWhole`, and for the composed system
`JournalsAreTruthful` and `PublicationIsFinal`. The lemmas are stated for any step of any
caller, so the modules above cite them for each side.

**RetrainingLifecycle_proofs on commands, Qualification_proofs.** Some fifty actions change
snapshots. They are brought under eight moves (`Move`: leave, go on, take, publish, place,
drop, roll back, start an execution) of a command on the snapshot and the backup of its
owner, the same for both sides. `Protocol` is what a command relies on: while it
publishes, the new snapshot continues the backup; otherwise the snapshot in its hands is
the one on disk and there is no backup; one that is about to begin an execution has fewer
executions than attempts. `MoveKeeps` shows, once, that a move keeps `Protocol` and loses
nothing of the settled snapshot; the rest shows that every action is a move and leaves the
other owners alone. `RetrainingInv` is `Protocol` for both commands with the types and
`ExecutionInv`; `AttemptsAreRecorded` needs it because a snapshot may be hidden, and only
the settled one counts. `HistoryIsNeverLost` is `MoveKeeps` for every owner.

**RetrainingEvidence_proofs.** A state promises results: `Supported` says which stages
must have left theirs, and that the candidate is published, for each state of the tables.
`StageKnown` ties the place of a qualification's command to the state its snapshot is in,
and an execution that has returned stands for a published candidate
(`ReturnedIsPublished`, `ExecutesItsOwn`). The table of transitions carries it from one state to the next: a verdict of readiness
is reached from sufficient observation only.

**RetrainingEvidence_proofs, on authorizations.** A claim pays for one execution. `Owed` is a
command that has claimed and not yet begun; executions begun are at most the claims, and
fewer while one is owed (`ExecutionsArePaid`). For the rest of `AuthorizationUsedOnce` a
claimed authorization must stay on record through publications that are rolled back or
killed: a command's snapshot never records less than the one it replaces
(`RecordsGrow`), and while a publication may still be undone the record is in the backup
too (`ClaimsAreValid`).

**RetrainingEvidence_proofs, on the budget.** The controls count attempts that readers
can see, at a moment before the attempt is published and perhaps before midnight.
`KeepsBudget`, stated once and used for both sides, counts what is visible together with what the side's command is
about to make visible: no attempt is dated later than today, no day has more than the
budget, and a command that is due to add one finds room on every day from today on. It is
inductive because a side has one command, under a lock of its own: only that command adds
attempts of the side (`Announces`, read off every action), so what it counted is an upper
bound until it publishes (`SideStep`, over the moves above), and a later day has none yet.
An attempt that a rollback takes back frees its place; one that a dead publication hides
is not counted any more, which is why the property makes an exception of it (`Lost`, which
is for ever).

**Only model-checked.** Liveness (`LockIsGivenUp`, `InvocationsFinish`) and everything
about ENABLED is out of the prover's reach. The properties of the runs that
must find a violation are false and have no theorem.
## 7. Disagreements between the code and its documents
Each is a run that TLC must find violated; the quotations and lines are in
`PROJECT.json` under "findings".

1. **A status question can refuse a run** (`lock_spurious_refusal`). `detect_production_lock_owner`
   takes the exclusive lock to see whether it is free. A run that arrives in that window
   fails with "another production run is active" although none is. Close to it, and
   stated as `RefusalNamesActiveRun` in the module: between flock and the metadata write,
   and after a kill, a refusal names an earlier owner.
2. **A valid publication is repeated** (`pipeline_repeat`). The automatic check for an existing
   publication is made before the lock and not repeated inside it.
3. **A process that was not killed leaves `running`** (`pipeline_left_running`). What follows
   the work of a soft stage, its `record_stage_end` included, is outside every handler,
   while for a hard stage it is inside the try. The run states the property for soft stages;
   `record_stage_start` of any stage and the final status are outside every try too.
4. **An interrupted apply cannot be resumed** (`registry_resume`). The journal is
   written before the version it names; a kill in between makes every later apply raise
   "promotion apply artifact is missing", where the recovery manual promises the idempotent
   command.
5. **Holdings nobody paid for** (`paper_interrupted`). Positions are read from rows of a
   session that never committed, cash from committed trades only; after a kill between the
   two appends the next session starts from shares whose purchase was never booked.

The retraining model contains further behaviour that a maintainer should know. No run
is kept for it: most of it contradicts no document.

* *Budget across the two sides.* Lifecycle and qualification check the one daily budget
  under different locks (`qualification/service.py:574-582`), and a reader that meets the
  other's store between its two renames counts nothing. Together they may exceed the limit
  of `docs/retrained_challenger_lifecycle.md:138`; `EachSideKeepsBudget` is what holds.
  `retraining execute` from the command line is outside budget, cooldown and the
  lifecycle lock altogether, and the TRAINING event may carry the day after the one whose
  budget was checked.
* *Dead publications.* A kill between the renames of `orchestration/storage.py` hides the
  lifecycle; the backup makes every later publication raise, and hidden attempts count
  neither for the budget nor for the cooldown. Beside such a backup `authorize`,
  `revoke-authorization` and a claim still write their file before the event fails. In the
  same way a kill between the three renames of an execution makes `existing()` raise
  from then on, and a journal may end FAILED or INTERRUPTED although all is published.
* *States without a way out.* A command killed in TRAINING, VALIDATING or
  SHADOW_ENROLLING leaves a state from which no command continues, and a qualification in
  TRAINING cannot even be cancelled. VALIDATION_FAILED, PREFLIGHT_BLOCKED,
  DRY_RUN_BLOCKED and READINESS_FAILED of a qualification have no continuation but cancel.
* *Forbidden transitions.* A retry after TRAINING_FAILED on a day without budget asks for
  TRAINING_BUDGET_BLOCKED, which the table forbids, so the block is not recorded
  (`orchestration/service.py:475-483`); revalidation in an early state under another policy
  raises likewise.
* *Revocation.* `revoke-authorization` writes its file before a transition that most
  states forbid. The authorization is then INVALID for ever and blocks later ones of its
  stage, where `docs/controlled_operational_qualification.md` says that revocation alone
  is not corruption.
* *Cooldown of a qualification.* It is computed on behalf of the request's lifecycle, so a
  qualification's own failed attempt starts its cooldown and the lifecycle's training
  does not.
* *Two fields.* A lifecycle in EVIDENCE_READY that is evaluated again and found not ready
  stays in that state with status NOT_READY; POLICY_REVIEW_REQUIRED may stand beside an
  evaluation under the current policy.
## 8. What is not modelled
* Numeric work (features, labels, LightGBM training, back-tests, monitoring statistics,
  diagnostics): pure computations on data frames in one process. Their
  correctness is not a matter of order or failure, and their data are out of TLC's reach.
* Data ingestion and evidence review: batch jobs under the production lock whose hard part
  is the validation of contents.
* Approval events, alerts and governance previews: planned, see below.
* Of retraining: the evaluations that produce readiness, validation and shadow verdicts
  (each writes one report directory, once); a second lifecycle of the same request under
  another policy or configuration; legacy snapshots; the lifecycle's dry run and recovery
  inspection, which write nothing; changes of policy, capability or source under a
  qualification, on which the command refuses; the daily limit on qualifications; the
  contents of data sets and models.
* Inside the modelled parts: hashes of contents (a file is its name), `promoted.json` and
  `registry_history` (nothing reads them for a decision), several model types or slots,
  more than one paper account (accounts share no file), average cost and drawdown, corrections of
  market data, the wording of messages and reports.
* Approximations that remain. `Valid` binds a rollback to the latest assignment record only
  as far as its own record would replace it; a record of another request that names the
  same target and commits nothing would invalidate the rollback in the code and does not in
  the model, which therefore allows more. `PaperLedger` has one price per code and session
  where the code executes at the open and values at the close; a row with an open of 0 is
  worth 0 to the code and its last mark to the model. An interrupt (SIGINT) between two
  statements of `replace_targets_atomically`, whose handler catches it, is not modelled; a
  kill between its moves, and an error of any of them, is. When a published snapshot cannot
  be read back, the code removes it and then renames the backup, in the model one step: in
  between the disk is as it is between the two renames of the publication, which is
  modelled with its kill. The controls read the snapshots of all owners in one step where
  the code reads one directory after the other: a side's own snapshots cannot change
  meanwhile, its lock is held, and those of the other side may have any age in what is
  stated of one side's budget.
* Files are assumed to be what was written: no torn or lost rename. The code calls `os.replace`
  and, for the registry, `fsync`; a power failure is not modelled.
## 9. Plan
In order of importance; 1-5, 7 and 9 are done.

1. Lock, its abstraction and its proof; run manifest and its proof.
2. Production pipeline: one date, all kinds of invocation; retries; publication.
3. Champion registry: transactions, recovery, commands; safety proofs.
4. Paper account: ledgers, commit marker, replay.
5. Findings 1-5.
6. `ApprovalEvents`: `models/promotion/approval_storage.py` and `rollback_storage.py`: two
   reviewers listing and then publishing without a lock, event file before manifest, a
   kill between them. Abstract specification: a request has at most one terminal decision;
   `Review`/`Approve` of `ChampionRegistry` is the place where it would plug in. One run: two
   reviewers, one request, one kill.
7. Retraining (done): execution, snapshots, lifecycle, qualification and their
   composition; all its properties proved. Left: the recovery
   inspection as a pure function of the stores, and a second identity of a request.
8. Governance preview (`governance/recovery.py`): a pure function of `ChampionRegistry`'s
   files, checked on every reachable state against `Unrecoverable`: what the preview calls
   recoverable must be what `Recover` can recover.
9. Proofs (done). Every safety property the passing runs check is proved, and both the
   lock and the pipeline are shown to be the mutual-exclusion service.
