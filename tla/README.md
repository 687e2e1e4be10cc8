# Trivergence in TLA+

Trivergence is a desktop application that turns a request into a plan of steps
(local processes, git, memory, agents, workflows, AI providers), has a person
approve the steps that need it, and executes the plan while keeping a durable,
audited record. This directory holds TLA+ models of it, the TLC runs that check
them and the TLAPS proofs about them.

## The system

| Component | Code (under `src/`) | State | Operations |
|---|---|---|---|
| Execution runtime | `packages/runtime/src/runtime-engine.ts` | `activeRuns` (memory): plan, abort signal and current attempt of each run | request / decide approval, `execute`, `cancel`, resolve an unknown call, recover orphans |
| Persistence store | `packages/persistence/src/store.ts`, `migrations.ts` | SQLite tables: previews, runs, approvals, attempts, checkpoints, evidence, memory, settings; health; backup flag | one transaction per method, each gated by `#assertWritable` |
| Audit chain | `packages/persistence/src/audit-chain.ts` | `audit_events`, a hash chain | append inside the caller's transaction, verify |
| Backup, quarantine | `packages/persistence/src/backup.ts`, `recovery.ts` | database file, sidecars, backups and manifests on disk | create, restore, activate; quarantine an unreadable database at startup |
| Process supervisor | `packages/runtime/src/process-supervisor.ts` | child process, timers, output buffers | run with timeout, abort and output limit; terminate the tree |
| Provider adapters | `packages/provider-adapters/src/*` | adapter sessions, stream position, usage | prepare, execute, recover, validate the answer |
| Orchestration engine | `packages/orchestration-engine/src/*`, `packages/policy-engine/src` | none (pure) | select capabilities, plan, evaluate, digest, decide policy |
| Agent teams, workflows | `packages/agents/src`, `packages/workflows/src` | none across calls | run members under a budget, repair, synthesise, evaluate |
| Memory | `packages/memory/src` | entries in the store | commit, recall, forget, expire |
| Workspace | `packages/workspace/src` | a search's candidates and budgets; the watcher's pending set and timer; the writer's journals on disk | search, read, git status and diff, watch, journalled write, rollback, recover |
| Desktop main process | `apps/desktop/src/main/*` | coordinator: workspace, preview, execution; settings files | IPC handlers, startup, shutdown |
| Contracts, renderer, release tools | `packages/contracts`, `apps/desktop/src/renderer`, `tools` | none | schemas, views, scripts |

How they interact: the renderer calls the main process by IPC; the coordinator
calls the orchestration engine and the runtime; the runtime calls the store
synchronously (`node:sqlite`) and dispatchers asynchronously; dispatchers call
the supervisor, providers, git, memory. Every write appends to the audit chain
in its own transaction. There is one process and one JavaScript thread, so
handlers interleave only at awaits; a crash can fall between any two
transactions. A second start of the application is a second process on the same
database file until it has found that it is the second: `index.ts:431-432` asks
for it to quit, and `whenReady` still runs.

What makes it hard: the run's bookkeeping spans many transactions and one or
more awaits; checks made before an await are used after it; cancellation races
the answer; the store can refuse a write at any point (backup, full disk,
failed integrity check, closed at shutdown); a crash leaves remote effects of
unknown outcome that recovery has to account for; approvals expire between
being checked and being consumed; other programs change workspace files between
any two looks at them. `PROJECT.json` lists these hazards at their
lines, with the properties that cover them.

Per component, what makes it correct:

- runtime and store: no effect without a spent approval for exactly that
  effect; approvals spent once; calls on record before they are made; no claim
  of completion without evidence; history never rewritten; runs end; nothing
  is left live that nobody executes;
- audit chain: it is whole whatever writers, crashes and rollbacks do, tells
  exactly what the tables hold, and an altered record stops the writing;
  migrations apply once;
- backup and quarantine: after a crash at any point a database that was there
  can still be found;
- supervisor: one result per process, with its cause, and no tree left alive
  unnoticed; providers: answers in order, one final event, no output twice;
- planning: the plan is a topological order of the closure, evaluation blocks
  what policy denies; budgets of teams are not exceeded;
- memory: what expired or was forgotten is not recalled; coordinator: a result
  is never shown for another workspace;
- workspace: a search that is not marked as truncated has read everything, what
  the watcher was told of is delivered, a write that is not final can be undone;
- dispatchers: one answer per call, whose parts do not contradict each other.

## Modules

| Module | Models |
|---|---|
| `StoreRules` | status vocabularies and the two transition tables of the store |
| `Runtime` | `runtime-engine.ts` with the store's tables, startup recovery, cancellation, and the provider's answers |
| `RuntimeProperties` | type invariant, safety, action, refinement and liveness properties, with the postflight of `evaluation-engine.ts` (`Accepted`) that they judge by |
| `EffectLedger` | the abstract promise of approvals: a permit is granted for one effect, spent once, and the effect happens at most once |
| `MCRuntime` + `runtime_*.cfg` | small instances for TLC |
| `Calls`, `MCCalls` + `calls.cfg` | a call from both sides: `Runtime`, which awaits it, and `Dispatch`, which answers it |
| `RuntimeProofs` | TLAPS proofs about `Runtime`: types, approvals, the ledger of effects |
| `RuntimeRecordProofs` | TLAPS proofs about what `Runtime` records of a run |
| `ProcessSupervisor` | `run()` of `process-supervisor.ts`: one child, a descendant, the tree termination on POSIX and on Windows |
| `ProviderSession` | `execute()` and `recover()` of `reference-provider.ts`, as the adapter host passes them on |
| `Workspace` | `workspace-service.ts`, `workspace-watcher.ts` and `workspace-root.ts`: a search, a reading and a watcher of a tree that changes |
| `StepAnswer` | the abstract promise of dispatchers: what the runtime takes for granted of an answer |
| `Dispatch`, `MCDispatch` + `search_limit.cfg`, `watcher_mark.cfg` | the dispatchers of processes, Git, workspace and providers, each composed with the machine that does its work |
| `DispatchProofs` | TLAPS proofs about `Dispatch` and the machines it composes |
| `AuditedStore` | `store.ts`, `migrations.ts` and `audit-chain.ts` seen from one database file and the processes that open it |
| `StoreProofs` | TLAPS proofs about `AuditedStore` |
| `Backup` + `backup_refused.cfg` | `backup.ts`, the quarantine of `recovery.ts`, opening and closing of the store |
| `FileWriter` + `write_undone.cfg` | `AtomicWorkspaceWriter` of `file-hardening.ts` |
| `Disk`, `MCDisk` + `disk.cfg` | `AuditedStore`, `Backup` and `FileWriter` side by side, and a small instance of them |
| `DiskProofs` | TLAPS proofs about `Backup` and `FileWriter` |
| `Coordinator`, `MCCoordinator` + `coordinator.cfg` | `workspace-coordinator.ts`, the confirmation of a deletion in `index.ts`, and the purging of the store |
| `CoordinatorProofs` | TLAPS proofs about `Coordinator` |
| `Planning` | `preview()` of the orchestration engine: strategy, planner, policy, preflight |
| `Workflow`, `MCWorkflow` + `workflow.cfg` | the coordinated workflow on a plan of `Planning`: memory, agents' team, synthesis, evaluation |
| `WorkflowProofs` | TLAPS proofs about `Planning` and `Workflow` |
| `FoldFacts` | lemmas about induction, folds and sums that the proofs share |

`Runtime` composes the engine with the store's tables; `RuntimeProperties`
instantiates `EffectLedger`. `Dispatch` extends `ProcessSupervisor`, instantiates
`ProviderSession` and `Workspace`, and implements `StepAnswer`, which states what
the actions `LocalAnswer`, `LocalThrows` and `ProviderAnswer` of `Runtime` let an
answer be: that is how the runtime and its dispatchers meet. `Calls` has the
runtime and the dispatchers beside each other: they share no state, each behaviour
is of one of them, and what the runtime's fairness takes for granted, that its
calls are answered, is a property of the other side in the same run. `AuditedStore`,
`Backup` and `FileWriter` share no state; `Disk` picks one of them at the start
of a behaviour and lets it run alone. `Coordinator` takes from `Runtime` what
`execute()` and `cancel()` answer.
`Workflow` extends `Planning`: its runs take their steps from the plan that the
planner made of the published capabilities. What the runtime does around each of
its steps (approvals, evidence, checkpoints) is in `Runtime` and not repeated.

### Runtime: state and actions

| TLA+ | Code |
|---|---|
| `runStatus`, `runPlan` | `execution_runs.status`, `plan_id` |
| `approval[a]` | the `approvals` row: status, plan, step and descriptor (the action digest) |
| `attempt`, `request`, `resolved` | `provider_execution_attempts`: remote state, request digest, resolution actor; unique per run and step |
| `checkpoint` | `provider_checkpoints.status`; unique per run and step |
| `evidence` | `step_evidence.outcome` |
| `frame[r]` | the activation of `execute()`: program counter, loop position, the preflight's descriptors, the options, the abort signal, the last checkpoint and the result |
| `up`, `store`, `lapsed`, `descriptor` | the process, the store's ability to write, deadlines that passed, what each step would do now |
| `paid`, `sent` | history: the approval consumed for a step, the descriptor its dispatcher was called with |

`execute()` is cut at each transaction and at the await, because that is where
a crash, a failing write, a deadline or a drifting descriptor can fall. Between
awaits only the run on the thread moves (`ThreadFree` guards every other
handler). The labels of the program counter and their code:

| `pc` | Next code to run (`runtime-engine.ts`) |
|---|---|
| `created`, `approved` | 335-348, before the `try`: a refused write rejects `execute()` (`LaunchThrows`) |
| `step` | 362-386: dependencies, store health, revalidated descriptor, `consumeApproval` |
| `attempt`, `opened`, `dispatching` | 388-484: recovery checkpoint, attempt row, write-ahead `dispatching`, call |
| `await` | suspended: `EmitCheckpoint`, `Cancel`, or an answer |
| `unknown` | 787-810, `#finishUnknown` |
| `evidence`, `own`, `recovered`, `verdict` | 532-588: evidence, own checkpoint, recovery checkpoint, next step or end |
| `fail` | 589-601, the outer catch |

Each write is guarded by `Writable`; when the store does not write, the action
`WriteThrows`, `AttemptThrows` or `ProviderAnswerRefused` goes to the outer
catch, and `FailRun` tries to write in turn. `store = "readonly"` stands for a
store whose health check fails and for one closed by `before-quit`; `"full"`
for a write that throws for a while; `"backup"` for `createOnlineBackup`.
`Restart` is `index.ts` 441-470: it recovers only when the store is healthy.

A dispatcher compares its descriptor again when it is called and rejects when it
changed. The model lets `sent` record the call in that case too: the answer is
then one of the throwing answers, so this only adds behaviours.

Simplifications: every plan has the same steps `1..NSteps` in execution order;
what `describe()`, Policy and the revalidation say of a step is one value,
`descriptor[s]`, and digests are injective; a deadline is the event of its
passing; blocked and denied plans, which write none of these tables, are left
out; the events that each transaction appends are in `AuditedStore`.

### ProcessSupervisor: state and actions

| TLA+ | Code (`process-supervisor.ts`) |
|---|---|
| the child's and its descendant's life, the pipes | the operating system; `Fork`, `ChildExits`, `DescendantExits` |
| `Run`, `SpawnError` | the spawn and its `error` event |
| `Data`, `Capture` | 168-187, the output limit the two pipes share |
| `Abort` and `TimerFires`, through `CanTerminate` and `RequestTermination` | 211-224, the first request for termination decides the cause |
| `Close` | the `close` event, ignored once termination was requested |
| `GroupKill` on POSIX; `PoliteTaskkill`, `GraceEnds`, `ForcedTaskkill` on Windows | 241-297, `#terminateTree` |
| `OutcomeFor`, `Finish` | the outcome and the cause of the result, told once |

### ProviderSession: state and actions

A session awaits only the delay before each chunk, so `at` is `"delay"` or
`"idle"`; `output` is `ConsumeState.output` as chunk numbers, `point` its
checkpoint, `resuming` the stream's `recovering`, `begun` the checkpoint given
to `recover()`, `events` what was told to `onEvent`, `saved` the checkpoints that
the runtime's `emit` put into the store. `ChunkArrives` is one turn of
`#consume`, up to the next delay or the end; `Retry` the catch at 286-308;
`Stop` the abort or the time budget; `Crash` leaves `saved` only, from which the
next session may `Recover`. A checkpoint that does not match (`Stale`) rejects
after `started` was told, as in the code. Sizes are multiples of a chunk but for
the last one. An abort that precedes the session is left out: the code does not
notice it (see `runtime_cancel_stops`).

### Workspace: state and actions

| TLA+ | Code |
|---|---|
| `tree`, `content`, `gone`, `changed` | the file system: entries of each directory in the order of `readdir`, links included; what was removed or changed since the search was asked for |
| `stack`, `visited`, `files` | the activations of `visit()`, `visitedDirectories`, the candidates |
| `Enter`, `EntryFails`, `EnterDirectory`, `ListFile`, `EndOfDirectory` | `#listSearchableFiles()` (`workspace-service.ts` 151-254), one entry per step |
| `NextFile`, `OpenFile`, `ReadFile`, `Finish` | the loop of `searchLiteral()`, cut at its awaits; the result against its schema |
| `ReadText` | `readText()` as its dispatcher sees it |
| `pending` | `#pending`: what is collected under each key, a change or the overflow event, whose key is `Mark` |
| `Watch`, `Enqueue`, `Deliver`, `Close` | `SafeWorkspaceWatcher`; `Notified` is what `fs.watch` tells, with a name, without, or nothing, and `NotifiedAgain` what it tells of the same change once more |
| `Modify`, `Vanish` | other programs |

A file is its size, its matches and whether it is text. Ignore rules and refused
paths are entries that are not in the tree. Things the model makes visible and no
property forbids: a link to the root makes every search throw, since its relative
path is empty; a root that was replaced makes the remaining files be passed over
without a mark (`SearchIsHonest` excludes it); below the root only Windows
reports changes. Exported and tested, `SafeWorkspaceWatcher` has no caller in the
application yet.

### Dispatch: state and actions

`desk` and `given` are the call the runtime awaits and its answer. `Refuse` is
what is answered before anything starts; `StartProcess`, `StartSession`,
`StartWorkspace` begin the work, `ProcessStep`, `SessionStep`, `WorkspaceStep` let
it go on, and `Give` is the continuation after the await: `ProcessAnswer`
(`process-dispatcher.ts` 80-91), `GitAnswers` and `GitFailure` (`dispatchers.ts`,
`git-read-client.ts`: output that is cut or is no answer of Git is a failure),
`SessionAnswer` (`adapter-host.ts` with the remote state of the provider). What
belongs to the machines of other kinds keeps its initial value.

### AuditedStore: state and actions

| TLA+ | Code |
|---|---|
| `applied` | `schema_migrations`, in the order of insertion |
| `plans`, `runs`, `events` | `execution_plans`, `execution_runs`, `audit_events` |
| `lock`, `proc[p].tx` | SQLite's write lock and the transaction that holds it |
| `Start`, `LookUpMigration`, `ApplyMigration`, `VerifyOnOpen` | `open()`: each migration looked up outside of the transaction that applies it, then `quick_check` and the chain |
| `BeginRecoverRuns`, `RecoverRow` | `recoverOrphanedRuns()`, one row and its event at a time |
| `Request`, `Begin`, `Refuse`, `Commit`, `Rollback` | a mutation: `#assertWritable`, `BEGIN IMMEDIATE`, the row and its event, the end |
| `Rot`, `Tamper`, `Leave` | damaged pages, a rewritten or a missing last event, the death of a process |

A digest is the sequence of the contents up to its event, so that digests are
injective as SHA-256 is taken to be. What can be seen in the model and no
property forbids: migrations run before the checks for damage; a chain whose tail
was cut is valid; the loser of a race for a migration opens for reading only; a
build ignores migrations it does not know; a second start may recover, as
orphans, runs that the first is executing.

### FileWriter: state and actions

`file` is the content of each file, `journal` the recovery directory, `call` the
call under way, which is synchronous for its caller but not for the disk: a crash
or a refusal (`Fails`) falls between any two of `BeginWrite`, `SaveJournal`, `Place`,
`CheckWrite`; `RollbackWrite`, `Restore`, `RemoveJournal`; `BeginRecovery`,
`RecoverNext`, `EndRecovery`. Journals are recovered in any order, since their
names are random. `Edit` is another program and `Corrupt` a damaged journal.
`replaced`, `settled` and `blurred` are history for the properties; a file is
blurred when others changed it during a write, or two writes of it are pending.
A caller with a snapshot that no longer matches is refused before anything is
done. Not forbidden, and visible: two pending writes of one file are undone in
the order of their random names; a write that failed leaves its journal, and one
journal that cannot be undone stops the recovery of all that follow; a change
between the last look at the target and the rename is overwritten. Nothing in
the application uses the writer yet (`docs/security/threat-model-m7.md:21`).

### Backup: state and actions

`disk[d][p]` is the content of the database file or its log in the active
directory, the backup, and the staging, rollback and quarantine directories of
each incident: which database it is of (`gen`), its last transaction (`upto`)
and whether it is whole, half copied, altered or broken. `task` is the procedure
that runs. Each action is one operation on the disk: `BeginBackup`, `EndCopy`,
`WriteManifest` are `createBackup`; `BeginActivation`, `Stage`, `MoveAside`,
`Place`, `Verify` are `activateBackup` and `RenameRefused`, `RemoveActive`,
`PutBack`, `RemoveStaging` its catch and finally blocks; `BeginQuarantine` and
`QuarantineMove` are the loop of `openPersistenceWithRecovery`. The `-shm` file
moves with the log and is left out. `Damage` strikes files of a closed database.
Activation and quarantine run without an open store; nothing in the application
calls `createBackup` or `activateBackup` yet, they are exported and tested.

### Coordinator: state and actions

`session`, `preview`, `run` and `approval` are the four maps of the coordinator,
`executing` the runs that its runtime executes, and `planRow`, `runRow`,
`approvalRow`, `retained` the rows of the store. Each handler runs to its end
without an await, but for the deletion: its handler in `index.ts` awaits a dialog
(`asked`), so its answer may come after another workspace was opened or a run was
started. The continuation of `execute()` runs before any other
handler, so each is one action. `OpenWorkspace` purges before it knows whether
the folder can be opened; `ExecutionEnds` writes the row, then shows the result
(`Presented`), or what the catch shows (`Rejected`) when the result cannot be
evaluated, recorded or parsed. Reads, exports and the readonly views change
nothing of this and are left out, and so is a store that cannot be read. One
dialog is open at a time.

### Planning: state and actions

`preview()` has no await, so its intermediate states cannot be seen from outside;
its recursion is nevertheless cut into steps, because that is how an arbitrary
graph with cycles, gaps and a limit is walked. `registry` is the session's
registry; `goal` the route the strategy selected (`Select`,
`strategy-engine.ts`); `stack` the activations of `visit()` with the
dependencies left in their loops, so that `visiting` is what the stack holds and
`visited` what was `ordered` (a faulty capability is in neither, and may be
visited again, as in the code). `Visit` is a call with its early returns,
`Leave` the end of one (`execution-planner.ts` 117-136). `Evaluate` is the
preflight with the policy's decisions. Arrays are sets, whose elements are taken
in any order; scores are abstracted, so any eligible route may win. The plan is
compared with declarative definitions: `Closure`, `DependenciesEarlier`,
`Unfit`.

### Workflow: state and actions

| TLA+ | Code |
|---|---|
| `memory` | `memory_entries`, by `created_at` |
| `open` | the workspace of the coordinator's session, the namespace of new runs |
| `run[r].step`, `.limit` | the loop position of the runtime, the output limit of the provider call in flight |
| `run[r].answers`, `.output`, `.replans`, `.candidate` | `AgentTeamResult` and `WorkflowCandidate`: contributions, bytes, repairs, the last response |
| `Recall`, `Commit`, `Forget`, `OpenWorkspace` | `memory-service.ts`, `store.ts` 1175-1305; opening prunes what expired |
| `CallRole`, `Answer`, `CallFails`, `Cancel` | the loop of `AgentTeam.execute()` (and `repair()`), cut at its await |
| `Synthesize`, `Repaired` | `WorkflowEngine.synthesize()`, cut at the await of the repair |
| `EvaluateResult` | `WorkflowEngine.evaluate()` |
| `StoreRefuses`, `Crash`, `Expire` | the outer catch of the runtime, the recovery at startup, a deadline |

A cancellation that arrives when the call succeeds all the same is an `Answer`:
nothing notices it until the next role, and after the last role nothing does
(see `runtime_cancel_stops`). Response sizes are in a small scale where the floor
of 256 bytes is 2; input bytes, cost and time, which are budgeted in the same
way, appear as calls that fail. Forgetting has no caller in the application yet;
`MemoryService.forget` is exported and tested. Opening a workspace also purges, by
its retention, the `memory_entries` of the runs it deletes
(`workspace-coordinator.ts` 145-152, `store.ts` 1509-1559). These runs go
with them, so no run is left to compare such entries with: the
purge is left out of `Workflow` and modelled in `Coordinator`, without memory.

## Runs

| Run | Checks | Bounds |
|---|---|---|
| `runtime_approvals` | `EffectsAuthorised`, `ApprovalsSpentOnce`, `NothingLiveLeftBehind`, `ImplementsLedger` | 2 runs of 1 plan, 1 provider step needing approval, 2 approvals, 2 descriptors, crashes |
| `runtime_recovery` | `CallsOnRecord`, `DependenciesFirst`, `CompletedMeansEvidence`, `EvidenceMatchesAttempt`, `CheckpointsOutliveDoubt`, `HistoryIsFinal` | 2 runs of 1 plan, a provider step then a local step, no approvals, all store faults, crashes |
| `runtime_cancel_race` | `EndsUnknownWithoutEvidence`, found violated | 2 runs, 1 provider step, no crash, no fault |
| `runtime_cancel_stops` | `CancellationStopsPlan`, found violated | 2 runs, a local step then a provider step, no crash, no fault |
| `calls` | of processes: `OutcomeTellsCause`, `ConfirmedTreeIsDoomed`, `CauseIsFinal`; of providers: `ResponseIsWhole`, `StreamIsWellFormed`; of the workspace: `SearchIsHonest`, `WatcherCovers`; of all: `AnswersAsPromised` (refinement of `StepAnswer`), `CallsAreAnswered` (liveness); of the runtime: `RunsSettle` (liveness) | one call of each kind; one descendant, both platforms, an output limit of 2 chunks; a response of 3 chunks, the last one shorter, budgets around it, 3 sessions, every scenario; trees of 3 directories and up to 4 files with links in a circle and to the root, 2 changes, budgets that 2 or 3 files reach, a watcher that overflows at the third name, one of the files named as its mark; the runtime as in `runtime_recovery`, without store faults |
| `watcher_mark` | `UncertaintyIsTold`, found violated | the same watched workspace |
| `search_limit` | `SearchAnswers`, found violated | 4 files in nested directories, of which a search may list 3; nothing changes |
| `disk` | of the store: `ChainIsWhole`, `TrailTellsState`, `MigrationsApplyOnce`, `DamageStopsWriting`; of its file: `OpenIsWhole`, `DatabasesKept`, `NothingLost`, `ActivationAtomic`; of workspace files: `JournalCoversWrites`, `RecoveryUndoes` | store: 2 processes (symmetric) of builds with 1 or 2 migrations, 1 run, 4 events, one damage; backup: 3 databases, 2 transactions each, 2 activations or quarantines, 2 crashes, a refused rename of the log or of the copy; writer: 2 files, 2 writes, 2 contents of which one is empty, 2 crashes, 1 change by others at any time |
| `backup_refused` | `DatabasesKept`, found violated | one activation whose first rename is refused, no crash |
| `write_undone` | `OnlyOwnIsUndone`, found violated | the same writer with 1 crash and 1 change, never during a call |
| `coordinator` | `LiveMeansExecuting`, `SessionIsOfOneWorkspace`, `PurgeIsWhole`, `ShownAsItEnded`, `DecisionsAreOfTheSession` | 2 workspaces, 2 plans, 2 runs (symmetric), 1 approval, 1 crash, one deletion dialog at a time, a store that may refuse |
| `workflow` | `PlanIsOrdered`, `VerdictIsRight`, `BudgetsHold`, `MemoryIsEarned`, `RecallIsCurrent` | every graph of 3 capabilities, one of them on, off or absent; every pair of 9 actions of a capability and its dependency; the published route, with one capability more than `MaxSteps`; explicit and routed requests of every profile and privacy; 2 runs (symmetric), 2 budgets, sizes 1 to 3, 2 namespaces, memory empty or with one entry |

Why the bounds are enough: the hazards involve a run against one other run (for
an approval, a plan or a checkpoint), a step against the one before it, and an
approval against a competing one; two of each make every pair. A third run or
step brings no new kind of pair. Two descriptors are enough to drift and drift
back. One descendant is enough for a tree to outlive its root. Three chunks are
the fewest with a first, a second (where the transport breaks) and a last, and
three sessions resume a resumed one. Two processes are
enough for one to fall between two statements of another, two builds for an older
and a newer, four events for a run's whole life with its preview and its
recovery. Three directories nest a listing twice and close a circle; two changes
remove a file and change another within one search. Two writes meet on one file
or on two. Two incidents let an activation follow a
quarantine and two crashes cut a recovery from a crash. Two workspaces and two
plans give a session something to confuse. Three capabilities make every cycle,
shared dependency and chain that `visit()` distinguishes; two runs make an entry
that one recalls while the other commits. The theorems below remove the bounds
for the properties they state.

`runtime_cancel_race` is a disagreement of code and documentation:
`docs/architecture/runtime-and-approvals.md` says that a run that may have made
a remote call and has no terminal evidence ends in `remote_state_unknown`. When
`cancel()` is recorded while the provider is succeeding, the transition table
refuses `cancel_requested -> succeeded`, the exception reaches the outer catch
and the run ends `cancelled`, without evidence, with its attempt left in
`cancel_requested`; recovery, which reads running runs only, never sees it.
`NothingLiveLeftBehind` states the exception precisely: this is the only way an
attempt is left live.

`runtime_cancel_stops`: the same document says that cancellation stops the plan.
The loop of `execute()` never looks at the signal; it is up to the dispatcher of
the current step. When that step ignores the signal and succeeds, the next step
is dispatched, a provider call included, and the reference provider only listens
for a later abort.

The security architecture says that a run is `orphaned` unless the end of the
process tree is confirmed. On Windows the code confirms it when either
`taskkill` answers zero, or when the child's own pid is gone, while a process of
the tree may survive. `ConfirmedTreeIsDoomed` states what does hold: a confirmed
tree was sent a signal or had ended, and but for these two cases of Windows it is
what `docs/security/security-architecture.md:88` and ADR-0004 say.

`search_limit`: the documentation of the workspace says that a search goes
through up to 5000 files and that reaching a budget marks the result as
truncated. The `break` at the limit (`workspace-service.ts:244`) leaves one level
of the recursion; each directory around it lists one file more before its own
`break`, and the result with 5001 files is refused by its own schema: the search
throws where it should answer.

`watcher_mark`: ADR-0010 says that an uncertain state is expressed as `overflow`.
The overflow event lies in the map of the collected changes, under the key
`"overflow"` (`workspace-watcher.ts:69`), and a change of a file of that name at
the root takes its place (71): the listener is told of this file, and of nothing
that the overflow had cleared. `WatcherCovers` says what does hold: until it is
delivered, each change is there by name, or there is an event under that key.

`write_undone`: ADR-0010 says that a rollback or a recovery is refused when the
target no longer is what was written. They compare digests only, and a missing
file has the digest of an empty one. After an empty write, a file that somebody
deleted is put back. In `disk` others may change files during a write or a
rollback too, and `RecoveryUndoes` says what is promised of the files they leave
alone.

`backup_refused`: ADR-0010 says that an activation keeps the database it
replaces. When the very first rename fails the database is still at its path,
and the catch block removes it (`backup.ts:232`) with nothing to put back. The
run `disk` lets the other renames fail, and there the database comes back.

`NothingLost` excludes a crash that cuts an activation or a quarantine in two
(`cut`): SQLite then opens a fresh database at the empty path and deletes the log
it finds beside it. `DatabasesKept` says that even then no database file is gone.

Deadlock is checked off where the system really stops: in the two cancellation
runs once both runs have ended, in `calls`, `search_limit` and `watcher_mark` once a call
was answered (a provider's once the sessions allowed are over), and in `disk` where a
broken database meets the bound on incidents, the events their bound, or the
writer has no id left. Elsewhere the person, the world or
a restart always has a step to take.

Fairness is stated in `Calls`, for the runtime and for the dispatchers. For the
runtime, weak fairness of each run's own steps, because the event loop resumes
what is ready, and of its dispatcher's answer, which is what `CallsAreAnswered`
says of the other side. Nothing is assumed of the person, of deadlines, of the
store's recovery or of the application being started again, so `RunsSettle` says
that a running run ends or the process goes down. For the dispatchers
(`DispatchFairness`), that the event loop and the timers go on: weak fairness of
the supervisor's steps, whose `taskkill` answers or is given up after two
seconds, of the provider's delay, of the search, and of the continuation after
an await. Nothing is assumed of the processes themselves, of the file system's
changes, nor that anybody aborts; `CallsAreAnswered` follows because every
process has a timeout. `AuditedStore`, `Backup`, `FileWriter`, `Coordinator`,
`Planning` and `Workflow` state safety only.

## Proofs

`RuntimeProofs` proves, for all constants that satisfy `ConstantsAssumption`:

- `TypesHold`: `Spec => []TypeOK`, one lemma per group of actions;
- `PaymentsInOrder`: `Spec => []PayInv`, the inductive invariant;
- `NoUnauthorisedEffect`: `Spec => []EffectsAuthorised`;
- `NoApprovalSpentTwice`: `Spec => []ApprovalsSpentOnce`;
- `EffectsOnLedger`: `Spec => ImplementsLedger`, the refinement.

`EffectsAuthorised` is not inductive: it says nothing of a run that has paid and
not acted. `PayInv` adds, per run, that the steps ahead of it are unpaid and
have not acted (`AheadInv`), that a run between paying and acting holds a
consumed approval for exactly what it planned (`PaidInv`), and that launched
runs carry approvals for the steps that need them (`LaunchInv`). Most actions
are "calm" (`Calm`): they leave payments alone and bring no run nearer to
acting; one lemma covers them all. The interesting steps are consuming an
approval (it was granted, so no step had been paid with it), dispatching (what
is sent is what was planned) and the next step (which was ahead).
`NoApprovalSpentTwice` is inductive with `PayInv`. The ledger's permits, spendings
and effects are functions of `approval`, `paid` and `sent`, so the refinement
shows of each action what it does to them: granting, consuming and dispatching
are the ledger's actions, whose guards `PayInv` gives, and all others stutter,
an expiry, a refusal or a drifted descriptor included, since a permit is for
what was planned.

`RuntimeRecordProofs` adds, under the same assumption:

- `RecordsInOrder`: `Spec => []RecordInv`, the inductive invariant;
- `CallsAreOnRecord`, `DependenciesComeFirst`, `CompletedIsDone`,
  `EvidenceIsTheAttempts`, `CheckpointsOutlive`, `NothingLiveIsLeft`: the
  invariants of the runs `runtime_recovery` and `runtime_approvals`;
- `HistoryStays`: `Spec => HistoryIsFinal`, an action property.

Each of these speaks of rows at rest; the code writes them one transaction at a
time. `RecordInv` says, per run, what the rows of a step say of each other
(`StepInv`), which status goes with which point of `execute()` (`StatusInv`),
what is recorded of the current step at each of its points (`CurrentInv`), that
the steps behind have succeeded and those ahead are untouched (`PathInv`), and
that a step which resumes another run's call has the same request of the same
plan (`ResumeInv`). Since a step changes one run, `OneRunKeeps` reduces each
action to that run; a crash, a restart and a person's resolution are the steps
that meet a run at any point. `HistoryStays` needs the guards of the
transition tables only where the engine writes, and `CurrentInv` where it does
not look. `NothingLiveIsLeft` has an invariant of its own, `LiveInv`: it says
what `execute()` leaves when it ends or is on its way to the outer catch, and
that an unknown call is one of an orphaned run, or of a run that is about to be.

`WorkflowProofs` proves of `PlanSpec` of `Planning`, for all constants that satisfy
`PlanningAssumption`:

- `PlanTypesHold`: `PlanSpec => []PlanTypeOK`;
- `PlansAreOrdered`: `PlanSpec => []PlanIsOrdered`, for every graph of
  capabilities, with cycles, gaps and shared dependencies, and every limit.

`PlanIsOrdered` speaks of the finished plan; `PlanInv` says what holds in the
middle of the walk. `OnceInv`: no capability is on the stack twice, or both on
it and planned. `NeededInv`: the stack and the plan stay within the closure of
the route. `WholeInv`: while there is no issue, each dependency of an activation
is planned, or in its loop, or visited by the activation above it
(`Accounted`), and so for the route (`RootAccounted`), and the plan is in
order. A call that returns at once, a call that goes deeper and the end of an
activation each have a lemma. At the end the stack is empty, so the plan has the
route and is closed under dependencies, and `ClosureFacts` (the closure is the
least such set) gives both inclusions.

- `VerdictsAreRight`: `PlanSpec => []VerdictIsRight`.

`JudgeInv` adds to `PlanInv` that the route is an eligible candidate or there is
none (`GoalInv`), that each activation is for something those below it depend on
(`PathInv`), and that every issue is so (`IssueInv`): a cycle was found on one,
by `PathInv`, and the limit was met by a route with more capabilities than
steps. Conversely a plan without issues has no cycle and is within the limit
(`NoComplaints`): the capabilities before each step are closed under
dependencies and do not have the step, so it is not in the closure of what it
depends on. That capabilities are counted needs `IsFiniteSet(Capability)`, which
`PlanningAssumption` states because the registry is a `Map` built from an array.

And of `Spec` of `Workflow`, runs, memory, crashes and the planner together, under `WorkflowAssumption` and `PublishedAssumption`:

- `WorkInOrder`: `Spec => []WorkInv`, the inductive invariant;
- `MemoryWasEarned`: `Spec => []MemoryIsEarned`;
- `PlansStaySound`: `Spec => [](PlanIsOrdered /\ VerdictIsRight)`;
- `BudgetsAreKept`: `Spec => []BudgetsHold`, from `BudgetsInOrder`;
- `RecallsAreCurrent`: `Spec => RecallIsCurrent`, an action property.

`PublishedAssumption` says of a registry whose evaluation is in use what the
descriptors in `packages/workflows`, `memory` and `agents` declare: evaluation
depends on commit, commit on synthesis, synthesis on the team. From it and from
`PlanIsOrdered`, `Positions` derives that the four steps are in the plan once
and in that order, whatever else is. `MemoryIsEarned` says nothing of a run
before its commit: `RunInv` says that a run is past the synthesis only with a
good candidate and has a call in flight only before that, so that no run that
fails or is cancelled in a call has an entry; `EntryInv` and `CommitInv` tie an
entry to a run that is past its commit, in both directions.

`BudgetsHold` is not inductive: a repair is one call more, and only
`CallsInv` says that a run has made none before its synthesis and makes one
there only with a budget for it. The share of a role is at most what is left
(`ShareIsLeft`), and the least output is given only if that much is left. A recall
fits because the entries up to its oldest do (`RecalledFits`), and goes on fitting
because entries only shrink (`EntriesShrink`): forgetting empties them, and nothing
is inserted but at the end (`NextGrows`). That a recall is of the workspace of the
session needs `RecallInv`: the workspace does not change under a run that executes.

`DispatchProofs` proves first of the supervisor, for all constants that satisfy
`SupervisorAssumption`, of its `Spec` (no fairness):

- `SupervisorTypesHold`, `CausesAreTold`, `ConfirmedTreesAreDoomed`: the
  invariants `TypeOK`, `OutcomeTellsCause` and `ConfirmedTreeIsDoomed`;
- `CausesAreFinal`: the action property `CauseIsFinal`.

The inductive invariant `SupInv` adds what the stages say of each other: a
termination under way has a cause, a started child and an unsettled promise, the
polite and the forced `taskkill` are Windows' (`StageInv`); a child that is gone
has an exit code and does not come back (`ChildInv`); no more is captured than was
written (`OutputInv`), from which `CaptureFacts` derives that a chunk which just
fits is not told to be truncated. `CausesAreFinal` follows from `StageInv`: each
step that gives a result needs an unsettled promise.

Then of `DispatchSpec`, under the assumptions of the modules it composes:

- `AnswersInOrder`: `DispatchSpec => []AnswerInv`, the inductive invariant;
- `DispatchersKeepPromises`: `DispatchSpec => AnswersAsPromised`, the refinement
  of `StepAnswer`;
- `ResponsesAreWhole`, `StreamsAreWellFormed`, `WatchersCover`,
  `SearchesAreHonest`: the invariants `ResponseIsWhole`, `StreamIsWellFormed`,
  `WatcherCovers` and `SearchIsHonest`.

The refinement maps each step to an `Ask`, `Abort`, `Give` or `Lose` of the
promise, or to a stutter. What is given must be `Promised`, and that takes what
the machines know: a settled process has an outcome, and its tree is gone if it
succeeded (`SettledInv`); a session that ends as cancelled was stopped by an
abort (`StopInv`), as was a search (`SearchInv`); and a session under way has a
call that waits for it (`DeskInv`), so no answer comes to nobody.

`ResponseIsWhole` says nothing of the checkpoints in the store, from which a
later session goes on: `ResponseInv` adds that none of them lies beyond the
budgets of the request, and that the point a running session resumes from is
where its response ends. `StreamIsWellFormed` follows from `StreamInv`, which
gives the stream as one sequence of its start, a part per chunk and its end;
that a chunk and its checkpoint at the end of that sequence make the sequence of
one more chunk is `BodyGrows`. `WatcherCovers` is inductive, for any names: that
one of them may be the overflow event's own key is why it does not say that this
event is still there.

`SearchIsHonest` speaks of the end of a search; `HonestInv` says what makes it
true before. While the tree is listed (`ListingInv`), the calls of `visit()` that
have read their directory are each of another one, so a directory is read once
(`StackInv`), and every candidate lies before the entry its directory is at, so it
is listed once (`ListedInv`). `PassedInv` is the heart: unless the listing was cut,
each entry that a call is beyond is done with, a file by being a candidate or
changed, a directory by being visited, gone or on the stack. With an empty stack the
directories visited or gone then hold the root and what they lead to, and by the
assumption on trees all files are in them (`EndOfListingKeeps`). While the candidates
are read (`ReadingInv`), a text file that was left alone has been read or is still
a candidate, and the matches are the sum over what was read, which takes
`SumRemove` of `FoldFacts`. `TreeInv` is what the file system does meanwhile. The
assumptions on a workspace (`WorkspaceParameters`) say that the root leads to every
file, that a path is one entry of one directory, and that files are not directories.

`DiskProofs` proves of the writer, for all constants, without an assumption:

- `JournalsCover`: `WriterSpec => []JournalCoversWrites`: a write that replaced a
  file has a journal until it is final or undone, with what it replaced unless
  others changed the file meanwhile;
- `RecoveriesUndo`: `WriterSpec => []RecoveryUndoes`.

Neither is inductive: the first says nothing of the instant before a write
replaces a file, the second nothing of a recovery under way. `WriterInv` adds
the types (`WriterTypes`, with what an entry of the journal holds); what the call
under way is about, so that the journal it wrote is the one that the replacement
needs, and that a recovery has on its list exactly the journals that are left
(`CallInv`); that an id not given out has left no trace (`FreshInv`), so a new
write overwrites no journal; and that a file nobody else has touched holds its
settled content or, between the journal and the end of the one write that is
pending on it, what that write has put there (`UndoInv`). One lemma per action
keeps all six. Removing a journal and refusing one in a recovery are the hard
steps: `UndoInv` shows that the file was restored first, and that a refusal
means a change by others or a damaged journal. TLC checks `WriterInv` as an
invariant first.

Of the database file it proves, for all constants that satisfy `DiskAssumption`:

- `OpenedIsWhole`, `DatabasesAreKept`, `NothingIsLost`: the invariants
  `OpenIsWhole`, `DatabasesKept` and `NothingLost` of the run `disk`;
- `ActivationsAreAtomic`: `DiskSpec => ActivationAtomic`, an action property.

Each has the hypothesis `"move main" \notin Refusable`: the first rename of an
activation is not refused. It is the one refusal that makes them false, as
`backup_refused` shows; every other operation may be refused, in any combination,
and a crash may fall between any two.

None is inductive, since an activation takes the disk apart before it puts it
together. `BackupInv` says where everything is meanwhile. `MovingInv` follows
what the activation found through its places: still there (`InPlace`), the file
moved and the log not (`HalfMoved`), both moved (`Moved`), and in the catch block
whichever of them `task.moved` names (`MovedOrInPlace`, `LogBack`); that `moved`
and the disk agree at each step is what makes the catch block right. `CopyInv`
follows the copy that comes in, `QuarantineInv` a quarantine, whose directories
are empty when it starts because numbers of incidents are used once
(`IncidentInv`). `OpenInv` says that a log beside a database is its own, and
that what is found at the start of an activation is not torn. `KeptInv` and
`WholeInv` say for each database that was ever active where it is, and, if no
crash has cut an activation in two, where it and its log are whole, by the point
that has been reached. One lemma per action keeps all eight.

That an open database has every transaction committed to it, even after crashes
that cut an activation or a quarantine, needs one part more: `EntireInv` says
that whatever database is at its place is `Entire` with its log at every instant,
as is the one that an activation found and may put back, which is of another
generation than the copy, so that removing the copy takes nothing from it. What a
quarantine loses to a crash is therefore never at the place again.
`NothingIsLost` claims nothing once a crash has cut an activation or a quarantine
(`cut`): the log left behind may then be lost, as said under Runs.

`StoreProofs` proves, for all constants that satisfy `StoreAssumption`:

- `StoreInOrder`: `Spec => []StoreInv`, the inductive invariant;
- `ChainsAreWhole`, `MigrationsAreOnce`, `DamageStops`, `TrailsTellState`: the
  invariants `ChainIsWhole`, `MigrationsApplyOnce`, `DamageStopsWriting` and
  `TrailTellsState`.

A chain is valid event by event, each by what the one before it says, and that is
how `ValidIsLinked` and `AppendedLinks` put it. `WritingInv` says that the
transaction under way is the only one and continues the chain, so that what it
commits does, and a rollback leaves the chain as it was. `OpeningInv` says
how far a process that opens the file has come: it looks a migration up outside
of the transaction that applies it, and the insertion of one that is there by
then is refused, so the migrations are always an initial segment. `LateInv` says
that a process which has ended a mutation after the damage is cleared for no
other, since the next is cleared by a health check that shows the damage
(`DamageShows`). `TrailTellsState` says nothing of a transaction under way:
`TrailInv` says that the chain with what the transaction is going to append
replays to the tables that it is going to leave (and that runs have plans, which
makes a purge tell all that it removes). One event more is one step more of the
replay (`ReplayAppended`), and what each mutation tells is what it does (`AfterIsTold`).

`CoordinatorProofs` proves, for all constants that satisfy
`CoordinatorAssumption`:

- `SessionInOrder`: `Spec => []CoordinatorInv`, the inductive invariant;
- `LiveIsExecuting`, `OneWorkspaceAtATime`, `PurgesAreWhole`, `EndsAreShown`:
  the invariants of the run `coordinator`;
- `DecisionsHold`: `Spec => DecisionsAreOfTheSession`, an action property.

The four invariants are inductive together once it is known that an id is used
once (`IdsAreUsed`), so that a new preview or run meets no row of an older one,
and that what the session holds agrees with its rows, where there still are any
(`RowsOfTheSession`). One lemma (`PurgingKeeps`) covers the purge that opening
a workspace and confirming a deletion share.

`FoldFacts` has what these proofs need of the folds of the community modules. The
induction theorems of the library take a predicate as a parameter, which the
provers cannot instantiate; `Induction` and `SubsetInduction` put them in terms
of a set, from the well-foundedness of `<` on the naturals. From them come the
greatest and the least of a finite set, that a fold over a set is the last value of
a run of partial ones (`RunExists`, `RunsAgree`), and how a sum changes when an
element is removed or the summands shrink (`SumRemove`, `SumAtMost`).

Model-checked only:

- liveness (`RunsSettle`, `CallsAreAnswered`), which is out of the prover's reach;
- that `Backup` meets its promises as far as it can when the first rename is
  refused: the finding says it does not.

No module uses RECURSIVE operators.

## Plan

Done: every module of the system's core, and the theorems above.

Still to do, where it says most: views of the workspace and of the coordinator, if
they come to hold state.

## Not modelled

- The renderer, which holds no state the main process relies on, and the build,
  release and test scripts.
- Provider conformance and publication: a harness that runs adapters against
  scripted scenarios, tables, and pure predicates over them.
- Provider configuration, a small file replaced by one rename, and the update
  check, a predicate nothing calls yet.
- Windows, other dialogs than the confirmation of a deletion, and the
  registration of IPC handlers; views that only read.
- Schemas, beyond the vocabularies in `StoreRules` and the one limit that
  `Finish` of `Workspace` checks.
- The parsing of Git's records, ignore rules and path normalisation: pure
  functions of strings, of which the models keep the outcome.
