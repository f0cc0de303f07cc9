# Formal models of pi-extensions

This directory holds TLA+ models of the extensions in this repository, the TLC configurations that check them on small instances, and theorems about them that TLAPS checks for every value of the constants. `PROJECT.json` lists every component, run, mutant, theorem and hazard, and maps each definition to the lines it models.

The repository is a monorepo of some forty extensions for the Pi coding agent. Most of them format, display or forward something. Four of them coordinate actors that can interleave, fail and come back, and those are modelled: `pi-sync` merges configuration files of several devices through a remote store, survives crashes with journals and excludes concurrent runs with lock files; `pi-subagents` lets a main agent and its child processes wait for each other; `pi-accounts` shares refreshed credentials between processes; `pi-goal` keeps an agent working without its user.

## 1. Inventory

### pi-sync (`src/packages/pi-sync/src`)

| Part | State | Operations | Module |
|---|---|---|---|
| Merged transfer (`sync/merged-sync.ts`, `merge-journal.ts`, `merge-apply.ts`, `file-merge-planner.ts`, `conflict-groups.ts`, `partial-progress.ts`, `state/merge-baseline-store.ts`) | local files, the state file with its baseline, the merge journal, the remote snapshots and their head | observe, plan, review, journal, publish, confirm, resume, apply, record | `MergedSync`, `ThreeWaySync` |
| Operation lock (`state/lock.ts`) | the lock file, the guard directory | `withLock`, startup recovery, `unlock`, `unlock --stale` | `SyncLock` |
| Snapshot transaction (`snapshot/snapshot-transaction.ts`, `snapshot-transaction-plan.ts`, `snapshot-apply.ts`) | files and directories, backup, journal, staging files | prepare, remove, install, complete, roll back, recover | `SnapshotTransaction` |
| Object-store backends (`backends/s3`, `backends/webdav`) | `latest.json`, `history.json`, `snapshots/` | probe, publish, history, repair | `PointerBackend`, `RemoteHead` |
| Git backend (`backends/git`) | one owned branch, a private cache | fetch, commit, push with lease, history | `GitBackend`, `RemoteHead` |
| Directional transfers (`sync/sync-mutations.ts`) | state file, local files | push, pull, rollback, initialise | planned |
| Automatic sync (`sync/automatic-sync.ts`, `continuous-*.ts`) | a lease, a record on disk, watchers, timers | elect a session, debounce, run, back off | planned |
| Agent sync (`sync/agent-*.ts`) | a request, a candidate | propose, review, accept | planned |
| Content merging (`sync/settings-merge.ts`, `text-merge.ts`, `json-document.ts`, `session-merge.ts`, `local-fields.ts`) | none | pure functions of three texts | not modelled: a file's content is one value |
| Settings and their migration (`settings/`) | settings files | parse, validate, migrate | not modelled |
| User interface and commands (`ui/`, `commands/`) | dialogs | | not modelled |

How they interact. Every mutating operation runs under the operation lock. A startup first recovers pending snapshot transactions and merge journals, then syncs. A merged transfer calls one backend: `readHead`, `readSnapshot`, `publishSnapshot`. The answer of `publishSnapshot` is one of *published*, *conflict before the commit*, *conflict after the commit*, *outcome unknown*; the journal is kept unless the candidate is certainly not active. A directional pull or rollback installs a whole snapshot with a snapshot transaction; a merged transfer replaces files one by one. Pi's own tools take the file queues these two hold; other programs do not.

What is hard, and what makes each part correct:

- *Merged transfer.* Other devices publish between any two reads; a PUT may be served after its sender gave up; users edit while a sync runs; a crash may come between any two writes. Correct means: no user's version disappears, a publication replaces only what its publisher had accepted, a baseline only holds what was active remotely, the journal explains every half-applied state, and every journal is eventually resumed or waits for a person.
- *Operation lock.* Owners crash, sleep through the expiry of their guard, and leave half-written lock files. Correct means: never two operations at once, nobody removes the lock of a running operation, and `unlock --stale` always gets the lock free.
- *Snapshot transaction.* Five files cannot be replaced in one step. Correct means: after a crash the group is complete or undone as a whole, bytes that are in neither image are never touched, and a user's deletion is told from an unfinished removal.
- *Backends.* Correct means a compare-and-swap of the head out of conditional PUTs or a push with a lease, with lost and late answers, and a history in which nothing gets lost.

### Other extensions

| Extension | State | Operations | Module |
|---|---|---|---|
| `pi-subagents` (`runtime.ts`, `message-broker.ts`, `process.ts`, `child-communication-bridge.ts`) | jobs and their processes; tokens, requests and connections of the broker; waits of the main agent | start, cancel, finish, shut down; request, steer, answer, wait on both sides | `SubagentMessaging` |
| `pi-accounts` (`accounts.ts`, `runtime-auth.ts`, `account-store.ts`, `storage.ts`) | the shared credential file and its lock; per session the synchronisations, Pi's key, the queue of its changes, the offer to other extensions | log in, remove, select, read, refresh, set, verify, publish, clear, shut down | `AccountRefresh` |
| `pi-goal` (`runtime.ts`, `lifecycle.ts`, `commands.ts`, `tools.ts`) and the workflow mutex it shares with `pi-plan-mode` | the goal, the intent to continue, the delivery under way, cancelled markers, the run and its origin, waits and their timers | start, replace, edit, pause, resume, clear; input, start and end of runs, settling, dispatch, deadlines, restart | `GoalLifecycle` |
| `pi-plan-mode` | plans, their tools and menus | | only its use of the mutex, in `GoalLifecycle` |
| `pi-fleet` | local transport between sessions, spawn and connect handshakes | | planned |
| the others | display, formatting, one request to an external service, adapters to external tools | | not modelled, one line each in `PROJECT.json` |

How they interact. The four do not call each other. `pi-goal` and `pi-plan-mode` share the workflow mutex, a value on `globalThis`; each takes it when it activates and releases it when it stops. Everything else goes through Pi: an extension sends a prompt, and Pi announces it, queues it behind a run of somebody else's, or starts a run with it. A child of `pi-subagents` speaks to the broker over one socket per call; the main agent speaks to the child over RPC, which the child reads only while none of its tools runs. Sessions of `pi-accounts` meet only in the credential file.

What is hard, and what makes each part correct:

- *Subagents.* Both sides may block on the other, and what would unblock them can arrive just before or just after they block. Correct means: the main agent never waits for a job whose child waits for it; no response is missed; a child with an unread request is not left parked; an answer survives a broken connection and is the same when it is asked for again; a job that ended leaves nothing behind.
- *Accounts.* A refresh token is good for one use, and several processes find it expiring at once; within a session, synchronisations overlap and their changes of Pi's key are asynchronous. Correct means: no token is presented twice while its first use counts, a refresh never overwrites a later login or a removal, and Pi's key is what the newest synchronisation reports, or none once the session is over.
- *Goal.* Between the decision to continue and the run that continues lie other prompts, failures, restarts and a user who changes the goal. Correct means: one continuation at most is wanted, it serves the present goal, automatic work stops at its limit, plan mode and a goal never both own the workflow, and an active goal is never left lying idle.

## 2. Plan

The order is by what a mistake would cost the user.

1. `ThreeWaySync`, `MergedSync` and its proofs: data of several devices. *Done.*
2. `SyncLock` and its proofs: everything else assumes it. *Done.*
3. `SnapshotTransaction` and its proofs: crash recovery of a group of files. *Done.*
4. `RemoteHead`, `PointerBackend`, `GitBackend` and their proofs: the compare-and-swap that `MergedSync` takes for granted. *Done.*
5. `SubagentMessaging`, `AccountRefresh`, `GoalLifecycle` and their proofs: the extensions in which several actors wait, retry or work unattended. *Done.*
6. `DirectionalSync`: push, pull and rollback over `RemoteHead` and the state file, with the snapshot identity that is minted afresh on each attempt; it composes the backends' promise with the transaction's.
7. `ContinuousSync`: lease election between sessions, the durable record, debounce and back-off; liveness is the point.
8. `FleetTransport`: spawn and connect handshakes between sessions.

Abstract specifications worth stating: `ThreeWaySync` for every kind of transfer, `RemoteHead` for every backend, `GroupReplacement`, the replacement of a group of files in one step, for `SnapshotTransaction`. All three are stated, model-checked and proved, as is every safety property of a passing run. What is left to prove waits for the modules above that are not written.

## 3. The modules

### `MergedSync`

One record `op[d]` is the running sync of device *d* and is lost when it stops; `local`, `state` and `journal` are its disk. `pc` names the places between two awaits at which another actor may step in. A snapshot is named by the order in which it was minted; the name also stands for its revision, since identities are random UUIDs. File contents are opaque: a path holds one of `Content` or is `Absent`.

- `Observe`, `Plan`, `Review` are `observeMerge` and the planner; `BothChanged`, `TakesRemote`, `Withheld`, `Publication` and `Accepted` are its pure part, path by path, with the groups of `conflict-groups.ts` in `Together` and the paths of open sessions in `Protected`.
- `WriteJournal`, `PreCommit`, `Publish`, `ConfirmPut`, `RefusePut`, `UncertainPut` are the transfer up to its publication. A PUT is a message in `puts`; it may be served whenever the head still is the expected one, even when its sender has gone.
- `ReadHead`, `DropJournal`, `StartApply`, `KeepJournal` are `completeJournal`: whether a journal is cancelled, retired, resumed, or kept for a person.
- `VerifyTarget`, `ReplaceTarget` are `applyMergedSnapshot`: each file is compared with the images of the journal before it is replaced. The constant `ExternalWriters` says whether programs outside Pi may write between the two.
- `Edit` and `Interrupt` are the environment; the bounds are `MaxEdit`, `MaxFault`, `MaxSnapshot`, `MaxAttempts`.

`ThreeWaySync` is what all this is for, in four actions without any machinery: *edit*, *publish* only over versions that were accepted, *install* only over the accepted version, *accept* only versions of one shared image. `MergedSync` is checked to implement it with the baseline, the files of the head and the files of every former head.

### `SyncLock`

The lock file, the guard and, per process, the place in `withLock` or `unlock` it has reached. A lock file is created before it is written, so it may be found empty. A process that sleeps does not refresh its guard, so the guard can be taken over; when it wakes it goes on where it was, and only later notices. `proper-lockfile` is external: taking over an expired guard is one step. `Fails` is a lock file that cannot be read, created or removed: before the operation it fails it; in the cleanup the error is kept for the caller (`lock.ts:86-91`) and nothing is tried again, so the lock file of a process that lives stays behind, which the history `left` remembers until the file is gone. The owners in `Foreign` may not be signalled: `kill` answers EPERM, the age of the lock decides, and `IsStale` may be either.

### `SnapshotTransaction`

`live` is the file system below the managed roots (a file, a directory, or nothing at each target), `tx` the transaction directory (journal, plan, backup), `stages` the staging files beside their targets, `op` the run. One module holds `applySnapshotTransaction`, its rollback, and the recovery at startup, because all three share the journal flags (`pending`: a removal was declared, `armed`: a replacement was started) by which an absence is judged. `Prepare` … `Install` … `Complete`, `RemoveBackup`, `RemoveTransaction` apply; `VerifyGroup`, `RemoveStages`, `ClaimStage`, `Stage`, `IntendRestore`, `ArmRestore`, `InstallBefore` restore. The removal of a directory goes entry by entry, so that a crash can leave half of it. A verification and the system call it permits are one step: the code repeats its checks at each such boundary and states that nothing is atomic against other programs in between.

`GroupReplacement` says what it is all for, of the contents of files alone: a job names a scope, the old and the new contents, and the group, which is what nobody edited since the backup; `Replace` gives the group its new contents in one step, `Abandon` leaves it. An edit takes its path out of the group, and with it, if a directory of the group is edited into, what no snapshot names in there. A path outside the group but in the scope may still go from one image to the other (`Adjust`: the code takes an edit for its own work when the bytes are those of an image), and a path outside the scope changes by edits alone. The mapping (`Promised`, `Replacement`): while the journal is open a path of the group holds what the backup holds, which is what a recovery would bring back; from the moment the journal says completed, every path holds what is there. So publishing the journal is `Begin`, completing it is `Replace` or `Abandon`, and all the removing, installing, crashing and restoring between is a stutter or an `Adjust`. Directories are not contents: making one is no step.

### `RemoteHead`, `PointerBackend`, `GitBackend`

`RemoteHead` is the promise of `SyncBackend.publishSnapshot`: the head is replaced only while it is the expected one; who is told *rejected* never becomes active, who is told *published* was; without an answer it may become active at any later time.

`PointerBackend` is S3, R2 and WebDAV, which share their protocol: probe the store with a scratch object, upload the immutable snapshot, read and compare `latest.json`, replace it by a conditional PUT, read it back, add an entry to `history.json` by another conditional PUT. The store is *strict* or *lax* from the beginning: a lax one accepts conditions and ignores them. PUTs are messages that may be served late; the answer may be lost. The doctor of WebDAV adds the active snapshot to the history again.

`GitBackend` fetches, builds a commit on the fetched one, and pushes with `--force-with-lease`. A git that is killed may have sent its push already. The answer is derived from another fetch, never from git's exit status. What git stores of a commit is the sequence of commits on its first-parent path (`line`); `listHistory` and a rollback that names a snapshot see its newest `MaxListed` (`Listed`, `Resolves`; 100 in the code). The history `order` lists the snapshots as they became active, whatever git says.

Both are checked to implement `RemoteHead`. `MergedSync` models the same interface directly (`LandPut`, `RefusePut`, `LosePut`, `ConfirmPut`, `UncertainPut`): its PUTs are the `pending` publications of `RemoteHead`, its `RefusePut` and `PublishConflict` are `Reject`, its `ConfirmPut` is `Confirm`.

### `SubagentMessaging`

`job` and `child` are the records of the runtime and the processes behind them; `tokens`, `requests`, `socket` and `listening` are the broker's; `sends`, `steered` and `waits` are the calls of the main agent that are under way. One action is one handler up to its next await.

- `Start`, `Launch`, `Ready`, `Exit`, `Return`, `cancel`, `BeginShutdown`, `EndShutdown` are the life of a job; `finish` revokes its token, waits and requests (`Revoke`).
- `createRequest`, `Steer`, `AcceptSteering`, `Queued`, `SendFails`, `rollbackMainRequest` send a request to a child; `ReadSteering` is the child reading it, external and possible only while none of the child's calls is parked.
- `Ask`, `CallWait`, `handleWait`, `WaitTimesOut`, `Flush`, `SocketCloses`, `GiveUpWait` are the child's side; `Reply`, `Answer`, `wait`, `WaitEnds` the main agent's.

A response is a number, so that two readers can be compared; `consumedAt` keeps the order in which consumed requests are pruned. The broker marks a request consumed in the callback of `socket.end`, which runs with an error too, and ignores the error: a connection that closes before its answer is written may therefore consume it (`SocketCloses`), unless `respond` found the socket destroyed. `handed` is history: the requests whose response was handed to the main session or to the connection of a wait (`HandOn`). One session is followed to its end.

### `AccountRefresh`

`accounts`, `lock` and `expiring` are the credential file; `issued` and `spent` are the provider's knowledge of refresh tokens; per session `sync` holds its synchronisations (each the state of one `ensureActive`, with the awaits as phases), `queue` the changes of Pi's key that `RuntimeApiKeyController` makes one at a time, `key` what Pi holds and `offer` what other extensions are given.

- `syncProvider` begins a synchronisation and supersedes the others; `Read`, `Lock`, `Rotate`, `RefreshFails`, `Save`, `Recheck`, `Authenticate`, `Verify`, `publishCredentialOffer` are `ensureActive` in order, `Fails` its error path, `Superseded` its return when a newer one runs.
- `Apply` is the controller: a key is set only for the newest operation, a removal always happens.
- `loginAccount`, `removeAccount`, `Expire` and `Shutdown` come at any time.

The store's lock excludes here what `SyncLock` shows a guard to exclude; its takeover after a suspension is not repeated.

### `GoalLifecycle`

The state of `GoalRuntime` is one record `rt`, and its methods (`CancelContinuationWork`, `RequestContinuation`, `Dispatch`, `EnterGoalWait`, `RestoreGoalWait`, `Stop`, ...) are operators from records to records, composed in the order in which the handlers call them. `prompts` are those Pi has announced: a prompt is *sent*, *announced* (`Input`), then begins a run (`Begin`) or is *queued* behind one (`Queue`, `Deliver`). `OtherRun` is a run of another extension, `GoOn` is Pi's own retry, `Settle` the end of everything. `Restart` restores the goal on a branch where plan mode may be on. `driver`, `joined`, `unattended` and `fault` are history: the goal whose continuation the agent is at, whether that continuation was delivered inside a run it did not begin, the responses since the user last acted in the runs that continuations began, and whether a send failed or the session restarted since a run began. A continuation that is stale when it begins (`IsStale`) is aborted at once and repairs nothing, so it leaves `fault` as it is; a goal whose kickoff was not sent lies idle behind such a run as it did before it. The difference takes two prompts under way, one stale and one that is refused.

## 4. The runs

| Run | Instance | What it shows |
|---|---|---|
| `merge_safety` | 2 devices, both with partial sync, a file outside and two paths inside a group, 2 contents, 3 snapshots, 2 edits, 1 fault, 1 attempt (0.9 million states) | no version lost, half-applied files are explained, baselines were active, refinement of `ThreeWaySync` |
| `merge_live` | one path, 5 snapshots, 2 attempts, programs that write between check and replacement | every device reaches the head's files or visibly waits for a person; a publication still never overwrites what its publisher had not accepted |
| `lock_all` | 3 processes, all four kinds of operation, crashes, lock files that cannot be read or removed, one process that may not be signalled | the lock file of a running operation is never taken, and the lock becomes free again and again, unless a living process failed to remove its own |
| `lock_suspended_syncs` | 3 sleepers that sync, 3 lock files each | still mutual exclusion, and the living leave no lock file except one they failed to remove |
| `lock_suspended_recovery` | sleepers and startup recovery | a violation, see section 7 |
| `snapshot_transaction` | a directory with two files, one of them unmanaged, and a file beside it; other programs write during the transaction; 1 apply, 1 edit, 2 faults | refinement of `GroupReplacement` (the group changes in one step or not at all, and nothing outside the scope does), staging files are not left behind, unknown bytes and real deletions stand, and each transaction ends or waits for a stated reason |
| `snapshot_transaction_deleted` | without the unmanaged file | a violation, see section 7 |
| `pointer_backend` | 2 devices, 3 snapshots, a history of 2 entries | refinement of `RemoteHead`; history and pointer never name what is not stored, never lose an entry |
| `git_backend` | 3 devices, 4 snapshots, of which 2 are listed | refinement of `RemoteHead`; what is listed, and can be named, is exactly the newest of the active snapshots in their order |
| `subagent_messaging` | 2 jobs, 2 requests in either direction, 1 retained consumed request | no mutual wait, no missed response, no parked child with an unread request, one answer, kept until it and enough others were handed on, nothing left of an ended job; and what a child accepted it reads |
| `account_refresh` | 2 sessions, one that synchronises twice and may end, 1 account, 2 credentials (0.4 million states) | one refresh per token, refreshes that replace only their own credential, keys and offers that agree with the newest outcome, every synchronisation returns |
| `goal_lifecycle` | 2 goals, 2 automatic turns, one prompt of the user's at a time (1.5 million states) | workflow, wanted continuation, the limit in the runs that continuations begin, no goal lying idle, continuations for the present goal only |

Why the bounds are enough. The hazards of a merged transfer need two devices, one of which publishes while the other is between two reads, and one edit on each side; a third snapshot lets the head move away from a journal and a second edit makes an edited file differ from both its images. A fault can strike at every step, so one fault covers each crash point, and two faults in the transaction let the rollback itself crash. The lock needs three processes, since the race of a stale lock has a dead owner and two competitors. A history of two entries is full with three snapshots. In the merge, partial sync is on for both devices: without it a device behaves as one whose conflicts happen to be empty. The files of a transaction first hold one content (`AtFirst`), so that a snapshot's other content is told from it; an edit may bring either. Four commits and three publishers allow a late push with two others on top of its lease; a list of two is exceeded by the third commit. Two requests of one job, or of two, are every way in which a request can come before, during or after the wait for another; a limit of one retained request makes the pruning happen at once. Two synchronisations of one session and one of another are the newest, a superseded one and a competitor; the last credential stays fresh, so that refreshing ends. Two goals let a prompt be for one that is gone; two automatic turns tell the limit from the first response. The other extensions of `goal_lifecycle` start a run only while no more than `MaxPrompts` prompts are under way, and a response past the limit is not counted on.

Fairness makes the live runs larger, so they have one path, or one target less.

Symmetry is used in safety runs only, over values the specifications treat alike. Deadlock is not checked where the bounds, or the death of every process, really stop the system.

Each property of each passing run has a *mutant*: a definition marked `(slip)` in the module, a plausible bug, under which TLC finds that property violated.

## 5. Fairness

- `LiveSpec` of `MergedSync`: each device takes its next sync step when it has one (sessions sync at startup and, in automatic mode, again and again), and the service serves or refuses what it was sent. Edits and faults are not fair; their bounds make them pause, which is what `EventuallySettled` is about.
- `Fairness` of `SyncLock`: a running operation goes on (weak), and whoever lives retries while nobody refreshes the guard and does not lose every race for it (strong); the file system does not fail for ever (`Fails` in section 3). The retry is a person's, or the next startup's; `LockIsFreedAgain` needs nothing of the dead, and excepts `LeftByTheLiving`: a lock that a living process failed to remove is nobody else's to take, and its owner does not try again.
- `LiveSpec` of `SnapshotTransaction`: the run goes on, and Pi is started again after a crash, which recovers pending transactions.

- `Fairness` of `SubagentMessaging`: the end of a process is noticed, the broker serves each connection, and Pi hands over what it steered. Nobody has to answer, to wait or to end.
- `Fairness` of `AccountRefresh`: some step of some synchronisation, or of some controller, is taken while one can be: providers answer or time out, and Pi takes the keys it is given.

`GoalLifecycle` assumes no fairness: that an active goal moves on is stated as an invariant, `IdleGoalHasWorkComing`, which says of each idle state what is on its way.

The backends state no liveness: a publication that gets no answer ends with *outcome unknown*, and what becomes of it is the matter of `MergedSync`.

## 6. Proofs

Each theorem holds for every value of the constants: any number of devices, processes, snapshots, paths and retries. Each invariant was first checked by TLC on the instance of section 4.

| Module | Theorems | Argument |
|---|---|---|
| `MergedSync_proofs` | `TypeCorrect`, `BaselineIsActive`, `JournalExplainsFiles`, `VersionsAreKept`, `PublicationReplacesAccepted`, `MergedSyncImplements` | The state, the journal and the running sync each name a snapshot; the invariant says of each that it was minted, that it was active if something was concluded from it, and that the image copied from it is the snapshot's. Snapshots are immutable, so these records stay good while everything else moves (`IInv`). A file holds the image the journal found, the image it installs, the accepted one, or the user's (`AllTraced`); a file is replaced only while it is what it was checked to be (`AllChecked`, where nobody writes outside the queues). A candidate is published once, so the head never returns to a former snapshot, and while it is the one a PUT under way expects, its sender has accepted nothing that PUT would not replace (`Chain`). |
| `SyncLock_proofs` | `LockTypeCorrect`, `LockIsOwned`, `LockExcludes`, `LiveLockHasItsOperation` | Ownership and exclusion hold when processes do not sleep, or all of them sync; that a living process's lock file is in use, or is the one it failed to remove, holds always. The file names its owner, so two owners would be one file with two contents; who may remove a file of another holds the guard, and has seen its owner dead. |
| `SnapshotTransaction_proofs` | `TransactionTypeCorrect`, `StagesAreClaimed`, `GroupEndsWhole`, `UnrecognisedStand`, `DeletionsStand`, `TransactionKeepsPromise` | The invariant follows a run through its phases. While files are installed, what is no longer to be written holds its new content and what was removed stays away (`Written`); while they are restored, outer targets come first, so what is no longer to be done holds its old image and nothing around it is touched again (`Restored`). A journal is completed only when one of the two lists is empty, which makes the group whole (`Accepted`). A staging file belongs to the target being restored, or to a claim of an interrupted recovery (`Staging`). A directory goes entry by entry only after all that is in it was recognised (`Seen`). For deletions a second invariant (`KInv`) relates what a user deleted to the journal's flags: it is missing, no declaration covers it or the directory around it, a directory's declaration covers all that is in it, and nothing is declared inside what was restored or deleted. A target that holds, or held, such a path is then not recognised (`GoneIsUnrecognised`), so no step gets to replace it. `GroupEndsWhole` speaks of the targets; for the refinement a third invariant (`GInv`) adds what lies inside them, also what no snapshot names: an unedited path that is a file has one of its two images (`ImagesOnly`), a target that was restored is so with all that is in it and the one being restored lies in none of those (`RestoredWithin`), the backup agrees with what nobody edited when the journal is published (`BackedUp`), and only a directory that makes room for a file is ever deleted as one (`FilesDeleted`), so no unnamed file can be left behind in a directory that was written. |
| `GitBackend_proofs` | `GitTypeCorrect`, `GitHistoryIsComplete`, `GitPublishedStandsBehindReviewed`, `GitKeepsPromise`, `GitAnswersStayTrue` | Every snapshot has at most one publication under way, at its publisher or in a push. A commit under way extends the line of the commit its lease names, so a push that is received appends to the history, however late. Hence the line of the branch is the order of activation (`order`), nothing is in it twice, and what is listed is its newest part for every limit. |
| `PointerBackend_proofs` | `PointerTypeCorrect`, `PointerNamesStored`, `PointerHistoryWasActive`, `PointerHistoryKeepsEntries`, `PointerKeepsPromise`, `PointerAnswersStayTrue` | A store that ignores conditions is only ever probed. A list on its way to `history.json` extends the list its condition names, so serving it loses at most the oldest entry of a full history. |
| `SubagentMessaging_proofs` | `MessagingTypeCorrect`, `NobodyWaitsMutually`, `NoResponseIsMissed`, `SteeringInterrupts`, `EndedJobIsForgotten`, `ResponsesAgree`, `AnswersStay` | Requests not yet made are unused everywhere; a connection, a wait or an RPC is for a request of its own job and origin; tokens belong to jobs that talk; a parked wait has neither an answer nor a queued request. `AnswersStay` needs that what is consumed was handed on, whichever way its connection ended, and the order of consumption: a record is pruned only when as many younger ones as the limit retains are consumed, all of them handed on. |
| `AccountRefresh_proofs` | `AccountsTypeCorrect`, `KeyIsReported`, `OverWithoutKey`, `OfferedIsHeld`, `TokenUsedOnce`, `ReplacesItsOwn` | Two halves. In a session, changes of the key wait in the queue, one per synchronisation, the newest's last; once that was made the queue is empty, and nothing changes the key until something newer begins. In the store, whoever refreshes holds the lock and the stored credential; a credential that was renewed is stored only until its holder saves. |
| `GoalLifecycle_proofs` | `GoalTypeCorrect`, `GoalHoldsWorkflow`, `GoalWantsOneContinuation`, `GoalContinuationsServe`, `GoalTurnsAreBounded`, `IdleGoalIsServed` | `IInv`: intent and delivery belong to the active goal, never to a waiting one and never both; whatever takes the goal away cancels them; no two prompts under way carry the same marker. Each is shown of the methods of `GoalRuntime`, then of the handlers that compose them. The set of goal identifiers is arbitrary. `Counted` and `Supplied` are described below. |

`EndsWhole` is proved and in no run: `ImplementsGroupReplacement`, which is, says the same of the files, and `EndsWhole` also tells a directory from nothing. The two refinement theorems of the backends compare the publications under way before and after each step: beginning one is `Ask`, a failed comparison or a refusal is `Reject`, giving up is `Forget`, serving the PUT or receiving the push is `Replace`, sending it is no step at all. `GitAnswersStayTrue` and `PointerAnswersStayTrue` use nothing of the backends but that refinement: of `RemoteHead` they show that a snapshot has one publication, which is pending, active or given up, and that an answer fixes which. `MergedSyncImplements` maps the landing of a PUT to *publish*, the replacement of a file to *install*, the record of the baseline to *accept*, a user's edit to *edit*, and everything else to a stutter. Why an invariant stronger than the property is needed: the reported facts concern `ever`, but what a late PUT or push will do to `ever` is decided by what its publisher had seen, which only the message remembers.

The bound on unattended turns is not inductive: whether a response is unattended is decided by who began the run, `driver` and `joined`, while the code counts by what it remembers of the run, `rt.run`, and Pi's own retry begins a run that no prompt announces. `Counted` ties the two together. The run a continuation began is remembered as the goal's automatic one, and while Pi may retry it, it is the recovery that will be; the responses are no more than the goal's own turns, and when the goal is at its limit they are none. Of a run that a continuation only joined it says nothing, and nothing is counted there (section 7). A goal that was replaced is put back when its successor's kickoff cannot be sent, hence the conditions speak of the goal of that moment.

`IdleGoalHasWorkComing` speaks of the idle state only; `Supplied` follows the goal through a cycle. While Pi is idle, a goal that waits for nothing has its kickoff, a user's prompt or a delivery under way; when a run ended and all has not settled, its intent or its retry will do instead; during a run that is not the goal's own, whatever was coming still is, or the run is to be aborted. Beside these, a wanted continuation is not among the cancelled, each cancelled marker belongs to a prompt under way (so a new marker is not cancelled in advance), a retry is for the active goal, and a timed wait has a timer or a deadline that passed, which the idle state never leaves unattended. Proving `Supplied` showed that `fault` was reset by runs that repair nothing (section 3); the instance of `goal_lifecycle` was too small to show it.

The assumptions are the named `ASSUME`s of the modules, which give the ranges of constants and say that the absent value is no value. `LockIsOwned` and `LockExcludes` have one more hypothesis, `LockAssumption`: for processes that sleep while they recover or unlock, mutual exclusion is false (section 7). `VersionsAreKept` and `MergedSyncImplements` assume `~ExternalWriters`: a program that takes no file queue can write between a check and a replacement, and its bytes are then lost (`merge-apply.ts:419`).

What stays with TLC: all liveness, because it rests on fairness (`EventuallySettled`, `LockIsFreedAgain`, `EventuallyEnds`, `SyncsReturn`, `QueuedRequestsAreRead`), which the theorems about safety only accompany. Each safety property of a passing run is stated by a theorem. The type invariants of the backends, `SnapshotTransaction`, `SubagentMessaging`, `AccountRefresh` and `GoalLifecycle` are proved and in no run.

## 7. Where code and documents differ, and what is not modelled

Two runs violate a sentence of the documentation.

- `lock_suspended_recovery`. `packages/pi-sync/README.md:356` says "stale recovery rechecks process and guard ownership". A startup recovery does so, and then removes the lock file by its path (`state/lock.ts:57`). A process that sleeps between the two for longer than its guard lives removes, when it wakes, the lock of whoever has recovered in the meantime, and two operations run. Without sleep, or among syncs alone, `LockExcludes` proves that this cannot happen.
- `snapshot_transaction_deleted`. `packages/pi-sync/README.md:336` says "a later deletion of installed content is not treated as an unfinished remove". A rollback declares the removal of the installed directory before it removes it; after a crash between the two the directory is still there, and if the user deletes it then, the next recovery takes the absence for its own unfinished removal (`snapshot-transaction.ts:587`) and restores the old directory. The run `snapshot_transaction` shows that deletions stand everywhere else.

Three more were met while reading `pi-goal`; no run of this project shows them.

- `startGoal` captures the existing goal before it asks "Replace goal?" (`packages/pi-goal/src/commands.ts:99`). If that goal stops while the question is open and the kickoff of the new goal cannot be sent, the copy is put back, and the goal is active again with the turns it had. `ConfirmReplace` models it; `ActiveHoldsWorkflow` still holds.
- A continuation that loses the race for an idle agent to a run of another extension's is queued and delivered inside that run, where `message_start` leaves its delivery as it is. The run's end then records no new intent, and the goal stays active and idle until the user acts, although `runtime.ts:1221-1223` says of a delivery that lost this race that "the newer work's agent_end will record a fresh intent". `IdleGoalHasWorkComing` excepts exactly this case (`DeliveryIsLost`).
- The responses given to such a continuation are not counted: `message_start` returns before it claims the run (`lifecycle.ts:320-326`), the run stays manual, and `recordAutomaticTurn` counts automatic runs only (`runtime.ts:795-797`). The same holds for a queued continuation with which Pi goes on after a run. `packages/pi-goal/docs/continuation-lifecycle.md:180` says "`turn_end` counts normal responses from automatic continuations, including tool loops and matching recovery work". `UnattendedTurnsAreBounded` and `GoalTurnsAreBounded` speak of the runs that continuations begin, and of Pi's retries of them, and claim nothing of these. Were they counted too (`joined` dropped from `Answered`), TLC finds more of them than the limit: a goal is started, another extension's run begins, the continuation is delivered inside it, and three responses follow.

Hazards that are real and that no property covers:

- `pi-sync/src/snapshot/snapshot-apply.ts:59`: the plan is computed from files that are read before their queues are held. `SnapshotTransaction` lets anyone edit between `Plan` and `Prepare`; what such an edit leaves in a target is backed up, and then replaced like the rest. Only the expected hashes of settings with local fields, which are not modelled, refuse a plan that has become stale.
- `pi-sync/src/snapshot/snapshot-mutation-queues.ts:100`: a file may appear, or change the identity of its queue, while the other queues are acquired.
- `pi-sync/src/backends/git/git-backend.ts:354`: two sessions fetch into the same private cache. Git locks its own references.
- `pi-sync/src/state/lock.ts:86-91`: when the cleanup of an operation cannot read or remove its lock file, the error is at most reported. The lock then blocks every other process until its owner exits; `SyncLock` models it, and no property forbids it.
- `pi-subagents/src/message-broker.ts:338`, 471 and 519: the callback of `socket.end` ignores its error, so an answer that was never written counts as consumed, and may be pruned before the child asks for it again. `AnswersAreKept` promises only that it was handed to a connection.
- `pi-accounts/src/runtime-auth.ts:171`: a refresh that a newer operation superseded is dropped after the provider has rotated the token, and the account must be logged in again. `Save` and `RefreshFails` model it; that it may happen is the code's choice, so no property forbids it.

Simplifications that bound what the checks say:

- A file's content is one value. The merge of two texts, settings documents or session files is a choice of a content or a conflict.
- Snapshots are read whole and valid. Checksums, limits on size, validation of manifests, secrets scanning and redaction are left out; so are redirects, signatures and tokens of the stores.
- In `SnapshotTransaction`: replacements that change only the case of a name, symbolic links, moves of the session root, journals of versions 1 to 3, protected sessions, and the expected hashes of settings with local fields.
- Process identifiers are not reused. `lock.ts` takes a reused one for a live owner, which blocks but does not break exclusion.
- A write of a whole file through a temporary file and a rename is atomic, as `fs` promises; directories are synced before anything relies on them, so the loss of power is not told from the crash of the process.
- The store answers from its one current state: no read is stale.
- In `SubagentMessaging`: the announcement of a job's end, the failure of the broker's server, parallel waits for one request, limits on jobs and connections, attachments, and the building of the child process.
- In `AccountRefresh`: keys from the environment, the restore at startup, the provider overlay and the model catalog (that they fail is kept), API keys, menus, and the format of the file. Every process has one session. Pi takes the keys it is given and drops those it is told to drop, and they are read back as they were set: what happens when Pi does not take the fail-closed key (the catch of `runtime-auth.ts:525-527`, which leaves it to the provider's turns to be aborted) and the `allSettled` at shutdown are not modelled, and `OverWithoutKey` and its like rest on that.
- In `GoalLifecycle`: the wrap-up prompt of a spent budget, the blocking of stale tool calls, compaction, the repetition guard, the publication of contracts, prompts that other extensions send with `sendUserMessage`, and markers that occur twice. A send either happens at once or throws. All stopped statuses are one.
- Directional transfers, automatic sync and agent sync of `pi-sync`, and `pi-fleet`, are not modelled yet; they are the rest of the plan.
