# Verification of OpenViking's locks, queues, sessions, cache and watches

OpenViking is a context database for AI agents: a virtual filesystem of memories,
resources and skills (`openviking/`, on top of the Rust filesystem `crates/ragfs`), a
vector index, and background jobs that fill both. This directory holds TLA+ models of
the parts where several actors share state, the TLC runs that check them and the
TLAPS proofs about them.

- [Inventory](#inventory): parts, state, operations, interactions
- [Modules](#modules): what each models and how it corresponds to the code
- [Runs](#runs): what is checked, on which instances, under which fairness
- [Findings](#findings): where documentation and code disagree, and [observations](#observations)
- [Proofs](#proofs)
- [Not modelled](#not-modelled-and-why) and [Plan](#plan)

`PROJECT.json` has the map from definitions to source lines, the list of hazards with
the properties that watch them, and the mutant that breaks each property.

## Inventory

### Parts

| Part | State it keeps | Operations | Correct when |
|---|---|---|---|
| Path locks (`crates/ragfs/src/lock`) | lock files in the locked tree; per owner a registry of leases, in memory | acquire (batches of EXACT and TREE), release, refresh, handoff, adopt; a background refresher | conflicting leases are never held together; tokens match leases; calls return; locks of crashed owners are recovered |
| Durable queues (`crates/ragfs/src/plugins/queuefs`, `openviking/storage/queuefs`) | SQLite rows (pending, processing); in-memory counters | enqueue, dequeue, ack, recover_stale | at least one delivery of every stored message |
| Task tracking (`openviking/service/task_*.py`) | task records (store and cache), work index, active handlers, failures | create, start, complete, fail, cancel, register, prepare_ack, rollback_ack, finalize, recover | terminal only after all work settled; terminal is final; outcomes are not lost |
| Add-resource jobs (`service/resource_service.py`, `queuefs/add_resource_processor.py`) | the lease of the target, the message with its handoff, retry count | lock, enqueue, park, adopt, reacquire, requeue, execute, release | the worker always works under the lock; the lock is freed in the end |
| Session commit (`session/session.py`) | live messages, archives and their markers, session metadata | append, commit (phase 1), resume (phase 2), recover | no message lost; recovery decides rightly whether a commit took effect; archives run in order and all are worked off |
| Cache (`ragfs/src/cache`) | cached files and listings, subtree generations, bypass scopes | read, fill, invalidate, bump | no hit differs from the backend, whatever the provider fails to do or forgets |
| Git version store (`ragfs/src/git`) | objects, refs, index | compare-and-set of refs, commit, restore | no lost update of a ref |
| Semantic queue and DAG | graph of directories with open-children counts | expand, finish, coalesce | every directory is summarised once after its children |
| Watches (`openviking/resource`) | watch tasks (memory and storage), executing marks, URI leases | schedule, execute, create, update, delete, move, stop | a watch has one round at a time, at the place where its resource is, and runs when due; it follows moves and ends with removals |
| Circuit breaker | state, failure count, reset timeout | check, record_success, record_failure | one probe at a time |
| OAuth, server, retrieval, parsing, vector engine, metrics, bot, SDKs | see `PROJECT.json` | | |

### Interactions

A request (`ResourceService.add_resource`, `Session.commit_async`) takes a path lock,
stores a message in a durable queue and returns a task id. A worker loop per queue
(`QueueManager`, each in a thread with an event loop of its own) dequeues messages, up to
`max_concurrent` at a time, runs the queue's handler and acknowledges. The handler may
enqueue further messages of the same task. Every message with a task id is in the
`TaskWorkIndex`; `TaskTracker` turns a recorded outcome or a cancellation into a terminal
status when the index has no work left. Locks travel with the jobs: the lease is parked by
the request and adopted by the worker, under a new capability. All of them call ragfs
through `asyncio.to_thread`, so a cancelled `await` leaves the call running.

`Session.commit_async` moves messages into an archive under the session's path lock, then
the `session_commit` queue works the archives off in order. `WatchScheduler` imports the
watched resources again; `FSService.mv` and `rm` and the imports change the watches under
it, with `UriMutationCoordinator` between them. Every read and write of a mount with a
cache goes through `CachedFileSystem`, except a few raw writes.

### What is hard

- *Interleavings*: lock files are plain files, so the protocol is check, write, check
  again; the three maps of the tracker change on different event loops and threads.
- *Crashes*: an empty lock file between create and write; a message processed and not
  acknowledged; a record persisted and the message not.
- *Time*: a stalled process whose token expired comes back, refreshes it or finishes a
  write; a deadline passes between two attempts.
- *Cancellation*: `Task.cancel` arrives at whatever await comes next, also one after the
  code it was meant for; threads it left behind still finish.
- *At-least-once delivery*: copies of a message adopt one handoff, start a terminal task,
  process an archive whose first phase was interrupted.
- *Two places that must agree*: live file and archive, file tree and watch table, memory
  and storage, backend and cache; each changed by several steps of which one may fail.

## Modules

| Module | Models | Extends |
|---|---|---|
| `PathLock` | `lock/manager.rs`, `provider.rs`, `resolver.rs`, `types.rs` | |
| `PathLockProofs` | lemmas on batches and lock files, type correctness | `PathLock`, `TLAPS` |
| `PathLockExclusion` | the exclusion proofs | `PathLockProofs` |
| `PathLockTokens` | proof that tokens and leases agree | `PathLockExclusion` |
| `TaskQueue` | named queues, queue workers, work index, task tracker | |
| `ResourceHandoff` | parking, adoption and retries of a job's lock | |
| `SessionLog` | what commits promise for each message (abstract) | |
| `SessionCommit` | append, commit, recovery and processing of archives; implements `SessionLog` | |
| `CacheWrapper` | `ragfs/src/cache/wrapper.rs` and the raw writes of `core/mountable.rs` | |
| `WatchScheduler` | watch scheduler, table of watches, URI coordinator, moves and removals | |
| `TaskQueueProofs`, `ResourceHandoffProofs`, `SessionCommitProofs`, `CacheWrapperProofs`, `WatchSchedulerProofs` | the proofs about each | the module and `TLAPS` |
| `MCPathLock`, `MCTaskQueue`, `MCResourceHandoff`, `MCSessionCommit`, `MCCacheWrapper`, `MCWatchScheduler` | instances for TLC | the module they instantiate |

### PathLock

A lock file is a slot `<<path, side>>`: `"dir"` is `{path}/.path.ovlock`, `"side"` the
sidecar next to a path that is not a directory. `token` gives each slot a cell: the owner
and kind in it, whether its age exceeds `lock_expire` (`stale`), and whose file it is
(`file`: a writer that created the file writes through its descriptor even after the file
was replaced). `dirs` are the existing directories, which decide the side of a request.

Each owner runs one acquire call; `pc` is its position:

- `Begin` starts an attempt; `Stat` resolves the lock file; `CheckRead` reads one
  conflicting lock file per step: the tokens at the path, TREE tokens of ancestors and,
  for TREE, every token below (`CheckSlots`, `Blocks`); `EnsureLockDir` makes the
  directory a TREE lock lives in.
- `TakeRead` looks at the own lock file: reentrant, `Upgrade`, or stale (`TakeRemove`,
  `TakeUnlink`: remove_token compares and then unlinks, two calls), and `Create`, `Write`:
  on the filesystem a file appears empty and is filled later, in memory at once.
- `Acquired` moves to the next request or to verification; `VerifyNext` reads every
  conflicting lock file again; `Publish` inserts the lease.
- `Fail`, `Rollback`, `RolledBack`: on a conflict all tokens of the attempt are taken back
  one provider call at a time, upgrades reversed, tokens that older leases use kept.
- `CleanRead`, `Sweep`, `SweepUnlink`, `Retry`, `TimeOut`: a conflict met before
  verification is looked at once more and removed if stale; then back off or time out.
- `ReleaseStart`, `ReleasePath`: a release of some or all paths of a lease, with the
  downgrade of a TREE token an EXACT lease still needs.
- `Refresh` and `Expire` stand for the background refresher and the clock: tokens of a
  stalled or crashed owner grow stale, and a refresh by an owner that comes back revives
  its token because only the owner id is compared.
- `Crash`, and `Mkdir` by writers that take no lock.

The owner mutex serialises acquire and release of an owner (`MutexFree`); it is not held
during back-off, so a release may come between two attempts.

`lapsed` and `torn` are history: owners that had a token expire under them, and whether an
unlink or write hit a file other than the one that was examined. The guarantees are for
owners that did not lapse; what happens to the others is in the findings.

Bounds: `LeaseId` (leases per owner), the finite `Batches`. There is no counter.

### TaskQueue

One task and its messages. `row` is the state of each message in SQLite, `rec` the task
record, `work`, `active` and `failed` the maps of `TaskWorkIndex`, `wpc` the worker
coroutine of each message, `call` the tracker call each process is in (tracker calls have
several steps: a first look, the per-task lock, the write, the signal), `enq` and `late`
the enqueues awaited and abandoned. A step ends where the code awaits or another thread
can intervene. Finalization (`FinalizeCheck`, `LockTask`, `Persist`) looks at the index,
waits for the lock, looks again, writes. `PrepareAck` takes the item off the index and
finalizes if it was the last, *before* the durable acknowledgement; `RollbackAck` puts it
back on errors. `CancelTask` writes `cancelling` and schedules `Task.cancel` for active
handlers (`hit`), delivered at any later await (`CancelHandler`, `CancelAck`).
`Restart` is a crash at any point followed by `recover_stale`, the rebuild of the index
from unacknowledged rows.

The status `stuck` of a worker means that its message is left in `processing` until the
next start, which is what the code does when a handler raises.
`orphan` and `erred` are history variables.

Bounds: `Msg` (messages the task may own), `MaxCrash`.

### ResourceHandoff

One job and one target path. `tok` and `stale` are the token, `holds` the lease registry,
`parked` the pending handoff, `consumed` the refs an owner state remembers as adopted.
The request (`Lock`, `Enqueue`, `Park`, `Abort`) stores the message before it parks the
lease. Workers `Adopt` a parked lease, or from the token alone after a restart
(`AdoptRefresh`: read, then compare and refresh), else `Reacquire`, else `Requeue` a copy
at most `RetryLimit` times. `OtherAcquires` is a process that wants the path. Taking the
path is one step here; `PathLock` is what happens inside it.

Two simplifications: a worker acknowledges after its release (in the code the
acknowledgement of a cancelled message may come first, which changes neither the lock nor
the number of copies), and at most one abandoned lease (`Lost`) exists at a time.

Bounds: `Msg` (copies of the message at a time), `MaxCrash`.

### SessionCommit and SessionLog

One session. `root` is the set of ids in `messages.jsonl`; ids grow with the appends, so a
set has the order of the file. `arch[k]` is the directory of archive `k`: the phase 1
marker with the archived (`out`) and retained (`kept`) ids, the archived messages (`raw`),
the terminal markers `.done` and `.failed.json`. `count` is `commit_count`; `queue` and `wpc`
have the copies `<<k, i>>` of the `session_commit` message of archive `k` and their handlers;
`c` is the commit that holds the session lock, `late` the writes that run on in a thread
after their call was cancelled.

Phase 1 is `Commit` (snapshot and division of the messages: the newest stay, a partial turn
keeps its anchor, which is archived as well), two concurrent writes (`Persist`), `Enqueue`,
`Rewrite`, `SaveMeta`, `MarkReady`; an exception of any step ends in `MarkFailed`, a
cancellation (`Abandon`) only releases the lock, because `CancelledError` is no
`Exception`. Phase 2 is `Deliver`, `Recover` (`_ensure_phase1_ready`: under the session
lock, decide from ids whether the live file had been rewritten), the look at the
predecessor (`RunNext`, `WaitForPredecessor`, `RecoverPredecessor`; `SeePending`, then, after
another await, `WaitForWork` or `SkipOrphan`), then `Extract`, `MergeMeta`, `WriteDone`,
`Ack`. `Requeue` stores a copy; the old message is acknowledged in a later step, so that a
crash or an error in between leaves two messages, whose handlers run at the same time.
`HandlerRaises` leaves the message for the next
start; `Crash` is a crash and restart. The delivery of a message is what `TaskQueue`
models in detail; here it is `queued`, `running`, `stuck` or `gone`.

A cancelled commit (`Abandon`), append (`AbandonAppend`) or handler (`ExtractFails`,
`CancelEarly`) leaves the storage call it awaited in `late`; `Land` lets it take effect at any
later time, whoever holds the session lock then.

`applied`, `overtaken`, `rejected`, `doubled`, `exposed` and `stray` are history: which commits
rewrote the live file, which archives were still preparing when another commit rewrote it,
which rewrites the recovery denied, which archives got two messages, which messages were
live while a write of a cancelled call ran on, and whether such a write has landed.
`NothingLost` excepts the exposed messages only; the properties about recovery and order
end when a write lands late, because it can put back or take away any marker. The session lock is held from `Commit` to the end of phase 1; the model
does not let it expire (what then happens is `lock_revived`).

`SessionLog` gives every message a place: unsent, live, archived, extracted, dropped. It is
appended to in order, leaves the live file through a commit, and what its archive ends
with is final, but that the second message of an archive may succeed where the first has
failed (`again`). Once a write of a cancelled call has landed it promises nothing more
(`astray`). The refinement mapping `PlaceOf` computes the place from the files.

Bounds: `MaxMsg`, `MaxArchive`, `MaxFault` (errors, cancellations and crashes together),
`MaxCopy` (messages of one archive at a time; at the bound a requeue is one step), `MaxLate`
(writes of cancelled calls under way).

### CacheWrapper

`fs` is the backend, `cache` the provider's envelopes (content and the generations of all
scopes above the path when it was put), `gen` the provider's generations, `local` those the
process remembers, `start` the generation epoch, `bypass` the bypassed scopes. A change
holds `operation_lock`: it changes the backend and leaves its invalidation steps in `todo`,
which `Take` carries out one provider call at a time (`Bump`, `Delete`, `FillWith`), each of
which may fail and bypass the path. A reader holds the lock shared: `Hit`, or `Miss` (it
has read the backend, `fill`) and then `Fill`. `RawWrite` and `TakeRaw` are
`copy_within_mount` and `compare_and_write`, which do not take the lock; a copy makes the
directories that are missing, and announces its target and the direct parent only, on a
multi-write mount nothing. `RawRemove` is `compare_and_remove`. The provider
forgets envelopes (`Evict`) and generations (`EvictGeneration`); `Restart` loses `local`,
`bypass` and the rest of an invalidation. An object is a file or a listing.

`suspect` and `raced` are history: objects whose invalidation was skipped (by a backend
error, the end of the process or a raw write that does not announce them) or that a raw
write changed under a reader. `HitsCurrent`
excepts them; they are in the observations.

Paths are sequences of names, a finite tree closed under parents. Which paths can be files is
fixed (`Files`, leaves of the tree), and a name tells which: a rename never makes a file
of a directory.

Bounds: `MaxOp` (changes), `MaxFault` (errors and evictions), `MaxStart`.

### WatchScheduler

`table` and `saved` are the watches in memory and in the storage, `at` the places of each
watched resource (none: removed; several: a broken off move or a late import left copies),
`due` the watches whose time has come, `executing` the marks, `run` the executions with the
lease and permit their `pc` implies, `move` and `rm` the move and removal in progress, `job`
the import whose first round a watch waits for, `late` the imports that go on under no lease.
An execution is `Pick` or `ScheduleTask` (mark), `Enter` (permit), `Access` (lease), `Look`
(is the watch still there and at that target), `Check`, `Import`, `Record`, `TurnOff`,
`Leave`. A move validates (`MoveStart`), moves the files, rewrites the table and, when the
save fails, moves the files back. `viking_fs.mv` copies and then deletes; when its own
rollback fails, or the process dies in it, resources are at the new place or at both (`Torn`).
`MoveCancelled` is a cancellation between the move and the rewrite, which skips the
rollback. A removal removes files and then deactivates watches without a lease in between.

`DurableImport` creates the watch of a resource that is in place. `HeldImport` is a connector
import: it creates and marks the watch, and then hands the URI to an external service, which
delivers there (`Deliver`) until it is done (`EndImport`), under no lease and no path lock. An
import that times out, is cancelled or is interrupted by a restart goes on the same way.
`JobEnds` releases the mark of a first round, also one it did not set. `Restart` loads the
table again.

A URI is a non-empty sequence of names (`Name`, `Uri`). A lease is what
`UriMutationCoordinator` grants: an access waits for active overlapping
mutations only, a mutation for all active accesses (`Blocked`, `MoveFree`). A save is
atomic (the storage writes a backup first).

`stolen` and `lost` are history: watches whose mark was released by somebody else; and those
that a broken off move or a deletion that was not saved left behind, or whose resource was
moved while an import without a lease was under way (`Outrun`).

Bounds: `MaxRun` (executions), `MaxAsk` (imports and requests), `MaxFault` (failed saves,
moves and looks, time-outs, cancellations, restarts).

## Runs

All runs finish in seconds to a few minutes on two workers.

| Run | Instance | Shows |
|---|---|---|
| `lock_contention` | 2 symmetric owners, directory and entry, EXACT, TREE and batch requests, 2 leases each, memory provider | `MutualExclusion`, `TokensMatchLeases`, `TokenKept` with reentrancy, upgrades, partial releases, rollbacks |
| `lock_expiry` | 2 owners, directory and file, filesystem provider, one may crash, both may stall, one has no deadline | the same and `TypeOK` with empty files, late writes, takeovers, revived tokens; `AcquireReturns`, `OrphansRecovered` |
| `lock_revived` | 2 owners that may stall | violates `WriteExclusive` |
| `task_faults` | 2 messages, cancellation, raising handlers, failing writes, 1 crash | `TypeOK`, `IndexComplete`, `SettledBeforeTerminal`, `TerminalStays`, `FailureKept` |
| `task_settles` | 2 messages, 1 crash | `OutcomeSettles`, `Delivered` |
| `handoff` | 3 copies, cancellation, 1 crash, a competing process | `TypeOK`, `WorkLocked`, `OneHolder`, `JobSettles` |
| `handoff_leak` | no fault at all | violates `LockFreed` |
| `session` | 2 messages, 3 archives, 2 copies of a message, 2 errors, cancellations or crashes | `TypeOK`, `NothingLost`, `RecoveryExact`, `ReadyDisjoint`, `InOrder`, `ImplementsLog` |
| `session_cancelled` | the same with 1 fault, a write of a cancelled call may land late | `NothingLost`, `ImplementsLog`, `ArchiveSettles` |
| `session_blocked` | 2 messages, 2 archives, 1 fault | violates `NextCommitUnaffected` |
| `cache` | two directories and a file in each, 2 changes, 1 error or eviction, 2 starts | `TypeOK`, `HitsCurrent`, `StaleStaysStale` |
| `watch` | 2 watches, a directory moved to a free place or onto the other, 1 permit, 2 executions, 2 requests, 1 fault | `TypeOK`, `OneRound`, `RefreshAtTarget`, `WatchFollows`, `TargetsDistinct`, `DueSettles`, `RemovedStops` |

**Why the bounds are enough to be interesting.** Conflicts of the lock protocol are between
two grants on one path or on an ancestor and a descendant, so a directory and one entry have
all pairs (EXACT/EXACT, TREE/TREE, TREE above EXACT, TREE on a file). Two owners suffice
for exclusion, which the proof confirms for any number. Two leases of an owner are what sharing of a
lock file needs. For tasks, two messages are the case of a handler that enqueues a successor
and of two handlers that finish together; one crash can fall between any two steps. Three
copies of a job's message are what two retries and a redelivery produce. For a session, two
messages are one that leaves the live file and one that stays or is appended meanwhile;
three archives are what `InOrder` needs, because `_can_run_archive` sees the direct
predecessor only; two faults let a commit be interrupted and its recovery too. Two copies of a
message are what a requeue and a crash leave; with the second fault one of their handlers
fails. A write that lands late can come at any later time and multiplies the states:
`session_cancelled` has no other fault (two archives with a second fault were checked
besides). For the
cache, two changes let a path be moved away and made again after an envelope was cached, and a
raw write come between a reader's backend read and its fill; one error can hit any
invalidation step. Two
watches, one in a directory that is moved to a free place or onto the place of the other (once
its resource was removed), give the moves that succeed and those that conflict; two
executions with one permit make one wait. One fault breaks off a move, loses a save or lets an
import outlive its round; a connector import needs none. The watch invariants were also
checked with two faults, and with three requests.

**Fairness.** `PathLock`: weak fairness of every step of an acquire call and of the clock
(`Expire`, for tokens no live owner uses any more: the others are refreshed), strong
fairness of the deadline of calls that have one, and weak fairness of a release that has
begun; callers need not release. A call's steps are provider calls of a running thread, and the loop checks its
deadline before every wait, so a deadline that passes is seen. Nothing assumes that
contenders stop conflicting. `TaskQueue`: event loops and threads run on, a handler
returns (strong, since other steps of the handler may come between), the per-task lock is
fair (`asyncio.Lock` is first-in first-out); nobody has to enqueue, cancel, fail or crash.
`ResourceHandoff`: workers and the request run on and clocks advance; the competing process
may keep the path for good. `SessionCommit`: a commit that began ends, the workers poll, and
a handler that cannot get the session lock raises (its wait has a timeout); nobody has to
commit or append. `WatchScheduler`: time passes and the scheduler loop comes round, the
semaphore serves in order (`asyncio.Semaphore`), hence strong fairness of the rounds of each
watch (`Round`); requests are finitely many and go on when they can, but nothing makes a waiting
mutation go before later accesses, and no connector has to deliver or to end. `CacheWrapper` has safety properties only.

**Deadlock** is checked in the lock runs. A finished task, job or session has nothing left
to do, and the cache and the watches stop at the bounds, so the others do not check it.

## Findings

1. `lock_revived`: a stale token met on an ancestor or descendant is skipped and stays; its
   owner, if only stalled, refreshes it, and both owners hold live leases.
2. `handoff_leak`: a worker that is faster than its request uses up its retries before the
   lease is parked; the lease parked afterwards is refreshed in the background for good.
3. `session_blocked`: the messages of an archive and its phase 1 metadata are written
   concurrently. Interrupted between the two, the directory looks like one of an older
   version, and `_can_run_archive` makes every later commit of the session wait for it.

The quotations are in `PROJECT.json`.

### Observations

What the models showed, or the code shows at a reading, without a run of its own. Where a
property excepts such a case, a history variable marks exactly the states concerned.

Locks:

- Two owners that take over one stale lock file: `remove_token` with force compares and then
  unlinks in two calls (`provider.rs:464`), so the slower removes the new token of the faster,
  whose lease is published without one; nothing between the second check and publication
  reads the owner's own token (`torn`), although `09-transaction.md:314` speaks of a
  verified fencing token.
- `09-transaction.md:312` speaks of a timestamp comparison that decides which of two
  contenders withdraws; in the code both roll back and retry after random delays (with a
  deadline both return, which `AcquireReturns` shows).
- A TREE lock on a file lives in a sidecar, which the ancestor check does not read should the
  file be replaced by a directory. Tokens of an attempt in flight are not refreshed. An
  empty lock file met by the pre-conflict cleanup fails the call even if time is left.

Tasks and queues:

- A `Task.cancel` meant for a handler arrives in the acknowledgement that follows it
  (`named_queue.py:281`); the acknowledgement is rolled back and nobody repeats it, so the
  task stays `cancelling` until a second cancel or a restart (`17-tasks.md:230` tells
  callers to poll until `cancelled`).
- A handler cancelled inside an enqueue: the message leaves the index but its write, in a
  thread, still lands; the task is `cancelled` before that message is handled (`orphan`;
  `17-tasks.md:147`: only after all owned work settles).
- Failures of work items are only in memory (`task_work_index.py:190`); after a restart the
  task completes although one of its messages failed. `FailureKept` is about one life of
  the process.
- A message between the backend's dequeue and the worker loop's next step
  (`queue_manager.py:292-294`) is neither pending nor in progress.
- Above `MAX_TASKS` the oldest cached records are dropped, active ones included
  (`task_tracker.py:277`); `is_cancellation_requested` is then false for a task being cancelled.
- A handler that reports an outcome and then raises decrements `in_progress` twice
  (`queue_manager.py:274`); the model derives the counter from the workers.

Sessions:

- The comment at `session.py:1781` says that the live file proves that the rewrite took
  place. It does unless another commit rewrote the file meanwhile (`overtaken`): then the
  recovery may accept an archive whose own rewrite never happened, or reject one whose did.
- A cancelled commit or append releases the session lock (`session.py:2213-2214`) while its write
  of `messages.jsonl` runs on in `asyncio.to_thread` (`async_client.py:96`). An append that
  returns in between is overwritten when the write lands (`AbandonAppend`, `Append`, `Land`),
  which is what the comment at `session.py:1291` says the lock prevents. `NothingLost`
  excepts the messages that were live in that time (`exposed`).
- An error after the rewrite marks the archive failed; its messages then are neither live nor
  extracted (`dropped` in `SessionLog`), although the comment at `session.py:2196-2198` calls
  them logically live. They remain in the archive's file (`NothingLost`).
- Terminal markers may come out of order when an archive in between failed (`InOrder`).
- Two messages of one archive, left by a crash between the requeue and the acknowledgement
  (`session_commit_processor.py:91`), are handled at the same time: one handler may write
  `.failed.json` and the other `.done` (`doubled`).
- Phase 1 waits for the session lock for at most 30 s, which is the default `lock_expire`.

Cache:

- `copy_within_mount` and `compare_and_write` change the raw backend and invalidate without
  `operation_lock` (`mountable.rs:667`, `wrapper.rs:115-119`): a reader between its backend
  read and its fill puts the old content back, and it is served until it is changed again
  or its time to live ends (`raced`).
- A copy within a multi-write mount invalidates nothing (`mountable.rs:653-656`), although such
  mounts are cached; on other mounts the copy makes missing directories (`:698`) and only its
  target and the direct parent are invalidated, so a cached listing above a new directory
  stays, unlike what the guide says (`14-ragfs-cache.md:218-219`). No error or race is
  needed (`suspect`).
- Operations other than `remove_all` return on a backend error before they invalidate, also
  when the backend changed something (`suspect`). Bypassed scopes and the rest of an
  interrupted invalidation are lost with the process, while the provider keeps the envelopes.

Watches:

- A durable import holds no mark, but the end of its first round releases the mark of the watch
  (`resource_service.py:278`, called from `:406`); a scheduled round that runs at that time
  can then overlap with the next one (`stolen`), unlike what `watch_scheduler.py:523-524`
  says of `hold_execution`.
- `delete_task` and `update_task` change memory before the save and keep the change when the
  save fails; a restart brings the old watch back. `_execute_task` does not look at
  `is_active` again, so a watch deactivated after it was picked has one more round.
- `rm` takes no lease of the coordinator: a refresh that passed its check can put the removed
  resource back.
- A connector import holds neither a lease nor a path lock from the creation of its watch
  (`resource_service.py:1653`, "The Watch exists before the import runs") to the end of the
  delivery, and goes on after `_monitor` timed out (`delegate.py:932`). A move in between
  rewrites the watch while the resource is delivered to the old URI; the next round then
  finds nothing at the new one and deactivates the watch, or imports there again (`Outrun`).
- `mv` can raise after the files were copied or moved (`_ops.py:785-820`, `:849`), and a
  cancellation between `mv` and the rewrite is no `Exception` (`fs_service.py:796`): files and
  watches stay apart (`lost`).
- A mutation does not hold back later accesses and can starve. Holding them back would
  deadlock, because executions take a lease inside a lease (`BlockedByWaiter`).

Not modelled, read off the code: `cas_update` of the local git store writes a temporary file
named by `with_extension`, which refs such as `v1.0` and `v1.1` share
(`git/backends/local.rs:235`); in `HALF_OPEN` the circuit breaker lets every caller through,
and results of calls begun before it opened count as results of the probe
(`circuit_breaker.py:63`).

## Proofs

Every safety property and every action property that a passing run checks is also a theorem,
checked by TLAPS for every value of the constants. Each proof has the same shape: an inductive
invariant `IInv`, which TLC confirms on the instances above; `Init` implies it, every action keeps it (one step of the proof per action or per conjunct it can disturb),
and it implies the property. The bounds of the runs (`MaxCrash`, `MaxFault`, `MaxMsg`...) are
arbitrary numbers in the proofs.

| Module | Theorems |
|---|---|
| `PathLockProofs`, `PathLockExclusion`, `PathLockTokens` | `TypeCorrect` (`TypeOK`), `Exclusion` (`MutualExclusion`), `TokensStay` (`TokenKept`), `TokensMatch` (`TokensMatchLeases`) |
| `TaskQueueProofs` | `TaskTypes` (`TypeOK`), `IndexKept` (`IndexComplete`), `SettledFirst` (`SettledBeforeTerminal`), `TerminalFinal` (`TerminalStays`), `FailureSticks` (`FailureKept`) |
| `ResourceHandoffProofs` | `HandoffTypes` (`TypeOK`), `Locked` (`WorkLocked`), `AdoptedOnce` (`OneHolder`) |
| `SessionCommitProofs` | `SessionTypes` (`TypeOK`), `MessagesKept` (`NothingLost`), `RecoveryRight` (`RecoveryExact`), `ArchivesDisjoint` (`ReadyDisjoint`), `ExtractedInOrder` (`InOrder`), `SessionImplementsLog` (`ImplementsLog`) |
| `CacheWrapperProofs` | `CacheTypes` (`TypeOK`), `HitsRight` (`HitsCurrent`), `StaleForGood` (`StaleStaysStale`) |
| `WatchSchedulerProofs` | `WatchTypes` (`TypeOK`), `OneRoundAtATime` (`OneRound`), `RefreshedInPlace` (`RefreshAtTarget`), `WatchesFollow` (`WatchFollows`), `TargetsApart` (`TargetsDistinct`) |

### Path locks

Assumptions: `NoOwner` is no owner; `Anc` is an irreflexive, transitive ancestor relation in
which files are leaves; batches are non-empty and name a path once (the code normalises them
so); 0 is no lease.

Exclusion. `IInv == BaseInv /\ Exclusive`. Mutual exclusion of published
leases says nothing of attempts in flight, so it is not inductive. `BaseInv` adds what the
locals of a call satisfy at each `pc` (`LocalOK`), where grants may lie (`WellPlaced`: the
lock of a file is in its sidecar, TREE sidecars are only those of files) and that only
tokens of lapsed or crashed owners are stale or being removed (`TokenOK`). `Exclusive` says
that whatever an owner that never lapsed has placed is still in place (`OwnOK`), and that of
two conflicting grants of two such owners at most one has been verified against the lock
file of the other (`PairOK`). A grant counts as verified (`Cleared`) against a slot when it
is published or the second check has read that slot.

The argument: the second check of a request covers the lock file of every conflicting grant
(`Covered`), and a conflicting token that is in place and not stale stops the reader
(`BlockedBy`). Others remove tokens only of lapsed or crashed owners (`OthersKeep`).
Whichever of two owners verifies last has written its token before and the other's token is
in place, so it is stopped (`ClearedStep`), and a lease is published only when all its
grants are verified against all slots. `TokensStay` follows from the same invariant action
by action.

Tokens and leases. That leases have their tokens is part of `OwnOK`. The other direction, no
token without a lease, needs `NoneLeft`: every token of an owner is that of a lease or of a
change the attempt in flight has recorded and will take back, and what was upgraded was the
EXACT token of a lease (`Explained`). A rollback undoes changes of different lock files, because
a batch names a path once, so undoing one leaves the others explained
(`RollbackExplained`); a release reduces a TREE token exactly when no other lease needs it
(`ReleaseExplained`).

### Tasks

Assumptions: client, canceller and messages are different processes.

The properties speak of the index and the record. What makes them inductive: where each worker
and each abandoned write is (`RowOK`, `LateOK`, `EnqIndexed`, `AckPrepared`), that the per-task
lock leaves one writer (`OneWriter`) whose record follows from the current one (`WriteOK`), that
nothing is left to do while a terminal status is being written (`QuietWrite`), that handlers are
stopped only in a task being cancelled (`CancelOnly`, `SignalOK`), that nothing happens before
the first message (`Fresh`, `EarlyOK`), and that a failed item leaves a trace until the end
(`FailureNoted`). The argument: `finalize` looks at the index under the lock. `IndexComplete`
makes an empty index mean that no message is left (`Quiet`), and stays so during the write
because enqueues come from handlers, of which there are none. A terminal record is never
written again since every write starts from an active one under the same lock.

### Lock handoff

Assumptions: the owners and messages are different values.

`IInv` adds to the types that a lease has its live token (`LeaseLive`), that there is one
lease (`OneLease`), that an adoption from the token alone runs while its owner has no lease and
alone (`AdoptingAlone`), that a handoff that lives on under another ref is remembered as
consumed (`Remembered`), and that a working copy has its lease (`WorkerLeased`). `OneHolder`
follows because every way to a lease, local adoption, adoption from the token, acquisition,
either takes the only lease over or finds none.

### Session commits

Assumptions: the bounds are natural numbers.

`IInv` has two layers. `Kept`, with `NothingLost`, holds in every behaviour: what a running
commit is about to take out of the live file is in its archive or exposed, and whatever a write
in `late` can overwrite is exposed. The rest, `Core`, holds until a late write lands
(`~stray`): after that the file may be any earlier one. In `Core`, `Readable` is the key: whether an interrupted
commit has rewritten the live file can be read off the ids in it, as long as no other commit has
rewritten it (`overtaken`). It holds since a message leaves the live file once
(`LeavesOnce`), commits hold the lock while they know the file (`SnapshotOK`, `PhaseOK`), and
appended ids are new (`RootSent`). Recovery then decides rightly, and a message out of the live
file is in an archive. Archives run in turn (`InTurn`) because archives are numbered without gaps
(`Contiguous`) and markers are never taken back (`Grows`): what the predecessor's marker
said when the handler looked still holds later. That the same archive has several messages
disturbs none of this except the outcome: of two handlers one may fail the archive and the other
finish it. By `OneRuns` this is so for archives in `doubled` only: of two messages of any other
one is about to be acknowledged.

`SessionImplementsLog` maps the files to the place of each message (`PlaceOf`). `LogInit` is
the initial state; `LogStep` is that an append, a rewrite, a marker are steps of
`SessionLog`, by what they move (`Append`, messages from live to archived, archived to extracted
or dropped; from dropped to extracted only for archives in `doubled`), a late write that lands
is `Stray`, and all others leave every place as it is.

### Cache

Assumptions: `Path` is a finite tree closed under parents, files are leaves, names tell files
from directories, data differ from the two tags of the backend, bounds are natural numbers.

`HitsCurrent` says nothing in the middle of an invalidation. `Truthful` extends it: what is
neither suspect, raced nor affected by pending steps is served rightly. It needs that an
envelope carries no generation that is still to come (`Past`): only then does a bump make all
older envelopes unusable, also after the provider forgot the generation and the process
restarted. `Past` rests on the order of generations (`Ordered`: the provider is not
ahead of the process, and what the process has not seen is of an earlier start). `Counted`
keeps the generations within their bounds. `ReadsFresh` says that what a reader is about to put is
still right: it holds the lock shared, so only raw writes get in between (`raced`). For each
change one lemma shows that what it announces covers all objects in which the change shows
(`CreateCovers`, `WriteCovers`...); `StaleForGood` follows from `Past` for any single step.

### Watches

Assumptions: there is a watch, watches start at different URIs, moves are pairs of URIs, there
is at least one permit.

Leases and an active move stay apart (`LeasesApart`), so nobody rewrites a target after an
execution compared it (`TargetHeld`), hence `RefreshAtTarget`. An import that holds no lease
goes to the place its watch points at, as long as no move met it (`LateInPlace`). A plan validated under the
lease stays valid until the table is rewritten (`PlanValid`), hence `TargetsDistinct`. Between
the move of the files and that of the table a resource is where the rewrite will point its
watch, and nothing else was below the destination (`InTransit`), so moving the files back
undoes it; otherwise resource and watch agree (`WatchFollows`). Memory and storage agree about
existence and target (`SavedFollows`, `SavedDistinct`), so a restart changes nothing of it. Each
round owns its mark (`Marked`), hence `OneRound`. The exceptions `lost` and `stolen`
are those of the observations.

### Only model-checked

Liveness (`AcquireReturns`, `OrphansRecovered`, `OutcomeSettles`, `Delivered`, `JobSettles`,
`ArchiveSettles`, `DueSettles`, `RemovedStops`), which is out of the prover's reach. No
module uses a `RECURSIVE` operator.

## Not modelled, and why

- Of the modelled parts: TTL and size eviction of task records, `create_if_no_running`, work
  registered without a message, `clear`, the sequential worker of the user deletion queue;
  handoffs of old versions without coverage, mismatching handoff refs, the second handoff
  to the semantic queue; the memory extraction of phase 2, the decision of the automatic
  commit, deletion of a session; file modes,
  traversals and several processes on one cache provider (the guide asks for a single
  writer); changes of a watch's target by `update_task`, permissions and credentials, the
  backup file of the watch storage.
- The git version store, the circuit breaker, OAuth, user deletion, writes to several
  backends, the graph of the semantic queue: small protocols each, left out in favour of what
  the server does on every request; what a reading of two of them shows is above.
- Vector search, parsing, model calls, encryption, metrics: data transformations or calls
  whose results the code does not determine.
- Servers, SDKs, plugins of agents, command line: forwarding without protocol state.
- Storage adapters: input and output; the models state what they need of them.

## Plan

Done: the lock protocol, tasks over queues, the lock handoff of jobs, session commits with their
abstract specification, the cache, the watches; for each of them its safety and action
properties, and the refinement, as theorems.

Left: abstract specifications of the lock protocol (leases granted and given back in one
step) and of the cache (a plain filesystem), with the refinement proved from the invariants
above; the small protocols listed under what is not modelled.
