# A TLA+ model of Compressatorium

Compressatorium converts disc images and ROM sets. A FastAPI backend (`app/`) queues
conversions, runs one external tool per job, verifies the outputs and, on request, deletes the
sources. It follows a RomM server (automatic conversion, metadata carried across), matches files
against DATs, and is watched by a Svelte page (`src/`) over server-sent events and REST.
Everything in the backend runs on one asyncio loop, with blocking work handed to threads; job
state lives in memory, tickets and locks in files other processes can share, the RomM ledger and
the match cache in SQLite.

Paths below are relative to the repository's `src/app` unless they start with `src/`.

## 1. Inventory

| part | state | operations | interacts with |
|---|---|---|---|
| conversion queue, `services/job_manager.py` | `jobs`, `_queue`, `_semaphore`, `_cancelled`, `_cancel_events`, per-job status | submit, cancel, delete, dispatch, defer, re-queue, `_process_job` | tickets, locks, tools, event stream |
| planning, `routes/convert.py`, `output_conflicts.py`, `_create_lock` | the claims of live jobs | plan one or many, resolve conflicts, reserve, submit | disk, locks, queue |
| `services/concurrency_manager.py` | ticket files, slot files (flock), counter file | reserve, acquire, release, start-up clean-up | other processes sharing the directory |
| `services/lock_manager.py` | `_locks`, `_dir_locks`, lock files | acquire and release output and folder locks | other processes, file routes |
| subprocess runner and tools, `services/subprocess_runner.py` | child, watchdog, active and abandoned children, detached probes and sweeps | run, cancel, stall, reap, sweep, publish | queue, volume |
| verification, `routes/info.py`, `workload_limiter.py` | lanes, tasks, per-stream queues | verify, stream, batch | runner, clients |
| delete-on-verify, `utils/delete_plan.py`, end of `_process_job` | `delete_snapshot` | snapshot, re-plan, check, remove | other jobs, file routes, other programs |
| history, `_prune_jobs`, `get_history_overflow`, `/jobs/events` | tally, bounded log of evicted ids, generation | prune, read since a cursor, Clear, stream | browser |
| job store, `src/src/lib/stores/jobs.svelte.js` | rows, totals, cursor, generation | connect, refresh, poll, apply frames, Clear | event stream, REST |
| file routes, `routes/files.py` | none | delete, rename, batch delete, in-use check | queue, locks |
| RomM automatic conversion, `services/romm/auto.py` | rules, per-platform history, terminal listener | sweep, preview, save, forget | queue, preferences, RomM |
| RomM ledger, `services/romm/repin.py`, `routes/romm.py` | rows with claims, identity of the instance | plan, cancel, settle, change of instance | queue, RomM |
| DATs and matches, `routes/dat.py`, `dat_store.py`, `dat_sync.py` | DATs, index, one cached row per path, deferred rematches | import, sync, delete, match job, batch | scan, remote server |
| library scan, `routes/info.py`, `disc_id.py` | single flight, cancel, force | list volumes, read metadata, write disc tags, match what is not cached | files, match cache |
| disc identification, archives, preferences, migrations, configuration, other stores | tables and files | pure functions and single-row updates | |

What is hard here, and what would make each part correct:

- **Queue.** A job is cancelled, deleted or re-queued between any two `await`s of its coroutine.
  Correct: one writer per output; nothing of a finished job is left behind; a listed queued job
  is on exactly one way forward; a cancelled job never writes; every queued job ends.
- **Planning.** A plan is made against a disk and a queue that have moved on when it is claimed.
  Correct: live jobs never share a file, by any spelling; a request is queued whole and within
  the depth; a finished file is replaced only on request.
- **Tickets and slots.** Two orders (semaphore, ticket files) decide who runs, in several
  processes that die. Correct: never more holders than slots; tickets grow; nobody starves.
- **Locks.** They are released by path, not by holder, and folders and files exclude one another
  through two tables. Correct: a release never frees another job's lock.
- **Runner.** A volume that hangs takes any call with it. Correct: a run ends all the same, what
  it reports is true of the child, and nothing partial is left for a product.
- **Verification.** Slots, tasks and clients that come and go. Correct: the lane is as wide as
  configured, slots come back, a verdict is told.
- **Delete-on-verify.** Minutes pass between snapshot and removal. Correct: only what was
  converted is removed, a descriptor goes last, a cancel in time keeps everything.
- **History and browser.** Counts on two channels that overtake one another, over a log that
  forgets. Correct: the cursor is honest, totals never go back.
- **RomM.** Several requests, passes and crashes on one row; a rule that repeats for ever on a
  memory that may be late. Correct: one pending row, the right instance, no row stranded; nothing
  converted twice or passed over wrongly; no source lost.
- **Match cache.** Rows that outlive what they were computed from. Correct: the DATs win in the
  end, nothing forbidden is sent, a name is not lost to a failure.

`PROJECT.json` lists every component with its status, and the hazards at their lines.

## 2. Plan

Done, in this order: `JobQueue` with `OutputOwnership` and `JobQueueProofs`; `SourceDelete`;
`HistoryOverflow`; `ToolRun`; `VerifyLane`; `RepinLedger`; `RommSweep`; `MatchCache`;
`JobPlanning`; `SharedSlots` with `SharedSlotsProofs`; `SourceDeleteProofs`; `JobPlanningProofs`;
`RepinLedgerProofs`; the second half of `JobQueueProofs` and the rest of `JobPlanningProofs`;
`VerifyLaneProofs`; `HistoryOverflowProofs`; `RommSweepProofs`; the part of `JobPlanningProofs`
about `ToolRun`; the part of `HistoryOverflowProofs` about `MatchCache`.

Left: the lock files behind `LockManager` among processes; several outputs in `RepinLedger`;
several platforms in `RommSweep`; rename and folder removal in the file routes.

The modules meet at what they share with the code: `JobQueue` takes tickets, slots and foreign
refusals as one process sees them, and `SharedSlots` is several processes behind them; the
claims of `JobPlanning` are the submissions of `JobQueue`; a `Fail` or `Converted` of `JobQueue`
is a run of `ToolRun`. They are not conjoined: each is checked against every behaviour of its
surroundings.

## 3. Modules

### JobQueue and OutputOwnership

One action per stretch of code between two suspension points. `jobs`, `cancelled`, `event`,
`queue` and `sem` are the fields of `JobManager`; `tickets` and `slots` the files of
`ConcurrencyManager`; `outLock` and `dirLock` the tables of `LockManager`. `pc[j]` is where the
coroutine `_process_job` of `j` stands, `disp` the entry the dispatcher loop has popped,
`requeue` the jobs with a pending `_requeue` task. `told` and `ackd` are history variables.

| code | action |
|---|---|
| `create_job`, `create_jobs_atomic` | `Submit` |
| `cancel_job` | `CancelQueued`, `CancelProcessing` |
| `delete_job` | `Delete` |
| `_dispatcher_loop` | `Skip`, `Dispatch`, `DispatchHeld` |
| `_process_job` up to PROCESSING | `Enter`, `GetSlot`, `GiveUpSlot`, `Probe`, `TakeOutput`, `RefuseOutput`, `FailEarly`, `NoParts`, `TakeFolder`, `RefuseFolder`, `Defer`, `StartFolder` |
| `_requeue` | `Requeue` |
| the main `try` block and its `finally` | `AlreadyDone`, `Fail`, `StopCancelled`, `StartConvert`, `Converted`, `VerifyStep`, `Complete` with `Finalize`; then `Finish` |
| another process sharing the lock directory | `ForeignTicket`, `ForeignSlot`, `ForeignRelease` |

Abstracted: paths (a destination is an element of `Outs`; containment is given by the constants
`OutInside`, `SrcInside` and `Nested`); progress; the kind of failure; extraction. `delete_job`
is one step because a finished job has no temporary directory left. `_prune_jobs` is `Delete` of
some finished job. External jobs never enter the queue. A destination or a folder that
another process has locked, or whose lock file cannot be opened, is a `RefuseOutput` or a
`RefuseFolder`, which are always possible.

`OutputOwnership` is what this machinery is for, in four actions: a job comes to own its
destination (`Own`), packs its folder while nobody else owns anything in it (`Pack`), writes its
destination while it owns it (`Write`), and leaves (`Leave`). `JobQueue` maps to it the
coroutines past `acquire_lock` (`Owners`), those past the folder lock (`Packers`) and the files;
`Exclusive` is the abstract specification under that mapping.

### JobPlanning

`req[r]` is a request: what is left to plan, the plans made, where it stands. A plan is one step
of reading (`PlanJob`, `PlanAll`), the reservation and creation another (`CreateJobs`), the job's
own look at the disk a third (`Start`). `Real` says which file a spelling names: claims compare
files (`realpath`), locks compare spellings. `clobbered` records which job replaced a finished
file. The inputs are those validation accepts; `Appear` and `Vanish` are other programs. The
parts of a folder job that are enumerated from the disk are left out, and links do not change.

### SharedSlots

Files are inodes. `file[i]` is the inode that bears the name of slot `i`, `open[x]` what a process
has open, `flock` the holder of an inode's lock. Opening and locking are two steps because a
clean-up may unlink the name in between, after which the lock is on a file nobody else will find;
`torn` remembers that this happened. `counter` is the body of the counter file (`Corrupt`, or a
number); `onDisk` the tickets in the directory, `num`, `seq` and `fallback` what a process knows
by itself; `unseen` remembers that a garbled counter was rebuilt from the ticket files while one
of them was missing. `Die` ends a process with its locks and not with its tickets. Left out: the
ticket files of a former format, and pids that are used again.

### ToolRun

A run is `pc[r]`, its child `child[r]`; a tool is a set of traits (`Chdman`, `Makeps3iso`, ...)
named in the module. `alive` is whether the volume answers. A bounded wait has two actions, the
event and the expiry; what it gave up on is in `probes` or in a given-up `sweep`, and goes on when
the volume answers. `file[p]` names the run whose bytes are at `p`; a split build has its base and
numbered parts, and its sweep lists them from the first to the first gap (`Found`). A tool whose
working directory is on the volume cannot be started while the volume does not answer (`Spawn`).
Left out: progress arithmetic, errors of `unlink`, a stall time-out of 0, which turns the watchdog
off.

### VerifyLane

A request is "sync", "events" or "batch". `token` are the slots held, `task[q]` the verifier,
`queue[q]` the bounded queue to the client, `stuck` what a bounded wait left behind. A stream
moves only while its client reads. A client may leave at any point: a stream that awaits is
cancelled from inside out (`Leave`), a batch that stands at a `yield` is dropped, gives its slot
back, and has its walk collected and its verifier stopped only afterwards (`DropAtYield`,
`Collect`). The time-out of a verification is taken to be set.

### SourceDelete

`disk[f]` is the version of a file, and a version is never used twice: this is what size,
`mtime_ns`, inode and device stand for. A descriptor's version decides which tracks it names. A
job plans (`Parse`, `Stat`), queues, converts (`Start`, `Read`, `Converted`), verifies, re-plans,
checks its paths one by one and removes them one by one. `Edit` is any other program; `AskDelete`
and `RouteRemove` are the two steps of the delete routes. The checks of one path run without
suspension after the volume check, so they are one step.

### HistoryOverflow

The server's `tally` is the set of the jobs counted, where the code keeps counts per status and
mode; `log` is the bounded list of evicted ids. `Prune` is separate from `End` because the
coroutine suspends between the two. The event stream is a generator with its cursor and one
ordered channel `frames`; the answers of REST reads are under way in `refresh` and `cleared` and
may be overtaken. `tallyAt` and `evictedAt` are history variables.

### RommSweep

`conv[r]` is the record of a ROM, `sw` the sweep that holds `_sweep_lock`, `late` and `owners`
the state of the listener, `known` what the job manager still lists. A save of a rule is two
writes (`SetRules`, `SaveRules`) between which the process may die or the second fail
(`SaveFails`); the write of a verdict may fail (`NoteFails`), as that of a record (`MarkFails`)
and what a sweep awaits (`Aborts`). A volume that does not answer while a rule is saved
leaves the rule switched off and without its directory (`Normalized`). `gone` are deleted
sources. Filters and orders are any choice; one platform.

### RepinLedger

`rows` is the table of one output, `pass` the settle pass, `pc[c]` and `saw[c]` a plan under way
and what it has read, `job[c]` its job. A tab records before it submits, a sweep after. `inst`
is the configured RomM; its change is `SaveIdentity`, `RetireRows` and `ClearOwed`, each of which
may be the last. `ClaimAges` is the passing of the claim's time-out. Split outputs, the join by
path for platforms without hashes, the returned counts and the second record of a tab whose
conversion the queue redirected (`output_paths`) are left out.

### MatchCache

`row[p]` is the cached verdict of a path, `index[h]` the DAT that lists a hash, `m[x]` a matcher
(job, scan, batch), `change[c]` an import or a synchronisation under way, `deferred` the paths
that wait for the job. A session of SQLAlchemy on sqlite3 reads before its transaction begins, so
the checks of a writer (`Writing`) and its `Commit` are two steps. The scan lists the volumes
(`ScanLists`), reads the metadata (`ScanAbandons` when a helper is stuck), tags the discs of CHDs
(`ScanTags`, which changes the file under the other matchers), reads the rows (`ScanPrimes`) and
matches. The replies of the server are free. A rematch after an import needs the paths
(`ListSurvivors`, or `SurvivorsUnread` when the read fails) and a job (`Schedule`, which may fail
or leave paths out). `lost` is a history variable for rematches taken away by a cancel, a crash, a
failed read or a failed schedule. Parsing, download, the already-synced path, and `match_file`,
which writes nothing, are left out.

## 4. Runs

All passing runs explore their whole state space, in minutes with two workers.

| run | instance | properties |
|---|---|---|
| `queue` | file job `a`; folder jobs `d`, `e` with `e` inside `d`; `a` and `e` write one output inside `d`; a foreign ticket `f`; 2 permits; `a` may overwrite, `d` verifies | `OneWriter`, `FolderQuiet`, `Accounted` (every end announced, nothing left behind, one way forward), `WithinLimits` (permits, tickets and slots agree), `CancelledNeverWrites`, `NoRevival`, `Exclusive` (refinement) |
| `queue_live` | `a`, `d` and `e`, each with an output of its own, all active at once; 2 permits | `EveryJobEnds` |
| `planning` | a disc image through a link, a second whose outputs bear the numbered names, an archive with the same track, a sheet with its track; 2 requests, 3 jobs, depth 2 | `ClaimsInv`, `SeparateWriters`, `PrimaryAgreed`, `LetIn` |
| `shared` | 2 processes, 3 jobs, 1 slot, 1 crash, 1 failing operation | `SlotInv`, `TicketsGrow`, `FifoAcross`, `NoStarvation` |
| `toolrun` | a run and its retry, by four kinds of tool; a base and 2 numbered parts; 2 detached probes; the volume stops once | `RunInv`, `StrayOnce`, `NothingPartial`, `NeverHangs` |
| `verify` | a plain request, a stream and a batch of 2 files; 1 slot; queue of 2 | `LaneInv`, `StrandsOneFile`, `Told`, `LaneMoves` |
| `source` | two jobs on one descriptor with one track, three versions | `OnlyConvertedRemoved`, `RemovalSafe` |
| `history` | two jobs, cap 1, log 1, one refresh, one disturbance of five kinds | `CursorInv`, `TallyAtCursor`, `TotalsNeverGoBack` |
| `sweep` | 2 ROMs with outputs apart, 1 per sweep, 2 jobs, 1 save or forget, 1 fault | `RecordInv`, `PassedOverRightly`, `NoSourceLost` |
| `sweep_shared` | the same, both ROMs lead to one output | violation of `NoSourceLost` |
| `repin` | a tab and a sweep with different sources for one output, 2 instances, 1 fault | `LedgerInv`, `RightInstance`, `LedgerMoves` |
| `match` | a CHD with two kinds of hash, 2 DATs, one job, scan or batch beside the rematches of an import, one event | `LocalWins`, `SentRightly`, `KeepsIdentity` |

Each module also has its type invariant in its run, as `TypeOK` or as a conjunct of the first
property named.

**Bounds.** Each is a constant of the model or of the instance.
- `queue`: three jobs are one holder, one waiter and one that defers; the folders nest and share
  a destination so that every conflict of the two tables occurs. No destination exists
  beforehand; the jobs of the run make them. `MaxQueue` is the number of jobs. Once
  `e` is cancelled the other process keeps away: the two together triple the states.
- `queue_live`: the source of `a` is inside the folder of `e`, which is inside that of `d`, so each
  may defer for the other two. To keep it small the operator cancels folder jobs only,
  and no other process takes tickets; it may refuse outputs and folders.
- `planning`: five inputs are chosen so that a primary of one mode is the sidecar of another
  under a second spelling; `MaxDepth` 2 is fewer than the jobs asked for, `MaxWorld` 1 is one
  file that comes or goes.
- `shared`: one slot is where a second holder shows; each fault happens at most once, together
  at most `MaxFaults`; all processes are up at the beginning.
- `toolrun`: two runs, because a retry is what the leftovers of the first meet; `MaxHangs` 1 lets
  the volume stop and, if it will, answer again. Two numbered parts (`Extra`) are the least with a
  gap. `NeverHangs` speaks of the tools without an unbounded step, of the four of this run the one
  that only sweeps (`Z3ds`); the others are there for the safety properties. To keep
  it small the split build is not measured, and its retry is not cancelled (it may fail, stall or
  outlive its signals).
- `verify`: one slot makes everybody wait; a queue of two is the least with room for progress
  and a verdict.
- `source`: `MaxVersion` 3 is one edit and one output, or the outputs of both jobs.
- `history`: with `Cap` 1 the second end evicts the first job; with `LogSize` 1 a Clear or an
  eviction pushes a cursor out; a full buffer only delays the generator.
- `sweep`: `Cap` 1 makes two sweeps of two ROMs; `MaxJobs` 2, so a third conversion is not
  reached, and the repeat of one ROM is.
- `repin`: `MaxInst` 2 is one change; `MaxFaults` 1 is one crash, failed request or failed
  clean-up at any point.
- `match`: `MaxRuns` 1 and `MaxEvents` 1 bound the operator, the disk and the failures together; a
  second matcher is the job that rematches.

**Deadlock.** `CHECK_DEADLOCK FALSE` everywhere: ids and bounds are finite, so each system stops
once all is done. That nothing stops too early is what the liveness properties say.

**Symmetry** is used in `source` (jobs), `sweep` (ROMs) and `planning` (jobs, requests), over
values the instance does not tell apart; none of these runs has a temporal property.

**Fairness.**
- `JobQueue`: the event loop runs what is ready, the re-queue timer fires, a converter or verifier
  ends (`NeverHangs` and the watchdog), another process takes and returns its slots. `TakeFolder`
  is strongly fair: a folder is tried every two seconds, and another process that has it locked is
  done with it some day, so of infinitely many tries with the folder free here not all are
  refused. Clients submit, cancel and delete without fairness.
- `ToolRun`: the loop runs and its timers fire. Nothing is assumed of converter, threads or
  volume; but a converter that keeps printing progress and never ends is not stopped by the
  code, so it has to be silent at last, as `Measure` says.
- `VerifyLane`: the loop and the verifier's task run; a semaphore is given to a waiter in turn,
  which is why `TakeLane` is strongly fair. Clients are not fair.
- `RepinLedger`: jobs end, passes are started and go on (strongly, as a crash may disable them),
  an owed clean-up is retried, time passes.
- `SharedSlots`: jobs and clean-ups go on, and a supervisor starts a dead process again.
- `RommSweep`, `MatchCache`, `JobPlanning`, `SourceDelete`, `HistoryOverflow`: safety only.

## 5. Where the code and its words differ

The run `sweep_shared` is a finding: the set of claimed destinations
(`services/romm/auto.py:1597`) lives for one sweep. The ROM that was passed over in one sweep is
converted over the other in the next one, and with delete-on-verify both sources are gone, which
the comment above it says the set prevents. A rule changed from `rename` to `overwrite` ends
the same way.

The modules define further statements the model refutes. They are kept with a `.cfg` each, and
are not among the runs:

| definition (`.cfg`) | what happens |
|---|---|
| `TerminalIsFinal` (`MCJobQueueFinal`) | `_process_job` assigns PROCESSING (`services/job_manager.py:2696`) without looking at the status. `NoRevival` and `CancelledNeverWrites` hold instead. |
| `DeferFreesOutput` (`MCJobQueueDefer`) | `_defer_blocked_job` (`:1195`) looks a deleted job up to find the output lock to release. |
| `DeferralEnds` (`MCJobQueueCross`) | "Such a conflict is **transient**" (`_blocked_by_dir_lock`, `:1176`): two folder jobs, each writing into the folder of the other, both hold their output locks, refuse one another the folder, and both defer; in step they do so for ever. The planner refuses only an output inside its own folder (`routes/convert.py:498`). |
| `NotPulledOut` (`MCSourceDeleteRace`) | the in-use check (`routes/files.py:837`) and the removal are separate; a job starts in between. |
| `NoDoubleCount` (`MCHistoryDouble`) | a page-load refresh has no cursor (`src/src/lib/stores/jobs.svelte.js:340`); the next poll repairs it. |
| `NoGhostRow` (`MCHistoryGhost`) | rows of active jobs are left to the stream (`:401`), and after a restart no frame names them. |
| `PartialSwept` (`MCToolRunPartial`) | tools without a sweep leave their partial output after a cancel (`services/chdman.py:101`). |
| `EverythingSwept` (`MCToolRunGap`) | "Everything a run of this tool may have put on disk" (`services/makeps3iso.py:242`): the parts are listed up to the first gap, and a sweep of an earlier run that comes back to life can make one. |
| `RunAlwaysEnds` (`MCToolRunHang`) | `require_output` looks at the output without a bound; and `romz` starts its converter with its working directory on the volume (`services/romz.py:440`), where the start waits without a bound "before the child exists", which `services/subprocess_runner.py:1547` says "would freeze the whole queue". |
| `WorkloadBound` (`MCVerifyLaneWide`) | "Maximum concurrent verify workloads" (`config.py:73`): the slot of a batch that is dropped at a `yield` is free before its verifier has been stopped (`routes/info.py:1817`). |
| `NoSlotLost` (`MCVerifyLaneLost`) | a stream that is left before its first frame never runs the `finally` that returns the slot (`routes/info.py:1909`). |
| `VerdictRecorded` (`MCRommSweepVerdict`) | "So the answer is recorded at the one moment it is certain" (`services/romm/auto.py:1268`): the owner of the job is taken first (`:1290`), and if the write of the verdict then fails, nothing tries again; after a prune the ROM of a failed overwrite passes for converted. |
| `PausedStays` (`MCRommSweepPaused`) | rules paused by validation "stay paused until the operator fixes what is wrong" (`:1619`): that a directory was refused is not read back from the preferences, so a run by hand takes the rule with outputs beside the sources. |
| `RightIdentity` (`MCRepinLedgerIdentity`) | a row's output may be written by the job of another source (`routes/romm.py:1060`). |
| `NoStaleMiss` (`MCMatchCacheStale`) | a miss computed before an import is written after it. |
| two exceptions of `LocalWins` and `KeepsIdentity` | `services/dat_store.py:514` says that a check inside the writing transaction closes the window to an import, and `:668` and `routes/dat.py:1554` that compare and delete are one: sqlite3 begins the transaction at the first write, after the check. `RemoteYields` excepts such rows (`lost = "raced"`), `KeepsIdentity` the writer that read another row (`Blind`); without the first `LocalWins` is violated, without the second `KeepsIdentity` is, with two runs over a file of one kind of hash. |
| `SidecarSpared` (`MCJobPlanningSidecar`) | a job looks again at its primary, not at its sidecars (`services/job_manager.py:1394`). |

`MCHistoryLive.cfg` checks that rows and totals converge; it passes, and takes too long to stand
among the runs.

## 6. Proofs

**JobQueueProofs** proves, for all values of the constants that satisfy the assumptions of
`JobQueue`, that `TypeOK`, `OneWriter`, `LocksOwned` and `FolderQuiet` are invariants and that
the queue implements `OutputOwnership`. The assumptions: destinations and containment are well
typed, nesting is symmetric, and a folder job's output is not inside its own folder, which the
planner refuses.

Mutual exclusion alone is not inductive: the `finally` block frees a path whoever holds it. The
invariant is `IInv == TypeOK /\ LocksOwned /\ FolderQuiet`, where `LocksOwned` says that a
coroutine past `acquire_lock` is the one its lock names. The step proof sorts the actions by what
they do to the locks: a coroutine that moves without leaving its locks (`MoveKeepsLocks`), one
that leaves them (`LeaveKeepsLocks`), the two acquisitions (`TakeOutputKeepsLocks`,
`TakeFolderKeepsLocks`) and the exits (`FinalizeKeepsLocks`).

The refinement (`ImplementsOwnership`) follows the same division: an acquisition is `Own` or
`Pack`, whose guards follow from `LocksOwned` and `FolderQuiet`; a conversion and its clean-up
are `Write` by an owner; an exit, a deferral or a fresh entry of the coroutine is `Leave`; all
else changes nothing the abstract state sees.

Its second half builds on this and proves, for any number of jobs and permits, that
`Accounted`, `WithinLimits` and `CancelledNeverWrites` are invariants and that `NoRevival` holds
of every step. None of them is inductive. They share one invariant, `AInv`, which adds to `IInv`:
- of each job, `Placed` (its status follows from where it stands, and it stands in one place:
  the queue, the dispatcher's hand, a coroutine or a pending `_requeue`), `Signalled` (the cancel
  event exists from the first step of the coroutine to its exit, and is set once the job is
  cancelled), `Supplied` (tickets, slots and locks are held only where they can still be given
  back) and `Leaving` (a job cancelled while it was queued stands at most at the look at the
  event before the destination is cleared, with the event set);
- `Single` and `Permits`: one entry and one ticket each; coroutines and free permits add up to
  the limit;
- `InOrder`: the tickets of running coroutines come first, then that of the job the dispatcher
  holds, then those of the queue in its order. Without it nothing rules out that a coroutine with
  a permit waits for a ticket whose job has none. It holds because a deferred job gives its
  ticket back and draws a new one only when it is queued again.
The lemmas on sequences without repetition (`Before`) are proved once: appending, taking the
head and removing an element keep the order of the others.

**SharedSlotsProofs** proves, for any number of processes, jobs, slots, crashes and faults,
`SlotInv`, and `TicketsGrow` and `FifoAcross` as action properties. The inductive invariant is
`TypeOK /\ TicketsCovered /\ SlotsToTry /\ SlotsHeld`, for `FifoAcross` with `CounterAbove`:
- `TicketsCovered`: every ticket of a job on its way is within the `fallback` of its living
  process. `TicketsGrow` follows, since each new ticket is above the fallback, whatever the
  counter does.
- `SlotsToTry`: whoever tries a slot tries one that exists.
- `SlotsHeld`: unless a file was torn away, a holder has the lock of the inode that bears its
  slot's name, and what is open for locking bears it too.
From the last, holders map to slots one to one (`HoldersFit`), and the bound is the injection.
- `CounterAbove`: a counter that can be read is not below any ticket in the directory, nor below
  that of a job that waits and will write its file again. This proof failed at first, and for a
  reason: a clean-up takes the file of a waiting job, the counter is garbled and rebuilt from the
  files that are left, and the job restores its old ticket. Four jobs then have a new ticket not
  above one in the directory, which three jobs, as in `shared`, cannot show. `FifoAcross` says so
  now (`unseen`), and `CounterAbove` was checked by TLC with four jobs and two failures.

**SourceDeleteProofs** proves, for any jobs, files, contents of descriptors and number of edits,
that `OnlyConvertedRemoved` and `RemovalSafe` are invariants of `SourceDelete`. The assumptions
are those of the module, which only type its constants. The invariant is `TypeOK`, `RecordsOld`,
`PassedApart` and, of each job, `Right`:
- `RecordsOld`: versions only grow, so what was recorded of a file is not newer than the disk,
  and the snapshot not newer than what was read. A file that at its check is still the snapshot's
  has therefore been the same when it was read.
- `SnapWhole`, `ReadWhole`, `CheckedRight`: the snapshot may mix two versions of a set, since it
  is taken file by file. The plan made again has to list the files of the snapshot, and the
  descriptor has to pass its check after it: both together make the files of the snapshot those
  of the version that was converted. Neither check alone would.
- `PassedApart`: what a job has found unused by others (`Passed`). Of two jobs that each convert
  a file of the other's, one was not active when the other looked, and has passed nothing. With
  only a track in common there is no such argument, and no such property: the descriptor of one
  may be edited between two of its checks, and then does not name the track to the other.

**JobPlanningProofs** proves, for any inputs, spellings, sidecars, batches and number of jobs and
requests, that no two live jobs write one file (`ClaimsDisjoint`) and that `SeparateWriters` is
an invariant. The assumptions are those of the module, which type its constants; nothing is
assumed of what a conversion writes beside its destination. The invariant is `Working`,
`ClaimsDisjoint` and `LocksApart`:
- `Working`: a coroutine works for a job that is processing. `DeleteRunning` keeps that.
- `ClaimsDisjoint`: jobs are created with files that no live job claims, and no other job of the
  same request; after that claims only shrink. The look at the disk is not used, so a plan that
  is out of date does no harm here.
- `LocksApart`: coroutines that run hold different spellings of their destination. A job that
  was deleted while it ran is no longer live, and this is all that is left between it and the
  next job for the same file: hence the two exceptions in `SeparateWriters`, both needed.

On top of this invariant it proves `ClaimsInv`, `LetIn` and `PrimaryAgreed`:
- `LetIn`: the depth is looked at and the jobs are created in one step, so what has to be shown
  is that this step creates one job for each destination. The indices that win (`Specs`) are
  one for each key and a strongest input's; that a strongest one exists is an induction over a
  sequence, done by a least counterexample (`Least`, `FirstOfHighest`), since the induction
  theorems themselves cannot be used here.
- `PrimaryAgreed`: that a replaced file was agreed upon follows from `AllowRight` (leave to
  overwrite was asked for by the request) and `Guarded`: while a job without that leave runs,
  what is at its destination is nothing, a file that came meanwhile, its own, or that of a
  deleted job. Another live job cannot have finished there, by `ClaimsDisjoint`.

The second part of that module is about `ToolRun`. It proves `RunInv`, `StrayOnce` and
`NothingPartial` for any tool (any set of traits), any number of runs, parts and probes, and a
volume that stops any number of times, from the assumption of `ToolRun`. The invariant is
`RunIInv`:
- `Reported`: at each stage of a run, where its child may be and what was said of it. A child
  that is still there after the report is abandoned, and `complete` needs one that ended well.
- `InTurn`: a run begins after those before it are over, so the only files a later run can lose
  to a sweep are its own, and the sweep that takes them is one that was given up.
- `FilesWritten`, `Published`: only converters and the publication write files.
- `SweepRight`: a sweep has taken a later file only as the removal that was under way when it was
  given up, and takes none after it. `StrayOnce` follows, and is not inductive without it.
- `BeforeRight`, `AfterRight`, `SweepsAll`: a run goes on when its sweep has returned or was given
  up, and a sweep that was not given up has every file of its run still before it, but those
  behind a gap (`BeyondGap`).
- `Gapless`: until its sweep has listed them, the numbered parts of a run follow one another, but
  for those that a sweep of an earlier run took (`Kept`). So what the listing misses is behind
  such a gap, which is the exception in `NothingPartial`; without it the property is false.

**RepinLedgerProofs** proves, for any number of tabs, sweeps, sources, identity changes and
faults, `LedgerInv` and `RightInstance` as invariants and `NewerPlanWins` as an action property
of `RepinLedger`, from the assumption of that module. The invariant is the conjunction of
- `Types`, with which a pass is at a row exactly while it has the lock;
- `Plans`: a tab read its ids no earlier than the generation it will compare, so if the generation
  is still the same the ids are of this instance; a sweep that looked keeps the identity fixed
  until it has recorded;
- `AtMostOne`: a row is recorded after the older ones were superseded, and a claim is handed back
  only if none is pending;
- `RowsOwn`: rows that can still be settled, and the one about to be pushed, are of the instance
  configured, or the clean-up is owed. This is inductive only with
- `CleanUp`: the marker is cleared in the same hold of the lock in which the rows were retired, and
  no sweep records between the two;
- `PushedOwn`, which says of every push what `RightInstance` does, and that its row is still there.

**VerifyLaneProofs** proves, for any requests, batches, widths of lane and queues, and a volume
that stops any number of times, `LaneInv`, `StrandsOneFile` and `Told`. The assumption is the
module's: the bounds are positive, the requests finite and of one kind each. The invariant says
of every request (`Right`):
- `Holds`: a verifier at work means a slot, or a batch whose client left while its stream stood at
  a `yield` and that is about to be collected; and a slot means a verifier at work, a stage before
  it, or a batch whose stream never began. The slots are within the limit; the verifiers may
  exceed it by those dropped batches and by nothing else (see `WorkloadBound` in section 5).
- `Carries`: a queue is progress only, and once the task is over the verdict behind it. A full
  queue drops its oldest entry for the verdict, so the queue is never longer than its limit, and
  the consumer who stays reaches the verdict before its end.
- `Strands`: what a batch left stuck is of the file it is at, and then it is on its way out: the
  file is reported `abandoned`, or the probe that follows will give up on the same file. While
  the volume answers nothing is stuck, which is why a wait that ends well strands nothing.

**HistoryOverflowProofs** proves, for any number of jobs, any cap, log and buffer, and any number
of refreshes, drops, clears and restarts, `CursorInv`, `TallyAtCursor` and, of every step,
`TotalsNeverGoBack`. The assumptions type the bounds. The invariant:
- `Logged`: entry `i` of the log has the sequence number `seq - Len(log) + i`, and is the
  eviction of the job it names; any job evicted after the log's first gap is in it; an empty log
  means that the last event was a reset. With these a cursor that is not expired reaches no
  further back than the log. A prune has to append one entry per evicted job, for which
  `Enumerates` shows that `InOrder` lists a set of jobs once each (ranks are injective, so onto).
- `Totals`: the tally of each moment of each process is written once.
- `Tells`: each payload under way, in a frame, in the answer of a refresh or of a Clear, tells
  the tally of the moment it names, however late it arrives; so does the store. `IsStale` is what
  keeps the store from going back, and nothing else is used for that.

The second part of that module is about `MatchCache`. It proves, for any paths, kinds of hash,
DATs, runs and events, that `LocalWins` is an invariant and that `SentRightly` and `KeepsIdentity`
hold of every step. The assumption is the module's: a path has at least one kind of hash, and
there is room for the DAT the store begins with. The invariant is `CacheIInv`:
- `Tables`: rows, hashes and DATs are well formed and name only DATs there are; a version of a
  file is no greater than the events so far allow.
- `Tasks`: nothing is to do for, nor waits for, a job that does not run.
- `Matching`: the evidence of a match (`Evidence`) is one hash of each kind, and none but the first
  version's while the file is still that one, so two hashes of a kind prove a change. `Sound` says
  what a verdict owes to its evidence, `Decided` what a writer between its checks and its
  transaction has checked: it takes no name from an untouched file, and a removal
  (`DropStates`) is of a file that was touched. `KeepsIdentity` follows, but for a row that
  changed in between (`Blind`).
- `Yielding`: a row that owes a rematch (`Owed`) has it to come, or is the one the job is at. This
  is inductive only with its second half: if an import fell after the job's match had looked
  (`Overtaken`), the rematch that import brings is still to come from elsewhere than this match.
    Without it a verdict reached before the import could end the only rematch the row has. A
  schedule that fails ends it too, and is then on record in `lost`.
`SentRightly` needs of the invariant only the shape of a match, and is shown by where each step
may move one (`Moved`).

**RommSweepProofs** proves, for any ROMs, output names, rules, caps and faults, that
`PassedOverRightly` is an invariant of `RommSweep`; and that `RecordInv` and `NoSourceLost` are
when no two ROMs lead to one output (`OneOutputEach`). The hypothesis is what the run
`sweep_shared` lacks, and that run is the counterexample without it; it holds in `sweep`. The
assumption is the module's, that a rule has the fields of a rule. The invariant `IInv`, which
needs no hypothesis:
- `JobsGood` and `LiveIsLast`: a job on the way is known to the queue, has an owner, has its
  source, and is the last job of its ROM.
- `RecordsGood`: a record names a job of its ROM for the present target, with what was at the
  destination before that job; a verdict that is written is the job's, and one that is not was not
  told yet, or its write failed. `EditGood` is why this survives a crash between the two writes of
  a save.
- `PlanGood`: what a sweep has chosen has no job on the way and a source that is there. It follows
  from `sw.active`, read at the beginning, since only the sweep that holds the lock adds jobs.
- `MarkGood`: between the queue and the record, the batch's jobs are still the last of their ROMs
  and nobody was told of them, so `JobOf` finds them and `late` does not name them.
- `FilesGood`: every written output names its job.

With outputs apart, `OwnOutput` says that a ROM's output changes only by a job of that ROM, the
last it has. From it follow `ProductsStay` (what a completed job wrote is gone or was written by
a later one), `NothingTwice` (`NoRepeat` from the choice on), and `NoSourceLost`. The comparison
with the state before the job, with which `_was_produced` decides once the queue has
forgotten it, is right because that state was left by an earlier job. It is not right after a
verdict that was not written down (`NoteFails`, a crash, or one that still waits for the lock),
which `PassedOverRightly` excepts: `told` keeps the three apart from a verdict that was written.

Each of these invariants was first checked by TLC on the instance of its module.

Only model-checked: liveness under fairness, which this prover does not reach (`EveryJobEnds`,
`NoStarvation`, `NeverHangs`, `LaneMoves`, and the second half of `LedgerMoves`). Every invariant
and every other action property that a passing run checks is a theorem.

Two of the modules hold the theorems of two components each: a theorem is stated in a module that
extends its component, and the components that share one have no definition in common. For that
the specifications of `ToolRun` and `MatchCache` are named apart (`ToolInit`, `ToolNext`,
`ToolSpec`; `MatchInit`, `MatchNext`, `MatchSpec`).

## 7. Not modelled

- Parsing of disc images, headers, DATs and archives, names and command lines: computations
  without shared state. Extraction is in this group, and disc identification but for its tags.
- Schema changes, preferences, configuration, authentication and start-up wiring: single steps.
- The lock files behind `LockManager`, with the unlinking of stale ones (a hazard, without a
  property); a pid that is used again after a restart of the container (likewise).
- Renames and folder removals by the file routes. A rename keeps the fingerprint of a file, so
  `SourceDelete` would not tell it from the file itself.
- The metadata rows the scan fills (one row per path, read by nobody but the routes that show
  them and the matcher, for which they may be out of date), and the routes that only read.
- Presentation and the stores of the browser that mirror one request each.
- In the modules above: what the note of each component in `PROJECT.json` names. Two that
  matter: in `RommSweep` a crash before a verdict is written may make a broken output pass for a
  product, the index of late verdicts grows for jobs of `skip` rules, and the owners registered a
  second time after a job has ended (`services/romm/auto.py:1358`) are never taken, which leaks
  an entry and does nothing else; in `RepinLedger` a batch accepted between the two steps of a
  cancel loses its row and needs a manual match.
- What `EveryJobEnds` excepts: circles of folder jobs that write into each other's folders
  (`DeferralEnds`), and a folder that contains an output whose lock a deleted job left behind
  (`DeferFreesOutput`), which waits until the server is restarted.
- In `MatchCache` a match sends as it passes the last check: the thread pool behind the request and
  its cool-down are folded into the reply. A write replaces the row, where an `UPDATE` leaves the
  columns that did not change; this differs only in the race the properties except.
