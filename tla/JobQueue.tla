------------------------------ MODULE JobQueue ------------------------------
(***************************************************************************)
(* The conversion queue of the backend: JobManager with its dispatcher     *)
(* loop and the coroutine `_process_job` that carries one job from the     *)
(* queue to a terminal status (src/app/services/job_manager.py), the slots *)
(* and tickets it takes from ConcurrencyManager, and the output and folder *)
(* locks it takes from LockManager.                                        *)
(*                                                                         *)
(* Everything runs on one asyncio loop, so a step is what runs between two *)
(* suspension points.  Work handed to a thread (`run_in_threadpool`) is a  *)
(* step of its own: the loop goes on while it runs, and the coroutine acts *)
(* on its answer in a later step.                                          *)
(***************************************************************************)
EXTENDS Integers, FiniteSets, Sequences

CONSTANTS
    Jobs,           \* ids handed out by create_job; an id is never used twice
    Outs,           \* destinations, one element per canonical output path
    Out,            \* Out[j]: the destination job j writes
    Dirs,           \* the jobs whose input is a folder (InputKind.DIRECTORY)
    OutInside,      \* OutInside[d]: destinations that lie in d's source folder
    SrcInside,      \* SrcInside[d]: file jobs whose source lies in d's folder
    Nested,         \* pairs of folder jobs whose folders contain one another
    Overwrite,      \* the jobs with allow_overwrite
    Verify,         \* the jobs with verify_after or delete_on_verify
    MaxConcurrent,  \* MAX_CONCURRENT_JOBS: semaphore permits, and slot files
    MaxQueue,       \* the backpressure limit on queued and running jobs
    Foreign,        \* ticket keys of another process sharing the lock directory
    NoJob           \* the absence of a job

ASSUME JobsAssumption == NoJob \notin Jobs /\ Foreign \cap (Jobs \cup {NoJob}) = {}
ASSUME PathsAssumption ==
    /\ Out \in [Jobs -> Outs]
    /\ Dirs \subseteq Jobs
    /\ OutInside \in [Dirs -> SUBSET Outs]
    /\ SrcInside \in [Dirs -> SUBSET Jobs]
    /\ Nested \subseteq Dirs \X Dirs
    /\ \A d, e \in Dirs : <<d, e>> \in Nested => <<e, d>> \in Nested
    \* The planner refuses an ISO inside the folder being packed.
    /\ \A d \in Dirs : Out[d] \notin OutInside[d]
ASSUME LimitsAssumption == MaxConcurrent \in Nat \ {0} /\ MaxQueue \in Nat \ {0}

VARIABLES
    jobs,       \* the ids listed in `self.jobs`
    status,     \* the status of each job object ("none" before it is created)
    cancelled,  \* `self._cancelled`
    event,      \* `self._cancel_events`: "none", or the event, "clear" or "set"
    queue,      \* `self._queue`, in ticket order
    disp,       \* the job the dispatcher loop has popped and still holds
    sem,        \* free permits of `self._semaphore`
    pc,         \* where the coroutine `_process_job` of each job stands
    requeue,    \* jobs with a pending `_requeue` task
    tickets,    \* ticket files of the lock directory, in `_list_tickets` order
    slots,      \* keys that hold a slot file
    outLock,    \* `lock_manager._locks`, with the job that took each lock
    dirLock,    \* `lock_manager._dir_locks`, by the job that took each lock
    exists,     \* the destinations at which a file exists
    told,       \* the last terminal status the listeners heard for each job
    ackd        \* jobs whose cancellation was accepted while still QUEUED

lockVars  == <<outLock, dirLock>>
poolVars  == <<tickets, slots>>
listVars  == <<jobs, cancelled, queue, requeue>>
noteVars  == <<told, ackd>>
vars == <<jobs, status, cancelled, event, queue, disp, sem, pc, requeue,
          tickets, slots, outLock, dirLock, exists, told, ackd>>

Terminal == {"completed", "failed", "cancelled"}
Statuses == {"none", "queued", "processing"} \cup Terminal
Active   == {"queued", "processing"}

\* Where the coroutine holds the lock on its destination.
Owning  == {"parts", "dirlock", "dirbusy", "dirheld", "prepare", "clearing",
            "convert", "post", "verify", "verified"}
\* Where a folder job also holds the lock on its folder.
Packing == {"dirheld", "prepare", "clearing", "convert", "post", "verify", "verified"}
\* Where the job removes an old file at its destination or writes a new one.
Writing == {"clearing", "convert", "post", "verify", "verified"}
Phases  == Owning \cup {"none", "spawned", "waiting", "probe", "blocked", "clear",
                        "reprobe", "reblocked", "refuse", "ending"}

-----------------------------------------------------------------------------
\* Tickets and slots.

\* reserve_ticket returns the ticket the key already has, or takes the next one.
Reserve(s, k) == IF \E i \in DOMAIN s : s[i] = k THEN s ELSE Append(s, k)

\* The ticket file of k is removed.
Drop(s, k) ==
    IF \E i \in DOMAIN s : s[i] = k
    THEN LET i == CHOOSE i \in DOMAIN s : s[i] = k
         IN  SubSeq(s, 1, i - 1) \o SubSeq(s, i + 1, Len(s))
    ELSE s

\* A key is admitted when its ticket is among the first MaxConcurrent and a slot
\* file can be locked.
Admitted(s, k) ==
    /\ \E i \in DOMAIN s : i <= MaxConcurrent /\ s[i] = k
    /\ Cardinality(slots) < MaxConcurrent

ReleaseSlotOnly(k) == slots' = slots \ {k} /\ UNCHANGED tickets
ReleasePool(k) == tickets' = Drop(tickets, k) /\ slots' = slots \ {k}

-----------------------------------------------------------------------------
\* Folder locks.

\* dir_lock_would_conflict, for a folder job: the folder itself, a locked output
\* inside it, or a locked folder that nests with it.
FolderBusy(d) ==
    \/ d \in dirLock
    \/ \E o \in OutInside[d] : outLock[o] # NoJob
    \/ \E e \in dirLock : <<d, e>> \in Nested

NeverInLockedFolder(j) == FALSE
OutInLockedFolder(j) == \E d \in dirLock : Out[j] \in OutInside[d]

BlockedByDirLock(j) ==
    IF j \in Dirs THEN FolderBusy(j)
    ELSE OutInLockedFolder(j) \/ \E d \in dirLock : j \in SrcInside[d]

-----------------------------------------------------------------------------
Init ==
    /\ jobs = {} /\ cancelled = {} /\ queue = <<>> /\ requeue = {}
    /\ status = [j \in Jobs |-> "none"]
    /\ event = [j \in Jobs |-> "none"]
    /\ disp = NoJob /\ sem = MaxConcurrent
    /\ pc = [j \in Jobs |-> "none"]
    /\ tickets = <<>> /\ slots = {}
    /\ outLock = [o \in Outs |-> NoJob] /\ dirLock = {}
    /\ exists \in SUBSET Outs
    /\ told = [j \in Jobs |-> "none"] /\ ackd = {}

-----------------------------------------------------------------------------
\* Requests.

ActiveJobs == {j \in jobs : status[j] \in Active}

\* A submission of one file, or of two in one batch.
Submissions ==
    {<<j>> : j \in Jobs} \cup {s \in Jobs \X Jobs : s[1] # s[2]}

\* create_job and create_jobs_atomic: under `_create_lock` the queue depth and
\* every destination are checked first, then every job of the batch is queued.
Submit(s) ==
    LET new == {s[i] : i \in DOMAIN s} IN
    /\ \A j \in new : status[j] = "none"
    /\ Cardinality(ActiveJobs) + Len(s) <= MaxQueue
    /\ \A j \in new, k \in ActiveJobs : Out[j] # Out[k]
    /\ \A j, k \in new : j # k => Out[j] # Out[k]
    /\ jobs' = jobs \cup new
    /\ status' = [j \in Jobs |-> IF j \in new THEN "queued" ELSE status[j]]
    /\ tickets' = tickets \o s
    /\ queue' = queue \o s
    /\ UNCHANGED <<cancelled, event, disp, sem, pc, requeue, slots, lockVars,
                   exists, noteVars>>

\* cancel_job of a QUEUED job ends it on the spot; its coroutine, if it has one,
\* is told through the event, and its ticket and slot are given back.
CancelQueued(j) ==
    /\ j \in jobs /\ status[j] = "queued"
    /\ cancelled' = cancelled \cup {j}
    /\ status' = [status EXCEPT ![j] = "cancelled"]
    /\ told' = [told EXCEPT ![j] = "cancelled"]
    /\ event' = IF event[j] = "none" THEN event ELSE [event EXCEPT ![j] = "set"]
    /\ ReleasePool(j)
    /\ ackd' = ackd \cup {j}
    /\ UNCHANGED <<jobs, queue, disp, sem, pc, requeue, lockVars, exists>>

\* cancel_job of a PROCESSING job only asks.
CancelProcessing(j) ==
    /\ j \in jobs /\ status[j] = "processing"
    /\ cancelled' = cancelled \cup {j}
    /\ event' = IF event[j] = "none" THEN event ELSE [event EXCEPT ![j] = "set"]
    /\ UNCHANGED <<jobs, status, queue, disp, sem, pc, requeue, poolVars,
                   lockVars, exists, noteVars>>

\* delete_job of a finished job: DELETE /jobs/{id}, Clear and the history cap.
Delete(j) ==
    /\ j \in jobs /\ status[j] \in Terminal
    /\ cancelled' = cancelled \ {j}
    /\ IF event[j] = "none" THEN ReleasePool(j) ELSE UNCHANGED poolVars
    /\ jobs' = jobs \ {j}
    /\ UNCHANGED <<status, event, queue, disp, sem, pc, requeue, lockVars,
                   exists, noteVars>>

-----------------------------------------------------------------------------
\* The dispatcher loop.

IsCancelled(j) == j \in cancelled \/ status[j] = "cancelled"

\* The first step of `_process_job`, up to its first suspension: a job that is
\* gone or cancelled ends at once, any other registers its cancel event and
\* asks for a slot, which it gets without waiting when one is free.
Enter(j) ==
    \/ /\ j \notin jobs
       /\ pc' = [pc EXCEPT ![j] = "ending"]
       /\ UNCHANGED <<cancelled, event, poolVars>>
    \/ /\ j \in jobs /\ IsCancelled(j)
       /\ cancelled' = cancelled \ {j}
       /\ pc' = [pc EXCEPT ![j] = "ending"]
       /\ UNCHANGED <<event, poolVars>>
    \/ /\ j \in jobs /\ ~IsCancelled(j)
       /\ event' = [event EXCEPT ![j] = "clear"]
       /\ tickets' = Reserve(tickets, j)
       /\ IF Admitted(tickets', j)
          THEN slots' = slots \cup {j} /\ pc' = [pc EXCEPT ![j] = "probe"]
          ELSE UNCHANGED slots /\ pc' = [pc EXCEPT ![j] = "waiting"]
       /\ UNCHANGED cancelled

\* A permit of the semaphore is taken.
TakePermit == sem > 0 /\ sem' = sem - 1

\* With one permit the dispatcher runs the job inline; otherwise it starts a task.
Launch(j) ==
    /\ TakePermit
    /\ IF MaxConcurrent = 1
       THEN disp' = j /\ Enter(j)
       ELSE /\ disp' = NoJob
            /\ pc' = [pc EXCEPT ![j] = "spawned"]
            /\ UNCHANGED <<cancelled, event, poolVars>>

\* An entry whose job was deleted, or was cancelled while it waited, is dropped.
Skip ==
    /\ disp = NoJob /\ queue # <<>>
    /\ \/ Head(queue) \notin jobs /\ UNCHANGED cancelled
       \/ /\ Head(queue) \in jobs /\ IsCancelled(Head(queue))
          /\ cancelled' = cancelled \ {Head(queue)}
    /\ queue' = Tail(queue)
    /\ UNCHANGED <<jobs, status, event, disp, sem, pc, requeue, poolVars,
                   lockVars, exists, noteVars>>

\* A live entry is launched, or held while the semaphore has no permit.
Dispatch ==
    /\ disp = NoJob /\ queue # <<>>
    /\ Head(queue) \in jobs /\ ~IsCancelled(Head(queue))
    /\ queue' = Tail(queue)
    /\ \/ Launch(Head(queue))
       \/ /\ sem = 0
          /\ disp' = Head(queue)
          /\ UNCHANGED <<cancelled, event, sem, pc, poolVars>>
    /\ UNCHANGED <<jobs, status, requeue, lockVars, exists, noteVars>>

\* The dispatcher gets the permit it was waiting for.
DispatchHeld ==
    /\ disp # NoJob /\ pc[disp] = "none"
    /\ Launch(disp)
    /\ UNCHANGED <<jobs, status, queue, requeue, lockVars, exists, noteVars>>

-----------------------------------------------------------------------------
\* `_process_job`, from its start to the moment the job is PROCESSING.

\* A step of the coroutine of j that moves its pc and nothing it shares.
Goto(j, to) == pc' = [pc EXCEPT ![j] = to]

EnterSpawned(j) ==
    /\ pc[j] = "spawned"
    /\ Enter(j)
    /\ UNCHANGED <<jobs, status, queue, disp, sem, requeue, lockVars, exists, noteVars>>

\* acquire: the ticket came up and a slot file was free.
GetSlot(j) ==
    /\ pc[j] = "waiting" /\ event[j] # "set"
    /\ Admitted(tickets, j)
    /\ slots' = slots \cup {j}
    /\ Goto(j, "probe")
    /\ UNCHANGED <<listVars, status, event, disp, sem, tickets, lockVars, exists, noteVars>>

\* An exit before the main try block sets the status and tells the listeners.
EndEarlySilently(j, st) == status' = [status EXCEPT ![j] = st] /\ UNCHANGED told
EndEarly(j, st) ==
    status' = [status EXCEPT ![j] = st] /\ told' = [told EXCEPT ![j] = st]

\* acquire: cancelled while it waited.
GiveUpSlot(j) ==
    /\ pc[j] = "waiting" /\ event[j] = "set"
    /\ EndEarly(j, "cancelled")
    /\ ReleasePool(j)
    /\ event' = [event EXCEPT ![j] = "none"]
    /\ Goto(j, "ending")
    /\ UNCHANGED <<listVars, disp, sem, lockVars, exists, ackd>>

\* `_blocked_by_dir_lock` runs in a thread, before the output lock is tried and
\* again after it was refused.
Probe(j) ==
    /\ \/ /\ pc[j] = "probe"
          /\ Goto(j, IF BlockedByDirLock(j) THEN "blocked" ELSE "clear")
       \/ /\ pc[j] = "reprobe"
          /\ Goto(j, IF BlockedByDirLock(j) THEN "reblocked" ELSE "refuse")
    /\ UNCHANGED <<listVars, status, event, disp, sem, poolVars, lockVars, exists, noteVars>>

\* The coroutine of j returns, and `_run_job` gives its permit back.
Return(j) ==
    /\ pc' = [pc EXCEPT ![j] = "none"]
    /\ sem' = sem + 1
    /\ disp' = IF disp = j THEN NoJob ELSE disp

\* `_schedule_dir_lock_requeue` starts a task that will put the job back.
PutBackNever(j) == UNCHANGED requeue
PutBack(j) == requeue' = requeue \cup {j}

\* `_defer_blocked_job`: everything held is released, the job stays as it is and
\* a task will put it back in the queue.
Defer(j) ==
    /\ pc[j] \in {"blocked", "reblocked", "dirbusy"}
    /\ outLock' = IF pc[j] = "dirbusy" /\ j \in jobs
                  THEN [outLock EXCEPT ![Out[j]] = NoJob] ELSE outLock
    /\ event' = [event EXCEPT ![j] = "none"]
    /\ ReleasePool(j)
    /\ PutBack(j)
    /\ Return(j)
    /\ UNCHANGED <<jobs, status, cancelled, queue, dirLock, exists, noteVars>>

\* The re-queue task gives up on a job that is gone, cancelled or finished.
WantedIfListed(j) == j \in jobs
StillWanted(j) == j \in jobs /\ j \notin cancelled /\ status[j] \notin Terminal

\* `_requeue`, two seconds later.
Requeue(j) ==
    /\ j \in requeue
    /\ requeue' = requeue \ {j}
    /\ IF StillWanted(j)
       THEN /\ status' = [status EXCEPT ![j] = "queued"]
            /\ tickets' = Reserve(tickets, j)
            /\ queue' = Append(queue, j)
       ELSE UNCHANGED <<status, tickets, queue>>
    /\ UNCHANGED <<jobs, cancelled, event, disp, sem, pc, slots, lockVars, exists, noteVars>>

\* acquire_lock can succeed: nobody in this process writes the destination, it
\* lies in no folder being packed, and no file is in the way.
CanLockTwice(j) == ~OutInLockedFolder(j) /\ (Out[j] \in exists => j \in Overwrite)
CanLock(j) ==
    /\ outLock[Out[j]] = NoJob
    /\ ~OutInLockedFolder(j)
    /\ Out[j] \in exists => j \in Overwrite

\* The job becomes PROCESSING, whatever its status was.
BeginUnlisted(j) == status' = [status EXCEPT ![j] = "started"] /\ Goto(j, "prepare")
Begin(j) == status' = [status EXCEPT ![j] = "processing"] /\ Goto(j, "prepare")

TakeOutput(j) ==
    /\ pc[j] = "clear" /\ CanLock(j)
    /\ outLock' = [outLock EXCEPT ![Out[j]] = j]
    /\ \/ j \notin Dirs /\ Begin(j)
       \/ j \in Dirs \ Overwrite /\ Goto(j, "parts") /\ UNCHANGED status
       \/ j \in Dirs \cap Overwrite /\ Goto(j, "dirlock") /\ UNCHANGED status
    /\ UNCHANGED <<listVars, event, disp, sem, poolVars, dirLock, exists, noteVars>>

\* acquire_lock fails: one of its conditions does not hold, or the lock file is
\* held elsewhere or cannot be opened.
RefuseOutput(j) ==
    /\ pc[j] = "clear"
    /\ Goto(j, "reprobe")
    /\ UNCHANGED <<listVars, status, event, disp, sem, poolVars, lockVars, exists, noteVars>>

\* A refused job took no output lock; one stopped by old split parts gives it back.
FreedEarly(j) == IF pc[j] = "parts" THEN [outLock EXCEPT ![Out[j]] = NoJob] ELSE outLock

\* The early failures, before the main try block: they announce themselves.
\* Mutant: they also remove what stands at the destination.
FailEarlySweeping(j) ==
    /\ pc[j] \in {"refuse", "parts"}
    /\ EndEarly(j, "failed")
    /\ outLock' = FreedEarly(j) /\ exists' = exists \ {Out[j]}
    /\ event' = [event EXCEPT ![j] = "none"]
    /\ ReleasePool(j)
    /\ Goto(j, "ending")
    /\ UNCHANGED <<listVars, disp, sem, dirLock, ackd>>
FailEarly(j) ==
    /\ pc[j] \in {"refuse", "parts"}
    /\ EndEarly(j, "failed")
    /\ outLock' = FreedEarly(j)
    /\ event' = [event EXCEPT ![j] = "none"]
    /\ ReleasePool(j)
    /\ Goto(j, "ending")
    /\ UNCHANGED <<listVars, disp, sem, dirLock, exists, ackd>>

\* No split set of an earlier build is in the way.
NoParts(j) ==
    /\ pc[j] = "parts"
    /\ Goto(j, "dirlock")
    /\ UNCHANGED <<listVars, status, event, disp, sem, poolVars, lockVars, exists, noteVars>>

\* acquire_dir_lock, in a thread, under the mutex of the lock manager.
TakeFolder(j) ==
    /\ pc[j] = "dirlock" /\ ~FolderBusy(j)
    /\ Goto(j, "dirheld") /\ dirLock' = dirLock \cup {j}
    /\ UNCHANGED <<listVars, status, event, disp, sem, poolVars, outLock, exists, noteVars>>

\* It fails: the folder is busy, or its lock file is held by another process or
\* cannot be opened.
RefuseFolder(j) ==
    /\ pc[j] = "dirlock"
    /\ Goto(j, "dirbusy")
    /\ UNCHANGED <<listVars, status, event, disp, sem, poolVars, lockVars, exists, noteVars>>

StartFolder(j) ==
    /\ pc[j] = "dirheld"
    /\ Begin(j)
    /\ UNCHANGED <<listVars, event, disp, sem, poolVars, lockVars, exists, noteVars>>

-----------------------------------------------------------------------------
\* The main try block of `_process_job`.

\* The folder lock goes back in the finally block.
KeepFolder(j) == dirLock
FreedFolder(j) == dirLock \ {j}

\* The job ends with status st: its listeners hear of it and the finally block
\* releases all it holds.
Finalize(j, st) ==
    /\ status' = [status EXCEPT ![j] = st]
    /\ told' = [told EXCEPT ![j] = st]
    /\ outLock' = [outLock EXCEPT ![Out[j]] = NoJob]
    /\ dirLock' = FreedFolder(j)
    /\ ReleasePool(j)
    /\ event' = [event EXCEPT ![j] = "none"]
    /\ Goto(j, "ending")
    /\ UNCHANGED <<jobs, queue, requeue, disp, sem, ackd>>

\* The fast path: the verified output of an earlier run is already there.
AlreadyDone(j) ==
    /\ pc[j] = "prepare" /\ event[j] = "clear"
    /\ j \notin Dirs /\ Out[j] \in exists
    /\ cancelled' = cancelled \ {j}
    /\ Finalize(j, "completed")
    /\ UNCHANGED exists

\* Extraction, a companion check or the folder walk refuses, or any later step
\* raises; only a failing converter removes what it wrote.
Fail(j) ==
    /\ pc[j] \in {"prepare", "clearing", "convert", "post", "verify", "verified"}
    /\ \/ cancelled' = cancelled \ {j}
       \/ pc[j] = "prepare" /\ UNCHANGED cancelled   \* a check said no: no exception
    /\ exists' = IF pc[j] = "convert" THEN exists \ {Out[j]} ELSE exists
    /\ Finalize(j, "failed")

\* A cancellation is seen before the output is touched, by the converter, or
\* before and during the verification.
StopCancelled(j) ==
    /\ event[j] = "set"
    /\ pc[j] \in {"prepare", "convert"} \/ (pc[j] \in {"post", "verify"} /\ j \in Verify)
    /\ cancelled' = cancelled \ {j}
    /\ exists' = IF pc[j] = "convert" THEN exists \ {Out[j]} ELSE exists
    /\ Finalize(j, "cancelled")

\* The last look at the cancel event before the destination is touched.
GoAnyway(j) == event[j] # "none"
GoAhead(j) == event[j] = "clear"

\* The checks passed and no cancellation came: `_clear_existing_output` sweeps
\* the destination of an authorised overwrite, then the converter writes.
StartConvert(j) ==
    /\ \/ /\ pc[j] = "prepare" /\ GoAhead(j)
          /\ \/ j \in Overwrite /\ Goto(j, "clearing") /\ UNCHANGED exists
             \/ j \notin Overwrite /\ Goto(j, "convert") /\ exists' = exists \cup {Out[j]}
       \/ pc[j] = "clearing" /\ Goto(j, "convert") /\ exists' = exists \cup {Out[j]}
    /\ UNCHANGED <<listVars, status, event, disp, sem, poolVars, lockVars, noteVars>>

\* The converter finished, and the post-convert hook and the size probe run.
Converted(j) ==
    /\ pc[j] = "convert"
    /\ cancelled' = cancelled \ {j}
    /\ Goto(j, "post")
    /\ UNCHANGED <<jobs, queue, requeue, status, event, disp, sem, poolVars,
                   lockVars, exists, noteVars>>

\* The verification starts unless it was cancelled, and reaches its verdict.
VerifyStep(j) ==
    /\ \/ pc[j] = "post" /\ j \in Verify /\ event[j] = "clear" /\ Goto(j, "verify")
       \/ pc[j] = "verify" /\ Goto(j, "verified")
    /\ UNCHANGED <<listVars, status, event, disp, sem, poolVars, lockVars, exists, noteVars>>

Complete(j) ==
    /\ pc[j] = "verified" \/ (pc[j] = "post" /\ j \notin Verify)
    /\ UNCHANGED <<cancelled, exists>>
    /\ Finalize(j, "completed")

\* The temporary directory is removed and history pruned; the permit goes back.
Finish(j) ==
    /\ pc[j] = "ending"
    /\ Return(j)
    /\ UNCHANGED <<listVars, status, event, poolVars, lockVars, exists, noteVars>>

-----------------------------------------------------------------------------
\* Another process that shares the lock directory (a rolling restart).

ForeignTicket(f) ==
    /\ \A i \in DOMAIN tickets : tickets[i] # f
    /\ tickets' = Append(tickets, f)
    /\ UNCHANGED <<listVars, status, event, disp, sem, pc, slots, lockVars, exists, noteVars>>

ForeignSlot(f) ==
    /\ f \notin slots /\ Admitted(tickets, f)
    /\ slots' = slots \cup {f}
    /\ UNCHANGED <<listVars, status, event, disp, sem, pc, tickets, lockVars, exists, noteVars>>

ForeignRelease(f) ==
    /\ f \in slots
    /\ ReleasePool(f)
    /\ UNCHANGED <<listVars, status, event, disp, sem, pc, lockVars, exists, noteVars>>

-----------------------------------------------------------------------------
Admission(j) ==
    \/ EnterSpawned(j) \/ GetSlot(j) \/ GiveUpSlot(j) \/ Probe(j) \/ Defer(j)
    \/ TakeOutput(j) \/ RefuseOutput(j) \/ FailEarly(j) \/ NoParts(j)
    \/ TakeFolder(j) \/ RefuseFolder(j) \/ StartFolder(j)

Run(j) ==
    \/ AlreadyDone(j) \/ Fail(j) \/ StopCancelled(j) \/ StartConvert(j)
    \/ Converted(j) \/ VerifyStep(j) \/ Complete(j) \/ Finish(j)

Dispatcher == Skip \/ Dispatch \/ DispatchHeld

Next ==
    \/ \E s \in Submissions : Submit(s)
    \/ Dispatcher
    \/ \E j \in Jobs : \/ CancelQueued(j) \/ CancelProcessing(j) \/ Delete(j)
                       \/ Requeue(j) \/ Admission(j) \/ Run(j)
    \/ \E f \in Foreign : ForeignTicket(f) \/ ForeignSlot(f) \/ ForeignRelease(f)

Spec == Init /\ [][Next]_vars

\* The loop runs what is ready: the dispatcher, every coroutine and every timer
\* go on, a converter and a verifier end, and another process gives slots and
\* folders back: a folder whose lock is free here is not refused for ever.
Fairness ==
    /\ WF_vars(Dispatcher)
    /\ \A j \in Jobs : WF_vars(Requeue(j)) /\ WF_vars(Admission(j) \/ Run(j))
    /\ \A d \in Dirs : SF_vars(TakeFolder(d))
    /\ \A f \in Foreign : WF_vars(ForeignSlot(f)) /\ WF_vars(ForeignRelease(f))

FairSpec == Spec /\ Fairness

-----------------------------------------------------------------------------
\* Every variable keeps its type, and a held lock names the job that took it.
TypeOK ==
    /\ jobs \subseteq Jobs /\ cancelled \subseteq Jobs /\ requeue \subseteq Jobs
    /\ ackd \subseteq Jobs
    /\ status \in [Jobs -> Statuses] /\ told \in [Jobs -> Statuses]
    /\ event \in [Jobs -> {"none", "clear", "set"}]
    /\ pc \in [Jobs -> Phases]
    /\ queue \in Seq(Jobs)
    /\ disp \in Jobs \cup {NoJob}
    /\ sem \in Int
    /\ tickets \in Seq(Jobs \cup Foreign) /\ slots \subseteq Jobs \cup Foreign
    /\ outLock \in [Outs -> Jobs \cup {NoJob}] /\ dirLock \subseteq Dirs
    /\ exists \subseteq Outs

\* "Prevents concurrent conversions of the same file": two jobs with one
\* destination never both own it, however cancels, deletes and re-queues fall.
OneWriter ==
    \A j, k \in Jobs :
        j # k /\ Out[j] = Out[k] => ~(pc[j] \in Owning /\ pc[k] \in Owning)

\* A coroutine past its admission still holds its locks in its own name: none of
\* the releases, which name a path and not a holder, is another coroutine's.
LocksOwned ==
    \A j \in Jobs :
        /\ pc[j] \in {"parts", "dirlock", "dirbusy", "dirheld"} => j \in Dirs
        /\ pc[j] \in Owning => outLock[Out[j]] = j
        /\ pc[j] \in Packing /\ j \in Dirs => j \in dirLock

\* While a folder is being packed, no other job owns a destination inside it and
\* no folder that nests with it is being packed (LockManager's two-way check).
FolderQuiet ==
    \A d \in Dirs : pc[d] \in Packing =>
        /\ \A j \in Jobs \ {d} : Out[j] \in OutInside[d] => pc[j] \notin Owning
        /\ \A e \in Dirs \ {d} : <<d, e>> \in Nested => pc[e] \notin Packing

\* A job that ended and whose coroutine released its locks keeps no ticket, slot
\* or folder lock, and no output lock while it is still listed: each of
\* `_process_job`'s exits, and cancel_job's, gives everything back.
NothingLeaks ==
    \A j \in Jobs : status[j] \in Terminal /\ pc[j] \in {"none", "ending"} =>
        /\ \A i \in DOMAIN tickets : tickets[i] # j
        /\ j \notin slots /\ j \notin dirLock /\ event[j] = "none"
        /\ j \in jobs => \A o \in Outs : outLock[o] # j

\* The invariant the code only logs: never more PROCESSING jobs than permits.
\* Nor does a job write its output without a slot of its own.
ProcessingBound ==
    /\ Cardinality({j \in Jobs : status[j] = "processing"}) <= MaxConcurrent
    /\ Cardinality(slots) <= MaxConcurrent
    /\ \A j \in Jobs : pc[j] \in Writing => j \in slots

\* A cancel accepted while the job was QUEUED is final for its output: the job
\* may still be inside its admission, but it never sweeps, writes or completes.
CancelledNeverWrites ==
    \A j \in ackd : pc[j] \notin Writing /\ status[j] # "completed"

\* A listed QUEUED job is on exactly one way forward: the queue, the dispatcher's
\* hand, its coroutine, or a pending re-queue.  None would lose the job, two
\* would run it twice.
OneRoute ==
    \A j \in jobs : status[j] = "queued" =>
        Cardinality({i \in DOMAIN queue : queue[i] = j})
        + (IF disp = j /\ pc[j] = "none" THEN 1 ELSE 0)
        + (IF pc[j] # "none" THEN 1 ELSE 0)
        + (IF j \in requeue THEN 1 ELSE 0) = 1

\* A job that holds a semaphore permit never waits for a job of this process:
\* fewer than MaxConcurrent tickets of its own process stand before its ticket,
\* or the queue of semaphore and tickets would stall on each other (issue #183).
NoTicketAhead ==
    \A j \in Jobs : pc[j] = "waiting" /\ event[j] = "clear" =>
        \E i \in DOMAIN tickets :
            /\ tickets[i] = j
            /\ Cardinality({h \in 1..(i - 1) : tickets[h] \in Jobs}) < MaxConcurrent

\* The queue as the outside sees it: who owns a destination, who packs a folder.
Owners  == {j \in Jobs : pc[j] \in Owning}
Packers == {d \in Dirs : pc[d] \in Packing}
Ownership == INSTANCE OutputOwnership
    WITH Inside <- OutInside, owners <- Owners, packers <- Packers, files <- exists

\* Tickets, slots, locks and the coroutine with all its exits implement exclusive
\* ownership: a step of the queue is one of taking, packing, writing or leaving
\* by the owner itself, or changes nothing of it, and nobody else touches a
\* destination (acquire_lock, acquire_dir_lock, _process_job's finally block).
Exclusive == Ownership!Spec

\* Every job that is over has had its final status announced to the terminal
\* listeners, whichever exit it took.
EndAnnounced ==
    \A j \in Jobs : status[j] \in Terminal /\ pc[j] = "none" => told[j] = status[j]

\* Every job is accounted for: listed and queued it is on one way forward, and
\* once it ended nothing of it is held and its end was told (the exits of
\* `_process_job`, `_defer_blocked_job`, `_requeue`, cancel_job).
Accounted == OneRoute /\ NothingLeaks /\ EndAnnounced

\* The limit holds through permits, tickets and slots together, and never makes
\* a permit's holder wait for a job of this process behind it.
WithinLimits == ProcessingBound /\ NoTicketAhead

\* A completed or failed job keeps its status, and a cancelled one is never
\* queued again or completed, whatever task of it is still pending.
NoRevival ==
    [][\A j \in Jobs :
        /\ status[j] \in {"completed", "failed"} => status'[j] = status[j]
        /\ status[j] = "cancelled" => status'[j] \notin {"queued", "completed"}]_vars

\* The comment on `_TERMINAL_STATUSES`: "The statuses a job never leaves."
TerminalIsFinal ==
    [][\A j \in Jobs : status[j] \in Terminal => status'[j] = status[j]]_vars

\* `_defer_blocked_job`: it "releases the held slot (and the output lock when one
\* was taken) so the folder job and others can proceed meanwhile".
DeferFreesOutput ==
    \A j \in requeue : pc[j] = "none" => outLock[Out[j]] # j

\* No circle of folder jobs in which each writes into the next one's folder.
Uncircled ==
    \E rank \in [Dirs -> 1..Cardinality(Dirs)] :
        \A d, e \in Dirs : Out[d] \in OutInside[e] => rank[d] < rank[e]

\* A deleted job whose coroutine left its output locked (see DeferFreesOutput).
Orphaned == \E j \in Jobs \ jobs : pc[j] = "none" /\ outLock[Out[j]] = j

\* Every queued job comes to an end: nested folder jobs that defer to one another
\* and to a file job, a folder lock another process has, and cancels and deletes
\* at any moment never leave one waiting (`_defer_blocked_job`, `_requeue`),
\* unless a lock was left behind for good.
EveryJobEnds ==
    Uncircled => \A j \in Jobs :
        status[j] = "queued" ~> (status[j] \in Terminal \/ Orphaned)

\* `_blocked_by_dir_lock`: "Such a conflict is **transient** -- it clears when the
\* folder job finishes", whatever folders the jobs write to.
DeferralEnds ==
    \A j \in Jobs :
        j \in requeue ~> (status[j] \in Terminal \cup {"processing"} \/ Orphaned)

=============================================================================
