---------------------------- MODULE JobPlanning ----------------------------
(***************************************************************************)
(* From a submission to the files it writes: the planning of a request     *)
(* (routes/convert.py, services/output_conflicts.py), the reservation of   *)
(* its destinations under `_create_lock`, and what a job does to the disk  *)
(* when its turn comes (services/job_manager.py).                          *)
(*                                                                         *)
(* A plan is a prediction: it reads the disk and the locks in one step,    *)
(* the destinations are claimed in a later one, and the job looks at the   *)
(* disk again when it starts.  Meanwhile other requests, other jobs and    *)
(* the user go on.  Files have several spellings (a library reached        *)
(* through a symbolic link): the claims compare real files, the locks of   *)
(* the running jobs compare spellings.                                     *)
(*                                                                         *)
(* A conversion may write more than one file: the primary, by which it is  *)
(* known and locked, and sidecars (the .bin beside the .cue of extractcd), *)
(* which may be the primary of another mode.                               *)
(***************************************************************************)
EXTENDS Integers, FiniteSets, Sequences, SequencesExt

CONSTANTS
    Inputs,       \* what a request may ask to convert
    Names,        \* spellings of output paths
    Files,        \* the files they spell
    Real,         \* Real[n]: the file n spells (os.path.realpath)
    Derived,      \* Derived[x]: the destination of input x (tool.output_path)
    Sidecars,     \* Sidecars[x][n]: what x's mode writes beside n (companion_outputs)
    Renames,      \* Renames[n]: the spellings `n_1`, `n_2`, ... in order
    Priority,     \* Priority[x]: input_priority
    Policies,     \* the pairs <<policy, sent by the sweep>> of the submissions
    Batches,      \* the sequences of inputs, of one mode, a request may hold
    Initially,    \* the sets of files there may be at first
    Requests,     \* requests, each made at most once
    Jobs,         \* job ids
    MaxDepth,     \* max_queue_depth
    MaxRunning,   \* max_concurrent_jobs
    MaxWorld,     \* bound: files other programs create or remove
    Free          \* nothing at a name, no file, no plan

ASSUME NamesAssumption ==
    /\ Real \in [Names -> Files]
    /\ Derived \in [Inputs -> Names]
    /\ Sidecars \in [Inputs -> [Names -> SUBSET Names]]
    /\ Renames \in [Names -> Seq(Names)]
    /\ Priority \in [Inputs -> Nat]
    /\ Batches \subseteq Seq(Inputs)
    /\ Policies \subseteq {"skip", "overwrite", "rename"} \X BOOLEAN
    /\ Initially \subseteq SUBSET Files
ASSUME BoundsAssumption ==
    MaxDepth \in Nat \ {0} /\ MaxRunning \in Nat \ {0} /\ MaxWorld \in Nat
ASSUME TagsAssumption ==
    {Free, "user", "late"} \cap Jobs = {} /\ Free \notin {"user", "late"} \cup Names

VARIABLES
    disk,     \* disk[f]: Free, the job that wrote f, "user" for a file of another
              \* program, "late" for one that came while a job on f was running
    req,      \* req[r]: how far a request has come, and what it has planned
    plan,     \* plan[j]: what job j was created with
    status,   \* status[j]: "none", "queued", "processing", "ended"
    phase,    \* phase[j]: where the coroutine of a running job stands
    dropped,  \* jobs that delete_job took off `self.jobs` while they ran
    clobbered,\* <<job, file>>: the finished file of another the job replaced
    world     \* how many files other programs have created or removed

vars == <<disk, req, plan, status, phase, dropped, clobbered, world>>

Actions == {"skip", "overwrite", "rename"}

\* A JobPlan: the input, the destination before and after the duplicate policy,
\* allow_overwrite, the policy asked for and the request.
Plans == [input : Inputs, base : Names, dest : Names, allow : BOOLEAN, act : Actions,
          of : Requests]

Idle == [pc |-> "idle", todo |-> <<>>, plans |-> <<>>, act |-> "skip", auto |-> FALSE]

Init ==
    /\ \E there \in Initially :
          disk = [f \in Files |-> IF f \in there THEN "user" ELSE Free]
    /\ req = [r \in Requests |-> Idle]
    /\ plan = [j \in Jobs |-> Free]
    /\ status = [j \in Jobs |-> "none"]
    /\ phase = [j \in Jobs |-> "idle"]
    /\ dropped = {} /\ clobbered = {} /\ world = 0

-----------------------------------------------------------------------------
\* What a conversion writes, and who has it.

\* overwrite_targets: the primary and the sidecars, by their spellings.
Targets(p) == {p.dest} \cup Sidecars[p.input][p.dest]
FilesOf(p) == {Real[n] : n \in Targets(p)}

Running == {j \in Jobs : phase[j] # "idle"}
Live == {j \in Jobs \ dropped : status[j] \in {"queued", "processing"}}
Depth == Cardinality(Live)

\* LockManager._locks holds the primaries of the running jobs, as spelled.
Locked(n) == \E j \in Running : plan[j].dest = n
Exists(n) == disk[Real[n]] # Free

\* check_output_conflicts: the primary or a sidecar is taken, or locked.
LockedHere(x, n) == \E m \in {n} \cup Sidecars[x][n] : Locked(m)
Taken(x, n) == LockedHere(x, n) \/ \E m \in {n} \cup Sidecars[x][n] : Exists(m)

\* get_unique_output_path: the first free candidate, Free when none is left.
Unique(x, n) ==
    LET open == {i \in DOMAIN Renames[n] : ~Taken(x, Renames[n][i])}
    IN  IF open = {} THEN Free
        ELSE Renames[n][CHOOSE i \in open : \A k \in open : i <= k]

\* The duplicate policy for one input: the destination, or Free when it is skipped.
Resolve(x, act) ==
    LET n == Derived[x] IN
    CASE ~Taken(x, n)      -> n
      [] act = "skip"      -> Free
      [] act = "overwrite" -> IF LockedHere(x, n) THEN Free ELSE n
      [] act = "rename"    -> Unique(x, n)

\* A job may replace what is there only when the policy says so; one planned for
\* a request, unlike one of the sweep, only when there was something to replace.
MayReplace(x, act, auto) == act = "overwrite" /\ (auto \/ Taken(x, Derived[x]))

-----------------------------------------------------------------------------
\* Requests.

Planning(batch, act, auto) ==
    [pc |-> "planning", todo |-> batch, plans |-> <<>>, act |-> act, auto |-> auto]

\* Both endpoints refuse at once when the queue is full; the sweep does not ask
\* before it submits.
AskOne(r, x, act) ==
    /\ req[r].pc = "idle" /\ Depth < MaxDepth
    /\ req' = [req EXCEPT ![r] = Planning(<<x>>, act, FALSE)]
    /\ UNCHANGED <<disk, plan, status, phase, dropped, clobbered, world>>

AskBatch(r, batch, act) ==
    /\ req[r].pc = "idle" /\ Depth < MaxDepth /\ Len(batch) > 1
    /\ req' = [req EXCEPT ![r] = Planning(batch, act, FALSE)]
    /\ UNCHANGED <<disk, plan, status, phase, dropped, clobbered, world>>

AskSweep(r, batch, act) ==
    /\ req[r].pc = "idle"
    /\ req' = [req EXCEPT ![r] = Planning(batch, act, TRUE)]
    /\ UNCHANGED <<disk, plan, status, phase, dropped, clobbered, world>>

\* Mutant: a file with no destination left is planned all the same.
PlanAll(r) ==
    /\ req[r].pc = "planning" /\ req[r].todo # <<>>
    /\ LET q == req[r]
           x == Head(q.todo)
           p == [input |-> x, base |-> Derived[x], dest |-> Resolve(x, q.act), act |-> q.act,
                 of |-> r, allow |-> MayReplace(x, q.act, q.auto)]
       IN  req' = [req EXCEPT ![r].todo = Tail(@), ![r].plans = Append(@, p)]
    /\ UNCHANGED <<disk, plan, status, phase, dropped, clobbered, world>>
\* plan_job for the next file, and resolve_destination for one of the sweep: a
\* file the policy leaves out is dropped from the batch.  Inputs are those the
\* mode accepts (one that is missing or of the wrong kind is left out likewise).
PlanJob(r) ==
    /\ req[r].pc = "planning" /\ req[r].todo # <<>>
    /\ LET q == req[r]
           x == Head(q.todo)
           d == Resolve(x, q.act)
           p == [input |-> x, base |-> Derived[x], dest |-> d, act |-> q.act, of |-> r,
                 allow |-> MayReplace(x, q.act, q.auto)]
       IN  req' = [req EXCEPT ![r].todo = Tail(@),
                              ![r].plans = IF d = Free THEN @ ELSE Append(@, p)]
    /\ UNCHANGED <<disk, plan, status, phase, dropped, clobbered, world>>

\* A batch is reduced to one plan per derived destination, the one of the highest
\* priority, the first of equals; the sweep keeps the first per destination.
Key(q, p) == IF q.auto THEN p.dest ELSE p.base
\* Mutant: the last plan of a destination is kept.
LastWins(q, i, k) == i > k
Better(q, i, k) ==
    \/ ~q.auto /\ Priority[q.plans[i].input] > Priority[q.plans[k].input]
    \/ i < k /\ (q.auto \/ Priority[q.plans[i].input] = Priority[q.plans[k].input])

\* The specifications of the jobs, by the places of their plans in the batch.
Specs(q) ==
    {k \in DOMAIN q.plans :
        \A i \in DOMAIN q.plans \ {k} :
           Key(q, q.plans[i]) = Key(q, q.plans[k]) => ~Better(q, i, k)}

Over == [Idle EXCEPT !.pc = "done"]

\* The reduced batch, if any of it is left and the queue has room for it, goes
\* to the pre-flight, which awaits the canonical paths.
Submit(r) ==
    /\ req[r].pc = "planning" /\ req[r].todo = <<>>
    /\ req' = IF \/ req[r].plans = <<>>
                 \/ ~req[r].auto /\ Depth + Cardinality(Specs(req[r])) > MaxDepth
              THEN [req EXCEPT ![r] = Over]
              ELSE [req EXCEPT ![r].pc = "reserving"]
    /\ UNCHANGED <<disk, plan, status, phase, dropped, clobbered, world>>

\* Mutant: only the primary is claimed.
PrimaryOnly(p) == {Real[p.dest]}
\* _reserved_keys: the files a job claims, sidecars included; _output_keys keeps
\* those of each live job.
ClaimedFiles(p) == FilesOf(p)
ActiveKeys == UNION {ClaimedFiles(plan[j]) : j \in Live}

\* _reject_claimed_destinations_locked: nothing of the batch is claimed by a live
\* job or twice by the batch.
Unclaimed(q) ==
    \A i \in Specs(q) :
       /\ ClaimedFiles(q.plans[i]) \cap ActiveKeys = {}
       /\ \A k \in Specs(q) \ {i} :
             ClaimedFiles(q.plans[i]) \cap ClaimedFiles(q.plans[k]) = {}

\* Mutant: a batch needs room for one job.
RoomForOne(n) == Depth < MaxDepth
\* _enforce_queue_backpressure_locked.
RoomFor(n) == Depth + n <= MaxDepth

\* Ids for new jobs, one for each specification.
FreshIds(specs) ==
    {ids \in [specs -> {j \in Jobs : status[j] = "none"}] : IsInjective(ids)}

\* create_job and create_jobs_atomic, in one hold of `_create_lock`.
CreateJobs(r) ==
    /\ req[r].pc = "reserving"
    /\ RoomFor(Cardinality(Specs(req[r]))) /\ Unclaimed(req[r])
    /\ \E ids \in FreshIds(Specs(req[r])) :
          /\ plan' = [j \in Jobs |->
                 IF j \in Range(ids) THEN req[r].plans[CHOOSE i \in DOMAIN ids : ids[i] = j]
                                     ELSE plan[j]]
          /\ status' = [j \in Jobs |-> IF j \in Range(ids) THEN "queued" ELSE status[j]]
    /\ req' = [req EXCEPT ![r].pc = "done"]
    /\ UNCHANGED <<disk, phase, dropped, clobbered, world>>

\* The volume does not answer the pre-flight, the queue has filled up, or a
\* destination is claimed: nothing is queued.
Refuse(r) ==
    /\ req[r].pc = "reserving"
    /\ req' = [req EXCEPT ![r] = Over]
    /\ UNCHANGED <<disk, plan, status, phase, dropped, clobbered, world>>

-----------------------------------------------------------------------------
\* Jobs.

\* Mutants: the lock without the look at the disk, and the look without the lock.
LockBlind(j) == ~Locked(plan[j].dest)
LookOnly(j) == Exists(plan[j].dest) => plan[j].allow
\* acquire_lock: not while the same spelling is locked, and not on a file the job
\* may not replace.
MayLock(j) == ~Locked(plan[j].dest) /\ (Exists(plan[j].dest) => plan[j].allow)

Start(j) ==
    /\ status[j] = "queued"
    /\ Cardinality(Running) < MaxRunning
    /\ IF MayLock(j)
       THEN /\ phase' = [phase EXCEPT ![j] = "clear"]
            /\ status' = [status EXCEPT ![j] = "processing"]
       ELSE status' = [status EXCEPT ![j] = "ended"] /\ UNCHANGED phase
    /\ UNCHANGED <<disk, req, plan, dropped, clobbered, world>>

\* The finished files among fs that are not j's: another program's that was there
\* before the job began, or the result of a job that is over and was not deleted.
Finished(j, fs) ==
    {f \in fs : disk[f] = "user" \/ disk[f] \in Jobs \ (Running \cup dropped \cup {j})}

\* _clear_existing_output, for a job that may replace what is there.
ClearExistingOutput(j) ==
    /\ phase[j] = "clear"
    /\ phase' = [phase EXCEPT ![j] = "convert"]
    /\ IF plan[j].allow
       THEN /\ disk' = [f \in Files |-> IF f \in FilesOf(plan[j]) THEN Free ELSE disk[f]]
            /\ clobbered' = clobbered \cup ({j} \X Finished(j, FilesOf(plan[j])))
       ELSE UNCHANGED <<disk, clobbered>>
    /\ UNCHANGED <<req, plan, status, dropped, world>>

\* The tool writes its files over whatever is there (chdman runs with -f).
Convert(j) ==
    /\ phase[j] = "convert"
    /\ phase' = [phase EXCEPT ![j] = "written"]
    /\ disk' = [f \in Files |-> IF f \in FilesOf(plan[j]) THEN j ELSE disk[f]]
    /\ clobbered' = clobbered \cup ({j} \X Finished(j, FilesOf(plan[j])))
    /\ UNCHANGED <<req, plan, status, dropped, world>>

\* The job completes, or it fails or is cancelled before or after it wrote; then
\* what it wrote is removed.  The lock is released.
Finish(j) ==
    /\ phase[j] \in {"clear", "convert", "written"}
    /\ phase' = [phase EXCEPT ![j] = "idle"]
    /\ status' = [status EXCEPT ![j] = "ended"]
    /\ IF phase[j] = "written"
       THEN \/ UNCHANGED disk
            \/ disk' = [f \in Files |-> IF f \in FilesOf(plan[j]) THEN Free ELSE disk[f]]
       ELSE UNCHANGED disk
    /\ UNCHANGED <<req, plan, dropped, clobbered, world>>

\* cancel_job or delete_job on a job that waits.
WithdrawJob(j) ==
    /\ status[j] = "queued"
    /\ status' = [status EXCEPT ![j] = "ended"]
    /\ UNCHANGED <<disk, req, plan, phase, dropped, clobbered, world>>

\* delete_job on a running job: it is asked to stop, but leaves the list at once
\* and its claim with it, while its coroutine goes on to its end.
DeleteRunning(j) ==
    /\ j \in Running \ dropped
    /\ dropped' = dropped \cup {j}
    /\ UNCHANGED <<disk, req, plan, status, phase, clobbered, world>>

-----------------------------------------------------------------------------
\* Other programs on the same volume.
Appear(f) ==
    /\ world < MaxWorld /\ world' = world + 1
    /\ disk[f] = Free
    /\ disk' = [disk EXCEPT ![f] =
           IF \E j \in Running : f \in FilesOf(plan[j]) THEN "late" ELSE "user"]
    /\ UNCHANGED <<req, plan, status, phase, dropped, clobbered>>

Vanish(f) ==
    /\ world < MaxWorld /\ world' = world + 1
    /\ disk[f] # Free
    /\ disk' = [disk EXCEPT ![f] = Free]
    /\ UNCHANGED <<req, plan, status, phase, dropped, clobbered>>

Next ==
    \/ \E r \in Requests :
          \/ \E x \in Inputs, w \in Policies :
                <<x>> \in Batches /\ ~w[2] /\ AskOne(r, x, w[1])
          \/ \E batch \in Batches, w \in Policies :
                IF w[2] THEN AskSweep(r, batch, w[1]) ELSE AskBatch(r, batch, w[1])
          \/ PlanJob(r) \/ Submit(r) \/ CreateJobs(r) \/ Refuse(r)
    \/ \E j \in Jobs : \/ Start(j) \/ ClearExistingOutput(j) \/ Convert(j) \/ Finish(j)
                       \/ WithdrawJob(j) \/ DeleteRunning(j)
    \/ \E f \in Files : Appear(f) \/ Vanish(f)

Spec == Init /\ [][Next]_vars

-----------------------------------------------------------------------------
\* Types: every plan is of an input and a destination the constants name, and a
\* job that runs has been created.
TypeOK ==
    /\ disk \in [Files -> {Free, "user", "late"} \cup Jobs]
    /\ req \in [Requests -> [pc : {"idle", "planning", "reserving", "done"},
                            todo : Seq(Inputs), plans : Seq(Plans), act : Actions,
                            auto : BOOLEAN]]
    /\ plan \in [Jobs -> Plans \cup {Free}]
    /\ status \in [Jobs -> {"none", "queued", "processing", "ended"}]
    /\ phase \in [Jobs -> {"idle", "clear", "convert", "written"}]
    /\ dropped \subseteq Jobs
    /\ clobbered \subseteq Jobs \X Files
    /\ \A j \in Jobs : status[j] # "none" => plan[j] \in Plans

\* No two live jobs may write the same file, however each spells it and whether
\* it is the primary of one and a sidecar of the other: the reservation under
\* `_create_lock`, against plans made before it.
ClaimsDisjoint ==
    \A i, j \in Live : i # j => FilesOf(plan[i]) \cap FilesOf(plan[j]) = {}

\* The claims of live jobs, on well-formed plans.
ClaimsInv == TypeOK /\ ClaimsDisjoint

\* Two coroutines at work never write one file, the claims of live jobs and the
\* locks of running ones together; but a job deleted while it runs gives up its
\* claim, and its lock stops a newcomer only under the same spelling.
SeparateWriters ==
    \A i, j \in Running :
       i # j /\ FilesOf(plan[i]) \cap FilesOf(plan[j]) # {}
         => {i, j} \cap dropped # {} /\ plan[i].dest # plan[j].dest

\* However many requests are planned against the same free places, the live jobs
\* never exceed max_queue_depth.
DepthBound == Depth <= MaxDepth

\* A finished file at the destination of a job is replaced only when the request
\* asked to overwrite: not one that came after the plan was made, and not the
\* result of another job that was queued and done in between.
PrimaryAgreed ==
    \A e \in clobbered :
       e[2] = Real[plan[e[1]].dest] /\ e[1] \notin dropped => plan[e[1]].act = "overwrite"

\* A request is queued whole or not at all: one job for each destination its plans
\* came to, from its strongest input.
RequestWhole ==
    \A r \in Requests :
       LET mine == {j \in Jobs : status[j] # "none" /\ plan[j].of = r}
           plans == {req[r].plans[i] : i \in DOMAIN req[r].plans}
       IN  mine # {} => \A p \in plans :
              \E j \in mine : /\ Key(req[r], plan[j]) = Key(req[r], p)
                             /\ \/ req[r].auto
                                \/ Priority[plan[j].input] >= Priority[p.input]
                             /\ \A k \in mine \ {j} : Key(req[r], plan[k]) # Key(req[r], p)

\* What the queue lets in: at most max_queue_depth, and whole requests
\* (create_jobs_atomic, create_batch_jobs).
LetIn == DepthBound /\ RequestWhole

\* "so a sibling output (extractcd's `.bin`, a split `folder_to_iso`'s numbered
\* parts) can't be silently clobbered by a rename"
\* (src/app/services/output_conflicts.py:61): the finished file at a sidecar is
\* replaced only by a job that was asked to overwrite.
SidecarSpared ==
    \A e \in clobbered : e[1] \notin dropped => plan[e[1]].act = "overwrite"
=============================================================================
