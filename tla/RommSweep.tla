------------------------------ MODULE RommSweep ------------------------------
(***************************************************************************)
(* The automatic conversion of a RomM platform (services/romm/auto.py): a  *)
(* sweep picks the ROMs its rule asks for, queues them, and remembers what *)
(* it queued in the preferences; a listener of the queue adds how each job *)
(* ended.  Under `overwrite' and `rename' that memory is all that keeps a  *)
(* standing rule from converting a library again and again.                *)
(*                                                                         *)
(* One platform.  Whatever writes the record does so under _sweep_lock, so *)
(* a sweep's own copy of it is the record itself.                          *)
(***************************************************************************)
EXTENDS Integers, Sequences, FiniteSets, SequencesExt

CONSTANTS
    Roms,               \* the platform's ROMs, each with a source of its own
    Dest,               \* [ROM -> the output name its source leads to]
    Occupied,           \* the ROMs whose output name is taken beforehand
    Rules,              \* what an operator may save: see Rule
    Cap,                \* max_per_run
    MaxJobs,            \* bound: jobs the sweeps queue
    MaxAsks,            \* bound: rules saved, histories forgotten
    MaxFaults           \* bound: crashes, failed writes, volumes not answering

Policies == {"skip", "overwrite", "rename"}
ASSUME RommSweepAssumption ==
    /\ IsFiniteSet(Roms) /\ DOMAIN Dest = Roms /\ Occupied \subseteq Roms
    /\ \A rl \in Rules : rl \in [policy : Policies, target : {rl.target}, dir : {"named", "beside"},
                               on : {"on", "off", "invalid"}, deletes : BOOLEAN]
    /\ Cap \in Nat \ {0} /\ MaxJobs \in Nat /\ MaxAsks \in Nat /\ MaxFaults \in Nat

VARIABLES
    rule,    \* the saved rule: policy, target, directory, on, deletes
    edit,    \* the rule a half-done save will write; None otherwise
    conv,    \* [ROM -> its record: path, pre, job, done; NoRecord]
    due,     \* the rule's interval has elapsed
    file,    \* [occupied path -> which job wrote it, and whether wholly]
    gone,    \* the ROMs whose source was deleted after a verified conversion
    jobs,    \* every job: its ROM, rule, path, outcome, and who was told of it
    known,   \* the jobs the queue still remembers
    owners,  \* _job_owners
    late,    \* _late_verdicts
    sw,      \* the running sweep
    asks, faults

disk   == <<file, gone>>
memory == <<jobs, known, owners, late>>
store  == <<rule, edit, conv, due>>
bounds == <<asks, faults>>
vars == <<rule, edit, conv, due, file, gone, jobs, known, owners, late, sw, asks, faults>>

None     == [policy |-> "none"]
NoRecord == [job |-> 0]
Absent   == [job |-> 0, whole |-> FALSE]
Old      == [job |-> 0, whole |-> TRUE]
NoSweep  == [pc |-> "idle", dry |-> FALSE, slow |-> FALSE, active |-> {}, todo |-> {}, plan |-> <<>>]

Fault == faults < MaxFaults /\ faults' = faults + 1
Ask   == asks < MaxAsks /\ asks' = asks + 1

-----------------------------------------------------------------------------
\* The queue and the disk.

Live(j)   == jobs[j].out \in {"queued", "processing"}
At(p)     == IF p \in DOMAIN file THEN file[p] ELSE Absent
Put(p, c) == [q \in (DOMAIN file \cup {p}) \ (IF c = Absent THEN {p} ELSE {}) |->
                IF q = p THEN c ELSE file[q]]
Locked(p) == \E j \in known : jobs[j].out = "processing" /\ jobs[j].path = p
Taken(p)  == At(p) # Absent \/ Locked(p)

\* What an output is, and where: a refused directory reads as none.
Goal(rl) == <<rl.target, IF rl.dir = "named" THEN "named" ELSE "beside">>

\* resolve_destination: a set of the one path to write, empty to skip the ROM.
Base(r)    == <<Dest[r], Goal(rule), 0>>
Renamed(r) == {<<Dest[r], Goal(rule), n>> : n \in 0..MaxJobs}
FreeName(r) == {p \in Renamed(r) : ~Taken(p) /\ \A q \in Renamed(r) : q[3] < p[3] => Taken(q)}
Destination(r) ==
    CASE ~Taken(Base(r))           -> {Base(r)}
      [] rule.policy = "overwrite" -> {p \in {Base(r)} : ~Locked(p)}
      [] rule.policy = "rename"    -> FreeName(r)
      [] OTHER                     -> {}

\* The listener's task takes the job's owner from the index as it starts, and
\* then waits for the lock.
Ended(j, out, content) ==
    /\ jobs' = [jobs EXCEPT ![j].out = out, ![j].told = IF j \in owners THEN "waiting" ELSE "told"]
    /\ owners' = owners \ {j}
    /\ file' = Put(jobs[j].path, content)
    /\ UNCHANGED <<store, known, late, sw, bounds>>

JobStarts(j) ==
    /\ jobs[j].out = "queued"
    /\ jobs' = [jobs EXCEPT ![j].out = "processing"]
    /\ UNCHANGED <<store, disk, known, owners, late, sw, bounds>>

\* Only a rule that overwrites authorises a job to write over an output.
JobCompletes(j) ==
    /\ jobs[j].out = "processing" /\ jobs[j].rom \notin gone
    /\ At(jobs[j].path) = Absent \/ jobs[j].rule.policy = "overwrite"
    /\ gone' = IF jobs[j].rule.deletes THEN gone \cup {jobs[j].rom} ELSE gone
    /\ Ended(j, "completed", [job |-> j, whole |-> TRUE])

\* A failed job leaves the output as it was, removed, or partly written.
Left(j) ==
    {At(jobs[j].path)} \cup
    IF At(jobs[j].path) = Absent \/ jobs[j].rule.policy = "overwrite"
      THEN {Absent, [job |-> j, whole |-> FALSE]} ELSE {}
JobFails(j) ==
    /\ \/ jobs[j].out = "processing" /\ \E c \in Left(j) : Ended(j, "failed", c)
       \/ jobs[j].out = "queued" /\ Ended(j, "failed", At(jobs[j].path))
    /\ UNCHANGED gone

\* The history forgets a job that has ended.
Prune(j) ==
    /\ j \in known /\ ~Live(j)
    /\ known' = known \ {j}
    /\ UNCHANGED <<store, disk, jobs, owners, late, sw, bounds>>

-----------------------------------------------------------------------------
\* The listener: note_job_finished.

LockFree == sw.pc = "idle" /\ edit = None

RecordNames(r, j) == conv[r].job = j
WithVerdict(rec, j) == [rec EXCEPT !.done = IF jobs[j].out = "completed" THEN "yes" ELSE "no"]
NoteLands(j) ==
    /\ jobs[j].told = "waiting" /\ LockFree
    /\ LET r == jobs[j].rom IN
       /\ late' = IF conv[r] = NoRecord THEN late \cup {j} ELSE late
       /\ conv' = IF conv[r] # NoRecord /\ RecordNames(r, j)
                    THEN [conv EXCEPT ![r] = WithVerdict(conv[r], j)] ELSE conv
    /\ jobs' = [jobs EXCEPT ![j].told = "told"]
    /\ UNCHANGED <<rule, edit, due, disk, known, owners, sw, bounds>>

\* The record cannot be read or written; the owner was taken, nobody asks again.
NoteFails(j) ==
    /\ jobs[j].told = "waiting" /\ LockFree /\ Fault
    /\ jobs' = [jobs EXCEPT ![j].told = "failed"]
    /\ UNCHANGED <<store, disk, known, owners, late, sw, asks>>

-----------------------------------------------------------------------------
\* The rules, and the history an operator forgets.

\* normalize_rule pauses a rule whose directory it could not check.  The flag
\* that says so is not read back (get_rules): what stays is a rule switched off,
\* without a directory.  The flags of a window or a filter stay: "invalid".
Normalized(rl, answered) ==
    IF answered \/ rl.dir = "beside" THEN rl
    ELSE [rl EXCEPT !.dir = "refused", !.on = IF @ = "on" THEN "off" ELSE @]
OutputIdentity(rl) == <<rl.policy, Goal(rl)>>
NoHistory == [r \in Roms |-> NoRecord]

\* set_rules: two writes under the lock, the history first.
\* Mutant: the rules are saved first.
RulesFirst(rl) == rule' = rl /\ UNCHANGED conv
FirstWrite(rl) ==
    /\ conv' = IF OutputIdentity(rl) # OutputIdentity(rule) THEN NoHistory ELSE conv
    /\ UNCHANGED rule
SecondWrite == rule' = edit /\ UNCHANGED conv

SetRules(rl, answered) ==
    /\ LockFree /\ Ask
    /\ edit' = Normalized(rl, answered)
    /\ FirstWrite(edit')
    /\ UNCHANGED <<due, disk, memory, sw, faults>>

SaveRules ==
    /\ edit # None /\ SecondWrite
    /\ edit' = None
    /\ UNCHANGED <<due, disk, memory, sw, bounds>>

SaveFails ==
    /\ edit # None /\ Fault
    /\ edit' = None
    /\ UNCHANGED <<rule, conv, due, disk, memory, sw, asks>>

Forget ==
    /\ LockFree /\ Ask
    /\ conv' = NoHistory
    /\ UNCHANGED <<rule, edit, due, disk, memory, sw, faults>>

IntervalElapses ==
    /\ ~due /\ due' = TRUE
    /\ UNCHANGED <<rule, edit, conv, disk, memory, sw, bounds>>

-----------------------------------------------------------------------------
\* A sweep.

\* A rule that is off runs when its platform is named; one with an unusable
\* window or filter never does.
MayRun(kind) ==
    \/ rule.on = "on" /\ (kind = "tick" => due)
    \/ rule.on = "off" /\ kind # "tick"

\* _persist_known_outcomes: what the queue still knows is written down.
Outcome(rec) ==
    IF rec # NoRecord /\ rec.done = "unknown" /\ rec.job \in known /\ ~Live(rec.job)
      THEN WithVerdict(rec, rec.job) ELSE rec

\* The sources in flight are read once, then the ROMs, then the record.
Begin(kind) ==
    /\ LockFree /\ MayRun(kind)
    /\ sw' = [NoSweep EXCEPT !.pc = "snapshot", !.dry = (kind = "preview"),
                             !.active = {jobs[j].rom : j \in {i \in known : Live(i)}}]
    /\ UNCHANGED <<store, disk, memory, bounds>>

ReadHistory ==
    /\ sw.pc = "snapshot"
    /\ sw' = [sw EXCEPT !.pc = "choose", !.todo = Roms]
    /\ conv' = IF rule.policy = "skip" THEN conv ELSE [r \in Roms |-> Outcome(conv[r])]
    /\ UNCHANGED <<rule, edit, due, disk, memory, bounds>>

\* Mutant: the destination has changed, so the conversion took place.
ProducedByDisk(r) ==
    rule.policy # "skip" /\ conv[r] # NoRecord /\ At(conv[r].path) # conv[r].pre
\* _was_produced: the verdict, else the queue's answer, else the file.
WasProduced(r) ==
    /\ rule.policy # "skip" /\ conv[r] # NoRecord
    /\ \/ conv[r].done = "yes"
       \/ /\ conv[r].done = "unknown"
          /\ IF conv[r].job \in known
               THEN jobs[conv[r].job].out \in {"queued", "processing", "completed"}
               ELSE At(conv[r].path) # conv[r].pre

Claimed(p) == \E s \in DOMAIN sw.plan : sw.plan[s].path = p
\* Mutant: a source that is gone is still a candidate.
ChosenUnseen(r) == {p \in Destination(r) : ~WasProduced(r) /\ r \notin sw.active /\ ~Claimed(p)}
Chosen(r) ==
    {p \in Destination(r) : ~WasProduced(r) /\ r \notin gone /\ r \notin sw.active /\ ~Claimed(p)}

\* The ROMs come in the rule's order, which may be any.
Inspect(r) ==
    /\ sw.pc = "choose" /\ r \in sw.todo /\ Cardinality(DOMAIN sw.plan) < Cap
    /\ \/ /\ Chosen(r) = {}
          /\ sw' = [sw EXCEPT !.todo = @ \ {r}]
       \/ \E p \in Chosen(r) :
            sw' = [sw EXCEPT !.todo = @ \ {r},
                     !.plan = [s \in DOMAIN sw.plan \cup {r} |->
                        IF s = r THEN [path |-> p, pre |-> At(p)] ELSE sw.plan[s]]]
    /\ UNCHANGED <<store, disk, memory, bounds>>

\* The volume stops answering: what was chosen so far is still queued.
Unresponsive ==
    /\ sw.pc = "choose" /\ Fault
    /\ sw' = [sw EXCEPT !.todo = {}, !.slow = TRUE]
    /\ UNCHANGED <<store, disk, memory, asks>>

\* No snapshot for a deletion: the source drops out of the batch.
Unreadable(r) ==
    /\ sw.pc = "queue" /\ rule.deletes /\ r \in DOMAIN sw.plan /\ Fault
    /\ sw' = IF DOMAIN sw.plan = {r} THEN NoSweep
             ELSE [sw EXCEPT !.plan = [s \in DOMAIN sw.plan \ {r} |-> sw.plan[s]]]
    /\ UNCHANGED <<store, disk, memory, asks>>

Recording == [NoSweep EXCEPT !.pc = "record", !.dry = sw.dry, !.slow = sw.slow]
Choose ==
    /\ sw.pc = "choose" /\ (sw.todo = {} \/ Cardinality(DOMAIN sw.plan) = Cap)
    /\ sw' = IF sw.dry \/ DOMAIN sw.plan = {} THEN Recording
             ELSE [sw EXCEPT !.pc = "queue", !.todo = {}, !.active = {}]
    /\ UNCHANGED <<store, disk, memory, bounds>>

\* create_batch_jobs: all or none, and the owners are known at once.
Writing  == {jobs[j].path : j \in {i \in known : Live(i)}}
Planned  == SetToSeq(DOMAIN sw.plan)
NewJobs  == [i \in DOMAIN Planned |->
               [rom |-> Planned[i], rule |-> rule, path |-> sw.plan[Planned[i]].path,
                out |-> "queued", told |-> "no"]]
\* Mutant: the ids start one too low.
LowIds   == Len(jobs) .. Len(jobs) + Len(Planned) - 1
NewIds   == Len(jobs) + 1 .. Len(jobs) + Len(Planned)
Queue ==
    /\ sw.pc = "queue" /\ Len(jobs) + Len(Planned) <= MaxJobs
    /\ \A r \in DOMAIN sw.plan : sw.plan[r].path \notin Writing
    /\ jobs' = jobs \o NewJobs /\ known' = known \cup NewIds /\ owners' = owners \cup NewIds
    /\ sw' = IF rule.policy = "skip" THEN Recording ELSE [sw EXCEPT !.pc = "mark"]
    /\ UNCHANGED <<store, disk, late, bounds>>

\* The queue is full, or another client has taken a destination.
Refused ==
    /\ sw.pc = "queue"
    /\ \/ Fault
       \/ UNCHANGED faults /\ Len(jobs) + Len(Planned) > MaxJobs
       \/ UNCHANGED faults /\ \E r \in DOMAIN sw.plan : sw.plan[r].path \in Writing
    /\ sw' = NoSweep
    /\ UNCHANGED <<store, disk, memory, asks>>

\* _mark_converted, and the write that fails.  It registers the owners again
\* (auto.py:1358): the entry of a job that has ended stays, and is never read.
JobOf(r) == CHOOSE j \in DOMAIN jobs :
              jobs[j].rom = r /\ \A i \in DOMAIN jobs : jobs[i].rom = r => i <= j
\* Mutant: the destination is looked at when the record is written.
EntryNow(r) == [path |-> sw.plan[r].path, pre |-> At(sw.plan[r].path), job |-> JobOf(r), done |-> "unknown"]
Entry(r) == LET rec == [path |-> sw.plan[r].path, pre |-> sw.plan[r].pre,
                        job |-> JobOf(r), done |-> "unknown"] IN
            IF JobOf(r) \in late THEN WithVerdict(rec, JobOf(r)) ELSE rec
Mark ==
    /\ sw.pc = "mark"
    /\ conv' = [r \in Roms |-> IF r \in DOMAIN sw.plan THEN Entry(r) ELSE conv[r]]
    /\ late' = late \ {JobOf(r) : r \in DOMAIN sw.plan}
    /\ sw' = Recording
    /\ UNCHANGED <<rule, edit, due, disk, jobs, known, owners, bounds>>
MarkFails ==
    /\ sw.pc = "mark" /\ Fault
    /\ late' = late \ {JobOf(r) : r \in DOMAIN sw.plan}
    /\ sw' = Recording
    /\ UNCHANGED <<store, disk, jobs, known, owners, asks>>

\* _record_run, unless this was a preview or the volume did not answer.
RecordRun ==
    /\ sw.pc = "record"
    /\ due' = (due /\ (sw.dry \/ sw.slow))
    /\ sw' = NoSweep
    /\ UNCHANGED <<rule, edit, conv, disk, memory, bounds>>

\* A volume, RomM or the preferences fail: the clock stays.
Aborts ==
    /\ sw.pc \in {"snapshot", "record"} /\ Fault
    /\ sw' = NoSweep
    /\ UNCHANGED <<store, disk, memory, asks>>

-----------------------------------------------------------------------------
\* The process dies: the queue and the indexes were in memory.

Crash ==
    /\ Fault
    /\ \E broken \in SUBSET {j \in known : jobs[j].out = "processing"} :
         file' = [p \in DOMAIN file \cup {jobs[j].path : j \in broken} |->
                    IF \E j \in broken : jobs[j].path = p
                      THEN [job |-> CHOOSE j \in broken : jobs[j].path = p, whole |-> FALSE]
                      ELSE file[p]]
    /\ jobs' = [j \in DOMAIN jobs |->
                  [jobs[j] EXCEPT !.out = IF Live(j) THEN "killed" ELSE @,
                                  !.told = IF @ = "told" THEN @ ELSE "lost"]]
    /\ known' = {} /\ owners' = {} /\ late' = {}
    /\ sw' = NoSweep /\ edit' = None
    /\ UNCHANGED <<rule, conv, due, gone, asks>>

-----------------------------------------------------------------------------
Init ==
    /\ rule \in Rules /\ edit = None
    /\ conv = NoHistory /\ due = TRUE
    /\ file = [p \in {Base(r) : r \in Occupied} |-> Old]
    /\ gone = {}
    /\ jobs = <<>> /\ known = {} /\ owners = {} /\ late = {}
    /\ sw = NoSweep /\ asks = 0 /\ faults = 0

Kinds == {"tick", "run", "preview"}
Sweeping ==
    ReadHistory \/ (\E r \in Roms : Inspect(r)) \/ Choose \/ Queue \/ Refused \/ Mark \/ RecordRun

Next ==
    \/ \E j \in DOMAIN jobs :
         JobStarts(j) \/ JobCompletes(j) \/ JobFails(j) \/ Prune(j) \/ NoteLands(j) \/ NoteFails(j)
    \/ \E rl \in Rules, answered \in BOOLEAN : SetRules(rl, answered)
    \/ SaveRules \/ SaveFails \/ Forget \/ IntervalElapses
    \/ \E kind \in Kinds : Begin(kind)
    \/ Sweeping \/ Unresponsive \/ MarkFails \/ Aborts
    \/ \E r \in Roms : Unreadable(r)
    \/ Crash

Spec == Init /\ [][Next]_vars

-----------------------------------------------------------------------------
\* Properties.

Outs == {"queued", "processing", "completed", "failed", "killed"}
TypeOK ==
    /\ rule.on \in {"on", "off", "invalid"} /\ due \in BOOLEAN
    /\ \A r \in Roms : conv[r] # NoRecord =>
         conv[r].job \in DOMAIN jobs /\ conv[r].done \in {"unknown", "yes", "no"}
    /\ gone \subseteq Roms
    /\ \A j \in DOMAIN jobs :
         /\ jobs[j].rom \in Roms /\ jobs[j].out \in Outs
         /\ jobs[j].told \in {"no", "waiting", "told", "failed", "lost"}
         /\ Live(j) => j \in known /\ j \in owners
    /\ known \cup owners \subseteq DOMAIN jobs /\ late \subseteq DOMAIN jobs
    /\ sw.pc \in {"idle", "snapshot", "choose", "queue", "mark", "record"}
    /\ edit # None => sw.pc = "idle"

\* A rule never queues a ROM again after its record names a conversion that
\* completed: not when the verdict is late, nor when the job has been pruned,
\* nor after a restart, as long as the output is still there.
NoRepeat ==
    sw.pc = "queue" => \A r \in DOMAIN sw.plan :
        conv[r] # NoRecord => /\ jobs[conv[r].job].out # "completed" \/ At(conv[r].path) = Absent
                              /\ ~Live(conv[r].job)

\* Nothing is converted twice, on well-formed records.
RecordInv == TypeOK /\ NoRepeat

\* A ROM is passed over as converted only if its conversion is under way or did
\* complete, whatever a failed job left at the destination; unless its verdict
\* was not written down (it waits for the lock, its write failed, or the process
\* died first) and the queue has forgotten the job.
NotMistaken ==
    sw.pc = "choose" => \A r \in sw.todo :
        WasProduced(r) => \/ jobs[conv[r].job].out \in {"queued", "processing", "completed"}
                          \/ jobs[conv[r].job].told # "told" /\ conv[r].job \notin known

\* A rule that was retargeted never takes the outputs of the former target for
\* its own, also when a crash interrupts the save.
RightTarget ==
    sw.pc = "choose" => \A r \in sw.todo :
        WasProduced(r) => OutputIdentity(jobs[conv[r].job].rule) = OutputIdentity(rule)

\* What a sweep passes over as converted is the product of a conversion of this
\* ROM for this target (_was_produced, the records of a rule).
PassedOverRightly == NotMistaken /\ RightTarget

\* "So the answer is recorded at the one moment it is certain" (auto.py:1268):
\* while the process lives, a verdict is at most waiting for the lock.
VerdictRecorded ==
    sw.pc = "choose" => \A r \in sw.todo :
        WasProduced(r) => \/ jobs[conv[r].job].out \in {"queued", "processing", "completed"}
                          \/ jobs[conv[r].job].told \in {"waiting", "lost"}

\* "Those stay paused until the operator fixes what is wrong" (auto.py:1619):
\* no sweep runs a rule whose output directory was refused.
PausedStays == [][sw.pc = "idle" /\ sw'.pc # "idle" => rule.dir # "refused"]_vars

\* Every deleted source has its conversion on the disk.
NoSourceLost ==
    \A r \in gone : \E p \in DOMAIN file : file[p].whole /\ file[p].job # 0 /\ jobs[file[p].job].rom = r
=============================================================================
