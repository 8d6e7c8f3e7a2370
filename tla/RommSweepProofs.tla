-------------------------- MODULE RommSweepProofs --------------------------
(***************************************************************************)
(* Theorems about RommSweep for any ROMs, rules, caps and bounds: what a   *)
(* sweep passes over as converted is the product of a conversion for this  *)
(* target; and, when no two ROMs lead to one output, no converted ROM is   *)
(* queued again while its output is there, and no deleted source is        *)
(* without its conversion.                                                 *)
(***************************************************************************)
EXTENDS RommSweep, FiniteSetTheorems, SequenceTheorems, TLAPS

-----------------------------------------------------------------------------
\* What the variables range over.

Targets  == {rl.target : rl \in Rules}
RuleSet  == [policy : Policies, target : Targets, dir : {"named", "beside", "refused"},
             on : {"on", "off", "invalid"}, deletes : BOOLEAN]
Goals    == Targets \X {"named", "beside"}
PathsOf(r) == {<<Dest[r], g, n>> : g \in Goals, n \in 0..MaxJobs}
Paths    == UNION {PathsOf(r) : r \in Roms}
Contents == [job : Nat, whole : BOOLEAN]
Records  == [path : Paths, pre : Contents, job : Nat \ {0}, done : {"unknown", "yes", "no"}]
Job      == [rom : Roms, rule : RuleSet, path : Paths, out : Outs,
             told : {"no", "waiting", "told", "failed", "lost"}]
Picks  == [path : Paths, pre : Contents]
Stages   == {"idle", "snapshot", "choose", "queue", "mark", "record"}
Sweeps   == [pc : Stages, dry : BOOLEAN, slow : BOOLEAN, active : SUBSET Roms,
             todo : SUBSET Roms, plan : {sw.plan}]

Shapes ==
    /\ rule \in RuleSet /\ edit \in RuleSet \cup {None} /\ due \in BOOLEAN
    /\ conv \in [Roms -> Records \cup {NoRecord}]
    /\ file \in [DOMAIN file -> Contents] /\ DOMAIN file \subseteq Paths /\ gone \subseteq Roms
    /\ jobs \in Seq(Job)
    /\ known \subseteq DOMAIN jobs /\ owners \subseteq DOMAIN jobs /\ late \subseteq DOMAIN jobs
    /\ sw \in Sweeps /\ sw.plan \in [DOMAIN sw.plan -> Picks] /\ DOMAIN sw.plan \subseteq Roms

-----------------------------------------------------------------------------
\* The inductive invariant.

\* A job on the way is known to the queue, has an owner, was not told of, and
\* its source is there; one that is over has been told of, or is about to be.
JobsGood ==
    \A j \in DOMAIN jobs :
        /\ jobs[j].path \in PathsOf(jobs[j].rom)
        /\ Live(j) => /\ j \in known /\ j \in owners /\ jobs[j].told = "no"
                      /\ jobs[j].rom \notin gone
        /\ ~Live(j) => jobs[j].told # "no"
        /\ j \in late => jobs[j].told = "told"

\* The job of a ROM that is on the way is the last the ROM was given.
LiveIsLast ==
    \A i, j \in DOMAIN jobs : Live(i) /\ jobs[j].rom = jobs[i].rom => j <= i

\* A record names a job of its ROM, for the present target, with what was at the
\* destination before it; its verdict is the job's, and is known once the job
\* was told of.
RecordOf(r, rec) ==
    LET j == rec.job IN
    /\ j \in DOMAIN jobs /\ jobs[j].rom = r /\ rec.path = jobs[j].path
    /\ OutputIdentity(jobs[j].rule) = OutputIdentity(rule) /\ rule.policy # "skip"
    /\ rec.pre.job < j
    /\ rec.done = "yes" => jobs[j].out = "completed"
    /\ rec.done = "no" => jobs[j].out \in {"failed", "killed"}
    /\ rec.done = "unknown" => jobs[j].told # "told"
RecordsGood == \A r \in Roms : conv[r] # NoRecord => RecordOf(r, conv[r])

\* A rule that is being saved waits with the sweeps, and the records are gone
\* unless they are still good under it.
EditGood ==
    edit # None => /\ sw.pc = "idle"
                   /\ conv = NoHistory \/ OutputIdentity(edit) = OutputIdentity(rule)

\* Every written output names its job.
FilesGood ==
    \A p \in DOMAIN file : file[p].job # 0 => file[p].job \in DOMAIN jobs /\ jobs[file[p].job].path = p

\* What is chosen has no job on the way, and its source is there.
ChoiceOf(r, c) ==
    /\ r \notin gone /\ c.path \in PathsOf(r) /\ c.pre.job <= Len(jobs)
    /\ \A j \in DOMAIN jobs : jobs[j].rom = r => ~Live(j)
PlanGood ==
    /\ sw.pc \in {"snapshot", "choose"} =>
         \A j \in DOMAIN jobs : Live(j) => jobs[j].rom \in sw.active
    /\ sw.pc \in {"choose", "queue"} => \A r \in DOMAIN sw.plan : ChoiceOf(r, sw.plan[r])
    /\ sw.pc \in {"idle", "snapshot", "record"} => DOMAIN sw.plan = {}

\* What was queued and is not recorded yet: the last job of its ROM, not told of.
QueuedAs(r, c, j) ==
    /\ j \in DOMAIN jobs /\ jobs[j].rom = r /\ jobs[j].path = c.path /\ jobs[j].rule = rule
    /\ jobs[j].told \in {"no", "waiting"} /\ c.pre.job < j
    /\ \A i \in DOMAIN jobs : jobs[i].rom = r => i <= j
MarkGood ==
    sw.pc = "mark" => /\ rule.policy # "skip"
                      /\ \A r \in DOMAIN sw.plan : \E j \in DOMAIN jobs : QueuedAs(r, sw.plan[r], j)

IInv == Shapes /\ JobsGood /\ LiveIsLast /\ RecordsGood /\ EditGood /\ FilesGood /\ PlanGood /\ MarkGood

-----------------------------------------------------------------------------
\* No two ROMs of the platform lead to one output.
OneOutputEach == \A r, s \in Roms : Dest[r] = Dest[s] => r = s

\* What a completed job wrote is gone or was written by a later one.
ProductsStay ==
    \A j \in DOMAIN jobs : jobs[j].out = "completed" =>
        At(jobs[j].path) = Absent \/ At(jobs[j].path).job >= j

\* What is chosen has no conversion that is on the way or still there.
NothingTwice ==
    sw.pc \in {"choose", "queue"} => \A r \in DOMAIN sw.plan :
        conv[r] # NoRecord => /\ jobs[conv[r].job].out # "completed" \/ At(conv[r].path) = Absent
                              /\ ~Live(conv[r].job)
-----------------------------------------------------------------------------
\* The operators of the model.

\* A path belongs to the ROM whose output it is, when each has its own.
LEMMA PathsApart ==
    ASSUME OneOutputEach, NEW r \in Roms, NEW s \in Roms, NEW p, p \in PathsOf(r), p \in PathsOf(s)
    PROVE  r = s
BY DEF OneOutputEach, PathsOf

\* The policies lead to a path of the ROM.
LEMMA DestinationType ==
    ASSUME rule \in RuleSet, NEW r \in Roms
    PROVE  Destination(r) \subseteq PathsOf(r)
<1>1. Goal(rule) \in Goals /\ MaxJobs \in Nat  BY RommSweepAssumption DEF RuleSet, Goal, Goals
<1>2. Base(r) \in PathsOf(r)  BY <1>1 DEF Base, PathsOf
<1>3. Renamed(r) \subseteq PathsOf(r)  BY <1>1 DEF Renamed, PathsOf
<1>4. FreeName(r) \subseteq PathsOf(r)  BY <1>3 DEF FreeName
<1> QED  BY <1>2, <1>4 DEF Destination

\* What is at a path, and what is there after it was written.
LEMMA AtType ==
    ASSUME file \in [DOMAIN file -> Contents], NEW p
    PROVE  At(p) \in Contents
BY DEF At, Absent, Contents

LEMMA PutFile ==
    ASSUME file \in [DOMAIN file -> Contents], DOMAIN file \subseteq Paths,
           NEW p \in Paths, NEW c \in Contents, file' = Put(p, c)
    PROVE  /\ file' \in [DOMAIN file' -> Contents] /\ DOMAIN file' \subseteq Paths
           /\ At(p)' = c
           /\ p \in DOMAIN file' => file'[p] = c
           /\ c # Absent => p \in DOMAIN file'
           /\ \A q : q # p => At(q)' = At(q)
           /\ \A q : q # p => (q \in DOMAIN file' <=> q \in DOMAIN file)
           /\ \A q \in DOMAIN file' : q # p => file'[q] = file[q]
<1> DEFINE D == (DOMAIN file \cup {p}) \ (IF c = Absent THEN {p} ELSE {})
<1>1. file' = [q \in D |-> IF q = p THEN c ELSE file[q]]  BY DEF Put
<1>2. DOMAIN file' = D /\ \A q \in D : file'[q] = (IF q = p THEN c ELSE file[q])
  BY <1>1
<1>3. file' \in [DOMAIN file' -> Contents] /\ DOMAIN file' \subseteq Paths
  BY <1>1, <1>2
<1> QED  BY <1>2, <1>3 DEF At

\* A verdict changes nothing but the verdict.
LEMMA VerdictType ==
    ASSUME NEW rec \in Records, NEW j
    PROVE  /\ WithVerdict(rec, j) \in Records
           /\ WithVerdict(rec, j).path = rec.path /\ WithVerdict(rec, j).pre = rec.pre
           /\ WithVerdict(rec, j).job = rec.job
           /\ WithVerdict(rec, j).done = (IF jobs[j].out = "completed" THEN "yes" ELSE "no")
BY DEF WithVerdict, Records

\* A record is told from no record by its job.
LEMMA RecordIsOne ==
    ASSUME NEW rec \in Records
    PROVE  rec # NoRecord
BY DEF Records, NoRecord

\* What a record says is taken over from the queue when it is known there.
LEMMA OutcomeType ==
    ASSUME NEW rec \in Records \cup {NoRecord}
    PROVE  /\ Outcome(rec) \in Records \cup {NoRecord}
           /\ rec = NoRecord => Outcome(rec) = NoRecord
           /\ rec # NoRecord =>
                \/ Outcome(rec) = rec
                \/ /\ rec.job \in known /\ ~Live(rec.job)
                   /\ Outcome(rec) = WithVerdict(rec, rec.job)
<1>1. CASE rec = NoRecord  BY <1>1 DEF Outcome
<1>2. CASE rec \in Records
  BY <1>2, VerdictType, RecordIsOne DEF Outcome
<1> QED  BY <1>1, <1>2

\* The ROMs to queue, in some order, each once.
LEMMA PlannedSeq ==
    ASSUME NEW S, IsFiniteSet(S)
    PROVE  /\ SetToSeq(S) \in [1..Cardinality(S) -> S]
           /\ \A i, j \in DOMAIN SetToSeq(S) : SetToSeq(S)[i] = SetToSeq(S)[j] => i = j
           /\ \A x \in S : \E i \in DOMAIN SetToSeq(S) : SetToSeq(S)[i] = x
           /\ Cardinality(S) \in Nat
<1>1. Cardinality(S) \in Nat /\ ExistsBijection(1..Cardinality(S), S)
  BY FS_CardinalityType
<1>2. PICK f \in Bijection(1..Cardinality(S), S) : TRUE
  BY <1>1 DEF ExistsBijection
<1>3. f \in [1..Cardinality(S) -> S] /\ IsInjective(f)
  BY <1>2 DEF Bijection, Injection, IsInjective
<1> DEFINE g == SetToSeq(S)
<1>4. g \in [1..Cardinality(S) -> S] /\ IsInjective(g)
  BY <1>3 DEF SetToSeq
<1>5. g \in Injection(1..Cardinality(S), S)
  BY <1>4 DEF Injection, IsInjective
<1>6. IsFiniteSet(1..Cardinality(S)) /\ Cardinality(1..Cardinality(S)) = Cardinality(S)
  BY <1>1, FS_Interval
<1>7. g \in Surjection(1..Cardinality(S), S)
  <2> HIDE DEF g
  <2> QED  BY <1>5, <1>6, FS_PigeonHole, FS_Injection
<1> QED  BY <1>1, <1>4, <1>7 DEF Surjection, IsInjective

-----------------------------------------------------------------------------
\* What the steps do to the jobs and to the disk.

\* Jobs keep what they are, none comes back, and one that is over stays as it ended.
JobsMove ==
    /\ jobs' \in Seq(Job) /\ DOMAIN jobs' = DOMAIN jobs /\ Len(jobs') = Len(jobs)
    /\ \A i \in DOMAIN jobs :
         /\ jobs'[i].rom = jobs[i].rom /\ jobs'[i].rule = jobs[i].rule
         /\ jobs'[i].path = jobs[i].path
         /\ Live(i)' => Live(i)
         /\ ~Live(i) => jobs'[i].out = jobs[i].out

\* Jobs are numbered from 1.
LEMMA JobIds ==
    ASSUME jobs \in Seq(Job)
    PROVE  /\ Len(jobs) \in Nat /\ DOMAIN jobs = 1..Len(jobs)
           /\ \A j \in DOMAIN jobs : j \in Nat \ {0} /\ jobs[j] \in Job
OBVIOUS

\* One job changes its outcome, or whether it was told of.
LEMMA OneChanges ==
    ASSUME jobs \in Seq(Job), NEW j \in DOMAIN jobs, NEW e \in Job,
           jobs' = [jobs EXCEPT ![j] = e],
           e.rom = jobs[j].rom, e.rule = jobs[j].rule, e.path = jobs[j].path,
           e.out = jobs[j].out \/ Live(j)
    PROVE  /\ JobsMove /\ jobs'[j] = e
           /\ \A i \in DOMAIN jobs : i # j => jobs'[i] = jobs[i]
<1>1. jobs' \in Seq(Job) /\ DOMAIN jobs' = DOMAIN jobs /\ Len(jobs') = Len(jobs)
  OBVIOUS
<1>2. jobs'[j] = e /\ \A i \in DOMAIN jobs : i # j => jobs'[i] = jobs[i]
  OBVIOUS
<1>3. ASSUME NEW i \in DOMAIN jobs
      PROVE  /\ jobs'[i].rom = jobs[i].rom /\ jobs'[i].rule = jobs[i].rule
             /\ jobs'[i].path = jobs[i].path
             /\ Live(i)' => Live(i)
             /\ ~Live(i) => jobs'[i].out = jobs[i].out
  BY <1>2 DEF Live
<1> QED  BY <1>1, <1>2, <1>3 DEF JobsMove

\* A job starts.
LEMMA StartsGives ==
    ASSUME Shapes, NEW j \in DOMAIN jobs, JobStarts(j)
    PROVE  /\ JobsMove /\ Live(j) /\ jobs'[j].out = "processing" /\ jobs'[j].told = jobs[j].told
           /\ \A i \in DOMAIN jobs : i # j => jobs'[i] = jobs[i]
<1> DEFINE e == [jobs[j] EXCEPT !.out = "processing"]
<1>0. jobs[j] \in Job  BY JobIds DEF Shapes
<1>1. e \in Job /\ e.rom = jobs[j].rom /\ e.rule = jobs[j].rule /\ e.path = jobs[j].path
      /\ e.out = "processing" /\ e.told = jobs[j].told
  BY <1>0 DEF Job, Outs
<1>2. jobs' = [jobs EXCEPT ![j] = e] /\ Live(j)  BY DEF JobStarts, Live
<1> HIDE DEF e
<1> QED  BY <1>1, <1>2, OneChanges DEF Shapes

\* A job ends, and its end waits to be told.
LEMMA EndedGives ==
    ASSUME Shapes, JobsGood, NEW j \in DOMAIN jobs, Live(j),
           NEW out \in {"completed", "failed"}, NEW c, Ended(j, out, c)
    PROVE  /\ JobsMove /\ jobs'[j].out = out /\ jobs'[j].told = "waiting"
           /\ \A i \in DOMAIN jobs : i # j => jobs'[i] = jobs[i]
<1> DEFINE e == [jobs[j] EXCEPT !.out = out, !.told = "waiting"]
<1>0. jobs[j] \in Job /\ j \in owners  BY JobIds DEF Shapes, JobsGood
<1>1. e \in Job /\ e.rom = jobs[j].rom /\ e.rule = jobs[j].rule /\ e.path = jobs[j].path
      /\ e.out = out /\ e.told = "waiting"
  BY <1>0 DEF Job, Outs
<1>2. jobs' = [jobs EXCEPT ![j] = e]  BY <1>0 DEF Ended
<1> HIDE DEF e
<1> QED  BY <1>1, <1>2, OneChanges DEF Shapes

\* The end of a job is told.
LEMMA NoteGives ==
    ASSUME Shapes, NEW j \in DOMAIN jobs, NoteLands(j)
    PROVE  /\ JobsMove /\ jobs'[j].out = jobs[j].out /\ jobs'[j].told = "told"
           /\ \A i \in DOMAIN jobs : i # j => jobs'[i] = jobs[i]
<1> DEFINE e == [jobs[j] EXCEPT !.told = "told"]
<1>0. jobs[j] \in Job  BY JobIds DEF Shapes
<1>1. e \in Job /\ e.rom = jobs[j].rom /\ e.rule = jobs[j].rule /\ e.path = jobs[j].path
      /\ e.out = jobs[j].out /\ e.told = "told"
  BY <1>0 DEF Job
<1>2. jobs' = [jobs EXCEPT ![j] = e]  BY DEF NoteLands
<1> HIDE DEF e
<1> QED  BY <1>1, <1>2, OneChanges DEF Shapes

\* The end of a job could not be written down.
LEMMA NoteFailsGives ==
    ASSUME Shapes, NEW j \in DOMAIN jobs, NoteFails(j)
    PROVE  /\ JobsMove /\ jobs'[j].out = jobs[j].out /\ jobs'[j].told = "failed"
           /\ \A i \in DOMAIN jobs : i # j => jobs'[i] = jobs[i]
<1> DEFINE e == [jobs[j] EXCEPT !.told = "failed"]
<1>0. jobs[j] \in Job  BY JobIds DEF Shapes
<1>1. e \in Job /\ e.rom = jobs[j].rom /\ e.rule = jobs[j].rule /\ e.path = jobs[j].path
      /\ e.out = jobs[j].out /\ e.told = "failed"
  BY <1>0 DEF Job
<1>2. jobs' = [jobs EXCEPT ![j] = e]  BY DEF NoteFails
<1> HIDE DEF e
<1> QED  BY <1>1, <1>2, OneChanges DEF Shapes

\* The process dies.
LEMMA CrashGives ==
    ASSUME Shapes, Crash
    PROVE  /\ JobsMove
           /\ \A i \in DOMAIN jobs :
                /\ jobs'[i].out = (IF Live(i) THEN "killed" ELSE jobs[i].out)
                /\ jobs'[i].told = (IF jobs[i].told = "told" THEN "told" ELSE "lost")
                /\ ~Live(i)'
<1> DEFINE e(i) == [jobs[i] EXCEPT !.out = IF Live(i) THEN "killed" ELSE @,
                                   !.told = IF @ = "told" THEN @ ELSE "lost"]
<1>0. \A i \in DOMAIN jobs : jobs[i] \in Job  BY JobIds DEF Shapes
<1>1. jobs' = [i \in DOMAIN jobs |-> e(i)]  BY DEF Crash
<1>2. ASSUME NEW i \in DOMAIN jobs
      PROVE  /\ e(i) \in Job /\ e(i).rom = jobs[i].rom /\ e(i).rule = jobs[i].rule
             /\ e(i).path = jobs[i].path
             /\ e(i).out = (IF Live(i) THEN "killed" ELSE jobs[i].out)
             /\ e(i).told = (IF jobs[i].told = "told" THEN "told" ELSE "lost")
  <2>1. jobs[i] \in Job  BY <1>0
  <2> HIDE DEF Live
  <2> QED  BY <2>1 DEF Job, Outs
<1> HIDE DEF e
<1>3. Len(jobs) \in Nat /\ DOMAIN jobs = 1..Len(jobs)  BY JobIds DEF Shapes
<1>4. jobs' \in [1..Len(jobs) -> Job]  BY <1>1, <1>2, <1>3
<1>5. jobs' \in Seq(Job) /\ Len(jobs') = Len(jobs) /\ DOMAIN jobs' = DOMAIN jobs
  BY <1>3, <1>4, IsASeq, LenProperties
<1>6. ASSUME NEW i \in DOMAIN jobs
      PROVE  /\ jobs'[i] = e(i) /\ ~Live(i)'
             /\ ~Live(i) => jobs'[i].out = jobs[i].out
  <2>1. jobs'[i] = e(i)  BY <1>1
  <2>2. jobs'[i].out = (IF Live(i) THEN "killed" ELSE jobs[i].out)  BY <1>2, <2>1
  <2> QED  BY <2>1, <2>2 DEF Live
<1> QED  BY <1>2, <1>5, <1>6 DEF JobsMove

\* What a job leaves at its path when it ends.
LEMMA ContentType ==
    ASSUME Shapes, NEW j \in DOMAIN jobs
    PROVE  /\ [job |-> j, whole |-> TRUE] \in Contents /\ Left(j) \subseteq Contents
           /\ At(jobs[j].path) \in Contents /\ jobs[j].path \in Paths
           /\ \A c \in Left(j) : c = At(jobs[j].path) \/ c = Absent \/ c.job = j
<1>1. j \in Nat /\ jobs[j].path \in Paths  BY JobIds DEF Shapes, Job
<1>2. At(jobs[j].path) \in Contents  BY AtType DEF Shapes
<1>3. Left(j) \subseteq {At(jobs[j].path), Absent, [job |-> j, whole |-> FALSE]}
  BY DEF Left
<1>4. /\ Absent \in Contents /\ [job |-> j, whole |-> TRUE] \in Contents
      /\ [job |-> j, whole |-> FALSE] \in Contents
  BY <1>1 DEF Contents, Absent
<1>5. Left(j) \subseteq Contents  BY <1>2, <1>3, <1>4
<1>6. \A c \in Left(j) : c = At(jobs[j].path) \/ c = Absent \/ c.job = j
  BY <1>3
<1> QED  BY <1>1, <1>2, <1>4, <1>5, <1>6

\* The partial outputs of a crash are those of jobs on the way.
LEMMA CrashDisk ==
    ASSUME Shapes, Crash
    PROVE  /\ file' \in [DOMAIN file' -> Contents] /\ DOMAIN file' \subseteq Paths
           /\ \A p \in DOMAIN file' :
                \/ p \in DOMAIN file /\ file'[p] = file[p]
                \/ \E j \in DOMAIN jobs : Live(j) /\ jobs[j].path = p /\ file'[p].job = j
           /\ \A p \in DOMAIN file : p \in DOMAIN file'
<1>1. PICK broken \in SUBSET {j \in known : jobs[j].out = "processing"} :
        file' = [p \in DOMAIN file \cup {jobs[j].path : j \in broken} |->
                    IF \E j \in broken : jobs[j].path = p
                      THEN [job |-> CHOOSE j \in broken : jobs[j].path = p, whole |-> FALSE]
                      ELSE file[p]]
  BY DEF Crash
<1>2. \A j \in broken : j \in DOMAIN jobs /\ Live(j) /\ j \in Nat /\ jobs[j].path \in Paths
  BY <1>1, JobIds DEF Shapes, Live, Job
<1>3. ASSUME NEW p \in DOMAIN file'
      PROVE  /\ file'[p] \in Contents /\ p \in Paths
             /\ \/ p \in DOMAIN file /\ file'[p] = file[p]
                \/ \E j \in DOMAIN jobs : Live(j) /\ jobs[j].path = p /\ file'[p].job = j
  <2>1. CASE \E j \in broken : jobs[j].path = p
    <3> DEFINE k == CHOOSE j \in broken : jobs[j].path = p
    <3>1. k \in broken /\ jobs[k].path = p  BY <2>1
    <3>2. file'[p] = [job |-> k, whole |-> FALSE]  BY <1>1, <2>1
    <3> HIDE DEF k
    <3> QED  BY <1>2, <3>1, <3>2 DEF Contents
  <2>2. CASE ~\E j \in broken : jobs[j].path = p
    <3>1. p \in DOMAIN file /\ file'[p] = file[p]  BY <1>1, <2>2
    <3> QED  BY <3>1 DEF Shapes
  <2> QED  BY <2>1, <2>2
<1>4. file' = [p \in DOMAIN file' |-> file'[p]] /\ \A p \in DOMAIN file : p \in DOMAIN file'
  BY <1>1
<1> QED  BY <1>3, <1>4

-----------------------------------------------------------------------------
\* Types.

\* What the sweep has queued has its job, the last of its ROM.
LEMMA MarkJob ==
    ASSUME Shapes, MarkGood, sw.pc = "mark", NEW r \in DOMAIN sw.plan
    PROVE  QueuedAs(r, sw.plan[r], JobOf(r))
<1>1. PICK j \in DOMAIN jobs : QueuedAs(r, sw.plan[r], j)  BY DEF MarkGood
<1>2. jobs[j].rom = r /\ \A i \in DOMAIN jobs : jobs[i].rom = r => i <= j
  BY <1>1 DEF QueuedAs
<1>3. \A i \in DOMAIN jobs : i \in Nat  BY JobIds DEF Shapes
<1>4. /\ JobOf(r) \in DOMAIN jobs /\ jobs[JobOf(r)].rom = r
      /\ \A i \in DOMAIN jobs : jobs[i].rom = r => i <= JobOf(r)
  BY <1>2 DEF JobOf
<1>5. JobOf(r) = j  BY <1>2, <1>3, <1>4
<1> QED  BY <1>1, <1>5

\* The record that is written of it.
LEMMA EntryGives ==
    ASSUME Shapes, MarkGood, JobsGood, sw.pc = "mark", NEW r \in DOMAIN sw.plan
    PROVE  /\ QueuedAs(r, sw.plan[r], JobOf(r))
           /\ Entry(r) = [path |-> sw.plan[r].path, pre |-> sw.plan[r].pre,
                          job |-> JobOf(r), done |-> "unknown"]
           /\ Entry(r) \in Records
<1>1. QueuedAs(r, sw.plan[r], JobOf(r))  BY MarkJob
<1>2. JobOf(r) \notin late  BY <1>1 DEF QueuedAs, JobsGood
<1>3. JobOf(r) \in Nat \ {0}  BY <1>1, JobIds DEF QueuedAs, Shapes
<1>4. sw.plan[r] \in Picks  BY DEF Shapes
<1>5. Entry(r) = [path |-> sw.plan[r].path, pre |-> sw.plan[r].pre,
                  job |-> JobOf(r), done |-> "unknown"]
  BY <1>2 DEF Entry
<1> QED  BY <1>1, <1>3, <1>4, <1>5 DEF Records, Picks

\* The steps of jobs keep the types.
LEMMA ShapesJob ==
    ASSUME Shapes, JobsGood, NEW j \in DOMAIN jobs,
           JobStarts(j) \/ JobCompletes(j) \/ JobFails(j) \/ Prune(j) \/ NoteLands(j) \/ NoteFails(j)
    PROVE  Shapes'
<1> USE DEF store, disk, memory, bounds
<1>1. CASE JobStarts(j)
  <2>1. JobsMove  BY <1>1, StartsGives
  <2> QED  BY <1>1, <2>1 DEF JobStarts, JobsMove, Shapes, Sweeps
<1>2. ASSUME NEW out \in {"completed", "failed"}, NEW c \in Contents, Live(j),
             Ended(j, out, c), gone' \subseteq Roms
      PROVE  Shapes'
  <2>1. JobsMove  BY <1>2, EndedGives
  <2>2. jobs[j].path \in Paths  BY ContentType
  <2>3. file' = Put(jobs[j].path, c)  BY <1>2 DEF Ended
  <2>4. file \in [DOMAIN file -> Contents] /\ DOMAIN file \subseteq Paths  BY DEF Shapes
  <2>5. file' \in [DOMAIN file' -> Contents] /\ DOMAIN file' \subseteq Paths
    BY <2>2, <2>3, <2>4, PutFile
  <2> QED  BY <1>2, <2>1, <2>5 DEF Ended, JobsMove, Shapes, Sweeps
<1>3. CASE JobCompletes(j)
  <2>1. gone' \subseteq Roms /\ Live(j)
    BY <1>3, JobIds DEF JobCompletes, Shapes, Live, Job
  <2> QED  BY <1>2, <1>3, <2>1, ContentType DEF JobCompletes
<1>4. CASE JobFails(j)
  <2>1. gone' \subseteq Roms /\ Live(j)  BY <1>4 DEF JobFails, Shapes, Live
  <2>2. PICK c \in Left(j) \cup {At(jobs[j].path)} : Ended(j, "failed", c)
    BY <1>4 DEF JobFails
  <2>3. c \in Contents  BY ContentType
  <2> QED  BY <1>2, <2>1, <2>2, <2>3
<1>5. CASE Prune(j)
  BY <1>5 DEF Prune, Shapes, Sweeps
<1>6. CASE NoteLands(j)
  <2>1. JobsMove  BY <1>6, NoteGives
  <2>2. conv' \in [Roms -> Records \cup {NoRecord}]
    <3> DEFINE r == jobs[j].rom
    <3>1. r \in Roms  BY JobIds DEF Shapes, Job
    <3>2. conv' = conv \/ (conv[r] # NoRecord /\ conv' = [conv EXCEPT ![r] = WithVerdict(conv[r], j)])
      BY <1>6 DEF NoteLands
    <3>3. conv[r] \in Records \cup {NoRecord}  BY <3>1 DEF Shapes
    <3>4. conv[r] # NoRecord => WithVerdict(conv[r], j) \in Records  BY <3>3, VerdictType
    <3> HIDE DEF r
    <3> QED  BY <3>2, <3>4 DEF Shapes
  <2>3. late' \subseteq DOMAIN jobs  BY <1>6 DEF NoteLands, Shapes
  <2> QED  BY <1>6, <2>1, <2>2, <2>3 DEF NoteLands, JobsMove, Shapes, Sweeps
<1>7. CASE NoteFails(j)
  <2>1. JobsMove  BY <1>7, NoteFailsGives
  <2> QED  BY <1>7, <2>1 DEF NoteFails, JobsMove, Shapes, Sweeps
<1> QED  BY <1>1, <1>3, <1>4, <1>5, <1>6, <1>7

\* The rules keep the types.
LEMMA RuleShape ==
    ASSUME NEW rl \in Rules, NEW answered \in BOOLEAN
    PROVE  Normalized(rl, answered) \in RuleSet
<1>1. rl \in [policy : Policies, target : {rl.target}, dir : {"named", "beside"},
              on : {"on", "off", "invalid"}, deletes : BOOLEAN]
  BY RommSweepAssumption
<1>2. rl.target \in Targets  BY DEF Targets
<1> QED  BY <1>1, <1>2 DEF Normalized, RuleSet

LEMMA ShapesRules ==
    ASSUME Shapes,
           \/ \E rl \in Rules, answered \in BOOLEAN : SetRules(rl, answered)
           \/ SaveRules \/ SaveFails \/ Forget \/ IntervalElapses
    PROVE  Shapes'
<1> USE DEF store, disk, memory, bounds
<1>0. NoHistory \in [Roms -> Records \cup {NoRecord}]  BY DEF NoHistory
<1>1. ASSUME NEW rl \in Rules, NEW answered \in BOOLEAN, SetRules(rl, answered) PROVE Shapes'
  <2>1. edit' \in RuleSet  BY <1>1, RuleShape DEF SetRules
  <2>2. conv' \in [Roms -> Records \cup {NoRecord}] /\ rule' = rule
    BY <1>0, <1>1 DEF SetRules, FirstWrite, Shapes
  <2> QED  BY <1>1, <2>1, <2>2 DEF SetRules, Shapes, Sweeps
<1>2. CASE SaveRules \/ SaveFails
  BY <1>2 DEF SaveRules, SecondWrite, SaveFails, Shapes, Sweeps
<1>3. CASE Forget
  BY <1>0, <1>3 DEF Forget, Shapes, Sweeps
<1>4. CASE IntervalElapses
  BY <1>4 DEF IntervalElapses, Shapes, Sweeps
<1> QED  BY <1>1, <1>2, <1>3, <1>4

\* A batch is queued behind the jobs there are, each of its ROMs once.
LEMMA QueueGives ==
    ASSUME Shapes, Queue
    PROVE  /\ jobs' \in Seq(Job) /\ Len(jobs) <= Len(jobs')
           /\ DOMAIN jobs' = DOMAIN jobs \cup NewIds
           /\ \A i \in DOMAIN jobs : jobs'[i] = jobs[i]
           /\ \A i \in NewIds : /\ i \in Nat /\ i > Len(jobs) /\ jobs'[i].rom \in DOMAIN sw.plan
                                /\ jobs'[i].path = sw.plan[jobs'[i].rom].path
                                /\ jobs'[i].rule = rule /\ jobs'[i].out = "queued"
                                /\ jobs'[i].told = "no"
           /\ \A i, k \in NewIds : jobs'[i].rom = jobs'[k].rom => i = k
           /\ \A r \in DOMAIN sw.plan : \E i \in NewIds : jobs'[i].rom = r
<1> DEFINE S == DOMAIN sw.plan
           n == Cardinality(S)
           m == Len(jobs)
<1>1. IsFiniteSet(S)  BY RommSweepAssumption, FS_Subset DEF Shapes
<1>2. /\ Planned \in [1..n -> S] /\ n \in Nat
      /\ \A i, j \in 1..n : Planned[i] = Planned[j] => i = j
      /\ \A x \in S : \E i \in 1..n : Planned[i] = x
  BY <1>1, PlannedSeq DEF Planned
<1>3. DOMAIN Planned = 1..n /\ Len(Planned) = n
  <2>1. Planned \in Seq(S)  BY <1>2
  <2> QED  BY <1>2, <2>1, LenProperties
<1>4. \A r \in S : sw.plan[r].path \in Paths /\ r \in Roms  BY DEF Shapes, Picks
<1>5. rule \in RuleSet  BY DEF Shapes
<1> HIDE DEF S, n
<1> DEFINE new(i) == [rom |-> Planned[i], rule |-> rule, path |-> sw.plan[Planned[i]].path,
                      out |-> "queued", told |-> "no"]
<1>6. NewJobs = [i \in 1..n |-> new(i)]  BY <1>3 DEF NewJobs
<1>7. \A i \in 1..n : new(i) \in Job  BY <1>2, <1>4, <1>5 DEF Job, Outs
<1>8. NewJobs \in [1..n -> Job]
  <2> HIDE DEF new
  <2> QED  BY <1>6, <1>7
<1>9. NewJobs \in Seq(Job) /\ Len(NewJobs) = n /\ \A i \in 1..n : NewJobs[i] = new(i)
  <2> HIDE DEF new
  <2> QED  BY <1>2, <1>6, <1>8, LenProperties
<1>10. jobs \in Seq(Job) /\ jobs' = jobs \o NewJobs  BY DEF Shapes, Queue
<1>11. m \in Nat /\ DOMAIN jobs = 1..m  BY <1>10, JobIds
<1>12. /\ jobs' \in Seq(Job) /\ Len(jobs') = m + n
       /\ \A i \in 1..m + n : jobs'[i] = (IF i <= m THEN jobs[i] ELSE NewJobs[i - m])
  <2> HIDE DEF new
  <2> QED  BY <1>9, <1>10, ConcatProperties
<1>13. NewIds = m + 1 .. m + n  BY <1>3 DEF NewIds
<1> HIDE DEF m
<1>14. DOMAIN jobs' = DOMAIN jobs \cup NewIds
  <2>1. DOMAIN jobs' = 1..m + n  BY <1>12, LenProperties
  <2> QED  BY <1>2, <1>11, <1>13, <2>1
<1>15. \A i \in DOMAIN jobs : jobs'[i] = jobs[i]  BY <1>2, <1>11, <1>12
<1>16. \A i \in NewIds : i \in Nat /\ i > m /\ i - m \in 1..n /\ jobs'[i] = new(i - m)
  <2> HIDE DEF new
  <2> QED  BY <1>2, <1>9, <1>11, <1>12, <1>13
<1>17. \A i \in NewIds : /\ jobs'[i].rom = Planned[i - m] /\ Planned[i - m] \in S
                         /\ jobs'[i].path = sw.plan[jobs'[i].rom].path
                         /\ jobs'[i].rule = rule /\ jobs'[i].out = "queued"
                         /\ jobs'[i].told = "no"
  <2> SUFFICES ASSUME NEW i \in NewIds
               PROVE  /\ jobs'[i].rom = Planned[i - m] /\ Planned[i - m] \in S
                      /\ jobs'[i].path = sw.plan[jobs'[i].rom].path
                      /\ jobs'[i].rule = rule /\ jobs'[i].out = "queued"
                      /\ jobs'[i].told = "no"
    OBVIOUS
  <2> DEFINE x == Planned[i - m]
  <2>1. i - m \in 1..n /\ jobs'[i] = new(i - m)
    <3> HIDE DEF new
    <3> QED  BY <1>16
  <2>2. x \in S  BY <1>2, <2>1
  <2>3. jobs'[i] = [rom |-> x, rule |-> rule, path |-> sw.plan[x].path,
                    out |-> "queued", told |-> "no"]
    BY <2>1
  <2> HIDE DEF x
  <2>4. jobs'[i].rom = x /\ jobs'[i].path = sw.plan[x].path /\ jobs'[i].rule = rule
        /\ jobs'[i].out = "queued" /\ jobs'[i].told = "no"
    BY ONLY <2>3
  <2> QED  BY <2>2, <2>4 DEF x
<1> HIDE DEF new
<1>18. \A i, k \in NewIds : jobs'[i].rom = jobs'[k].rom => i = k
  <2> SUFFICES ASSUME NEW i \in NewIds, NEW k \in NewIds, jobs'[i].rom = jobs'[k].rom
               PROVE  i = k
    OBVIOUS
  <2>1. i - m = k - m  BY <1>2, <1>16, <1>17
  <2>2. i \in Nat /\ k \in Nat  BY <1>16
  <2> QED  BY <1>11, <2>1, <2>2
<1>19. \A r \in S : \E i \in NewIds : jobs'[i].rom = r
  <2> SUFFICES ASSUME NEW r \in S PROVE \E i \in NewIds : jobs'[i].rom = r  OBVIOUS
  <2>1. PICK i \in 1..n : Planned[i] = r  BY <1>2
  <2>2. m + i \in NewIds /\ (m + i) - m = i  BY <1>2, <1>11, <1>13
  <2>3. jobs'[m + i].rom = r  BY <1>17, <2>1, <2>2
  <2> QED  BY <2>2, <2>3
<1>20. Len(jobs) <= Len(jobs')  BY <1>2, <1>11, <1>12 DEF m
<1> QED  BY <1>12, <1>14, <1>15, <1>16, <1>17, <1>18, <1>19, <1>20 DEF S, m

\* The shapes a sweep leaves.
SweepShape == sw \in Sweeps /\ sw.plan \in [DOMAIN sw.plan -> Picks] /\ DOMAIN sw.plan \subseteq Roms

LEMMA NoSweepShape ==
    /\ NoSweep.plan = <<>> /\ DOMAIN <<>> = {} /\ <<>> \in [DOMAIN <<>> -> Picks]
    /\ NoSweep.pc = "idle" /\ NoSweep.active = {} /\ NoSweep.todo = {}
    /\ NoSweep.dry = FALSE /\ NoSweep.slow = FALSE
BY DEF NoSweep

LEMMA IdleShape ==
    ASSUME sw' = NoSweep
    PROVE  SweepShape' /\ sw'.pc = "idle" /\ DOMAIN sw'.plan = {}
BY NoSweepShape DEF SweepShape, Sweeps, Stages, NoSweep

LEMMA RecordingShape ==
    ASSUME SweepShape, sw' = Recording
    PROVE  SweepShape' /\ sw'.pc = "record" /\ DOMAIN sw'.plan = {}
BY NoSweepShape DEF SweepShape, Sweeps, Stages, NoSweep, Recording

\* The steps of a sweep keep its shape.
LEMMA SweepSteps ==
    ASSUME Shapes, FilesGood,
           \/ \E kind \in Kinds : Begin(kind)
           \/ Sweeping \/ Unresponsive \/ MarkFails \/ Aborts
           \/ \E r \in Roms : Unreadable(r)
    PROVE  SweepShape'
<1> USE DEF Stages
<1>0. SweepShape  BY DEF SweepShape, Shapes
<1>1. ASSUME NEW kind \in Kinds, Begin(kind) PROVE SweepShape'
  <2>1. \A j \in known : jobs[j].rom \in Roms  BY JobIds DEF Shapes, Job
  <2>2. sw' = [pc |-> "snapshot", dry |-> (kind = "preview"), slow |-> FALSE,
               active |-> {jobs[j].rom : j \in {i \in known : Live(i)}}, todo |-> {}, plan |-> <<>>]
    BY <1>1 DEF Begin, NoSweep
  <2>3. {jobs[j].rom : j \in {i \in known : Live(i)}} \subseteq Roms  BY <2>1
  <2> QED  BY <2>2, <2>3, NoSweepShape DEF SweepShape, Sweeps
<1>2. CASE ReadHistory
  BY <1>0, <1>2 DEF ReadHistory, SweepShape, Sweeps
<1>3. ASSUME NEW r \in Roms, Inspect(r) PROVE SweepShape'
  <2>1. CASE sw' = [sw EXCEPT !.todo = @ \ {r}]
    BY <1>0, <2>1 DEF SweepShape, Sweeps
  <2>2. CASE sw' # [sw EXCEPT !.todo = @ \ {r}]
    <3>1. PICK p \in Chosen(r) :
            sw' = [sw EXCEPT !.todo = @ \ {r},
                     !.plan = [s \in DOMAIN sw.plan \cup {r} |->
                        IF s = r THEN [path |-> p, pre |-> At(p)] ELSE sw.plan[s]]]
      BY <1>3, <2>2 DEF Inspect
    <3>2. p \in Paths
      <4>1. p \in Destination(r)  BY DEF Chosen
      <4>2. p \in PathsOf(r)  BY <4>1, DestinationType DEF Shapes
      <4> QED  BY <4>2 DEF Paths
    <3>3. [path |-> p, pre |-> At(p)] \in Picks  BY <3>2, AtType DEF Shapes, Picks
    <3> DEFINE pl == [s \in DOMAIN sw.plan \cup {r} |->
                        IF s = r THEN [path |-> p, pre |-> At(p)] ELSE sw.plan[s]]
    <3>4. pl \in [DOMAIN sw.plan \cup {r} -> Picks] /\ DOMAIN sw.plan \cup {r} \subseteq Roms
      BY <1>0, <3>3 DEF SweepShape
    <3>5. sw' = [sw EXCEPT !.todo = @ \ {r}, !.plan = pl]  BY <3>1
    <3> HIDE DEF pl
    <3> QED  BY <1>0, <3>4, <3>5 DEF SweepShape, Sweeps
  <2> QED  BY <2>1, <2>2
<1>4. CASE Choose
  <2>1. CASE sw' = Recording  BY <1>0, <2>1, RecordingShape
  <2>2. CASE sw' = [sw EXCEPT !.pc = "queue", !.todo = {}, !.active = {}]
    BY <1>0, <2>2 DEF SweepShape, Sweeps
  <2> QED  BY <1>4, <2>1, <2>2 DEF Choose
<1>5. CASE Queue
  <2>1. CASE sw' = Recording  BY <1>0, <2>1, RecordingShape
  <2>2. CASE sw' = [sw EXCEPT !.pc = "mark"]
    BY <1>0, <2>2 DEF SweepShape, Sweeps
  <2> QED  BY <1>5, <2>1, <2>2 DEF Queue
<1>6. CASE Refused \/ RecordRun \/ Aborts
  BY <1>6, IdleShape DEF Refused, RecordRun, Aborts
<1>7. CASE Mark \/ MarkFails
  BY <1>0, <1>7, RecordingShape DEF Mark, MarkFails
<1>8. CASE Unresponsive
  BY <1>0, <1>8 DEF Unresponsive, SweepShape, Sweeps
<1>9. ASSUME NEW r \in Roms, Unreadable(r) PROVE SweepShape'
  <2>1. CASE sw' = NoSweep  BY <2>1, IdleShape
  <2>2. CASE sw' = [sw EXCEPT !.plan = [s \in DOMAIN sw.plan \ {r} |-> sw.plan[s]]]
    BY <1>0, <2>2 DEF SweepShape, Sweeps
  <2> QED  BY <1>9, <2>1, <2>2 DEF Unreadable
<1> QED
  BY <1>1, <1>2, <1>3, <1>4, <1>5, <1>6, <1>7, <1>8, <1>9 DEF Sweeping

LEMMA ShapesSweep ==
    ASSUME Shapes, JobsGood, FilesGood, MarkGood,
           \/ \E kind \in Kinds : Begin(kind)
           \/ Sweeping \/ Unresponsive \/ MarkFails \/ Aborts
           \/ \E r \in Roms : Unreadable(r)
    PROVE  Shapes'
<1> USE DEF store, disk, memory, bounds
<1>0. SweepShape'  BY SweepSteps
<1>1. ASSUME jobs' = jobs, known' = known, owners' = owners, late' \subseteq late,
             conv' \in [Roms -> Records \cup {NoRecord}], due' \in BOOLEAN,
             rule' = rule, edit' = edit, file' = file, gone' = gone
      PROVE  Shapes'
  BY <1>0, <1>1 DEF Shapes, SweepShape
<1>2. conv \in [Roms -> Records \cup {NoRecord}] /\ due \in BOOLEAN  BY DEF Shapes
<1>3. ASSUME NEW kind \in Kinds, Begin(kind) PROVE Shapes'
  BY <1>1, <1>2, <1>3 DEF Begin
<1>4. CASE ReadHistory
  <2>1. conv' \in [Roms -> Records \cup {NoRecord}]
    <3>1. \A r \in Roms : Outcome(conv[r]) \in Records \cup {NoRecord}  BY <1>2, OutcomeType
    <3>2. conv' = conv \/ conv' = [r \in Roms |-> Outcome(conv[r])]  BY <1>4 DEF ReadHistory
    <3> QED  BY <1>2, <3>1, <3>2
  <2> QED  BY <1>1, <1>2, <1>4, <2>1 DEF ReadHistory
<1>5. ASSUME NEW r \in Roms, Inspect(r) \/ Unreadable(r) PROVE Shapes'
  BY <1>1, <1>2, <1>5 DEF Inspect, Unreadable
<1>6. CASE Choose \/ Refused \/ Unresponsive \/ Aborts
  BY <1>1, <1>2, <1>6 DEF Choose, Refused, Unresponsive, Aborts
<1>7. CASE Queue
  <2>1. jobs' \in Seq(Job) /\ DOMAIN jobs' = DOMAIN jobs \cup NewIds  BY <1>7, QueueGives
  <2>2. known' = known \cup NewIds /\ owners' = owners \cup NewIds /\ late' = late
    BY <1>7 DEF Queue
  <2>3. /\ known' \subseteq DOMAIN jobs' /\ owners' \subseteq DOMAIN jobs'
        /\ late' \subseteq DOMAIN jobs'
    BY <2>1, <2>2 DEF Shapes
  <2> QED  BY <1>0, <1>7, <2>1, <2>3 DEF Queue, Shapes, SweepShape
<1>8. CASE Mark
  <2>1. \A r \in DOMAIN sw.plan : Entry(r) \in Records  BY <1>8, EntryGives DEF Mark
  <2>2. conv' \in [Roms -> Records \cup {NoRecord}]
    BY <1>2, <1>8, <2>1 DEF Mark
  <2> QED  BY <1>1, <1>2, <1>8, <2>2 DEF Mark
<1>9. CASE MarkFails \/ RecordRun
  BY <1>1, <1>2, <1>9 DEF MarkFails, RecordRun
<1> QED  BY <1>3, <1>4, <1>5, <1>6, <1>7, <1>8, <1>9 DEF Sweeping

LEMMA ShapesCrash ==
    ASSUME Shapes, Crash
    PROVE  Shapes'
<1>1. JobsMove  BY CrashGives
<1>2. file' \in [DOMAIN file' -> Contents] /\ DOMAIN file' \subseteq Paths  BY CrashDisk
<1>3. SweepShape'  BY IdleShape DEF Crash
<1> QED  BY <1>1, <1>2, <1>3 DEF Crash, Shapes, JobsMove, SweepShape

-----------------------------------------------------------------------------
\* Jobs.

\* A job that moves leaves the others as they are, so what is good of them stays.
LEMMA GoodJob ==
    ASSUME Shapes, JobsGood, LiveIsLast, NEW j \in DOMAIN jobs,
           JobStarts(j) \/ JobCompletes(j) \/ JobFails(j) \/ Prune(j) \/ NoteLands(j) \/ NoteFails(j)
    PROVE  JobsGood'
<1> USE DEF store, disk, memory, bounds
<1>1. CASE JobStarts(j)
  <2>1. /\ JobsMove /\ Live(j) /\ jobs'[j].out = "processing" /\ jobs'[j].told = jobs[j].told
        /\ \A i \in DOMAIN jobs : i # j => jobs'[i] = jobs[i]
    BY <1>1, StartsGives
  <2>2. known' = known /\ owners' = owners /\ gone' = gone /\ late' = late
    BY <1>1 DEF JobStarts
  <2> QED  BY <2>1, <2>2 DEF JobsGood, JobsMove, Live
<1>2. ASSUME NEW out \in {"completed", "failed"}, NEW c, Live(j), Ended(j, out, c),
             gone' \subseteq gone \cup {jobs[j].rom}
      PROVE  JobsGood'
  <2>1. /\ JobsMove /\ jobs'[j].out = out /\ jobs'[j].told = "waiting"
        /\ \A i \in DOMAIN jobs : i # j => jobs'[i] = jobs[i]
    BY <1>2, EndedGives
  <2>2. known' = known /\ owners' = owners \ {j} /\ late' = late
    BY <1>2 DEF Ended
  <2>3. \A i \in DOMAIN jobs : i # j /\ Live(i) => jobs[i].rom # jobs[j].rom
    <3>1. \A i \in DOMAIN jobs : i \in Nat  BY JobIds DEF Shapes
    <3> QED  BY <1>2, <3>1 DEF LiveIsLast
  <2>4. j \notin late  BY <1>2 DEF JobsGood
  <2>5. ASSUME NEW i \in DOMAIN jobs
        PROVE  /\ jobs'[i].path \in PathsOf(jobs'[i].rom)
               /\ Live(i)' => /\ i \in known' /\ i \in owners' /\ jobs'[i].told = "no"
                              /\ jobs'[i].rom \notin gone'
               /\ ~Live(i)' => jobs'[i].told # "no"
               /\ i \in late' => jobs'[i].told = "told"
    <3>1. CASE i = j
      BY <1>2, <2>1, <2>2, <2>4, <3>1 DEF JobsGood, JobsMove, Live
    <3>2. CASE i # j
      BY <1>2, <2>1, <2>2, <2>3, <3>2 DEF JobsGood, Live
    <3> QED  BY <3>1, <3>2
  <2> QED  BY <2>1, <2>5 DEF JobsGood, JobsMove
<1>3. CASE JobCompletes(j)
  <2>1. Live(j) /\ gone' \subseteq gone \cup {jobs[j].rom}  BY <1>3 DEF JobCompletes, Live
  <2> QED  BY <1>2, <1>3, <2>1 DEF JobCompletes
<1>4. CASE JobFails(j)
  <2>1. Live(j) /\ gone' \subseteq gone \cup {jobs[j].rom}  BY <1>4 DEF JobFails, Live
  <2>2. PICK c : Ended(j, "failed", c)  BY <1>4 DEF JobFails
  <2> QED  BY <1>2, <2>1, <2>2
<1>5. CASE Prune(j)
  BY <1>5 DEF Prune, JobsGood, Live
<1>6. CASE NoteLands(j)
  <2>1. /\ JobsMove /\ jobs'[j].out = jobs[j].out /\ jobs'[j].told = "told"
        /\ \A i \in DOMAIN jobs : i # j => jobs'[i] = jobs[i]
    BY <1>6, NoteGives
  <2>2. ~Live(j)  BY <1>6 DEF NoteLands, JobsGood
  <2>3. known' = known /\ owners' = owners /\ gone' = gone /\ late' \subseteq late \cup {j}
    BY <1>6 DEF NoteLands
  <2> QED  BY <2>1, <2>2, <2>3 DEF JobsGood, JobsMove, Live
<1>7. CASE NoteFails(j)
  <2>1. /\ JobsMove /\ jobs'[j].out = jobs[j].out /\ jobs'[j].told = "failed"
        /\ \A i \in DOMAIN jobs : i # j => jobs'[i] = jobs[i]
    BY <1>7, NoteFailsGives
  <2>2. ~Live(j) /\ j \notin late  BY <1>7 DEF NoteFails, JobsGood
  <2>3. known' = known /\ owners' = owners /\ gone' = gone /\ late' = late
    BY <1>7 DEF NoteFails
  <2> QED  BY <2>1, <2>2, <2>3 DEF JobsGood, JobsMove, Live
<1> QED  BY <1>1, <1>3, <1>4, <1>5, <1>6, <1>7

LEMMA GoodQueue ==
    ASSUME Shapes, JobsGood, PlanGood, Queue
    PROVE  JobsGood'
<1>1. /\ DOMAIN jobs' = DOMAIN jobs \cup NewIds
      /\ \A i \in DOMAIN jobs : jobs'[i] = jobs[i]
      /\ \A i \in NewIds : /\ i \in Nat /\ i > Len(jobs) /\ jobs'[i].rom \in DOMAIN sw.plan
                           /\ jobs'[i].path = sw.plan[jobs'[i].rom].path
                           /\ jobs'[i].out = "queued" /\ jobs'[i].told = "no"
  BY QueueGives
<1>2. known' = known \cup NewIds /\ owners' = owners \cup NewIds /\ late' = late /\ gone' = gone
  BY DEF Queue, disk
<1>3. late \subseteq DOMAIN jobs /\ \A i \in DOMAIN jobs : i <= Len(jobs) /\ i \in Nat
  BY JobIds DEF Shapes
<1>4. \A r \in DOMAIN sw.plan : r \notin gone /\ sw.plan[r].path \in PathsOf(r)
  BY DEF PlanGood, ChoiceOf, Queue
<1>5. ASSUME NEW i \in NewIds
      PROVE  /\ jobs'[i].path \in PathsOf(jobs'[i].rom)
             /\ i \in known' /\ i \in owners' /\ jobs'[i].told = "no" /\ jobs'[i].rom \notin gone'
             /\ Live(i)' /\ i \notin late'
  <2>1. i \notin late  BY <1>1, <1>3, JobIds DEF Shapes
  <2> QED  BY <1>1, <1>2, <1>4, <2>1 DEF Live
<1>6. ASSUME NEW i \in DOMAIN jobs
      PROVE  /\ jobs'[i].path \in PathsOf(jobs'[i].rom)
             /\ Live(i)' => /\ i \in known' /\ i \in owners' /\ jobs'[i].told = "no"
                            /\ jobs'[i].rom \notin gone'
             /\ ~Live(i)' => jobs'[i].told # "no"
             /\ i \in late' => jobs'[i].told = "told"
  BY <1>1, <1>2 DEF JobsGood, Live
<1> QED  BY <1>1, <1>5, <1>6 DEF JobsGood

LEMMA GoodStep ==
    ASSUME Shapes, JobsGood, LiveIsLast, PlanGood, Next
    PROVE  JobsGood'
<1> USE DEF store, disk, memory, bounds
<1>1. ASSUME jobs' = jobs, known' = known, owners' = owners, late' \subseteq late, gone' = gone
      PROVE  JobsGood'
  BY <1>1 DEF JobsGood, Live
<1>2. ASSUME NEW rl \in Rules, NEW answered \in BOOLEAN, SetRules(rl, answered) PROVE JobsGood'
  BY <1>1, <1>2 DEF SetRules
<1>3. CASE SaveRules \/ SaveFails \/ Forget \/ IntervalElapses
  BY <1>1, <1>3 DEF SaveRules, SaveFails, Forget, IntervalElapses
<1>4. ASSUME NEW kind, Begin(kind) PROVE JobsGood'
  BY <1>1, <1>4 DEF Begin
<1>5. ASSUME NEW r, Inspect(r) \/ Unreadable(r) PROVE JobsGood'
  BY <1>1, <1>5 DEF Inspect, Unreadable
<1>6. CASE ReadHistory \/ Choose \/ Refused \/ RecordRun \/ Unresponsive \/ Aborts
  BY <1>1, <1>6 DEF ReadHistory, Choose, Refused, RecordRun, Unresponsive, Aborts
<1>7. CASE Mark \/ MarkFails
  BY <1>1, <1>7 DEF Mark, MarkFails
<1>8. CASE Crash
  <2>1. /\ JobsMove
        /\ \A i \in DOMAIN jobs :
             /\ jobs'[i].told = (IF jobs[i].told = "told" THEN "told" ELSE "lost")
             /\ ~Live(i)'
    BY <1>8, CrashGives
  <2>2. late' = {}  BY <1>8 DEF Crash
  <2> QED  BY <2>1, <2>2 DEF JobsGood, JobsMove
<1> QED
  BY <1>2, <1>3, <1>4, <1>5, <1>6, <1>7, <1>8, GoodJob, GoodQueue DEF Next, Sweeping

\* Whatever happens that queues nothing, jobs only move on.
LEMMA MoveOrQueue ==
    ASSUME Shapes, JobsGood, Next
    PROVE  JobsMove \/ Queue
<1> USE DEF store, disk, memory, bounds
<1>1. ASSUME jobs' = jobs PROVE JobsMove
  BY <1>1 DEF JobsMove, Live, Shapes
<1>2. ASSUME NEW j \in DOMAIN jobs,
             JobStarts(j) \/ JobCompletes(j) \/ JobFails(j) \/ Prune(j) \/ NoteLands(j) \/ NoteFails(j)
      PROVE  JobsMove
  <2>1. CASE JobStarts(j)  BY <2>1, StartsGives
  <2>2. CASE JobCompletes(j)
    <3>1. Live(j)  BY <2>2 DEF JobCompletes, Live
    <3> QED  BY <2>2, <3>1, EndedGives DEF JobCompletes
  <2>3. CASE JobFails(j)
    <3>1. Live(j)  BY <2>3 DEF JobFails, Live
    <3>2. PICK c : Ended(j, "failed", c)  BY <2>3 DEF JobFails
    <3> QED  BY <3>1, <3>2, EndedGives
  <2>4. CASE Prune(j)  BY <1>1, <2>4 DEF Prune
  <2>5. CASE NoteLands(j)  BY <2>5, NoteGives
  <2>6. CASE NoteFails(j)  BY <2>6, NoteFailsGives
  <2> QED  BY <1>2, <2>1, <2>2, <2>3, <2>4, <2>5, <2>6
<1>3. ASSUME NEW rl \in Rules, NEW answered \in BOOLEAN, SetRules(rl, answered) PROVE JobsMove
  BY <1>1, <1>3 DEF SetRules
<1>4. CASE SaveRules \/ SaveFails \/ Forget \/ IntervalElapses
  BY <1>1, <1>4 DEF SaveRules, SaveFails, Forget, IntervalElapses
<1>5. ASSUME NEW kind, Begin(kind) PROVE JobsMove
  BY <1>1, <1>5 DEF Begin
<1>6. ASSUME NEW r, Inspect(r) \/ Unreadable(r) PROVE JobsMove
  BY <1>1, <1>6 DEF Inspect, Unreadable
<1>7. CASE ReadHistory \/ Choose \/ Refused \/ RecordRun \/ Unresponsive \/ Aborts
  BY <1>1, <1>7 DEF ReadHistory, Choose, Refused, RecordRun, Unresponsive, Aborts
<1>8. CASE Mark \/ MarkFails
  BY <1>1, <1>8 DEF Mark, MarkFails
<1>9. CASE Crash  BY <1>9, CrashGives
<1> QED
  BY <1>2, <1>3, <1>4, <1>5, <1>6, <1>7, <1>8, <1>9 DEF Next, Sweeping

\* The job on the way stays the last of its ROM: only a ROM without one is queued.
LEMMA LastStep ==
    ASSUME Shapes, JobsGood, LiveIsLast, PlanGood, Next
    PROVE  LiveIsLast'
<1>1. CASE JobsMove
  BY <1>1 DEF LiveIsLast, JobsMove
<1>2. CASE Queue
  <2>1. /\ DOMAIN jobs' = DOMAIN jobs \cup NewIds
        /\ \A i \in DOMAIN jobs : jobs'[i] = jobs[i]
        /\ \A i \in NewIds : i \in Nat /\ i > Len(jobs) /\ jobs'[i].rom \in DOMAIN sw.plan
        /\ \A i, k \in NewIds : jobs'[i].rom = jobs'[k].rom => i = k
    BY <1>2, QueueGives
  <2>2. \A i \in DOMAIN jobs : i <= Len(jobs) /\ i \in Nat  BY JobIds DEF Shapes
  <2>3. \A r \in DOMAIN sw.plan : \A j \in DOMAIN jobs : jobs[j].rom = r => ~Live(j)
    BY <1>2 DEF PlanGood, ChoiceOf, Queue
  <2>4. Len(jobs) \in Nat  BY JobIds DEF Shapes
  <2>5. ASSUME NEW i \in DOMAIN jobs', NEW j \in DOMAIN jobs', Live(i)', jobs'[j].rom = jobs'[i].rom
        PROVE  j <= i
    <3>1. CASE i \in DOMAIN jobs /\ j \in DOMAIN jobs
      BY <2>1, <2>5, <3>1 DEF LiveIsLast, Live
    <3>2. CASE i \in NewIds /\ j \in DOMAIN jobs
      BY <2>1, <2>2, <2>4, <3>2
    <3>3. CASE i \in NewIds /\ j \in NewIds
      BY <2>1, <2>5, <3>3
    <3>4. CASE i \in DOMAIN jobs /\ j \in NewIds
      <4>1. Live(i) /\ jobs[i].rom \in DOMAIN sw.plan
        BY <2>1, <2>5, <3>4 DEF Live
      <4> QED  BY <2>3, <3>4, <4>1
    <3> QED  BY <2>1, <2>5, <3>1, <3>2, <3>3, <3>4
  <2> QED  BY <2>5 DEF LiveIsLast
<1> QED  BY <1>1, <1>2, MoveOrQueue

-----------------------------------------------------------------------------
\* Records.

\* A record stays good while its rule and its job do.
LEMMA RecordKept ==
    ASSUME Shapes, JobsGood, NEW r, NEW rec, RecordOf(r, rec), DOMAIN jobs \subseteq DOMAIN jobs',
           jobs'[rec.job].rom = jobs[rec.job].rom, jobs'[rec.job].rule = jobs[rec.job].rule,
           jobs'[rec.job].path = jobs[rec.job].path,
           ~Live(rec.job) => jobs'[rec.job].out = jobs[rec.job].out,
           jobs'[rec.job].told = "told" => jobs[rec.job].told = "told" \/ rec.done # "unknown",
           OutputIdentity(rule') = OutputIdentity(rule), rule'.policy = rule.policy
    PROVE  RecordOf(r, rec)'
BY DEF RecordOf, Live

\* The end of a job is written in the record that names it.
LEMMA RecordsNote ==
    ASSUME Shapes, JobsGood, RecordsGood, NEW j \in DOMAIN jobs, NoteLands(j)
    PROVE  RecordsGood'
<1> DEFINE q == jobs[j].rom
<1>1. /\ JobsMove /\ jobs'[j].out = jobs[j].out /\ jobs'[j].told = "told"
      /\ \A i \in DOMAIN jobs : i # j => jobs'[i] = jobs[i]
  BY NoteGives
<1>2. ~Live(j) /\ jobs[j].out \in Outs /\ q \in Roms
  BY JobIds DEF NoteLands, JobsGood, Shapes, Job
<1>3. rule' = rule  BY DEF NoteLands
<1>4. conv' = IF conv[q] # NoRecord /\ RecordNames(q, j)
                THEN [conv EXCEPT ![q] = WithVerdict(conv[q], j)] ELSE conv
  BY DEF NoteLands
<1>5. conv \in [Roms -> Records \cup {NoRecord}]  BY DEF Shapes
<1> HIDE DEF q
<1> SUFFICES ASSUME NEW r \in Roms, conv'[r] # NoRecord PROVE RecordOf(r, conv[r])'
  BY DEF RecordsGood
<1>6. CASE conv[r] # NoRecord /\ conv[r].job = j
  <2>1. RecordOf(r, conv[r])  BY <1>6 DEF RecordsGood
  <2>2. r = q  BY <1>6, <2>1 DEF RecordOf, q
  <2>3. conv'[r] = WithVerdict(conv[r], j)
    BY <1>4, <1>5, <1>6, <2>2 DEF RecordNames
  <2>4. conv[r] \in Records  BY <1>5, <1>6
  <2>5. PICK v : v = WithVerdict(conv[r], j)  OBVIOUS
  <2>6. /\ v.path = conv[r].path /\ v.pre = conv[r].pre /\ v.job = j
        /\ v.done = (IF jobs[j].out = "completed" THEN "yes" ELSE "no")
    BY <1>6, <2>4, <2>5, VerdictType
  <2>7. RecordOf(r, v)
    BY <1>2, <1>6, <2>1, <2>6 DEF RecordOf, Live, Outs
  <2>8. v.done # "unknown"  BY <2>6
  <2>9. RecordOf(r, v)'
    BY <1>1, <1>3, <2>6, <2>7, <2>8, RecordKept DEF JobsMove, RecordOf
  <2>10. conv'[r] = v  BY <2>3, <2>5
  <2> QED  BY <2>9, <2>10 DEF RecordOf
<1>7. CASE conv[r] # NoRecord /\ conv[r].job # j
  <2>1. PICK rec : rec = conv[r]  OBVIOUS
  <2>2. RecordOf(r, rec)  BY <1>7, <2>1 DEF RecordsGood
  <2>3. conv'[r] = rec
    BY <1>4, <1>5, <1>7, <2>1 DEF RecordNames
  <2>4. rec.job \in DOMAIN jobs /\ jobs'[rec.job] = jobs[rec.job]
    BY <1>1, <1>7, <2>1, <2>2 DEF RecordOf
  <2>5. RecordOf(r, rec)'
    BY <1>1, <1>3, <2>2, <2>4, RecordKept DEF JobsMove
  <2> QED  BY <2>3, <2>5 DEF RecordOf
<1>8. CASE conv[r] = NoRecord
  BY <1>4, <1>5, <1>8
<1> QED  BY <1>6, <1>7, <1>8

\* A step that writes no record keeps those there are, and may drop them all.
LEMMA RecordsKept ==
    ASSUME Shapes, JobsGood, RecordsGood, JobsMove,
           \A i \in DOMAIN jobs : jobs'[i].told = "told" => jobs[i].told = "told",
           conv' \in {conv, NoHistory},
           conv' = NoHistory \/ (OutputIdentity(rule') = OutputIdentity(rule))
    PROVE  RecordsGood'
<1> SUFFICES ASSUME NEW r \in Roms, conv'[r] # NoRecord PROVE RecordOf(r, conv[r])'
  BY DEF RecordsGood
<1>1. conv' = conv /\ OutputIdentity(rule') = OutputIdentity(rule)
  BY DEF NoHistory
<1>2. rule'.policy = rule.policy  BY <1>1 DEF OutputIdentity
<1>3. PICK rec : rec = conv[r]  OBVIOUS
<1>4. RecordOf(r, rec)  BY <1>1, <1>3 DEF RecordsGood
<1>5. rec.job \in DOMAIN jobs  BY <1>4 DEF RecordOf
<1>6. RecordOf(r, rec)'
  BY <1>1, <1>2, <1>4, <1>5, RecordKept DEF JobsMove
<1>7. conv'[r] = rec  BY <1>1, <1>3
<1> QED  BY <1>6, <1>7 DEF RecordOf

\* A sweep writes down what the queue knows.
LEMMA RecordsRead ==
    ASSUME Shapes, JobsGood, RecordsGood, ReadHistory
    PROVE  RecordsGood'
<1> USE DEF store, disk, memory, bounds
<1>1. jobs' = jobs /\ rule' = rule  BY DEF ReadHistory
<1>2. \A r \in Roms : conv'[r] = conv[r] \/ conv'[r] = Outcome(conv[r])
  BY DEF ReadHistory
<1>3. \A r \in Roms : conv[r] \in Records \cup {NoRecord}  BY DEF Shapes
<1> SUFFICES ASSUME NEW r \in Roms, conv'[r] # NoRecord PROVE RecordOf(r, conv[r])'
  BY DEF RecordsGood
<1>4. conv[r] # NoRecord  BY <1>2, <1>3, OutcomeType
<1>5. RecordOf(r, conv[r])  BY <1>4 DEF RecordsGood
<1>6. CASE conv'[r] = conv[r]
  BY <1>1, <1>5, <1>6 DEF RecordOf
<1>7. CASE /\ conv[r].job \in known /\ ~Live(conv[r].job)
           /\ conv'[r] = WithVerdict(conv[r], conv[r].job)
  <2>1. PICK v : v = conv'[r]  OBVIOUS
  <2>2. /\ v.path = conv[r].path /\ v.pre = conv[r].pre /\ v.job = conv[r].job
        /\ v.done = (IF jobs[v.job].out = "completed" THEN "yes" ELSE "no")
    BY <1>3, <1>4, <1>7, <2>1, VerdictType
  <2>3. jobs[v.job].out \in Outs  BY <1>5, <2>2, JobIds DEF RecordOf, Shapes, Job
  <2>4. RecordOf(r, v)
    BY <1>5, <1>7, <2>2, <2>3 DEF RecordOf, Live, Outs
  <2> QED  BY <1>1, <2>1, <2>4 DEF RecordOf
<1> QED  BY <1>2, <1>3, <1>4, <1>6, <1>7, OutcomeType

\* A sweep records what it queued.
LEMMA RecordsMark ==
    ASSUME Shapes, JobsGood, RecordsGood, MarkGood, Mark
    PROVE  RecordsGood'
<1>1. jobs' = jobs /\ rule' = rule /\ sw.pc = "mark"  BY DEF Mark, disk
<1>2. \A r \in Roms : conv'[r] = IF r \in DOMAIN sw.plan THEN Entry(r) ELSE conv[r]
  BY DEF Mark
<1> SUFFICES ASSUME NEW r \in Roms, conv'[r] # NoRecord PROVE RecordOf(r, conv[r])'
  BY DEF RecordsGood
<1>3. CASE r \in DOMAIN sw.plan
  <2>1. PICK v : v = Entry(r)  OBVIOUS
  <2>2. /\ QueuedAs(r, sw.plan[r], JobOf(r))
        /\ v = [path |-> sw.plan[r].path, pre |-> sw.plan[r].pre,
                job |-> JobOf(r), done |-> "unknown"]
    BY <1>1, <1>3, <2>1, EntryGives
  <2>3. v.path = sw.plan[r].path /\ v.pre = sw.plan[r].pre /\ v.job = JobOf(r) /\ v.done = "unknown"
    BY <2>2
  <2>4. rule.policy # "skip"  BY <1>1 DEF MarkGood
  <2>5. RecordOf(r, v)
    BY <2>2, <2>3, <2>4 DEF RecordOf, QueuedAs
  <2>6. conv'[r] = v  BY <1>2, <1>3, <2>1
  <2> QED  BY <1>1, <2>5, <2>6 DEF RecordOf
<1>4. CASE r \notin DOMAIN sw.plan
  <2>1. conv'[r] = conv[r]  BY <1>2, <1>4
  <2>2. RecordOf(r, conv[r])  BY <2>1 DEF RecordsGood
  <2> QED  BY <1>1, <2>1, <2>2 DEF RecordOf
<1> QED  BY <1>3, <1>4

\* Every step keeps the records good.
LEMMA RecordsStep ==
    ASSUME Shapes, JobsGood, RecordsGood, EditGood, MarkGood, Next
    PROVE  RecordsGood'
<1> USE DEF store, disk, memory, bounds
<1>1. ASSUME JobsMove, \A i \in DOMAIN jobs : jobs'[i].told = "told" => jobs[i].told = "told",
             conv' \in {conv, NoHistory},
             conv' = NoHistory \/ (OutputIdentity(rule') = OutputIdentity(rule))
      PROVE  RecordsGood'
  BY <1>1, RecordsKept
<1>2. ASSUME JobsMove, \A i \in DOMAIN jobs : jobs'[i].told = "told" => jobs[i].told = "told",
             conv' = conv, rule' = rule
      PROVE  RecordsGood'
  BY <1>1, <1>2
<1>3. ASSUME jobs' = jobs PROVE JobsMove
  BY <1>3 DEF JobsMove, Live, Shapes
<1>4. ASSUME NEW j \in DOMAIN jobs, JobStarts(j) \/ Prune(j) \/ NoteFails(j) PROVE RecordsGood'
  <2>1. CASE JobStarts(j)
    <3>1. /\ JobsMove /\ jobs'[j].told = jobs[j].told
          /\ \A i \in DOMAIN jobs : i # j => jobs'[i] = jobs[i]
      BY <2>1, StartsGives
    <3>2. conv' = conv /\ rule' = rule  BY <2>1 DEF JobStarts
    <3>3. \A i \in DOMAIN jobs : jobs'[i].told = "told" => jobs[i].told = "told"  BY <3>1
    <3> QED  BY <1>2, <3>1, <3>2, <3>3
  <2>2. CASE Prune(j)  BY <1>2, <1>3, <2>2 DEF Prune
  <2>3. CASE NoteFails(j)
    <3>1. /\ JobsMove /\ jobs'[j].told = "failed"
          /\ \A i \in DOMAIN jobs : i # j => jobs'[i] = jobs[i]
      BY <2>3, NoteFailsGives
    <3>2. conv' = conv /\ rule' = rule  BY <2>3 DEF NoteFails
    <3>3. \A i \in DOMAIN jobs : jobs'[i].told = "told" => jobs[i].told = "told"  BY <3>1
    <3> QED  BY <1>2, <3>1, <3>2, <3>3
  <2> QED  BY <1>4, <2>1, <2>2, <2>3
<1>5. ASSUME NEW j \in DOMAIN jobs, NEW out \in {"completed", "failed"}, NEW c, Live(j),
             Ended(j, out, c)
      PROVE  RecordsGood'
  <2>1. /\ JobsMove /\ jobs'[j].told = "waiting"
        /\ \A i \in DOMAIN jobs : i # j => jobs'[i] = jobs[i]
    BY <1>5, EndedGives
  <2>2. conv' = conv /\ rule' = rule  BY <1>5 DEF Ended
  <2>3. \A i \in DOMAIN jobs : jobs'[i].told = "told" => jobs[i].told = "told"  BY <2>1
  <2> QED  BY <1>2, <2>1, <2>2, <2>3
<1>6. ASSUME NEW j \in DOMAIN jobs, JobCompletes(j) \/ JobFails(j) PROVE RecordsGood'
  <2>1. Live(j)  BY <1>6 DEF JobCompletes, JobFails, Live
  <2>2. PICK out \in {"completed", "failed"}, c \in {[job |-> j, whole |-> TRUE],
                                                    At(jobs[j].path)} \cup Left(j) : Ended(j, out, c)
    BY <1>6 DEF JobCompletes, JobFails
  <2> QED  BY <1>5, <2>1, <2>2
<1>7. ASSUME NEW rl \in Rules, NEW answered \in BOOLEAN, SetRules(rl, answered) PROVE RecordsGood'
  <2>1. jobs' = jobs /\ rule' = rule /\ conv' \in {conv, NoHistory}
    BY <1>7 DEF SetRules, FirstWrite
  <2> QED  BY <1>1, <1>3, <2>1
<1>8. CASE SaveRules
  <2>1. jobs' = jobs /\ rule' = edit /\ conv' = conv /\ edit # None
    BY <1>8 DEF SaveRules, SecondWrite
  <2>2. conv = NoHistory \/ OutputIdentity(edit) = OutputIdentity(rule)  BY <2>1 DEF EditGood
  <2> QED  BY <1>1, <1>3, <2>1, <2>2
<1>9. CASE SaveFails \/ Forget \/ IntervalElapses
  <2>1. jobs' = jobs /\ rule' = rule /\ conv' \in {conv, NoHistory}
    BY <1>9 DEF SaveFails, Forget, IntervalElapses
  <2> QED  BY <1>1, <1>3, <2>1
<1>10. ASSUME NEW kind, Begin(kind) PROVE RecordsGood'
  BY <1>2, <1>3, <1>10 DEF Begin
<1>11. ASSUME NEW r, Inspect(r) \/ Unreadable(r) PROVE RecordsGood'
  BY <1>2, <1>3, <1>11 DEF Inspect, Unreadable
<1>12. CASE Choose \/ Refused \/ RecordRun \/ Unresponsive \/ MarkFails \/ Aborts
  BY <1>2, <1>3, <1>12 DEF Choose, Refused, RecordRun, Unresponsive, MarkFails, Aborts
<1>13. CASE Queue
  <2>1. /\ DOMAIN jobs \subseteq DOMAIN jobs' /\ \A i \in DOMAIN jobs : jobs'[i] = jobs[i]
        /\ conv' = conv /\ rule' = rule
    BY <1>13, QueueGives DEF Queue
  <2> QED  BY <2>1 DEF RecordsGood, RecordOf
<1>14. CASE Crash
  <2>1. JobsMove /\ \A i \in DOMAIN jobs : jobs'[i].told = "told" => jobs[i].told = "told"
    BY <1>14, CrashGives
  <2> QED  BY <1>2, <1>14, <2>1 DEF Crash
<1> QED
  BY <1>4, <1>6, <1>7, <1>8, <1>9, <1>10, <1>11, <1>12, <1>13, <1>14,
     RecordsNote, RecordsRead, RecordsMark
     DEF Next, Sweeping

-----------------------------------------------------------------------------
\* Rules that are being saved.

LEMMA EditStep ==
    ASSUME Shapes, EditGood, Next
    PROVE  EditGood'
<1> USE DEF store, disk, memory, bounds
<1>1. ASSUME edit' = edit, sw'.pc = sw.pc, rule' = rule, conv' = conv \/ conv' = NoHistory
      PROVE  EditGood'
  BY <1>1 DEF EditGood
<1>2. ASSUME edit' = edit, sw.pc # "idle" \/ edit = None PROVE EditGood'
  BY <1>2 DEF EditGood
<1>3. ASSUME NEW j \in DOMAIN jobs, JobStarts(j) \/ Prune(j) PROVE EditGood'
  BY <1>1, <1>3 DEF JobStarts, Prune
<1>4. ASSUME NEW j \in DOMAIN jobs, JobCompletes(j) \/ JobFails(j) PROVE EditGood'
  BY <1>1, <1>4 DEF JobCompletes, JobFails, Ended
<1>5. ASSUME NEW j \in DOMAIN jobs, NoteLands(j) \/ NoteFails(j) PROVE EditGood'
  BY <1>2, <1>5 DEF NoteLands, NoteFails, LockFree
<1>6. ASSUME NEW rl \in Rules, NEW answered \in BOOLEAN, SetRules(rl, answered) PROVE EditGood'
  BY <1>6 DEF SetRules, FirstWrite, LockFree, EditGood
<1>7. CASE SaveRules \/ SaveFails  BY <1>7 DEF SaveRules, SaveFails, EditGood
<1>8. CASE Forget  BY <1>2, <1>8 DEF Forget, LockFree
<1>9. CASE IntervalElapses  BY <1>1, <1>9 DEF IntervalElapses
<1>10. ASSUME NEW kind, Begin(kind) PROVE EditGood'
  BY <1>2, <1>10 DEF Begin, LockFree
<1>11. ASSUME NEW r, Inspect(r) \/ Unreadable(r) PROVE EditGood'
  BY <1>2, <1>11 DEF Inspect, Unreadable
<1>12. CASE ReadHistory \/ Choose \/ Refused \/ RecordRun \/ Unresponsive \/ Aborts
  BY <1>2, <1>12 DEF ReadHistory, Choose, Refused, RecordRun, Unresponsive, Aborts
<1>13. CASE Queue \/ Mark \/ MarkFails
  BY <1>2, <1>13 DEF Queue, Mark, MarkFails
<1>14. CASE Crash  BY <1>14 DEF Crash, EditGood
<1> QED
  BY <1>3, <1>4, <1>5, <1>6, <1>7, <1>8, <1>9, <1>10, <1>11, <1>12, <1>13, <1>14
     DEF Next, Sweeping

-----------------------------------------------------------------------------
\* Outputs.

\* What a job leaves at its path is its own, or was there.
LEMMA FilesPut ==
    ASSUME Shapes, FilesGood, JobsMove, NEW j \in DOMAIN jobs, NEW c \in Contents,
           file' = Put(jobs[j].path, c),
           c = At(jobs[j].path) \/ c = Absent \/ c.job = j
    PROVE  FilesGood'
<1> DEFINE p == jobs[j].path
<1>1. p \in Paths /\ file \in [DOMAIN file -> Contents] /\ DOMAIN file \subseteq Paths
  BY ContentType DEF Shapes
<1> HIDE DEF p
<1>2. /\ p \in DOMAIN file' => file'[p] = c
      /\ \A q : q # p => (q \in DOMAIN file' <=> q \in DOMAIN file)
      /\ \A q \in DOMAIN file' : q # p => file'[q] = file[q]
  BY <1>1, PutFile DEF p
<1>3. SUFFICES ASSUME NEW q \in DOMAIN file', file'[q].job # 0
               PROVE  file'[q].job \in DOMAIN jobs /\ jobs[file'[q].job].path = q
  BY DEF FilesGood, JobsMove
<1>4. CASE q # p  BY <1>2, <1>3, <1>4 DEF FilesGood
<1>5. CASE q = p
  <2>1. file'[q] = c  BY <1>2, <1>5
  <2>2. CASE c = At(p)
    <3>1. At(p).job # 0  BY <1>3, <2>1, <2>2
    <3>2. p \in DOMAIN file /\ At(p) = file[p]  BY <3>1 DEF At, Absent
    <3> QED  BY <1>5, <2>1, <2>2, <3>1, <3>2 DEF FilesGood
  <2>3. CASE c = Absent  BY <1>3, <2>1, <2>3 DEF Absent
  <2>4. CASE c.job = j  BY <1>5, <2>1, <2>4 DEF p
  <2> QED  BY <2>2, <2>3, <2>4 DEF p
<1> QED  BY <1>4, <1>5

LEMMA FilesStep ==
    ASSUME Shapes, JobsGood, FilesGood, Next
    PROVE  FilesGood'
<1> USE DEF store, disk, memory, bounds
<1>1. ASSUME JobsMove, file' = file PROVE FilesGood'
  BY <1>1 DEF FilesGood, JobsMove
<1>2. ASSUME NEW j \in DOMAIN jobs, JobCompletes(j) \/ JobFails(j) PROVE FilesGood'
  <2>1. Live(j)  BY <1>2 DEF JobCompletes, JobFails, Live
  <2>2. PICK out \in {"completed", "failed"},
             c \in {[job |-> j, whole |-> TRUE], At(jobs[j].path)} \cup Left(j) : Ended(j, out, c)
    BY <1>2 DEF JobCompletes, JobFails
  <2>3. JobsMove  BY <2>1, <2>2, EndedGives
  <2>4. c \in Contents /\ (c = At(jobs[j].path) \/ c = Absent \/ c.job = j)
    <3>1. CASE c = [job |-> j, whole |-> TRUE]
      <4>1. c.job = j  BY <3>1
      <4> QED  BY <3>1, <4>1, ContentType
    <3>2. CASE c = At(jobs[j].path)  BY <3>2, ContentType
    <3>3. CASE c \in Left(j)  BY <3>3, ContentType
    <3> QED  BY <3>1, <3>2, <3>3
  <2>5. file' = Put(jobs[j].path, c)  BY <2>2 DEF Ended
  <2> QED  BY <2>3, <2>4, <2>5, FilesPut
<1>3. CASE Crash
  <2>1. JobsMove /\ \A p \in DOMAIN file' :
                \/ p \in DOMAIN file /\ file'[p] = file[p]
                \/ \E j \in DOMAIN jobs : Live(j) /\ jobs[j].path = p /\ file'[p].job = j
    BY <1>3, CrashGives, CrashDisk
  <2> QED  BY <2>1 DEF FilesGood, JobsMove
<1>4. CASE Queue
  <2>1. /\ DOMAIN jobs \subseteq DOMAIN jobs' /\ \A i \in DOMAIN jobs : jobs'[i] = jobs[i]
        /\ file' = file
    BY <1>4, QueueGives DEF Queue
  <2> QED  BY <2>1 DEF FilesGood
<1>5. JobsMove \/ Queue  BY MoveOrQueue
<1>6. ASSUME NEW j \in DOMAIN jobs, JobStarts(j) \/ Prune(j) PROVE file' = file
  BY <1>6 DEF JobStarts, Prune
<1>11. ASSUME NEW j \in DOMAIN jobs, NoteLands(j) \/ NoteFails(j) PROVE file' = file
  BY <1>11 DEF NoteLands, NoteFails
<1>7. ASSUME NEW rl \in Rules, NEW answered \in BOOLEAN, SetRules(rl, answered) PROVE file' = file
  BY <1>7 DEF SetRules
<1>8. ASSUME NEW kind, Begin(kind) PROVE file' = file  BY <1>8 DEF Begin
<1>9. ASSUME NEW r, Inspect(r) \/ Unreadable(r) PROVE file' = file
  BY <1>9 DEF Inspect, Unreadable
<1>10. ASSUME \/ SaveRules \/ SaveFails \/ Forget \/ IntervalElapses \/ ReadHistory \/ Choose
              \/ Refused \/ RecordRun \/ Unresponsive \/ Mark \/ MarkFails \/ Aborts
       PROVE  file' = file
  BY <1>10 DEF SaveRules, SaveFails, Forget, IntervalElapses, ReadHistory, Choose, Refused,
               RecordRun, Unresponsive, Mark, MarkFails, Aborts
<1> QED
  BY <1>1, <1>2, <1>3, <1>4, <1>5, <1>6, <1>7, <1>8, <1>9, <1>10, <1>11 DEF Next, Sweeping

-----------------------------------------------------------------------------
\* The sweep.

\* A choice stays good while no job of its ROM comes and its source stays.
LEMMA ChoiceKept ==
    ASSUME JobsMove, NEW r, NEW c, ChoiceOf(r, c), r \notin gone'
    PROVE  ChoiceOf(r, c)'
BY DEF ChoiceOf, JobsMove

\* While the sweep stands still, jobs end and sources go, but not its own.
LEMMA PlanJobs ==
    ASSUME PlanGood, JobsMove, sw' = sw,
           \A r \in gone' : r \in gone \/ \E j \in DOMAIN jobs : Live(j) /\ jobs[j].rom = r
    PROVE  PlanGood'
<1>1. sw.pc \in {"snapshot", "choose"} => \A j \in DOMAIN jobs' : Live(j)' => jobs'[j].rom \in sw.active
  BY DEF PlanGood, JobsMove
<1>2. ASSUME sw.pc \in {"choose", "queue"}, NEW r \in DOMAIN sw.plan
      PROVE  ChoiceOf(r, sw.plan[r])'
  <2>1. PICK c : c = sw.plan[r]  OBVIOUS
  <2>2. ChoiceOf(r, c)  BY <1>2, <2>1 DEF PlanGood
  <2>3. r \notin gone'  BY <2>2 DEF ChoiceOf
  <2>4. ChoiceOf(r, c)'  BY <2>2, <2>3, ChoiceKept
  <2> QED  BY <2>1, <2>4 DEF ChoiceOf
<1> QED  BY <1>1, <1>2 DEF PlanGood

\* A choice is what the destination, the queue and the disk allow.
LEMMA PlanInspect ==
    ASSUME Shapes, JobsGood, FilesGood, PlanGood, NEW r \in Roms, Inspect(r)
    PROVE  PlanGood'
<1> USE DEF store, disk, memory, bounds
<1>1. jobs' = jobs /\ gone' = gone /\ sw.pc = "choose" /\ sw \in Sweeps  BY DEF Inspect, Shapes
<1>2. CASE sw' = [sw EXCEPT !.todo = @ \ {r}]
  <2>1. sw'.pc = "choose" /\ sw'.active = sw.active /\ sw'.plan = sw.plan
    BY <1>1, <1>2 DEF Sweeps
  <2> QED  BY <1>1, <2>1 DEF PlanGood, ChoiceOf, Live
<1>3. CASE sw' # [sw EXCEPT !.todo = @ \ {r}]
  <2>1. PICK p \in Chosen(r) :
          sw' = [sw EXCEPT !.todo = @ \ {r},
                   !.plan = [s \in DOMAIN sw.plan \cup {r} |->
                      IF s = r THEN [path |-> p, pre |-> At(p)] ELSE sw.plan[s]]]
    BY <1>3 DEF Inspect
  <2>2. p \in PathsOf(r) /\ r \notin gone /\ r \notin sw.active
    BY DestinationType DEF Chosen, Shapes
  <2>3. PICK c : c = [path |-> p, pre |-> At(p)]  OBVIOUS
  <2>4. c.path = p /\ c.pre = At(p)  BY <2>3
  <2>5. /\ sw'.pc = "choose" /\ sw'.active = sw.active
        /\ sw'.plan = [s \in DOMAIN sw.plan \cup {r} |-> IF s = r THEN c ELSE sw.plan[s]]
    BY <1>1, <2>1, <2>3 DEF Sweeps
  <2>6. At(p).job <= Len(jobs)
    <3>1. CASE p \in DOMAIN file
      <4>1. file[p].job = 0 \/ file[p].job \in DOMAIN jobs  BY <3>1 DEF FilesGood
      <4> QED  BY <3>1, <4>1, JobIds DEF At, Shapes
    <3>2. CASE p \notin DOMAIN file
      BY <3>2, JobIds DEF At, Absent, Shapes
    <3> QED  BY <3>1, <3>2
  <2>7. ChoiceOf(r, c)
    <3>1. \A j \in DOMAIN jobs : jobs[j].rom = r => ~Live(j)
      BY <1>1, <2>2 DEF PlanGood
    <3> QED  BY <2>2, <2>4, <2>6, <3>1 DEF ChoiceOf
  <2>8. \A s \in DOMAIN sw.plan : ChoiceOf(s, sw.plan[s])  BY <1>1 DEF PlanGood
  <2>9. ASSUME NEW s \in DOMAIN sw'.plan PROVE ChoiceOf(s, sw.plan[s])'
    <3>1. sw'.plan[s] = (IF s = r THEN c ELSE sw.plan[s]) /\ s \in DOMAIN sw.plan \cup {r}
      BY <2>5, <2>9
    <3>2. PICK d : d = sw'.plan[s]  OBVIOUS
    <3>3. ChoiceOf(s, d)  BY <2>7, <2>8, <3>1, <3>2
    <3> QED  BY <1>1, <3>2, <3>3 DEF ChoiceOf, Live
  <2> QED  BY <1>1, <2>5, <2>9 DEF PlanGood, Live
<1> QED  BY <1>2, <1>3

\* Every step keeps the plan good.
LEMMA PlanStep ==
    ASSUME Shapes, JobsGood, FilesGood, EditGood, PlanGood, Next
    PROVE  PlanGood'
<1> USE DEF store, disk, memory, bounds
<1>0. sw \in Sweeps  BY DEF Shapes
<1>1. ASSUME NEW j \in DOMAIN jobs,
             JobStarts(j) \/ JobCompletes(j) \/ JobFails(j) \/ Prune(j) \/ NoteLands(j) \/ NoteFails(j)
      PROVE  PlanGood'
  <2>1. JobsMove
    <3>1. ~Queue
      <4>1. sw' = sw
        BY <1>1 DEF JobStarts, JobCompletes, JobFails, Ended, Prune, NoteLands, NoteFails
      <4>2. Queue => sw' # sw  BY <1>0 DEF Queue, Recording, Sweeps
      <4> QED  BY <4>1, <4>2
    <3> QED  BY <3>1, MoveOrQueue
  <2>2. sw' = sw /\ gone' \subseteq gone \cup {jobs[j].rom} /\ (gone' = gone \/ Live(j))
    BY <1>1 DEF JobStarts, JobCompletes, JobFails, Ended, Prune, NoteLands, NoteFails, Live
  <2> QED  BY <2>1, <2>2, PlanJobs
<1>2. ASSUME sw' = sw, jobs' = jobs, gone' = gone PROVE PlanGood'
  BY <1>2 DEF PlanGood, ChoiceOf, Live
<1>3. ASSUME NEW rl \in Rules, NEW answered \in BOOLEAN, SetRules(rl, answered) PROVE PlanGood'
  BY <1>2, <1>3 DEF SetRules
<1>4. CASE SaveRules \/ SaveFails \/ Forget \/ IntervalElapses
  BY <1>2, <1>4 DEF SaveRules, SaveFails, Forget, IntervalElapses
<1>5. ASSUME NEW kind \in Kinds, Begin(kind) PROVE PlanGood'
  <2>1. /\ sw' = [NoSweep EXCEPT !.pc = "snapshot", !.dry = (kind = "preview"),
                             !.active = {jobs[j].rom : j \in {i \in known : Live(i)}}]
        /\ jobs' = jobs
    BY <1>5 DEF Begin
  <2>2. /\ sw'.pc = "snapshot" /\ sw'.plan = <<>>
        /\ sw'.active = {jobs[j].rom : j \in {i \in known : Live(i)}}
    BY <2>1 DEF NoSweep
  <2>3. \A j \in DOMAIN jobs : Live(j) => jobs[j].rom \in sw'.active
    BY <2>2 DEF JobsGood
  <2> QED  BY <2>1, <2>2, <2>3, NoSweepShape DEF PlanGood, Live
<1>6. CASE ReadHistory
  <2>1. sw'.pc = "choose" /\ sw'.active = sw.active /\ sw'.plan = sw.plan /\ jobs' = jobs
    BY <1>0, <1>6 DEF ReadHistory, Sweeps
  <2>2. sw.pc = "snapshot"  BY <1>6 DEF ReadHistory
  <2> QED  BY <2>1, <2>2 DEF PlanGood, Live
<1>7. ASSUME NEW r \in Roms, Inspect(r) PROVE PlanGood'
  BY <1>7, PlanInspect
<1>8. CASE Unresponsive
  <2>1. /\ sw'.pc = "choose" /\ sw'.active = sw.active /\ sw'.plan = sw.plan
        /\ jobs' = jobs /\ gone' = gone /\ sw.pc = "choose"
    BY <1>0, <1>8 DEF Unresponsive, Sweeps
  <2> QED  BY <2>1 DEF PlanGood, ChoiceOf, Live
<1>9. ASSUME sw' = NoSweep \/ sw' = Recording PROVE PlanGood'
  <2>1. SweepShape  BY DEF SweepShape, Shapes
  <2>2. sw'.pc \in {"idle", "record"} /\ DOMAIN sw'.plan = {}
    BY <1>9, <2>1, IdleShape, RecordingShape
  <2> QED  BY <2>2 DEF PlanGood
<1>10. ASSUME NEW r \in Roms, Unreadable(r) PROVE PlanGood'
  <2>1. CASE sw' = [sw EXCEPT !.plan = [s \in DOMAIN sw.plan \ {r} |-> sw.plan[s]]]
    <3>1. /\ sw'.pc = "queue" /\ sw'.plan = [s \in DOMAIN sw.plan \ {r} |-> sw.plan[s]]
          /\ jobs' = jobs /\ gone' = gone /\ sw.pc = "queue"
      BY <1>0, <1>10, <2>1 DEF Unreadable, Sweeps
    <3> QED  BY <3>1 DEF PlanGood, ChoiceOf, Live
  <2> QED  BY <1>9, <1>10, <2>1 DEF Unreadable
<1>11. CASE Choose
  <2>1. CASE sw' = [sw EXCEPT !.pc = "queue", !.todo = {}, !.active = {}]
    <3>1. sw'.pc = "queue" /\ sw'.plan = sw.plan /\ jobs' = jobs /\ gone' = gone /\ sw.pc = "choose"
      BY <1>0, <1>11, <2>1 DEF Choose, Sweeps
    <3> QED  BY <3>1 DEF PlanGood, ChoiceOf, Live
  <2> QED  BY <1>9, <1>11, <2>1 DEF Choose
<1>12. CASE Queue
  <2>1. CASE sw' = [sw EXCEPT !.pc = "mark"]
    <3>1. sw'.pc = "mark"  BY <1>0, <2>1 DEF Sweeps
    <3> QED  BY <3>1 DEF PlanGood
  <2> QED  BY <1>9, <1>12, <2>1 DEF Queue
<1>13. CASE Refused \/ Mark \/ MarkFails \/ RecordRun \/ Aborts \/ Crash
  BY <1>9, <1>13 DEF Refused, Mark, MarkFails, RecordRun, Aborts, Crash
<1> QED
  BY <1>1, <1>3, <1>4, <1>5, <1>6, <1>7, <1>8, <1>10, <1>11, <1>12, <1>13 DEF Next, Sweeping

\* Between the queue and the record, the jobs of the batch stay the last of their
\* ROMs and are told to nobody, since the listener waits for the sweep.
LEMMA MarkStep ==
    ASSUME Shapes, JobsGood, EditGood, PlanGood, MarkGood, Next
    PROVE  MarkGood'
<1> USE DEF store, disk, memory, bounds
<1>0. sw \in Sweeps  BY DEF Shapes
<1>1. ASSUME JobsMove, sw' = sw, rule' = rule,
             \A i \in DOMAIN jobs : jobs[i].told \in {"no", "waiting"} => jobs'[i].told \in {"no", "waiting"}
      PROVE  MarkGood'
  <2> SUFFICES ASSUME sw.pc = "mark", NEW r \in DOMAIN sw.plan
               PROVE  rule.policy # "skip" /\ \E j \in DOMAIN jobs' : QueuedAs(r, sw.plan[r], j)'
    BY <1>1 DEF MarkGood
  <2>1. PICK j \in DOMAIN jobs : QueuedAs(r, sw.plan[r], j)  BY DEF MarkGood
  <2>2. QueuedAs(r, sw.plan[r], j)'  BY <1>1, <2>1 DEF QueuedAs, JobsMove
  <2>3. j \in DOMAIN jobs'  BY <1>1 DEF JobsMove
  <2> QED  BY <2>2, <2>3 DEF MarkGood
<1>2. ASSUME sw'.pc # "mark" PROVE MarkGood'
  BY <1>2 DEF MarkGood
<1>3. ASSUME jobs' = jobs PROVE JobsMove
  BY <1>3 DEF JobsMove, Live, Shapes
<1>4. ASSUME NEW j \in DOMAIN jobs, JobStarts(j) \/ Prune(j) PROVE MarkGood'
  <2>1. CASE JobStarts(j)
    <3>1. /\ JobsMove /\ jobs'[j].told = jobs[j].told
          /\ \A i \in DOMAIN jobs : i # j => jobs'[i] = jobs[i]
      BY <2>1, StartsGives
    <3>2. sw' = sw /\ rule' = rule  BY <2>1 DEF JobStarts
    <3>3. \A i \in DOMAIN jobs : jobs'[i].told = jobs[i].told  BY <3>1
    <3> QED  BY <1>1, <3>1, <3>2, <3>3
  <2>2. CASE Prune(j)  BY <1>1, <1>3, <2>2 DEF Prune
  <2> QED  BY <1>4, <2>1, <2>2
<1>5. ASSUME NEW j \in DOMAIN jobs, JobCompletes(j) \/ JobFails(j) PROVE MarkGood'
  <2>1. Live(j)  BY <1>5 DEF JobCompletes, JobFails, Live
  <2>2. PICK out \in {"completed", "failed"}, c \in {[job |-> j, whole |-> TRUE],
                                                    At(jobs[j].path)} \cup Left(j) : Ended(j, out, c)
    BY <1>5 DEF JobCompletes, JobFails
  <2>3. /\ JobsMove /\ jobs'[j].told = "waiting"
        /\ \A i \in DOMAIN jobs : i # j => jobs'[i] = jobs[i]
    BY <2>1, <2>2, EndedGives
  <2>4. sw' = sw /\ rule' = rule  BY <2>2 DEF Ended
  <2>5. \A i \in DOMAIN jobs : jobs[i].told \in {"no", "waiting"} => jobs'[i].told \in {"no", "waiting"}
    BY <2>3
  <2> QED  BY <1>1, <2>3, <2>4, <2>5
<1>6. ASSUME NEW j \in DOMAIN jobs, NoteLands(j) \/ NoteFails(j) PROVE MarkGood'
  BY <1>2, <1>6 DEF NoteLands, NoteFails, LockFree
<1>7. ASSUME NEW rl \in Rules, NEW answered \in BOOLEAN, SetRules(rl, answered) PROVE MarkGood'
  BY <1>2, <1>7 DEF SetRules, LockFree
<1>8. CASE SaveRules \/ SaveFails
  BY <1>2, <1>8 DEF SaveRules, SaveFails, EditGood
<1>9. CASE Forget \/ IntervalElapses
  BY <1>1, <1>3, <1>9 DEF Forget, IntervalElapses
<1>10. ASSUME NEW kind \in Kinds, Begin(kind) PROVE MarkGood'
  <2>1. sw'.pc = "snapshot"  BY <1>10 DEF Begin, NoSweep
  <2> QED  BY <1>2, <2>1
<1>11. ASSUME NEW r \in Roms, Inspect(r) PROVE MarkGood'
  <2>1. sw'.pc = "choose"  BY <1>0, <1>11 DEF Inspect, Sweeps
  <2> QED  BY <1>2, <2>1
<1>12. ASSUME sw' = NoSweep \/ sw' = Recording PROVE MarkGood'
  <2>1. SweepShape  BY DEF SweepShape, Shapes
  <2>2. sw'.pc \in {"idle", "record"}  BY <1>12, <2>1, IdleShape, RecordingShape
  <2> QED  BY <1>2, <2>2
<1>13. ASSUME NEW r \in Roms, Unreadable(r) PROVE MarkGood'
  <2>1. CASE sw' = [sw EXCEPT !.plan = [s \in DOMAIN sw.plan \ {r} |-> sw.plan[s]]]
    BY <1>0, <1>2, <1>13, <2>1 DEF Unreadable, Sweeps
  <2> QED  BY <1>12, <1>13, <2>1 DEF Unreadable
<1>14. CASE ReadHistory \/ Unresponsive
  <2>1. sw'.pc = "choose"  BY <1>0, <1>14 DEF ReadHistory, Unresponsive, Sweeps
  <2> QED  BY <1>2, <2>1
<1>15. CASE Choose
  <2>1. CASE sw' = [sw EXCEPT !.pc = "queue", !.todo = {}, !.active = {}]
    BY <1>0, <1>2, <2>1 DEF Sweeps
  <2> QED  BY <1>12, <1>15, <2>1 DEF Choose
<1>16. CASE Refused \/ Mark \/ MarkFails \/ RecordRun \/ Aborts \/ Crash
  BY <1>12, <1>16 DEF Refused, Mark, MarkFails, RecordRun, Aborts, Crash
<1>17. CASE Queue
  <2>1. CASE rule.policy = "skip"
    BY <1>12, <1>17, <2>1 DEF Queue
  <2>2. CASE rule.policy # "skip"
    <3>1. sw' = [sw EXCEPT !.pc = "mark"] /\ rule' = rule  BY <1>17, <2>2 DEF Queue
    <3>2. sw'.plan = sw.plan  BY <1>0, <3>1 DEF Sweeps
    <3>3. /\ jobs' \in Seq(Job) /\ DOMAIN jobs' = DOMAIN jobs \cup NewIds
          /\ \A i \in DOMAIN jobs : jobs'[i] = jobs[i]
          /\ \A i \in NewIds : /\ i \in Nat /\ i > Len(jobs)
                               /\ jobs'[i].path = sw.plan[jobs'[i].rom].path
                               /\ jobs'[i].rule = rule /\ jobs'[i].told = "no"
          /\ \A i, k \in NewIds : jobs'[i].rom = jobs'[k].rom => i = k
          /\ \A r \in DOMAIN sw.plan : \E i \in NewIds : jobs'[i].rom = r
      BY <1>17, QueueGives
    <3>4. ASSUME NEW r \in DOMAIN sw.plan PROVE \E j \in DOMAIN jobs' : QueuedAs(r, sw.plan[r], j)'
      <4>1. PICK j \in NewIds : jobs'[j].rom = r  BY <3>3
      <4>2. j \in Nat /\ j > Len(jobs) /\ Len(jobs) \in Nat
        BY <3>3, JobIds DEF Shapes
      <4>3. sw.plan[r].pre.job < j
        <5>1. sw.plan[r] \in Picks  BY DEF Shapes
        <5>2. sw.plan[r].pre.job \in Nat  BY <5>1 DEF Picks, Contents
        <5>3. sw.plan[r].pre.job <= Len(jobs)  BY <1>17, <3>4 DEF Queue, PlanGood, ChoiceOf
        <5> QED  BY <4>2, <5>2, <5>3
      <4>4. ASSUME NEW i \in DOMAIN jobs', jobs'[i].rom = r PROVE i <= j
        <5>1. CASE i \in NewIds
          <6>1. jobs'[i].rom = jobs'[j].rom  BY <4>1, <4>4
          <6>2. i = j  BY <3>3, <5>1, <6>1
          <6> QED  BY <4>2, <6>2
        <5>2. CASE i \in DOMAIN jobs  BY <4>2, <5>2, JobIds DEF Shapes
        <5> QED  BY <3>3, <5>1, <5>2
      <4>5. QueuedAs(r, sw.plan[r], j)'
        BY <3>1, <3>2, <3>3, <4>1, <4>3, <4>4 DEF QueuedAs
      <4> QED  BY <3>3, <4>1, <4>5
    <3> QED  BY <2>2, <3>1, <3>2, <3>4 DEF MarkGood
  <2> QED  BY <2>1, <2>2
<1> QED
  BY <1>4, <1>5, <1>6, <1>7, <1>8, <1>9, <1>10, <1>11, <1>13, <1>14, <1>15, <1>16, <1>17
     DEF Next, Sweeping

-----------------------------------------------------------------------------
\* The invariant.

LEMMA InvInit == ASSUME Init PROVE IInv
<1>1. jobs = <<>> /\ DOMAIN jobs = {} /\ jobs \in Seq(Job)  BY DEF Init
<1>2. conv = NoHistory /\ \A r \in Roms : conv[r] = NoRecord  BY DEF Init, NoHistory
<1>3. sw = NoSweep /\ sw.pc = "idle" /\ sw.plan = <<>> /\ DOMAIN sw.plan = {}
  BY NoSweepShape DEF Init
<1>4. rule \in RuleSet
  <2>1. rule \in Rules  BY DEF Init
  <2>2. rule \in [policy : Policies, target : {rule.target}, dir : {"named", "beside"},
                 on : {"on", "off", "invalid"}, deletes : BOOLEAN]
    BY <2>1, RommSweepAssumption
  <2>3. rule.target \in Targets  BY <2>1 DEF Targets
  <2> QED  BY <2>2, <2>3 DEF RuleSet
<1>5. DOMAIN file \subseteq Paths /\ \A p \in DOMAIN file : file[p] = Old
  <2>1. DOMAIN file = {Base(r) : r \in Occupied} /\ \A p \in DOMAIN file : file[p] = Old
    BY DEF Init
  <2>2. \A r \in Occupied : r \in Roms /\ Base(r) \in PathsOf(r)
    <3>1. Goal(rule) \in Goals /\ MaxJobs \in Nat /\ Occupied \subseteq Roms
      BY <1>4, RommSweepAssumption DEF RuleSet, Goal, Goals
    <3> QED  BY <3>1 DEF Base, PathsOf
  <2> QED  BY <2>1, <2>2 DEF Paths
<1>6. file \in [DOMAIN file -> Contents]
  <2>1. file = [p \in DOMAIN file |-> Old] /\ Old \in Contents
    BY DEF Init, Old, Contents
  <2> QED  BY <2>1
<1>7. sw \in Sweeps /\ sw.plan \in [DOMAIN sw.plan -> Picks] /\ DOMAIN sw.plan \subseteq Roms
  BY <1>3, NoSweepShape DEF Sweeps, Stages, NoSweep
<1>8. Shapes
  BY <1>1, <1>2, <1>4, <1>5, <1>6, <1>7 DEF Init, Shapes, NoHistory
<1>9. JobsGood /\ LiveIsLast  BY <1>1 DEF JobsGood, LiveIsLast
<1>10. RecordsGood  BY <1>2 DEF RecordsGood
<1>11. EditGood  BY DEF EditGood, Init
<1>12. FilesGood  BY <1>5 DEF FilesGood, Old
<1>13. PlanGood /\ MarkGood  BY <1>1, <1>3 DEF PlanGood, MarkGood
<1> QED  BY <1>8, <1>9, <1>10, <1>11, <1>12, <1>13 DEF IInv

LEMMA ShapesStep == ASSUME IInv, Next PROVE Shapes'
<1>1. Shapes /\ JobsGood /\ FilesGood /\ MarkGood  BY DEF IInv
<1>2. ASSUME NEW j \in DOMAIN jobs,
             JobStarts(j) \/ JobCompletes(j) \/ JobFails(j) \/ Prune(j) \/ NoteLands(j) \/ NoteFails(j)
      PROVE  Shapes'
  BY <1>1, <1>2, ShapesJob
<1>3. CASE \/ \E rl \in Rules, answered \in BOOLEAN : SetRules(rl, answered)
           \/ SaveRules \/ SaveFails \/ Forget \/ IntervalElapses
  BY <1>1, <1>3, ShapesRules
<1>4. CASE \/ \E kind \in Kinds : Begin(kind)
           \/ Sweeping \/ Unresponsive \/ MarkFails \/ Aborts
           \/ \E r \in Roms : Unreadable(r)
  BY <1>1, <1>4, ShapesSweep
<1>5. CASE Crash  BY <1>1, <1>5, ShapesCrash
<1> QED  BY <1>2, <1>3, <1>4, <1>5 DEF Next

LEMMA InvStill == ASSUME IInv, UNCHANGED vars PROVE IInv'
<1> USE DEF vars
<1>1. Shapes' /\ FilesGood'
  BY DEF IInv, Shapes, FilesGood, Sweeps
<1>4. JobsGood' /\ LiveIsLast'
  BY DEF IInv, JobsGood, LiveIsLast, Live
<1>5. EditGood'
  BY DEF IInv, EditGood, OutputIdentity
<1>2. RecordsGood'
  BY DEF IInv, RecordsGood, RecordOf, OutputIdentity
<1>3. PlanGood' /\ MarkGood'
  BY DEF IInv, PlanGood, MarkGood, ChoiceOf, QueuedAs, Live
<1> QED  BY <1>1, <1>2, <1>3, <1>4, <1>5 DEF IInv

LEMMA InvStep == ASSUME IInv, [Next]_vars PROVE IInv'
<1>1. CASE Next
  <2>1. Shapes /\ JobsGood /\ LiveIsLast /\ RecordsGood /\ EditGood /\ FilesGood /\ PlanGood /\ MarkGood
    BY DEF IInv
  <2>2. Shapes'  BY <1>1, ShapesStep
  <2>3. JobsGood'  BY <1>1, <2>1, GoodStep
  <2>4. LiveIsLast'  BY <1>1, <2>1, LastStep
  <2>5. RecordsGood'  BY <1>1, <2>1, RecordsStep
  <2>6. EditGood'  BY <1>1, <2>1, EditStep
  <2>7. FilesGood'  BY <1>1, <2>1, FilesStep
  <2>8. PlanGood'  BY <1>1, <2>1, PlanStep
  <2>9. MarkGood'  BY <1>1, <2>1, MarkStep
  <2> QED  BY <2>2, <2>3, <2>4, <2>5, <2>6, <2>7, <2>8, <2>9 DEF IInv
<1>2. CASE UNCHANGED vars  BY <1>2, InvStill
<1> QED  BY <1>1, <1>2

\* The variables keep their types, a record names its job, and a job that is on
\* the way is known to the queue and has an owner.
LEMMA TypeHolds == ASSUME IInv PROVE TypeOK
<1>1. Shapes /\ JobsGood /\ RecordsGood /\ EditGood  BY DEF IInv
<1>2. rule.on \in {"on", "off", "invalid"} /\ due \in BOOLEAN /\ gone \subseteq Roms
  BY <1>1 DEF Shapes, RuleSet
<1>3. ASSUME NEW r \in Roms, conv[r] # NoRecord
      PROVE  conv[r].job \in DOMAIN jobs /\ conv[r].done \in {"unknown", "yes", "no"}
  <2>1. conv[r] \in Records  BY <1>1, <1>3 DEF Shapes
  <2> QED  BY <1>1, <1>3, <2>1 DEF RecordsGood, RecordOf, Records
<1>4. ASSUME NEW j \in DOMAIN jobs
      PROVE  /\ jobs[j].rom \in Roms /\ jobs[j].out \in Outs
             /\ jobs[j].told \in {"no", "waiting", "told", "failed", "lost"}
             /\ Live(j) => j \in known /\ j \in owners
  BY <1>1, JobIds DEF Shapes, JobsGood, Job
<1>5. known \cup owners \subseteq DOMAIN jobs /\ late \subseteq DOMAIN jobs  BY <1>1 DEF Shapes
<1>6. sw.pc \in {"idle", "snapshot", "choose", "queue", "mark", "record"}
  BY <1>1 DEF Shapes, Sweeps, Stages
<1>7. edit # None => sw.pc = "idle"  BY <1>1 DEF EditGood
<1> QED  BY <1>2, <1>3, <1>4, <1>5, <1>6, <1>7 DEF TypeOK

\* Whatever sweeps, jobs, operators, faults and crashes do, what the records, the
\* plan of a sweep, a half-saved rule and the output files say of the jobs holds.
THEOREM InvAlways == Spec => []IInv
<1>1. Init => IInv  BY InvInit
<1>2. IInv /\ [Next]_vars => IInv'  BY InvStep
<1> QED  BY <1>1, <1>2, PTL DEF Spec

-----------------------------------------------------------------------------
\* What a sweep passes over as converted.

LEMMA PassedOver == ASSUME IInv PROVE PassedOverRightly
<1>0. Shapes /\ JobsGood /\ RecordsGood  BY DEF IInv
<1>1. ASSUME NEW r \in Roms, WasProduced(r)
      PROVE  /\ OutputIdentity(jobs[conv[r].job].rule) = OutputIdentity(rule)
             /\ \/ jobs[conv[r].job].out \in {"queued", "processing", "completed"}
                \/ jobs[conv[r].job].told # "told" /\ conv[r].job \notin known
  <2>1. conv[r] # NoRecord  BY <1>1 DEF WasProduced
  <2>2. PICK rec \in Records : rec = conv[r]  BY <1>0, <2>1 DEF Shapes
  <2>3. RecordOf(r, rec)  BY <1>0, <2>1, <2>2 DEF RecordsGood
  <2>4. rec.done \in {"unknown", "yes", "no"}  BY DEF Records
  <2>5. PICK j \in DOMAIN jobs : j = rec.job  BY <2>3 DEF RecordOf
  <2>6. jobs[j] \in Job  BY <1>0, JobIds DEF Shapes
  <2>7. OutputIdentity(jobs[j].rule) = OutputIdentity(rule)  BY <2>3, <2>5 DEF RecordOf
  <2>8. \/ jobs[j].out \in {"queued", "processing", "completed"}
        \/ jobs[j].told # "told" /\ j \notin known
    <3>1. CASE rec.done # "unknown"
      <4>1. rec.done = "yes"  BY <1>1, <2>2, <3>1 DEF WasProduced
      <4> QED  BY <2>3, <2>5, <4>1 DEF RecordOf
    <3>2. CASE rec.done = "unknown" /\ j \in known
      BY <1>1, <2>2, <2>5, <3>2 DEF WasProduced
    <3>3. CASE rec.done = "unknown" /\ j \notin known
      BY <2>3, <2>5, <3>3 DEF RecordOf
    <3> QED  BY <3>1, <3>2, <3>3
  <2> QED  BY <2>2, <2>5, <2>7, <2>8
<1>2. ASSUME sw.pc = "choose", NEW r \in sw.todo PROVE r \in Roms
  BY <1>0 DEF Shapes, Sweeps
<1> QED  BY <1>1, <1>2 DEF PassedOverRightly, NotMistaken, RightTarget

\* What a sweep passes over as converted has a conversion of this ROM for this
\* target that is under way or completed, unless how it ended was not written
\* down and the queue has forgotten the job (_was_produced).
THEOREM PassedOverRightlyAlways == Spec => []PassedOverRightly
<1>1. IInv => PassedOverRightly  BY PassedOver
<1> QED  BY <1>1, InvAlways, PTL

-----------------------------------------------------------------------------
\* ROMs with outputs of their own.

\* A job writes its own output, and while it is on the way.
DiskMoves ==
    \A p : \/ At(p)' = At(p)
           \/ \E j \in DOMAIN jobs :
                Live(j) /\ jobs[j].path = p /\ (At(p)' = Absent \/ At(p)'.job = j)

\* A job that completes has written its output.
OutsMove ==
    \A i \in DOMAIN jobs' : \A p : jobs'[i].out = "completed" /\ p = jobs'[i].path =>
        /\ i \in DOMAIN jobs /\ jobs[i].path = p
        /\ jobs[i].out = "completed" \/ At(p)'.job = i

\* A source goes when its job completes, with the output wholly written.
SourcesMove ==
    \A r \in gone' : r \notin gone =>
        \E j \in DOMAIN jobs : jobs'[j].rom = r /\ j # 0 /\
            \E p \in DOMAIN file' : file'[p] = [job |-> j, whole |-> TRUE]

LEMMA EndMoves ==
    ASSUME Shapes, JobsGood, NEW j \in DOMAIN jobs, JobCompletes(j) \/ JobFails(j)
    PROVE  DiskMoves /\ OutsMove /\ SourcesMove
<1>1. Live(j)  BY DEF JobCompletes, JobFails, Live
<1>2. PICK out \in {"completed", "failed"},
           c \in {[job |-> j, whole |-> TRUE], At(jobs[j].path)} \cup Left(j) :
             /\ Ended(j, out, c) /\ (out = "completed" => c = [job |-> j, whole |-> TRUE])
             /\ gone' = gone \/ (gone' = gone \cup {jobs[j].rom} /\ out = "completed")
  BY DEF JobCompletes, JobFails
<1>3. /\ JobsMove /\ jobs'[j].out = out
      /\ \A i \in DOMAIN jobs : i # j => jobs'[i] = jobs[i]
  BY <1>1, <1>2, EndedGives
<1>4. PICK q : q = jobs[j].path  OBVIOUS
<1>5. c \in Contents /\ (c = At(q) \/ c = Absent \/ c.job = j) /\ q \in Paths
  <2>1. CASE c = [job |-> j, whole |-> TRUE]
    <3>1. c.job = j  BY <2>1
    <3> QED  BY <1>4, <2>1, <3>1, ContentType
  <2>2. CASE c = At(jobs[j].path)  BY <1>4, <2>2, ContentType
  <2>3. CASE c \in Left(j)  BY <1>4, <2>3, ContentType
  <2> QED  BY <1>2, <2>1, <2>2, <2>3
<1>6. file' = Put(q, c)  BY <1>2, <1>4 DEF Ended
<1>7. /\ At(q)' = c /\ (q \in DOMAIN file' => file'[q] = c) /\ (c # Absent => q \in DOMAIN file')
      /\ \A p : p # q => At(p)' = At(p)
  <2>1. file \in [DOMAIN file -> Contents] /\ DOMAIN file \subseteq Paths  BY DEF Shapes
  <2> QED  BY <1>5, <1>6, <2>1, PutFile
<1>8. j \in Nat \ {0}  BY JobIds DEF Shapes
<1>9. DiskMoves
  <2>1. ASSUME NEW p
        PROVE  \/ At(p)' = At(p)
               \/ \E i \in DOMAIN jobs :
                    Live(i) /\ jobs[i].path = p /\ (At(p)' = Absent \/ At(p)'.job = i)
    <3>1. CASE p = q  BY <1>1, <1>4, <1>5, <1>7, <3>1
    <3>2. CASE p # q  BY <1>7, <3>2
    <3> QED  BY <3>1, <3>2
  <2> QED  BY <2>1 DEF DiskMoves
<1>10. OutsMove
  <2>1. ASSUME NEW i \in DOMAIN jobs', NEW p, jobs'[i].out = "completed", p = jobs'[i].path
        PROVE  /\ i \in DOMAIN jobs /\ jobs[i].path = p
               /\ jobs[i].out = "completed" \/ At(p)'.job = i
    <3>1. i \in DOMAIN jobs /\ jobs[i].path = p  BY <1>3, <2>1 DEF JobsMove
    <3>2. CASE i # j  BY <1>3, <2>1, <3>1, <3>2
    <3>3. CASE i = j
      <4>1. c = [job |-> j, whole |-> TRUE] /\ p = q  BY <1>2, <1>3, <1>4, <2>1, <3>1, <3>3
      <4>2. c.job = j  BY <4>1
      <4> QED  BY <1>7, <3>1, <3>3, <4>1, <4>2
    <3> QED  BY <3>2, <3>3
  <2> QED  BY <2>1 DEF OutsMove
<1>11. SourcesMove
  <2>1. ASSUME NEW r \in gone', r \notin gone
        PROVE  \E i \in DOMAIN jobs : jobs'[i].rom = r /\ i # 0 /\
                 \E p \in DOMAIN file' : file'[p] = [job |-> i, whole |-> TRUE]
    <3>1. r = jobs[j].rom /\ c = [job |-> j, whole |-> TRUE]  BY <1>2, <2>1
    <3>2. jobs'[j].rom = r  BY <1>3, <3>1 DEF JobsMove
    <3>3. c # Absent  BY <3>1 DEF Absent
    <3> QED  BY <1>7, <1>8, <3>1, <3>2, <3>3
  <2> QED  BY <2>1 DEF SourcesMove
<1> QED  BY <1>9, <1>10, <1>11

LEMMA CrashMoves ==
    ASSUME Shapes, Crash
    PROVE  DiskMoves /\ OutsMove /\ SourcesMove
<1>1. /\ \A p \in DOMAIN file' :
                \/ p \in DOMAIN file /\ file'[p] = file[p]
                \/ \E j \in DOMAIN jobs : Live(j) /\ jobs[j].path = p /\ file'[p].job = j
      /\ \A p \in DOMAIN file : p \in DOMAIN file'
  BY CrashDisk
<1>2. JobsMove /\ \A i \in DOMAIN jobs : jobs'[i].out = (IF Live(i) THEN "killed" ELSE jobs[i].out)
  BY CrashGives
<1>3. DiskMoves  BY <1>1 DEF DiskMoves, At
<1>4. OutsMove  BY <1>2 DEF OutsMove, JobsMove
<1>5. SourcesMove  BY DEF SourcesMove, Crash
<1> QED  BY <1>3, <1>4, <1>5

LEMMA Moves ==
    ASSUME Shapes, JobsGood, Next
    PROVE  DiskMoves /\ OutsMove /\ SourcesMove
<1> USE DEF store, disk, memory, bounds
<1>1. ASSUME file' = file, gone' = gone,
             \A i \in DOMAIN jobs' : jobs'[i].out = "completed" =>
                i \in DOMAIN jobs /\ jobs[i].path = jobs'[i].path /\ jobs[i].out = "completed"
      PROVE  DiskMoves /\ OutsMove /\ SourcesMove
  BY <1>1 DEF DiskMoves, OutsMove, SourcesMove, At
<1>2. ASSUME NEW j \in DOMAIN jobs, JobCompletes(j) \/ JobFails(j)
      PROVE  DiskMoves /\ OutsMove /\ SourcesMove
  BY <1>2, EndMoves
<1>3. CASE Crash  BY <1>3, CrashMoves
<1>4. CASE Queue
  <2>1. /\ DOMAIN jobs' = DOMAIN jobs \cup NewIds
        /\ \A i \in DOMAIN jobs : jobs'[i] = jobs[i]
        /\ \A i \in NewIds : jobs'[i].out = "queued"
    BY <1>4, QueueGives
  <2>2. file' = file /\ gone' = gone  BY <1>4 DEF Queue
  <2> QED  BY <1>1, <2>1, <2>2
<1>5. ASSUME NEW j \in DOMAIN jobs, JobStarts(j)
      PROVE  DiskMoves /\ OutsMove /\ SourcesMove
  <2>1. /\ JobsMove /\ jobs'[j].out = "processing"
        /\ \A i \in DOMAIN jobs : i # j => jobs'[i] = jobs[i]
    BY <1>5, StartsGives
  <2> QED  BY <1>1, <1>5, <2>1 DEF JobStarts, JobsMove
<1>6. ASSUME NEW j \in DOMAIN jobs, NoteLands(j)
      PROVE  DiskMoves /\ OutsMove /\ SourcesMove
  <2>1. /\ JobsMove /\ jobs'[j].out = jobs[j].out
        /\ \A i \in DOMAIN jobs : i # j => jobs'[i] = jobs[i]
    BY <1>6, NoteGives
  <2> QED  BY <1>1, <1>6, <2>1 DEF NoteLands, JobsMove
<1>13. ASSUME NEW j \in DOMAIN jobs, NoteFails(j)
       PROVE  DiskMoves /\ OutsMove /\ SourcesMove
  <2>1. /\ JobsMove /\ jobs'[j].out = jobs[j].out
        /\ \A i \in DOMAIN jobs : i # j => jobs'[i] = jobs[i]
    BY <1>13, NoteFailsGives
  <2> QED  BY <1>1, <1>13, <2>1 DEF NoteFails, JobsMove
<1>7. ASSUME NEW j \in DOMAIN jobs, Prune(j) PROVE DiskMoves /\ OutsMove /\ SourcesMove
  BY <1>1, <1>7 DEF Prune
<1>8. ASSUME NEW rl \in Rules, NEW answered \in BOOLEAN, SetRules(rl, answered)
      PROVE  DiskMoves /\ OutsMove /\ SourcesMove
  BY <1>1, <1>8 DEF SetRules
<1>9. ASSUME NEW kind, Begin(kind) PROVE DiskMoves /\ OutsMove /\ SourcesMove
  BY <1>1, <1>9 DEF Begin
<1>10. ASSUME NEW r, Inspect(r) \/ Unreadable(r) PROVE DiskMoves /\ OutsMove /\ SourcesMove
  BY <1>1, <1>10 DEF Inspect, Unreadable
<1>11. CASE SaveRules \/ SaveFails \/ Forget \/ IntervalElapses \/ ReadHistory \/ Choose \/ Refused
  BY <1>1, <1>11 DEF SaveRules, SaveFails, Forget, IntervalElapses, ReadHistory, Choose, Refused
<1>12. CASE RecordRun \/ Unresponsive \/ Mark \/ MarkFails \/ Aborts
  BY <1>1, <1>12 DEF RecordRun, Unresponsive, Mark, MarkFails, Aborts
<1> QED
  BY <1>2, <1>3, <1>4, <1>5, <1>6, <1>7, <1>8, <1>9, <1>10, <1>11, <1>12, <1>13
     DEF Next, Sweeping

\* The output of a ROM changes only by a job of that ROM, the last it has.
LEMMA OwnOutput ==
    ASSUME OneOutputEach, Shapes, JobsGood, LiveIsLast, DiskMoves,
           NEW i \in DOMAIN jobs, NEW p, p = jobs[i].path
    PROVE  \/ At(p)' = At(p)
           \/ \E j \in DOMAIN jobs :
                Live(j) /\ jobs[j].rom = jobs[i].rom /\ i <= j /\ (At(p)' = Absent \/ At(p)'.job = j)
<1>1. CASE At(p)' # At(p)
  <2>1. PICK j \in DOMAIN jobs : Live(j) /\ jobs[j].path = p /\ (At(p)' = Absent \/ At(p)'.job = j)
    BY <1>1 DEF DiskMoves
  <2>2. /\ jobs[i].rom \in Roms /\ jobs[j].rom \in Roms
        /\ p \in PathsOf(jobs[i].rom) /\ p \in PathsOf(jobs[j].rom)
    BY <2>1, JobIds DEF Shapes, JobsGood, Job
  <2>3. jobs[j].rom = jobs[i].rom  BY <2>2, PathsApart
  <2>4. i <= j  BY <2>1, <2>3 DEF LiveIsLast
  <2> QED  BY <2>1, <2>3, <2>4
<1> QED  BY <1>1

LEMMA ProductsStep ==
    ASSUME OneOutputEach, IInv, ProductsStay, Next
    PROVE  ProductsStay'
<1>0. Shapes /\ JobsGood /\ LiveIsLast  BY DEF IInv
<1>1. DiskMoves /\ OutsMove  BY <1>0, Moves
<1> SUFFICES ASSUME NEW i \in DOMAIN jobs', jobs'[i].out = "completed", NEW p, p = jobs'[i].path
             PROVE  At(p)' = Absent \/ At(p)'.job >= i
  BY DEF ProductsStay, At
<1>2. i \in DOMAIN jobs /\ jobs[i].path = p /\ (jobs[i].out = "completed" \/ At(p)'.job = i)
  BY <1>1 DEF OutsMove
<1>3. \A j \in DOMAIN jobs : j \in Nat  BY <1>0, JobIds DEF Shapes
<1>4. CASE At(p)'.job = i  BY <1>2, <1>3, <1>4
<1>5. CASE jobs[i].out = "completed"
  <2>1. At(p) = Absent \/ At(p).job >= i  BY <1>2, <1>5 DEF ProductsStay
  <2>2. \/ At(p)' = At(p)
        \/ \E j \in DOMAIN jobs :
             Live(j) /\ jobs[j].rom = jobs[i].rom /\ i <= j /\ (At(p)' = Absent \/ At(p)'.job = j)
    BY <1>0, <1>1, <1>2, OwnOutput
  <2> QED  BY <1>2, <1>3, <2>1, <2>2
<1> QED  BY <1>2, <1>4, <1>5

-----------------------------------------------------------------------------
\* Nothing is converted twice.

\* What the rule asks of a ROM that is chosen.
TwiceOf(r, rec) ==
    rec # NoRecord => /\ jobs[rec.job].out # "completed" \/ At(rec.path) = Absent
                      /\ ~Live(rec.job)

\* A ROM that was not produced may be chosen: a conversion that completed, and
\* whose output is there, has left something else than was there before it.
LEMMA NotProduced ==
    ASSUME IInv, ProductsStay, NEW r \in Roms, ~WasProduced(r)
    PROVE  TwiceOf(r, conv[r])
<1>0. Shapes /\ JobsGood /\ RecordsGood  BY DEF IInv
<1> SUFFICES ASSUME conv[r] # NoRecord
             PROVE  /\ jobs[conv[r].job].out # "completed" \/ At(conv[r].path) = Absent
                    /\ ~Live(conv[r].job)
  BY DEF TwiceOf
<1>1. PICK rec \in Records : rec = conv[r]  BY <1>0 DEF Shapes
<1>2. RecordOf(r, rec)  BY <1>0, <1>1 DEF RecordsGood
<1>3. PICK j \in DOMAIN jobs : j = rec.job /\ rec.path = jobs[j].path /\ rec.pre.job < j
  BY <1>2 DEF RecordOf
<1>4. rec.done \in {"unknown", "yes", "no"} /\ rec.pre \in Contents  BY DEF Records
<1>5. rec.done # "yes"
  BY <1>1, <1>2 DEF WasProduced, RecordOf
<1>6. CASE rec.done = "no"
  <2>1. jobs[j].out \in {"failed", "killed"}  BY <1>2, <1>3, <1>6 DEF RecordOf
  <2> QED  BY <1>1, <1>3, <2>1 DEF Live
<1>7. CASE rec.done = "unknown"
  <2>1. rule.policy # "skip"  BY <1>2 DEF RecordOf
  <2>2. CASE j \in known
    <3>1. jobs[j].out \notin {"queued", "processing", "completed"}
      BY <1>1, <1>3, <1>7, <2>1, <2>2 DEF WasProduced
    <3> QED  BY <1>1, <1>3, <3>1 DEF Live
  <2>3. CASE j \notin known
    <3>1. ~Live(j)  BY <1>0, <2>3 DEF JobsGood
    <3>2. At(rec.path) = rec.pre  BY <1>1, <1>3, <1>7, <2>1, <2>3 DEF WasProduced
    <3>3. jobs[j].out = "completed" => At(rec.path) = Absent \/ rec.pre.job >= j
      BY <1>3, <3>2 DEF ProductsStay
    <3>4. j \in Nat /\ rec.pre.job \in Nat  BY <1>0, <1>4, JobIds DEF Shapes, Contents
    <3>5. ~(rec.pre.job >= j)  BY <1>3, <3>4
    <3> QED  BY <1>1, <1>3, <3>1, <3>3, <3>5
  <2> QED  BY <2>2, <2>3
<1> QED  BY <1>4, <1>5, <1>6, <1>7

\* What is chosen has no job on the way, so nothing happens to its output.
LEMMA TwiceKept ==
    ASSUME OneOutputEach, IInv, JobsMove, DiskMoves, NEW r \in Roms, NEW c, ChoiceOf(r, c),
           NEW rec, rec = conv[r], TwiceOf(r, rec)
    PROVE  TwiceOf(r, rec)'
<1>0. Shapes /\ JobsGood /\ LiveIsLast /\ RecordsGood  BY DEF IInv
<1>1. CASE rec # NoRecord
  <2>1. RecordOf(r, rec)  BY <1>0, <1>1 DEF RecordsGood
  <2>2. PICK j \in DOMAIN jobs : j = rec.job /\ jobs[j].rom = r /\ rec.path = jobs[j].path
    BY <2>1 DEF RecordOf
  <2>3. ~Live(j)  BY <2>2 DEF ChoiceOf
  <2>4. jobs'[j].out = jobs[j].out /\ ~Live(j)'  BY <2>3 DEF JobsMove
  <2>5. PICK p : p = rec.path  OBVIOUS
  <2>6. At(p)' = At(p)
    <3>1. \/ At(p)' = At(p)
          \/ \E i \in DOMAIN jobs :
               Live(i) /\ jobs[i].rom = jobs[j].rom /\ j <= i /\ (At(p)' = Absent \/ At(p)'.job = i)
      BY <1>0, <2>2, <2>5, OwnOutput
    <3> QED  BY <2>2, <3>1 DEF ChoiceOf
  <2>7. jobs[j].out # "completed" \/ At(p) = Absent  BY <1>1, <2>2, <2>5 DEF TwiceOf
  <2> QED  BY <2>2, <2>4, <2>5, <2>6, <2>7 DEF TwiceOf, At, Live
<1>2. CASE rec = NoRecord  BY <1>2 DEF TwiceOf
<1> QED  BY <1>1, <1>2

\* The sweep goes on choosing or queueing with what it has, and the record stays.
LEMMA TwiceSame ==
    ASSUME OneOutputEach, IInv, NothingTwice, JobsMove, DiskMoves, conv' = conv,
           sw'.pc \in {"choose", "queue"} => sw.pc \in {"choose", "queue"},
           \A r \in DOMAIN sw'.plan : r \in DOMAIN sw.plan
    PROVE  NothingTwice'
<1> SUFFICES ASSUME sw'.pc \in {"choose", "queue"}, NEW r \in DOMAIN sw'.plan
             PROVE  TwiceOf(r, conv[r])'
  BY DEF NothingTwice, TwiceOf
<1>1. r \in DOMAIN sw.plan /\ sw.pc \in {"choose", "queue"}  OBVIOUS
<1>2. r \in Roms  BY <1>1 DEF IInv, Shapes
<1>3. PICK rec : rec = conv[r]  OBVIOUS
<1>4. PICK c : c = sw.plan[r]  OBVIOUS
<1>5. TwiceOf(r, rec) /\ ChoiceOf(r, c)
  BY <1>1, <1>3, <1>4 DEF NothingTwice, TwiceOf, IInv, PlanGood
<1>6. TwiceOf(r, rec)'  BY <1>2, <1>3, <1>5, TwiceKept
<1> QED  BY <1>3, <1>6 DEF TwiceOf

LEMMA TwiceInspect ==
    ASSUME OneOutputEach, IInv, ProductsStay, NothingTwice, NEW r \in Roms, Inspect(r)
    PROVE  NothingTwice'
<1> USE DEF store, disk, memory, bounds
<1>1. /\ conv' = conv /\ jobs' = jobs /\ file' = file /\ sw.pc = "choose" /\ sw \in Sweeps
  BY DEF Inspect, IInv, Shapes
<1>2. CASE sw' = [sw EXCEPT !.todo = @ \ {r}]
  <2>1. sw'.pc = "choose" /\ sw'.plan = sw.plan  BY <1>1, <1>2 DEF Sweeps
  <2> QED  BY <1>1, <2>1 DEF NothingTwice, At, Live
<1>3. CASE \E p \in Chosen(r) :
            sw' = [sw EXCEPT !.todo = @ \ {r},
                     !.plan = [s \in DOMAIN sw.plan \cup {r} |->
                        IF s = r THEN [path |-> p, pre |-> At(p)] ELSE sw.plan[s]]]
  <2>1. ~WasProduced(r)  BY <1>3 DEF Chosen
  <2>2. DOMAIN sw'.plan = DOMAIN sw.plan \cup {r}  BY <1>1, <1>3 DEF Sweeps
  <2>3. TwiceOf(r, conv[r])  BY <2>1, NotProduced
  <2>4. ASSUME NEW s \in DOMAIN sw'.plan PROVE TwiceOf(s, conv[s])
    <3>1. CASE s = r  BY <2>3, <3>1
    <3>2. CASE s \in DOMAIN sw.plan  BY <1>1, <3>2 DEF NothingTwice, TwiceOf
    <3> QED  BY <2>2, <3>1, <3>2
  <2> QED  BY <1>1, <2>4 DEF NothingTwice, TwiceOf, At, Live
<1> QED  BY <1>2, <1>3 DEF Inspect

LEMMA TwiceStep ==
    ASSUME OneOutputEach, IInv, ProductsStay, NothingTwice, Next
    PROVE  NothingTwice'
<1> USE DEF store, disk, memory, bounds
<1>0. Shapes /\ JobsGood /\ EditGood /\ PlanGood /\ sw \in Sweeps  BY DEF IInv, Shapes
<1>1. DiskMoves  BY <1>0, Moves
<1>2. ASSUME sw'.pc \notin {"choose", "queue"} PROVE NothingTwice'
  BY <1>2 DEF NothingTwice
<1>3. ASSUME JobsMove, sw' = sw, conv' = conv PROVE NothingTwice'
  BY <1>1, <1>3, TwiceSame
<1>4. ASSUME NEW j \in DOMAIN jobs,
             JobStarts(j) \/ JobCompletes(j) \/ JobFails(j) \/ Prune(j) \/ NoteLands(j) \/ NoteFails(j)
      PROVE  NothingTwice'
  <2>1. JobsMove
    <3>1. sw' = sw
      BY <1>4 DEF JobStarts, JobCompletes, JobFails, Ended, Prune, NoteLands, NoteFails
    <3>2. Queue => sw' # sw  BY <1>0 DEF Queue, Recording, Sweeps
    <3> QED  BY <1>0, <3>1, <3>2, MoveOrQueue
  <2>2. CASE NoteLands(j)
    <3>1. sw' = sw /\ sw.pc = "idle"  BY <2>2 DEF NoteLands, LockFree
    <3> QED  BY <1>2, <3>1
  <2>3. CASE ~NoteLands(j)
    <3>1. sw' = sw /\ conv' = conv
      BY <1>4, <2>3 DEF JobStarts, JobCompletes, JobFails, Ended, Prune, NoteFails
    <3> QED  BY <1>3, <2>1, <3>1
  <2> QED  BY <2>2, <2>3
<1>5. ASSUME NEW rl \in Rules, NEW answered \in BOOLEAN, SetRules(rl, answered) PROVE NothingTwice'
  <2>1. sw' = sw /\ sw.pc = "idle"  BY <1>5 DEF SetRules, LockFree
  <2> QED  BY <1>2, <2>1
<1>6. CASE Forget \/ SaveRules \/ SaveFails
  <2>1. sw' = sw /\ sw.pc = "idle"
    BY <1>0, <1>6 DEF Forget, LockFree, SaveRules, SaveFails, EditGood
  <2> QED  BY <1>2, <2>1
<1>7. CASE IntervalElapses
  <2>1. jobs' = jobs /\ conv' = conv /\ sw' = sw  BY <1>7 DEF IntervalElapses
  <2>2. JobsMove  BY <1>0, <2>1 DEF JobsMove, Live, Shapes
  <2> QED  BY <1>3, <2>1, <2>2
<1>8. ASSUME NEW kind, Begin(kind) PROVE NothingTwice'
  <2>1. sw'.pc = "snapshot"  BY <1>8 DEF Begin, NoSweep
  <2> QED  BY <1>2, <2>1
<1>9. CASE ReadHistory
  <2>1. sw'.plan = sw.plan  BY <1>0, <1>9 DEF ReadHistory, Sweeps
  <2>2. DOMAIN sw.plan = {}  BY <1>0, <1>9 DEF ReadHistory, PlanGood
  <2> QED  BY <2>1, <2>2 DEF NothingTwice
<1>10. ASSUME NEW r \in Roms, Inspect(r) PROVE NothingTwice'
  BY <1>10, TwiceInspect
<1>11. ASSUME sw' = NoSweep \/ sw' = Recording PROVE NothingTwice'
  <2>1. SweepShape  BY <1>0 DEF SweepShape, Shapes
  <2>2. sw'.pc \in {"idle", "record"}  BY <1>11, <2>1, IdleShape, RecordingShape
  <2> QED  BY <1>2, <2>2
<1>12. ASSUME conv' = conv, jobs' = jobs,
              sw'.pc \in {"choose", "queue"} => sw.pc \in {"choose", "queue"},
              \A r \in DOMAIN sw'.plan : r \in DOMAIN sw.plan
       PROVE  NothingTwice'
  <2>1. JobsMove  BY <1>0, <1>12 DEF JobsMove, Live, Shapes
  <2> QED  BY <1>1, <1>12, <2>1, TwiceSame
<1>13. CASE Unresponsive
  <2>1. sw.pc = "choose" /\ sw'.plan = sw.plan /\ conv' = conv /\ jobs' = jobs
    BY <1>0, <1>13 DEF Unresponsive, Sweeps
  <2> QED  BY <1>12, <2>1
<1>14. CASE Choose
  <2>1. CASE sw' = [sw EXCEPT !.pc = "queue", !.todo = {}, !.active = {}]
    <3>1. sw.pc = "choose" /\ sw'.plan = sw.plan /\ conv' = conv /\ jobs' = jobs
      BY <1>0, <1>14, <2>1 DEF Choose, Sweeps
    <3> QED  BY <1>12, <3>1
  <2> QED  BY <1>11, <1>14, <2>1 DEF Choose
<1>15. ASSUME NEW r \in Roms, Unreadable(r) PROVE NothingTwice'
  <2>1. CASE sw' = [sw EXCEPT !.plan = [s \in DOMAIN sw.plan \ {r} |-> sw.plan[s]]]
    <3>1. /\ sw.pc = "queue" /\ conv' = conv /\ jobs' = jobs
          /\ DOMAIN sw'.plan = DOMAIN sw.plan \ {r}
      BY <1>0, <1>15, <2>1 DEF Unreadable, Sweeps
    <3> QED  BY <1>12, <3>1
  <2> QED  BY <1>11, <1>15, <2>1 DEF Unreadable
<1>16. CASE Queue
  <2>1. CASE sw' = [sw EXCEPT !.pc = "mark"]
    <3>1. sw'.pc = "mark"  BY <1>0, <2>1 DEF Sweeps
    <3> QED  BY <1>2, <3>1
  <2> QED  BY <1>11, <1>16, <2>1 DEF Queue
<1>17. CASE Refused \/ Mark \/ MarkFails \/ RecordRun \/ Aborts \/ Crash
  BY <1>11, <1>17 DEF Refused, Mark, MarkFails, RecordRun, Aborts, Crash
<1> QED
  BY <1>4, <1>5, <1>6, <1>7, <1>8, <1>9, <1>10, <1>13, <1>14, <1>15, <1>16, <1>17 DEF Next, Sweeping

-----------------------------------------------------------------------------
\* A deleted source has its conversion on the disk.

LEMMA SourceStep ==
    ASSUME OneOutputEach, IInv, NoSourceLost, Next
    PROVE  NoSourceLost'
<1>0. Shapes /\ JobsGood /\ LiveIsLast /\ FilesGood  BY DEF IInv
<1>1. DiskMoves /\ SourcesMove  BY <1>0, Moves
<1>2. DOMAIN jobs \subseteq DOMAIN jobs' /\ \A i \in DOMAIN jobs : jobs'[i].rom = jobs[i].rom
  BY <1>0, MoveOrQueue, QueueGives DEF JobsMove
<1> SUFFICES ASSUME NEW r \in gone'
             PROVE  \E p \in DOMAIN file' :
                      file'[p].whole /\ file'[p].job # 0 /\ jobs'[file'[p].job].rom = r
  BY DEF NoSourceLost
<1>3. CASE r \in gone
  <2>1. PICK p \in DOMAIN file : file[p].whole /\ file[p].job # 0 /\ jobs[file[p].job].rom = r
    BY <1>3 DEF NoSourceLost
  <2>2. PICK i \in DOMAIN jobs : i = file[p].job /\ jobs[i].path = p /\ jobs[i].rom = r
    BY <1>0, <2>1 DEF FilesGood
  <2>3. At(p)' = At(p)
    <3>1. \/ At(p)' = At(p)
          \/ \E j \in DOMAIN jobs :
               Live(j) /\ jobs[j].rom = jobs[i].rom /\ i <= j /\ (At(p)' = Absent \/ At(p)'.job = j)
      BY <1>0, <1>1, <2>2, OwnOutput
    <3>2. \A j \in DOMAIN jobs : jobs[j].rom = r => ~Live(j)  BY <1>0, <1>3 DEF JobsGood
    <3> QED  BY <2>2, <3>1, <3>2
  <2>4. At(p) = file[p] /\ At(p) # Absent  BY <2>1 DEF At, Absent
  <2>5. p \in DOMAIN file' /\ file'[p] = file[p]  BY <2>3, <2>4 DEF At
  <2> QED  BY <1>2, <2>1, <2>2, <2>5
<1>4. CASE r \notin gone
  <2>1. PICK j \in DOMAIN jobs : jobs'[j].rom = r /\ j # 0 /\
            \E p \in DOMAIN file' : file'[p] = [job |-> j, whole |-> TRUE]
    BY <1>4, <1>1 DEF SourcesMove
  <2>2. PICK p \in DOMAIN file' : file'[p] = [job |-> j, whole |-> TRUE]  BY <2>1
  <2>3. file'[p].whole /\ file'[p].job = j  BY <2>2
  <2> QED  BY <2>1, <2>3
<1> QED  BY <1>3, <1>4

-----------------------------------------------------------------------------
\* When no two ROMs lead to one output.

LEMMA ApartInit == ASSUME Init PROVE ProductsStay /\ NothingTwice /\ NoSourceLost
<1>1. jobs = <<>> /\ gone = {}  BY DEF Init
<1>2. sw.pc = "idle"  BY DEF Init, NoSweep
<1> QED  BY <1>1, <1>2 DEF ProductsStay, NothingTwice, NoSourceLost

LEMMA ApartStill ==
    ASSUME ProductsStay, NothingTwice, NoSourceLost, UNCHANGED vars
    PROVE  (ProductsStay /\ NothingTwice /\ NoSourceLost)'
BY DEF ProductsStay, NothingTwice, NoSourceLost, vars, At, Live

LEMMA ApartAlways == OneOutputEach => (Spec => [](IInv /\ ProductsStay /\ NothingTwice /\ NoSourceLost))
<1> SUFFICES ASSUME OneOutputEach PROVE Spec => [](IInv /\ ProductsStay /\ NothingTwice /\ NoSourceLost)
  OBVIOUS
<1> DEFINE AInv == IInv /\ ProductsStay /\ NothingTwice /\ NoSourceLost
<1>1. Init => AInv  BY InvInit, ApartInit
<1>2. AInv /\ [Next]_vars => AInv'
  <2> SUFFICES ASSUME IInv, ProductsStay, NothingTwice, NoSourceLost, [Next]_vars PROVE AInv'
    OBVIOUS
  <2>1. IInv'  BY InvStep
  <2>2. CASE Next  BY <2>1, <2>2, ProductsStep, TwiceStep, SourceStep
  <2>3. CASE UNCHANGED vars  BY <2>1, <2>3, ApartStill
  <2> QED  BY <2>2, <2>3
<1> QED  BY <1>1, <1>2, PTL DEF Spec

\* When no two ROMs of the platform lead to one output, a rule never queues a ROM
\* again whose recorded conversion is on the way, or completed and is still
\* there: the record, with what was at the destination before, is enough
\* (_mark_converted, _was_produced).
THEOREM RecordInvAlways == OneOutputEach => (Spec => []RecordInv)
<1>1. IInv => TypeOK  BY TypeHolds
<1>2. NothingTwice => NoRepeat  BY DEF NothingTwice, NoRepeat
<1> QED  BY <1>1, <1>2, ApartAlways, PTL DEF RecordInv

\* When no two ROMs of the platform lead to one output, a source that was deleted
\* after a verified conversion has that conversion, or a later one of it, whole
\* on the disk.
THEOREM NoSourceLostAlways == OneOutputEach => (Spec => []NoSourceLost)
BY ApartAlways, PTL
=============================================================================
