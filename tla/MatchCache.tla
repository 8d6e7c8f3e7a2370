------------------------------ MODULE MatchCache ------------------------------
(***************************************************************************)
(* The DAT-match cache (routes/dat.py, services/dat_store.py, the library  *)
(* scan of routes/info.py, services/dat_sync.py).  A match                 *)
(* hashes a file, looks its hashes up in the imported DATs, and only then, *)
(* if the operator allows it, asks a remote server; its verdict becomes    *)
(* the path's row of the cache.  A row that names a game is served for     *)
(* good, so whatever makes a verdict stale must reach the row: a DAT       *)
(* import drops the rows the DATs produced and has the others matched      *)
(* again, locally, behind a match job that may be running.                 *)
(*                                                                         *)
(* Three matchers run beside each other: the job (one at a time, at        *)
(* _active_match_job_id), the scan (one at a time, at _is_scanning) and a  *)
(* batch request, which writes all its verdicts at its end.                *)
(*                                                                         *)
(* A session of the store reads before its transaction begins: the driver  *)
(* opens one at the first statement that writes.  So the checks a writer   *)
(* makes and its write are two steps here.  The write replaces the row; an *)
(* UPDATE leaves the columns that did not change, which tells only when a  *)
(* row was replaced between the two.  A request leaves at the last check:  *)
(* the thread it is handed to, and a cool-down in which nothing is sent    *)
(* and the answer is a failure, are not told apart from its reply.         *)
(***************************************************************************)
EXTENDS Integers, FiniteSets

CONSTANTS
    Paths,
    Kinds,              \* [path -> the kinds of hash its format has]
    DatSets,            \* the sets of hashes a DAT may list
    MaxDats,            \* bound: DATs imported
    MaxRuns,            \* bound: jobs, scans and batches asked for
    MaxEvents           \* bound: files changed, switches of the server, failed reads and
                        \* replies, stuck helpers, cancels, crashes

Versions == 1..(MaxEvents + 2)
Hashes   == Versions \X {"embedded", "file"}
Dats     == 1..MaxDats
ASSUME MatchCacheAssumption ==
    /\ IsFiniteSet(Paths) /\ DOMAIN Kinds = Paths
    /\ \A p \in Paths : Kinds[p] \in (SUBSET {"embedded", "file"}) \ {{}}
    /\ DatSets \subseteq SUBSET Hashes
    /\ MaxDats \in Nat \ {0} /\ MaxRuns \in Nat /\ MaxEvents \in Nat

Matchers == {"job", "scan", "batch"}
Changers == {"upload", "sync"}

VARIABLES
    file,      \* [path -> the version on disk; 0 when missing]
    dats,      \* the DATs imported
    index,     \* [hash -> the DAT that lists it; 0: none]  (DATHash)
    row,       \* [path -> its cached verdict]              (DATMatch)
    enabled,   \* whether the server may be asked
    pref,      \* the same, as saved
    m,         \* [matcher -> the match it is making]
    job,       \* the match job: paths to come, whether local only, why it stops
    scan,      \* the scan: paths to come, the rows it read at its start, and so on
    batch,     \* the batch: paths to come, verdicts held
    deferred,  \* _deferred_rematch_paths
    drains,    \* the deferred sets ended jobs are scheduling
    change,    \* [changer -> where a change of the DATs stands]
    lost,      \* ghost: [path -> why its rematch will not come]
    nextDat, runs, events

local  == <<dats, index, nextDat>>
toggle == <<enabled, pref>>
tasks  == <<job, scan, batch>>
queue  == <<deferred, drains>>
matchVars == <<file, dats, index, row, enabled, pref, m, job, scan, batch, deferred, drains,
               change, lost, nextDat, runs, events>>

Event == events < MaxEvents /\ events' = events + 1
Run   == runs < MaxRuns /\ runs' = runs + 1

-----------------------------------------------------------------------------
\* Verdicts and rows.

\* `cands' are the hashes a verdict was reached from; `asked' (a ghost) those
\* that were put to the server.
Verdict(v, cands) == [v |-> v, cands |-> cands, stamp |-> FALSE, asked |-> {}, hash |-> <<>>, dat |-> 0]
NoRow     == Verdict("none", {})
Hit(p, h) == [Verdict("dat", {}) EXCEPT !.hash = h, !.dat = index[h]]
Remote(cands, h)     == [Verdict("remote", cands) EXCEPT !.hash = h]
Stamped(cands, sent) == [Verdict("miss", cands) EXCEPT !.stamp = TRUE, !.asked = sent]
Cacheable(v) == v.v \in {"miss", "dat", "remote"}

\* The rows that owe nothing to the local DATs.
RemoteHit(r) == r.v = "remote"
Matched(r)   == r.v \in {"dat", "remote"}

Covered(hs) == \E h \in hs : index[h] # 0
\* Embedded hashes come before the file's own.
First(hs)     == CHOOSE h \in hs : h[2] = "file" => hs = {h}
LastAsked(hs) == CHOOSE h \in hs : h[2] = "embedded" => hs = {h}
Known(hs) == First({h \in hs : index[h] # 0})

Available  == dats # {} \/ enabled
Usable(r)  == Matched(r) \/ (r.v = "miss" /\ (~enabled \/ r.stamp))

-----------------------------------------------------------------------------
\* One match: _match_single_file and the passes under it.

NoMatch == [pc |-> "idle"]
Done(p, v) == [pc |-> "done", p |-> p, verdict |-> v]
LocalOnly(x) == x = "job" /\ job.local
Stopped(x)   == ~enabled \/ (x = "job" /\ job.stop = "cancel") \/ (x = "scan" /\ scan.cancelled)

\* Every local look-up comes before any remote one.
Asking(x, p, cands, capped) ==
    IF Covered(cands) THEN Done(p, Hit(p, Known(cands)))
    ELSE IF cands = {} \/ LocalOnly(x) THEN Done(p, Verdict(IF capped THEN "capped" ELSE "miss", cands))
    ELSE [pc |-> "send", p |-> p, cands |-> cands, capped |-> capped, asked |-> {}]
Hashing(p, cands) == [pc |-> "hash", p |-> p, cands |-> cands]

Embedded(x, p) ==
    LET e == IF "embedded" \in Kinds[p] THEN {<<file[p], "embedded">>} ELSE {}
    IN  IF Kinds[p] = {"embedded"} \/ Covered(e) THEN Asking(x, p, e, FALSE) ELSE Hashing(p, e)

\* The file is there, something can answer, and the format's own hashes are
\* read: from the file, or from metadata that may be out of date.  Without
\* evidence when the file is missing (a scan asks first whether anything can
\* answer), cannot be read, or holds a helper that cannot be killed.
OpenFile(x, p) ==
    \/ /\ file[p] = 0 /\ (x = "scan" => Available)
       /\ m' = [m EXCEPT ![x] = Done(p, Verdict(IF x = "scan" THEN "error" ELSE "absent", {}))]
       /\ UNCHANGED events
    \/ /\ ~Available /\ (file[p] # 0 \/ x = "scan")
       /\ m' = [m EXCEPT ![x] = Done(p, Verdict("miss", {}))]
       /\ UNCHANGED events
    \/ /\ file[p] # 0 /\ Available
       /\ m' = [m EXCEPT ![x] = Embedded(x, p)]
       /\ UNCHANGED events
    \/ /\ file[p] # 0 /\ Available /\ Event
       /\ \/ \E v \in {"error", "stuck"} : m' = [m EXCEPT ![x] = Done(p, Verdict(v, {}))]
          \/ "file" \in Kinds[p] /\ m' = [m EXCEPT ![x] = Hashing(p, {})]

\* The whole file is hashed, unless it is over the size cap.
HashFile(x) ==
    /\ m[x].pc = "hash"
    /\ LET p == m[x].p IN
       \/ /\ file[p] # 0
          /\ m' = [m EXCEPT ![x] = Asking(x, p, m[x].cands \cup {<<file[p], "file">>}, FALSE)]
          /\ UNCHANGED events
       \/ /\ file[p] # 0 /\ Event
          /\ m' = [m EXCEPT ![x] = Asking(x, p, m[x].cands, TRUE)]
       \/ /\ IF file[p] = 0 THEN UNCHANGED events ELSE Event
          /\ m' = [m EXCEPT ![x] = Done(p, Verdict("error", {}))]
    /\ UNCHANGED <<file, local, row, toggle, tasks, queue, change, lost, runs>>

\* _remote_lookup_match.  A pass that was stopped checked nothing.
Ended(x, v) == IF m[x].capped /\ ~Matched(v) THEN Verdict("capped", m[x].cands) ELSE v
GiveUp(x)   == Done(m[x].p, Ended(x, Verdict("miss", m[x].cands)))
Put(x, h) == m' = [m EXCEPT ![x] = [m[x] EXCEPT !.pc = "sent", !.asked = m[x].asked \cup {h}]]
\* Mutant: nothing is checked after the last await.
SendUnchecked(x) ==
    /\ m[x].pc = "send" /\ Put(x, First(m[x].cands \ m[x].asked))
    /\ UNCHANGED <<file, local, row, toggle, tasks, queue, change, lost, runs, events>>
Send(x) ==
    /\ m[x].pc = "send"
    /\ \/ Stopped(x) /\ m' = [m EXCEPT ![x] = GiveUp(x)]
       \/ ~Stopped(x) /\ Put(x, First(m[x].cands \ m[x].asked))
    /\ UNCHANGED <<file, local, row, toggle, tasks, queue, change, lost, runs, events>>

\* After each answer the DATs are looked up again, over every candidate.
Locally(x, v) == Done(m[x].p, IF Covered(m[x].cands) THEN Hit(m[x].p, Known(m[x].cands)) ELSE Ended(x, v))
Again(x) == [m[x] EXCEPT !.pc = "send"]
\* Mutant: the DATs are looked up after the last answer only.
AfterMissLate(x) ==
    IF m[x].asked = m[x].cands THEN Locally(x, Stamped(m[x].cands, m[x].asked))
    ELSE IF Stopped(x) THEN GiveUp(x)
    ELSE Again(x)
\* Mutant: a pass that was stopped stamps its miss like one that was not.
AfterMissStamped(x) ==
    IF m[x].asked = m[x].cands \/ Stopped(x) \/ Covered(m[x].cands)
      THEN Locally(x, Stamped(m[x].cands, m[x].asked))
    ELSE Again(x)
AfterMiss(x) ==
    IF m[x].asked = m[x].cands THEN Locally(x, Stamped(m[x].cands, m[x].asked))
    ELSE IF Stopped(x) THEN GiveUp(x)
    ELSE IF Covered(m[x].cands) THEN Locally(x, NoRow)
    ELSE Again(x)
Reply(x) ==
    /\ m[x].pc = "sent"
    /\ \/ m' = [m EXCEPT ![x] = AfterMiss(x)] /\ UNCHANGED events
       \/ /\ m' = [m EXCEPT ![x] = Locally(x, Remote(m[x].cands, LastAsked(m[x].asked)))]
          /\ UNCHANGED events
       \/ Event /\ m' = [m EXCEPT ![x] = Done(m[x].p, Verdict("down", m[x].cands))]
    /\ UNCHANGED <<file, local, row, toggle, tasks, queue, change, lost, runs>>

-----------------------------------------------------------------------------
\* Writing a verdict (_upsert_match_sync, _set_matches_batch_sync): what the
\* checks read, then the transaction.

ByRemote(v) == v.stamp \/ v.v = "remote"
\* Mutant: hashes of different domains are compared.
ProvesAcross(r, v) == Matched(r) /\ \E h \in v.cands : h # r.hash
\* A recomputed hash contradicts the row in the row's own domain.
ProvesChanged(r, v) == Matched(r) /\ \E h \in v.cands : h[2] = r.hash[2] /\ h # r.hash
Downgrades(r, v) == RemoteHit(r) /\ ~Matched(v) /\ ~v.stamp /\ ~ProvesChanged(r, v)
SamePayload(r, v) == r.v = v.v /\ r.stamp = v.stamp /\ r.hash = v.hash /\ r.dat = v.dat

\* What is left to write, with the row it was decided on; a DAT gone by now
\* leaves a hit that names none.
Linked(v) == [v EXCEPT !.dat = IF v.dat \in dats THEN v.dat ELSE 0]
CoveredNow(v) == ByRemote(v) /\ Covered(v.cands)
Writes(held) ==
    {[p |-> w[1], verdict |-> Linked(w[2]), seen |-> row[w[1]], clear |-> ~Covered(w[2].cands)] :
        w \in {u \in held : /\ ~CoveredNow(u[2]) /\ ~Downgrades(row[u[1]], u[2])
                             /\ ~SamePayload(row[u[1]], Linked(u[2]))}}
Writing(held) ==
    IF Writes(held) = {} THEN NoMatch ELSE [pc |-> "commit", writes |-> Writes(held)]

\* A row that came or went since it was read, or a DAT that did, fails the
\* statement; a row that was replaced is overwritten.
Commits(w) == (w.seen = NoRow <=> row[w.p] = NoRow) /\ w.verdict.dat \in dats \cup {0}
Write(x, p) == CHOOSE w \in m[x].writes : w.p = p
\* An import that the checks did not see has come before the transaction.
Raced(w) == ByRemote(w.verdict) /\ w.clear /\ Covered(w.verdict.cands)
Commit(x) ==
    /\ m[x].pc = "commit" /\ \A w \in m[x].writes : Commits(w)
    /\ LET ps == {w.p : w \in m[x].writes} IN
       /\ row'  = [p \in Paths |-> IF p \in ps THEN Write(x, p).verdict ELSE row[p]]
       /\ lost' = [p \in Paths |-> IF p \notin ps THEN lost[p]
                                  ELSE IF Raced(Write(x, p)) THEN "raced" ELSE "no"]
    /\ m' = [m EXCEPT ![x] = NoMatch]
    /\ UNCHANGED <<file, local, toggle, tasks, queue, change, runs, events>>

\* The job counts an error and goes on, the scan fails, the batch is lost.
CommitFails(x) ==
    /\ m[x].pc = "commit" /\ \E w \in m[x].writes : ~Commits(w)
    /\ m' = [m EXCEPT ![x] = NoMatch]
    /\ scan' = IF x = "scan" THEN [scan EXCEPT !.failed = TRUE] ELSE scan
    /\ lost' = IF x = "job" THEN [p \in Paths |-> IF \E w \in m[x].writes : w.p = p THEN "stopped" ELSE lost[p]]
               ELSE lost
    /\ UNCHANGED <<file, local, row, toggle, job, batch, queue, change, runs, events>>

\* drop_match_if_changed: compares, then deletes.
Dropping(p, v) == IF ProvesChanged(row[p], v) THEN [pc |-> "drop", p |-> p, seen |-> row[p]] ELSE NoMatch
DropRow(x) ==
    /\ m[x].pc = "drop"
    /\ row' = [row EXCEPT ![m[x].p] = NoRow]
    /\ m' = [m EXCEPT ![x] = NoMatch]
    /\ UNCHANGED <<file, local, toggle, tasks, queue, change, lost, runs, events>>

-----------------------------------------------------------------------------
\* The match job: _run_match_job, schedule_match_job.

NoJob == [on |-> FALSE, todo |-> {}, local |-> FALSE, stop |-> "no"]
JobOf(ps, only) == [on |-> TRUE, todo |-> ps, local |-> only, stop |-> "no"]

JobRequest(ps) ==
    /\ Run /\ Available /\ ~job.on
    /\ ps # {} /\ \A p \in ps : ~Usable(row[p])
    /\ job' = JobOf(ps, FALSE)
    /\ UNCHANGED <<file, local, row, toggle, m, scan, batch, queue, change, lost, events>>

\* A rematch finds the slot free or waits for the job that holds it.
Rematch(ps) ==
    /\ job' = IF job.on \/ ps = {} THEN job ELSE JobOf(ps, TRUE)
    /\ deferred' = IF job.on THEN deferred \cup ps ELSE deferred

\* A schedule that raises, or no longer finds a path in the volumes, is only logged.
Stop(ps) == [p \in Paths |-> IF p \in ps THEN "stopped" ELSE lost[p]]
Schedule(ps) ==
    \E kept \in SUBSET ps :
        /\ Rematch(kept)
        /\ \/ kept = ps /\ UNCHANGED <<lost, events>>
           \/ kept # ps /\ Event /\ lost' = Stop(ps \ kept)

JobNext(p) ==
    /\ job.on /\ job.stop = "no" /\ m["job"].pc = "idle" /\ p \in job.todo
    /\ job' = [job EXCEPT !.todo = @ \ {p}]
    /\ OpenFile("job", p)
    /\ UNCHANGED <<file, local, row, toggle, scan, batch, queue, change, lost, runs>>

\* The rematch brought no hash the row could be judged by.
Unjudged(p, v) == RemoteHit(row[p]) /\ \A h \in v.cands : h[2] # row[p].hash[2]
JobVerdict ==
    /\ m["job"].pc = "done"
    /\ LET p == m["job"].p
           v == m["job"].verdict IN
       /\ m' = [m EXCEPT !["job"] = IF v.v = "stuck" THEN NoMatch
                                    ELSE IF Cacheable(v) THEN Writing({<<p, v>>}) ELSE Dropping(p, v)]
       /\ lost' = IF ~Matched(v) /\ Unjudged(p, v) THEN [lost EXCEPT ![p] = "stopped"] ELSE lost
       /\ job' = IF v.v = "stuck" THEN [job EXCEPT !.stop = "crash"] ELSE job
    /\ UNCHANGED <<file, local, row, toggle, scan, batch, queue, change, runs, events>>

JobCancel ==
    /\ job.on /\ job.stop = "no" /\ Event
    /\ job' = [job EXCEPT !.stop = "cancel"]
    /\ UNCHANGED <<file, local, row, toggle, m, scan, batch, queue, change, lost, runs>>

\* Mutant: what waited is left for the next job.
JobEndKeeps ==
    /\ job.on /\ m["job"].pc = "idle" /\ (job.todo = {} \/ job.stop # "no")
    /\ job' = NoJob
    /\ IF job.stop = "no"
         THEN drains' = (drains \cup {deferred}) \ {{}} /\ lost' = lost /\ deferred' = {}
         ELSE drains' = drains /\ lost' = Stop(job.todo) /\ deferred' = deferred
    /\ UNCHANGED <<file, local, row, toggle, m, scan, batch, change, runs, events>>
\* The slot is released; a job that was stopped takes what waited with it.
JobEnd ==
    /\ job.on /\ m["job"].pc = "idle" /\ (job.todo = {} \/ job.stop # "no")
    /\ job' = NoJob /\ deferred' = {}
    /\ IF job.stop = "no"
         THEN drains' = (drains \cup {deferred}) \ {{}} /\ lost' = lost
         ELSE drains' = drains /\ lost' = Stop(deferred \cup job.todo)
    /\ UNCHANGED <<file, local, row, toggle, m, scan, batch, change, runs, events>>

Drain(ps) ==
    /\ ps \in drains /\ drains' = drains \ {ps}
    /\ Schedule(ps)
    /\ UNCHANGED <<file, local, row, toggle, m, scan, batch, change, runs>>

-----------------------------------------------------------------------------
\* The library scan: it lists the volumes, reads the metadata of what it found
\* (phases 1 and 2), and then matches (phase 3).

NoScan == [on |-> FALSE, phase |-> "list", force |-> FALSE, todo |-> {}, cached |-> {},
           cancelled |-> FALSE, failed |-> FALSE]

ScanStart(force) ==
    /\ Run /\ ~scan.on
    /\ scan' = [NoScan EXCEPT !.on = TRUE, !.force = force]
    /\ UNCHANGED <<file, local, row, toggle, m, job, batch, queue, change, lost, events>>

\* The walk, in a thread; a cancel is not looked at before the phases begin.
ScanLists ==
    /\ scan.on /\ scan.phase = "list"
    /\ scan' = [scan EXCEPT !.phase = "read", !.todo = {p \in Paths : file[p] # 0}]
    /\ UNCHANGED <<file, local, row, toggle, m, job, batch, queue, change, lost, runs, events>>

\* Phase 1 only reads, but its helper (or that of phase 2) may be stuck on the
\* volume, which ends the scan.
ScanAbandons ==
    /\ scan.on /\ scan.phase = "read" /\ ~scan.cancelled /\ ~scan.failed /\ Event
    /\ scan' = [scan EXCEPT !.failed = TRUE]
    /\ UNCHANGED <<file, local, row, toggle, m, job, batch, queue, change, lost, runs>>

\* A CHD that has no tags of its disc is given them, which makes it another
\* file to all who hash it: the header's SHA1 covers them too.
EnsureDiscIdEmbedded(p) == file' = [file EXCEPT ![p] = @ + 1]

\* Phase 2: the CHDs whose disc was not looked for since they changed.
IsChd(p) == Kinds[p] = {"embedded", "file"}
ScanTags(p) ==
    /\ scan.on /\ scan.phase = "read" /\ ~scan.cancelled /\ ~scan.failed /\ Event
    /\ p \in scan.todo /\ IsChd(p) /\ file[p] # 0
    /\ EnsureDiscIdEmbedded(p)
    /\ UNCHANGED <<local, row, toggle, m, tasks, queue, change, lost, runs>>

\* Phase 3 reads the rows there are, unless it is forced; it passes when there
\* is nothing to match by or the store does not answer.
ScanPrimes ==
    /\ scan.on /\ scan.phase = "read" /\ ~scan.cancelled /\ ~scan.failed
    /\ LET ps == IF Available THEN scan.todo ELSE {} IN
       \/ /\ scan' = [scan EXCEPT !.phase = "match", !.todo = ps,
                                   !.cached = IF scan.force THEN {} ELSE {<<p, row[p]>> : p \in ps}]
          /\ UNCHANGED events
       \/ Event /\ scan' = [scan EXCEPT !.phase = "match", !.todo = {}]
    /\ UNCHANGED <<file, local, row, toggle, m, job, batch, queue, change, lost, runs>>

ScanNext(p) ==
    /\ scan.on /\ scan.phase = "match" /\ ~scan.cancelled /\ ~scan.failed
    /\ m["scan"].pc = "idle" /\ p \in scan.todo
    /\ scan' = [scan EXCEPT !.todo = scan.todo \ {p}, !.cached = {c \in scan.cached : c[1] # p}]
    /\ IF \E c \in scan.cached : c[1] = p /\ Usable(c[2]) THEN UNCHANGED <<m, events>> ELSE OpenFile("scan", p)
    /\ UNCHANGED <<file, local, row, toggle, job, batch, queue, change, lost, runs>>

\* A verdict without evidence takes the row away, whatever it says.
NoEvidence(v) == ~Cacheable(v) /\ v.cands = {}
ScanVerdict ==
    /\ m["scan"].pc = "done"
    /\ LET p == m["scan"].p
           v == m["scan"].verdict
           over == v.v = "stuck" \/ scan.cancelled IN
       /\ m' = [m EXCEPT !["scan"] = IF over \/ NoEvidence(v) THEN NoMatch
                                     ELSE IF Cacheable(v) THEN Writing({<<p, v>>}) ELSE Dropping(p, v)]
       /\ row' = IF ~over /\ NoEvidence(v) THEN [row EXCEPT ![p] = NoRow] ELSE row
       /\ scan' = IF v.v = "stuck" THEN [scan EXCEPT !.failed = TRUE] ELSE scan
    /\ UNCHANGED <<file, local, toggle, job, batch, queue, change, lost, runs, events>>

ScanCancel ==
    /\ scan.on /\ ~scan.cancelled /\ Event
    /\ scan' = [scan EXCEPT !.cancelled = TRUE]
    /\ UNCHANGED <<file, local, row, toggle, m, job, batch, queue, change, lost, runs>>

ScanEnd ==
    /\ scan.on /\ m["scan"].pc = "idle" /\ scan.phase # "list"
    /\ scan.cancelled \/ scan.failed \/ (scan.phase = "match" /\ scan.todo = {})
    /\ scan' = NoScan
    /\ UNCHANGED <<file, local, row, toggle, m, job, batch, queue, change, lost, runs, events>>

-----------------------------------------------------------------------------
\* A batch request: match_batch.

NoBatch == [on |-> FALSE, todo |-> {}, held |-> {}]

BatchStart(ps) ==
    /\ Run /\ ~batch.on /\ Available
    /\ ps # {} /\ \A p \in ps : ~Usable(row[p])
    /\ batch' = [NoBatch EXCEPT !.on = TRUE, !.todo = ps]
    /\ UNCHANGED <<file, local, row, toggle, m, job, scan, queue, change, lost, events>>

BatchNext(p) ==
    /\ m["batch"].pc = "idle" /\ p \in batch.todo
    /\ batch' = [batch EXCEPT !.todo = @ \ {p}]
    /\ OpenFile("batch", p)
    /\ UNCHANGED <<file, local, row, toggle, job, scan, queue, change, lost, runs>>

BatchVerdict ==
    /\ m["batch"].pc = "done"
    /\ LET v == m["batch"].verdict IN
       batch' = [batch EXCEPT !.todo = IF v.v = "stuck" THEN {} ELSE batch.todo,
                              !.held = IF Cacheable(v) THEN batch.held \cup {<<m["batch"].p, v>>}
                                       ELSE batch.held]
    /\ m' = [m EXCEPT !["batch"] = NoMatch]
    /\ UNCHANGED <<file, local, row, toggle, job, scan, queue, change, lost, runs, events>>

BatchEnd ==
    /\ batch.on /\ batch.todo = {} /\ m["batch"].pc = "idle"
    /\ m' = [m EXCEPT !["batch"] = Writing(batch.held)]
    /\ batch' = NoBatch
    /\ UNCHANGED <<file, local, row, toggle, job, scan, queue, change, lost, runs, events>>

-----------------------------------------------------------------------------
\* The DATs change: an upload, a synchronisation, a DAT deleted.

NoChange == [pc |-> "idle"]
Cached == {p \in Paths : row[p] # NoRow}

UploadBegin ==
    /\ change["upload"].pc = "idle" /\ nextDat <= MaxDats
    /\ change' = [change EXCEPT !["upload"] = [pc |-> "listed", paths |-> Cached, old |-> {}]]
    /\ UNCHANGED <<file, local, row, toggle, m, tasks, queue, lost, runs, events>>

\* The old set is what the store holds as the synchronisation begins; the new
\* one is staged while it lasts, and a list of the rows that fails is empty.
SyncBegin ==
    /\ change["sync"].pc = "idle" /\ nextDat <= MaxDats
    /\ change' = [change EXCEPT !["sync"] = [pc |-> "staging", old |-> dats]]
    /\ UNCHANGED <<file, local, row, toggle, m, tasks, queue, lost, runs, events>>
SyncStops ==
    /\ change["sync"].pc = "staging" /\ Event
    /\ change' = [change EXCEPT !["sync"] = NoChange]
    /\ UNCHANGED <<file, local, row, toggle, m, tasks, queue, lost, runs>>
SyncSnapshot ==
    /\ change["sync"].pc = "staging"
    /\ \E ps \in {Cached, {}} :
         /\ (ps = Cached /\ UNCHANGED events) \/ (ps = {} /\ Event)
         /\ change' = [change EXCEPT !["sync"] = [pc |-> "listed", paths |-> ps, old |-> change["sync"].old]]
    /\ UNCHANGED <<file, local, row, toggle, m, tasks, queue, lost, runs>>

\* The DAT and its hashes go in, and what the DATs produced goes out, at once.
Imported(hs) == [h \in Hashes |-> IF h \in hs THEN nextDat ELSE index[h]]
Invalidated  == [p \in Paths |-> IF RemoteHit(row[p]) THEN row[p] ELSE NoRow]
Import(c, hs) ==
    /\ change[c].pc = "listed" /\ nextDat <= MaxDats
    /\ dats' = dats \cup {nextDat} /\ nextDat' = nextDat + 1
    /\ index' = Imported(hs)
    /\ row' = Invalidated
    /\ lost' = [p \in Paths |-> "no"]
    /\ change' = [change EXCEPT ![c].pc = IF c = "sync" THEN "imported" ELSE "cleared"]
    /\ UNCHANGED <<file, toggle, m, tasks, queue, runs, events>>

\* Hashes go with their DAT, and so do the matches it produced.
Without(ds)  == [h \in Hashes |-> IF index[h] \in ds THEN 0 ELSE index[h]]
\* Mutant: the matches stay.
OrphansStay(ds) == row
Orphaned(ds) == [p \in Paths |-> IF row[p].dat \in ds THEN NoRow ELSE row[p]]
SyncClear ==
    /\ change["sync"].pc = "imported"
    /\ dats' = dats \ change["sync"].old
    /\ index' = Without(change["sync"].old)
    /\ row' = Orphaned(change["sync"].old)
    /\ change' = [change EXCEPT !["sync"].pc = "cleared"]
    /\ UNCHANGED <<file, nextDat, toggle, m, tasks, queue, lost, runs, events>>
DeleteDat(d) ==
    /\ d \in dats
    /\ dats' = dats \ {d} /\ index' = Without({d}) /\ row' = Orphaned({d})
    /\ UNCHANGED <<file, nextDat, toggle, m, tasks, queue, change, lost, runs, events>>

\* Mutant: only those there were.
NeedRematchBefore(c) == change[c].paths
\* rematch_after_dat_change: the rows there were, and those that are left.
NeedRematch(c) == change[c].paths \cup Cached
ListSurvivors(c) ==
    /\ change[c].pc = "cleared"
    /\ change' = [change EXCEPT ![c] = [pc |-> "schedule", paths |-> NeedRematch(c)]]
    /\ UNCHANGED <<file, local, row, toggle, m, tasks, queue, lost, runs, events>>
\* Those that are left cannot be read.
SurvivorsUnread(c) ==
    /\ change[c].pc = "cleared" /\ Event
    /\ change' = [change EXCEPT ![c] = [pc |-> "schedule", paths |-> change[c].paths]]
    /\ lost' = Stop(Cached \ change[c].paths)
    /\ UNCHANGED <<file, local, row, toggle, m, tasks, queue, runs>>
ScheduleRematch(c) ==
    /\ change[c].pc = "schedule"
    /\ Schedule(change[c].paths)
    /\ change' = [change EXCEPT ![c] = NoChange]
    /\ UNCHANGED <<file, local, row, toggle, m, scan, batch, drains, runs>>

-----------------------------------------------------------------------------
\* The rest of the world.

Edit(p) ==
    /\ Event /\ file[p] # 0
    /\ \E v \in {0, file[p] + 1} : file' = [file EXCEPT ![p] = v]
    /\ UNCHANGED <<local, row, toggle, m, tasks, queue, change, lost, runs>>
PruneMissing ==
    /\ \E p \in Paths : file[p] = 0 /\ row[p] # NoRow
    /\ row' = [p \in Paths |-> IF file[p] = 0 THEN NoRow ELSE row[p]]
    /\ UNCHANGED <<file, local, toggle, m, tasks, queue, change, lost, runs, events>>

\* put_hasheous_settings: saved first, applied next, under one lock.
SaveToggle ==
    /\ Event /\ pref = enabled /\ pref' = ~pref
    /\ UNCHANGED <<file, local, row, enabled, m, tasks, queue, change, lost, runs>>
ApplyToggle ==
    /\ pref # enabled /\ enabled' = pref
    /\ UNCHANGED <<file, local, row, pref, m, tasks, queue, change, lost, runs, events>>

\* Whether a rematch of p is still to come.
JobWill(p) ==
    \/ p \in job.todo
    \/ m["job"].pc \in {"hash", "send", "sent", "done", "drop"} /\ m["job"].p = p
    \/ m["job"].pc = "commit" /\ \E w \in m["job"].writes : w.p = p
ChangeWill(c, p) ==
    \/ change[c].pc \in {"imported", "cleared"}
    \/ change[c].pc = "schedule" /\ p \in change[c].paths
Pending(p) ==
    \/ p \in deferred \cup UNION drains
    \/ JobWill(p)
    \/ \E c \in Changers : ChangeWill(c, p)

Crash ==
    /\ Event
    /\ job' = NoJob /\ scan' = NoScan /\ batch' = NoBatch
    /\ m' = [x \in Matchers |-> NoMatch] /\ change' = [c \in Changers |-> NoChange]
    /\ deferred' = {} /\ drains' = {}
    /\ enabled' = pref
    /\ lost' = [p \in Paths |-> IF Pending(p) THEN "stopped" ELSE lost[p]]
    /\ UNCHANGED <<file, local, row, pref, runs>>

-----------------------------------------------------------------------------
\* The store holds a DAT, and perhaps what it or the server said of a file,
\* which may have been replaced since.
FirstHashes(p) == {1} \X Kinds[p]
Before(p) == {NoRow} \cup {IF index[h] = 0 THEN Remote(FirstHashes(p), h) ELSE Hit(p, h) : h \in FirstHashes(p)}
MatchInit ==
    /\ dats = {1} /\ nextDat = 2
    /\ \E hs \in DatSets \cup {{}} : index = [h \in Hashes |-> IF h \in hs THEN 1 ELSE 0]
    /\ row \in [Paths -> UNION {Before(p) : p \in Paths}]
    /\ \A p \in Paths : row[p] \in Before(p) /\ (RemoteHit(row[p]) => ~Covered(FirstHashes(p)))
    /\ file \in [Paths -> {1, 2}] /\ \A p \in Paths : (file[p] = 1 \/ RemoteHit(row[p]))
    /\ lost = [p \in Paths |-> "no"]
    /\ enabled \in BOOLEAN /\ pref = enabled
    /\ m = [x \in Matchers |-> NoMatch] /\ change = [c \in Changers |-> NoChange]
    /\ job = NoJob /\ scan = NoScan /\ batch = NoBatch
    /\ deferred = {} /\ drains = {}
    /\ runs = 0 /\ events = 0

Match == \E x \in Matchers :
            HashFile(x) \/ Send(x) \/ Reply(x) \/ Commit(x) \/ CommitFails(x) \/ DropRow(x)
Job   == \/ \E ps \in SUBSET Paths : JobRequest(ps) \/ Drain(ps)
         \/ \E p \in Paths : JobNext(p)
         \/ JobVerdict \/ JobCancel \/ JobEnd
Scan  == \/ \E force \in BOOLEAN : ScanStart(force)
         \/ \E p \in Paths : ScanTags(p) \/ ScanNext(p)
         \/ ScanLists \/ ScanAbandons \/ ScanPrimes
         \/ ScanVerdict \/ ScanCancel \/ ScanEnd
Batch == \/ \E ps \in SUBSET Paths : BatchStart(ps)
         \/ \E p \in Paths : BatchNext(p)
         \/ BatchVerdict \/ BatchEnd
Dat   == \/ UploadBegin \/ SyncBegin \/ SyncStops \/ SyncSnapshot \/ SyncClear
         \/ \E c \in Changers, hs \in DatSets : Import(c, hs)
         \/ \E d \in Dats : DeleteDat(d)
         \/ \E c \in Changers : ListSurvivors(c) \/ SurvivorsUnread(c) \/ ScheduleRematch(c)
World == \E p \in Paths : Edit(p)
MatchNext == Match \/ Job \/ Scan \/ Batch \/ Dat \/ World \/ PruneMissing
             \/ SaveToggle \/ ApplyToggle \/ Crash
MatchSpec == MatchInit /\ [][MatchNext]_matchVars

-----------------------------------------------------------------------------
\* Properties.

\* Every row, index entry and job is well formed, and no row names a DAT that
\* is gone (dat_matches.dat_id, dat_hashes.dat_id).
MatchTypeOK ==
    /\ file \in [Paths -> Versions \cup {0}]
    /\ dats \subseteq Dats /\ index \in [Hashes -> dats \cup {0}]
    /\ \A p \in Paths :
         /\ row[p].v \in {"none", "miss", "dat", "remote"} /\ row[p].dat \in dats \cup {0}
         /\ Matched(row[p]) <=> row[p].hash \in Hashes
    /\ DOMAIN m = Matchers /\ DOMAIN change = Changers
    /\ job.todo \subseteq Paths /\ scan.todo \subseteq Paths /\ batch.todo \subseteq Paths
    /\ deferred \subseteq Paths /\ drains \subseteq SUBSET Paths

\* Local first, in the long run: a game the server named stays only while the
\* DATs do not know the hash, or the rematch that will say so is still to come
\* (rematch_after_dat_change, _deferred_rematch_paths, _local_index_now_covers)
\* -- unless a cancel, a crash, a failed read or a failed schedule took the
\* rematch away, or the import fell between the checks of a writer and its transaction.
RemoteYields ==
    \A p \in Paths : RemoteHit(row[p]) /\ index[row[p].hash] # 0 => Pending(p) \/ lost[p] # "no"

\* Paths never wait for a job that does not run (_deferred_rematch_paths is
\* only ever drained by a finishing job).
NothingStranded == deferred # {} => job.on

\* A miss that says the server was asked is one where it was asked about every
\* hash of the file (checked_remote).
StampHonest == \A p \in Paths : row[p].stamp => row[p].asked = row[p].cands /\ row[p].cands # {}

\* The DATs have the last word over the rows, no rematch they are owed waits for
\* a job that is over, and what a row says of the server is so.
LocalWins == MatchTypeOK /\ RemoteYields /\ NothingStranded /\ StampHonest

\* Nothing leaves once the operator switched the server off or cancelled
\* (_remote_pass_stopped), whatever happened while the match waited.
SentOnlyWhileOn ==
    [][\A x \in Matchers : m[x].pc # "sent" /\ m'[x].pc = "sent" => enabled /\ ~Stopped(x)]_matchVars

\* Local first, at each hash: a match goes on to the next one only when the
\* DATs know none of the file's hashes at that moment, those already sent
\* included (_remote_lookup_match).
LocalFirst ==
    [][\A x \in Matchers : m[x].pc # "send" /\ m'[x].pc = "send" => ~Covered(m'[x].cands)]_matchVars

\* What leaves the machine: nothing that the operator forbade, and nothing that
\* the DATs could have answered (_remote_lookup_match).
SentRightly == SentOnlyWhileOn /\ LocalFirst

\* The game the server named for a file nobody touched is only ever replaced by
\* another name or by a miss the server was asked about; a read that failed
\* without evidence in a scan may remove it, and so may a writer that read the
\* row before the name was there (_would_downgrade_remote_hit,
\* drop_if_content_changed).
Blind(p) ==
    \E x \in Matchers :
        \/ m[x].pc = "commit" /\ \E w \in m[x].writes : w.p = p /\ w.seen # row[p]
        \/ m[x].pc = "drop" /\ m[x].p = p /\ m[x].seen # row[p]
        \/ x = "scan" /\ m[x].pc = "done" /\ m[x].p = p /\ NoEvidence(m[x].verdict)
KeepsIdentity ==
    [][\A p \in Paths : RemoteHit(row[p]) /\ row'[p] # row[p] /\ file[p] = 1 =>
          Matched(row'[p]) \/ row'[p].stamp \/ Blind(p)]_matchVars

\* "A row written after the commit was decided against the new index already"
\* (_paths_needing_rematch): no cached miss hides a hash the DATs know.
NoStaleMiss ==
    \A p \in Paths : row[p].v = "miss" /\ Covered(row[p].cands) => Pending(p) \/ lost[p] = "stopped"
=============================================================================
