-------------------------- MODULE HistoryOverflow --------------------------
(***************************************************************************)
(* Finished jobs past the history cap: the server forgets the oldest ones, *)
(* counts what it forgot and logs their ids (services/job_manager.py), and *)
(* tells a browser in two ways: the event stream of routes/convert.py, and *)
(* the two reads of `refresh` in src/lib/stores/jobs.svelte.js.  The store *)
(* adds the count to the rows it holds, so a row the server has counted as *)
(* forgotten must not be held as well.                                     *)
(*                                                                         *)
(* The stream delivers in order.  Each answer of a REST read travels by    *)
(* itself, and may be overtaken by the stream.  Jobs are numbered in the   *)
(* order of their creation, which is the order of `self.jobs`.             *)
(***************************************************************************)
EXTENDS Integers, FiniteSets, Sequences

CONSTANTS
    NJobs,          \* jobs ever created
    Cap,            \* max_job_history
    LogSize,        \* length of the bounded log `_evicted_ids`
    MaxFrames,      \* bound: frames of the stream under way
    Reads,          \* bound: the refreshes that can be under way at a time
    Disturbances,   \* which of "drop", "fail", "clear", "delete", "restart" happen
    MaxDisturbances \* bound: how many of them

ASSUME BoundsAssumption ==
    NJobs \in Nat /\ Cap \in Nat \ {0} /\ LogSize \in Nat \ {0}
    /\ MaxFrames \in Nat \ {0} /\ MaxDisturbances \in Nat
ASSUME DisturbancesAssumption ==
    Disturbances \subseteq {"drop", "fail", "clear", "delete", "restart"}

VARIABLES
    \* the server
    srv,        \* each job: "none", "active", "ended" (retained), "gone"
    pruning,    \* ended jobs whose coroutine has still to prune the history
    tally,      \* the jobs counted in `_evicted_history`
    log,        \* `_evicted_ids`
    seq,        \* `_eviction_seq`
    resetSeq,   \* `_last_reset_seq`
    gen,        \* `history_generation`: which server process this is
    \* the event stream: one generator on the server, frames on their way
    stream,     \* [up, subs, news, sent, todo, cursor, last]
    frames,
    \* the browser
    rows,       \* each job in the store: "none", "active" or "ended"
    cTally, cSeq, cGen,  \* historyOverflow, historySeq, historyGeneration
    refresh,    \* the refreshes under way
    cleared,    \* answers of a Clear on their way
    \* bookkeeping of the model
    disturbed,  \* disturbances so far
    evictedAt,  \* when each job was evicted, in this generation
    tallyAt     \* the tally at each sequence number of each generation

srvVars    == <<srv, pruning, tally, log, seq, resetSeq, gen, evictedAt, tallyAt>>
streamVars == <<stream, frames>>
storeVars  == <<rows, cTally, cSeq, cGen>>
vars == <<srvVars, streamVars, storeVars, refresh, cleared, disturbed>>

Jobs == 1..NJobs

Idle   == [at |-> "idle"]
Closed == [up |-> FALSE, subs |-> {}, news |-> {}, sent |-> FALSE,
           todo |-> <<>>, cursor |-> 0, last |-> -1]

Retained == {j \in Jobs : srv[j] \in {"active", "ended"}}

\* The members of S in increasing order.
InOrder(S) == [i \in 1..Cardinality(S) |->
                 CHOOSE j \in S : Cardinality({k \in S : k <= j}) = i]

\* The log keeps its last entries.
Last(s) == IF Len(s) <= LogSize THEN s ELSE SubSeq(s, Len(s) - LogSize + 1, Len(s))

Disturb(kind) ==
    /\ kind \in Disturbances /\ disturbed < MaxDisturbances
    /\ disturbed' = disturbed + 1

-----------------------------------------------------------------------------
\* The server.

\* get_history_overflow: the ids evicted after the cursor, as far as the log
\* goes, and whether it goes far enough.  -1 stands for a read without cursor.
Rewound(c, g) == IF c >= 0 /\ g # gen THEN 0 ELSE c
EvictedSince(c) == {log[i].id : i \in {n \in DOMAIN log : c >= 0 /\ log[n].seq > c}}
ExpiredByLog(c) == c >= 0 /\ log # <<>> /\ c < log[1].seq - 1
Expired(c) ==
    c >= 0 /\ ((log # <<>> /\ c < log[1].seq - 1) \/ c < resetSeq)

Overflow(since, g) ==
    LET c == Rewound(since, g) IN
    [gen |-> gen, seq |-> seq, tally |-> tally,
     ids |-> EvictedSince(c), expired |-> Expired(c)]

\* The tally changed, and the sequence with it.
AdvanceNot(by, newTally) == tally' = newTally /\ UNCHANGED <<seq, tallyAt>>
Advance(by, newTally) ==
    /\ seq' = seq + by
    /\ tally' = newTally
    /\ tallyAt' = [p \in DOMAIN tallyAt \cup {<<gen, seq + by>>} |->
                     IF p = <<gen, seq + by>> THEN newTally ELSE tallyAt[p]]

Create(j) ==
    /\ srv[j] = "none" /\ \A k \in Jobs : k < j => srv[k] # "none"
    /\ srv' = [srv EXCEPT ![j] = "active"]
    /\ UNCHANGED <<pruning, tally, log, seq, resetSeq, gen, evictedAt, tallyAt,
                   streamVars, storeVars, refresh, cleared, disturbed>>

\* The job takes a terminal status and notifies its subscribers.
End(j) ==
    /\ srv[j] = "active"
    /\ srv' = [srv EXCEPT ![j] = "ended"]
    /\ pruning' = pruning \cup {j}
    /\ stream' = IF j \in stream.subs THEN [stream EXCEPT !.news = @ \cup {j}] ELSE stream
    /\ UNCHANGED <<tally, log, seq, resetSeq, gen, evictedAt, tallyAt, frames,
                   storeVars, refresh, cleared, disturbed>>

\* `_prune_jobs`, after the job's temporary directory is gone: the oldest ended
\* jobs above the cap are deleted and recorded, never the job itself.
Excess == Cardinality({j \in Jobs : srv[j] = "ended"}) - Cap
Oldest(j) ==
    LET old == InOrder({k \in Jobs \ {j} : srv[k] = "ended"})
    IN  {old[i] : i \in {n \in DOMAIN old : n <= Excess}}

Prune(j) ==
    /\ j \in pruning
    /\ pruning' = pruning \ {j}
    /\ LET out == InOrder(Oldest(j)) IN
       IF out = <<>> THEN UNCHANGED <<srv, tally, log, seq, evictedAt, tallyAt>>
       ELSE /\ srv' = [k \in Jobs |-> IF k \in Oldest(j) THEN "gone" ELSE srv[k]]
            /\ log' = Last(log \o [i \in DOMAIN out |-> [seq |-> seq + i, id |-> out[i]]])
            /\ evictedAt' = [k \in Jobs |->
                   IF k \in Oldest(j) THEN seq + CHOOSE i \in DOMAIN out : out[i] = k
                                      ELSE evictedAt[k]]
            /\ Advance(Len(out), tally \cup Oldest(j))
    /\ UNCHANGED <<resetSeq, gen, streamVars, storeVars, refresh, cleared, disturbed>>

\* delete_completed_jobs: every ended job goes, and reset_history_overflow.
\* Either this browser asked, and gets an answer, or another did.
Clear ==
    /\ Disturb("clear")
    /\ srv' = [j \in Jobs |-> IF srv[j] = "ended" THEN "gone" ELSE srv[j]]
    /\ log' = <<>>
    /\ Advance(1, {})
    /\ resetSeq' = seq'
    /\ cleared' \in {cleared, cleared \cup {[gen |-> gen, seq |-> seq']}}
    /\ UNCHANGED <<pruning, gen, evictedAt, streamVars, storeVars, refresh>>

\* Another browser removes one ended job: nobody counts it.
Delete(j) ==
    /\ Disturb("delete") /\ srv[j] = "ended"
    /\ srv' = [srv EXCEPT ![j] = "gone"]
    /\ UNCHANGED <<pruning, tally, log, seq, resetSeq, gen, evictedAt, tallyAt,
                   streamVars, storeVars, refresh, cleared>>

\* A new process: jobs and history were in memory.  Requests that were not
\* answered fail; answers already sent still arrive.
Restart ==
    /\ Disturb("restart")
    /\ gen' = gen + 1
    /\ srv' = [j \in Jobs |-> IF srv[j] = "none" THEN "none" ELSE "gone"]
    /\ pruning' = {} /\ tally' = {} /\ log' = <<>> /\ seq' = 0 /\ resetSeq' = 0
    /\ evictedAt' = [j \in Jobs |-> 0]
    /\ tallyAt' = [p \in DOMAIN tallyAt \cup {<<gen + 1, 0>>} |->
                     IF p = <<gen + 1, 0>> THEN {} ELSE tallyAt[p]]
    /\ stream' = Closed /\ frames' = <<>>
    /\ refresh' = [r \in Reads |-> IF refresh[r].at \in {"list", "history"}
                                   THEN Idle ELSE refresh[r]]
    /\ UNCHANGED <<storeVars, cleared>>

-----------------------------------------------------------------------------
\* The event stream.

Room == Len(frames) < MaxFrames
Row(j) == [kind |-> "job", id |-> j, st |-> IF srv[j] = "active" THEN "active" ELSE "ended"]

\* A round of the generator begins: it subscribes to the active jobs, and the
\* first round opens the cursor and lists the jobs for the snapshot.
Subscribe ==
    /\ stream.up
    /\ LET active == {j \in Jobs : srv[j] = "active"} IN
       /\ ~stream.sent \/ ~(active \subseteq stream.subs)
       /\ stream' = [stream EXCEPT
              !.subs = @ \cup active,
              !.sent = TRUE,
              !.todo = IF stream.sent THEN @ ELSE InOrder(Retained),
              !.cursor = IF stream.sent THEN @ ELSE seq]
    /\ UNCHANGED <<srvVars, frames, storeVars, refresh, cleared, disturbed>>

\* A frame of the snapshot: the job object is listed even if it was deleted.
EmitSnapshot ==
    /\ stream.todo # <<>> /\ Room
    /\ frames' = Append(frames, Row(Head(stream.todo)))
    /\ stream' = [stream EXCEPT !.todo = Tail(@)]
    /\ UNCHANGED <<srvVars, storeVars, refresh, cleared, disturbed>>

\* The totals, on connecting and whenever they changed.
EmitHistory ==
    /\ stream.sent /\ stream.todo = <<>> /\ stream.last # seq /\ Room
    /\ frames' = Append(frames, [kind |-> "history", pay |-> Overflow(stream.cursor, gen)])
    /\ stream' = [stream EXCEPT !.last = seq, !.cursor = seq]
    /\ UNCHANGED <<srvVars, storeVars, refresh, cleared, disturbed>>

\* Progress of an active job, or its end.  An update carries the job as it is
\* now; the update of a job that was deleted meanwhile carries none, and the
\* store ignores it.
EmitUpdate(j) ==
    /\ stream.sent /\ stream.todo = <<>> /\ j \in stream.subs /\ Room
    /\ \/ /\ srv[j] = "active"
          /\ frames' = Append(frames, Row(j)) /\ UNCHANGED stream
       \/ /\ j \in stream.news
          /\ frames' = IF srv[j] = "ended" THEN Append(frames, Row(j)) ELSE frames
          /\ stream' = [stream EXCEPT !.news = @ \ {j}, !.subs = @ \ {j}]
    /\ UNCHANGED <<srvVars, storeVars, refresh, cleared, disturbed>>

Drop ==
    /\ stream.up /\ Disturb("drop")
    /\ stream' = Closed /\ frames' = <<>>
    /\ UNCHANGED <<srvVars, storeVars, refresh, cleared>>

-----------------------------------------------------------------------------
\* The store of the browser.

\* `refresh` notes the cursor, then asks for the job list.
Begin(r, again) ==
    refresh' = [refresh EXCEPT ![r] =
        [at |-> "list", seq |-> cSeq', gen |-> cGen', again |-> again]]

\* sseConnectNamed: (re)connected, and onOpen starts a refresh.
Connect ==
    /\ ~stream.up
    /\ stream' = [Closed EXCEPT !.up = TRUE]
    /\ UNCHANGED <<srvVars, frames, storeVars, cleared, disturbed>>
    /\ \E r \in Reads : refresh[r] = Idle /\ Begin(r, FALSE)

\* The timer.
Poll ==
    /\ UNCHANGED <<srvVars, streamVars, storeVars, cleared, disturbed>>
    /\ \E r \in Reads : refresh[r] = Idle /\ Begin(r, FALSE)

\* `_applyHistoryOverflow`: an older payload of the same generation is dropped
\* whole; any other one removes the rows it names and replaces the totals.
SeqIn(p) == IF p.gen = cGen THEN cSeq ELSE -1
NeverStale(p) == FALSE
IsStale(p) == p.seq < SeqIn(p)

\* The rows become R, less those the payload names.
Apply(p, R) ==
    IF IsStale(p) THEN rows' = R /\ UNCHANGED <<cTally, cSeq, cGen>>
    ELSE /\ rows' = [j \in Jobs |-> IF j \in p.ids THEN "none" ELSE R[j]]
         /\ cTally' = p.tally /\ cSeq' = p.seq /\ cGen' = p.gen

Listed == [j \in Jobs |-> IF j \in Retained THEN srv[j] ELSE "none"]

\* The server answers the first read of refresh r with the job list, or the
\* second with the totals and the ids evicted since the cursor.
Answer(r) ==
    /\ \/ /\ refresh[r].at = "list"
          /\ refresh' = [refresh EXCEPT ![r] =
                 [at |-> "listed", seq |-> @.seq, gen |-> @.gen, again |-> @.again,
                  list |-> Listed]]
       \/ /\ refresh[r].at = "history"
          /\ refresh' = [refresh EXCEPT ![r] =
                 [at |-> "answered", again |-> @.again, pay |-> Overflow(@.seq, @.gen)]]
    /\ UNCHANGED <<srvVars, streamVars, storeVars, cleared, disturbed>>

\* What becomes of a row when the list shows the job as l: an unknown job is
\* added, an ended row is final, a row whose job is not listed goes if it ended.
Merge(row, l) ==
    CASE l = "none"   -> IF row = "ended" THEN "none" ELSE row
      [] l = "active" -> IF row = "ended" THEN "ended" ELSE "active"
      [] l = "ended"  -> "ended"

\* The list arrives, and the totals are asked for.
ApplyList(r) ==
    /\ refresh[r].at = "listed"
    /\ rows' = [j \in Jobs |-> Merge(rows[j], refresh[r].list[j])]
    /\ refresh' = [refresh EXCEPT ![r] =
           [at |-> "history", seq |-> @.seq, gen |-> @.gen, again |-> @.again]]
    /\ UNCHANGED <<srvVars, streamVars, cTally, cSeq, cGen, cleared, disturbed>>

\* The totals arrive; an expired cursor refreshes once more, from the new one.
ApplyHistory(r) ==
    LET p == refresh[r].pay IN
    /\ refresh[r].at = "answered"
    /\ Apply(p, rows)
    /\ IF p.expired /\ ~refresh[r].again
       THEN Begin(r, TRUE) ELSE refresh' = [refresh EXCEPT ![r] = Idle]
    /\ UNCHANGED <<srvVars, streamVars, cleared, disturbed>>

\* A read fails: the refresh ends where it is.
FailRead(r) ==
    /\ refresh[r] # Idle /\ Disturb("fail")
    /\ refresh' = [refresh EXCEPT ![r] = Idle]
    /\ UNCHANGED <<srvVars, streamVars, storeVars, cleared>>

\* The next frame arrives: a row is put in, or totals are applied, and an
\* expired cursor asks for a refresh.
Deliver ==
    /\ frames # <<>>
    /\ frames' = Tail(frames)
    /\ LET f == Head(frames) IN
       \/ /\ f.kind = "job"
          /\ rows' = [rows EXCEPT ![f.id] = f.st]
          /\ UNCHANGED <<cTally, cSeq, cGen, refresh>>
       \/ /\ f.kind = "history"
          /\ Apply(f.pay, rows)
          /\ IF f.pay.expired /\ \E r \in Reads : refresh[r] = Idle
             THEN \E r \in Reads : refresh[r] = Idle /\ Begin(r, FALSE)
             ELSE UNCHANGED refresh
    /\ UNCHANGED <<srvVars, stream, cleared, disturbed>>

\* clearCompleted gets its answer: empty totals as of the reset, no ended row.
ApplyClear(c) ==
    /\ c \in cleared
    /\ cleared' = cleared \ {c}
    /\ Apply([gen |-> c.gen, seq |-> c.seq, tally |-> {}, ids |-> {}],
             [j \in Jobs |-> IF rows[j] = "ended" THEN "none" ELSE rows[j]])
    /\ UNCHANGED <<srvVars, streamVars, refresh, disturbed>>

-----------------------------------------------------------------------------
Init ==
    /\ srv = [j \in Jobs |-> "none"] /\ pruning = {} /\ tally = {} /\ log = <<>>
    /\ seq = 0 /\ resetSeq = 0 /\ gen = 1
    /\ stream = Closed /\ frames = <<>>
    /\ rows = [j \in Jobs |-> "none"] /\ cTally = {} /\ cSeq = -1 /\ cGen = 0
    /\ refresh = [r \in Reads |-> Idle] /\ cleared = {}
    /\ disturbed = 0 /\ evictedAt = [j \in Jobs |-> 0]
    /\ tallyAt = [p \in {<<1, 0>>} |-> {}]

Server == (\E j \in Jobs : Create(j) \/ End(j) \/ Delete(j)) \/ Clear \/ Restart

\* What the loops of the server and the browser go on doing.
Stream == Subscribe \/ EmitSnapshot \/ EmitHistory
Updates(j) == j \in stream.news /\ EmitUpdate(j)
Reading(r) == Answer(r) \/ ApplyList(r) \/ ApplyHistory(r)

Next ==
    \/ Server \/ Drop \/ Stream \/ Connect \/ Poll \/ Deliver
    \/ \E j \in Jobs : Prune(j) \/ EmitUpdate(j)
    \/ \E r \in Reads : Reading(r) \/ FailRead(r)
    \/ \E c \in cleared : ApplyClear(c)

Spec == Init /\ [][Next]_vars

\* Prunes and the stream's generator run, frames and answers arrive, the timer
\* fires and a lost stream is opened again.  Jobs need not end.
Fairness ==
    /\ WF_vars(Stream) /\ WF_vars(Connect) /\ WF_vars(Poll) /\ WF_vars(Deliver)
    /\ \A j \in Jobs : WF_vars(Prune(j)) /\ WF_vars(Updates(j))
    /\ \A r \in Reads : WF_vars(Reading(r))
    /\ WF_vars(\E c \in cleared : ApplyClear(c))

FairSpec == Spec /\ Fairness

-----------------------------------------------------------------------------
\* Every variable keeps its type, and the server counts no job it still lists.
TypeOK ==
    /\ srv \in [Jobs -> {"none", "active", "ended", "gone"}]
    /\ pruning \subseteq Jobs /\ tally \subseteq {j \in Jobs : srv[j] = "gone"}
    /\ Len(log) <= LogSize /\ \A i \in DOMAIN log : log[i].seq \in 1..seq
    /\ resetSeq \in 0..seq /\ seq \in Nat /\ gen \in 1..(MaxDisturbances + 1)
    /\ stream.news \subseteq stream.subs /\ stream.cursor \in Nat
    /\ Len(frames) <= MaxFrames
    /\ rows \in [Jobs -> {"none", "active", "ended"}]
    /\ cTally \subseteq Jobs /\ cSeq \in Nat \cup {-1} /\ cGen \in 0..gen
    /\ \A r \in Reads : refresh[r].at \in {"idle", "list", "listed", "history", "answered"}

\* get_history_overflow is honest with every cursor it may be given: it names
\* all the jobs evicted since then, or says that it cannot.
CursorHonest ==
    \A c \in 0..seq : ~Expired(c) => EvictedSince(c) = {j \in Jobs : evictedAt[j] > c}

\* The cursor is answered honestly, on a well-formed log.
CursorInv == TypeOK /\ CursorHonest

\* The totals the store shows are those the server had at the sequence number
\* the store claims, whichever of stream, poll and Clear came last.
TallyAtCursor == cSeq >= 0 => cTally = tallyAt[<<cGen, cSeq>>]

\* No answer or frame that was overtaken, by a later one or by a Clear, takes the
\* totals of the store back to an earlier moment of the same server process.
TotalsNeverGoBack == [][cGen' = cGen => cSeq' >= cSeq]_vars

\* The store comes to the right totals and stays there, and its rows become
\* exactly the retained jobs, except that rows of active jobs may outlive them.
Converges ==
    <>[](/\ cTally = tally
         /\ \A j \in Jobs : /\ j \in Retained => rows[j] = srv[j]
                            /\ rows[j] = "ended" => srv[j] = "ended")

\* Nothing is under way, and the stream has said all it had to say.
Quiet ==
    /\ stream.up /\ stream.sent /\ stream.todo = <<>> /\ stream.news = {}
    /\ stream.last = seq /\ frames = <<>> /\ cleared = {}
    /\ \A r \in Reads : refresh[r] = Idle

\* The comment of `refresh`: the list and the totals "reconcile exactly".
NoDoubleCount == Quiet => \A j \in cTally : rows[j] = "none"

\* The comments of `refresh`: "the next poll [...] re-establishes truth".
NoGhostRow == <>[](\A j \in Jobs : rows[j] = "active" => srv[j] = "active")

=============================================================================
