------------------------------ MODULE ToolRun ------------------------------
(***************************************************************************)
(* One converter after another on one destination: SubprocessRunner.run    *)
(* with its ladder of signals, its watchdog and its cancel watcher         *)
(* (services/subprocess_runner.py), the `convert` of the tools around it,  *)
(* and the bounded sweep of what a run left behind.                        *)
(*                                                                         *)
(* The volume may stop answering at any moment, for good or for a while.   *)
(* A system call then neither returns nor can be interrupted, whoever made *)
(* it: the converter, which even SIGKILL does not end, or a thread of the  *)
(* backend.  Every bounded wait of the code is a choice between the event  *)
(* awaited and the expiry of the wait.                                     *)
(***************************************************************************)
EXTENDS Integers, FiniteSets

CONSTANTS
    N,          \* runs, one after another: a retry takes the same names
    Extra,      \* how many numbered parts a split build may have
    Tools,      \* the tools, each the set of what its `convert` does:
                \*   "clears"     the destination before the run,
                \*   "sweeps"     the destination after a failure,
                \*   "private"    writes in a work directory and publishes,
                \*   "requires"   runs with require_output,
                \*   "splits"     what it writes in numbered parts,
                \*   "runs there" has its working directory on the volume,
                \*   "reads back" the result in the shared thread pool
    MaxProbes,  \* _MAX_DETACHED_PROBES
    Samples,    \* what a run measures while it reads
    MaxHangs    \* bound: how often the volume stops answering

Runs  == 1..N

\* The destination, and beside it the numbered parts in their order.
Base  == 0
Parts == 0..Extra

Absent == 0
NoPath == -1

ASSUME ToolRunAssumption ==
    /\ N \in Nat \ {0} /\ MaxProbes \in Nat \ {0} /\ MaxHangs \in Nat
    /\ Extra \in Nat
    /\ Tools \subseteq SUBSET {"clears", "sweeps", "private", "requires", "splits",
                                "runs there", "reads back"}

\* The tools of the repository.
Chdman       == {}
Dolphin      == {}
Z3ds         == {"sweeps"}
Maxcso       == {"sweeps"}
Nkit2iso     == {"sweeps", "requires"}
Makeps3iso   == {"sweeps", "splits", "reads back"}
RomzCompress == {"clears", "sweeps", "runs there"}
RomzExtract  == {"private", "sweeps"}
Nsz          == {"private", "requires"}
Jwudtool     == {"private", "requires"}

VARIABLES
    tool,      \* the tool of all the runs
    alive,     \* the volume answers
    hangs,     \* how often it stopped so far
    file,      \* whose file each path holds
    begun,     \* the part each converter is at, 0 when there is none
    work,      \* runs whose work directory holds a finished file
    pc,        \* where each run stands
    child,     \* the converter of each run, "dying" once it was sent SIGKILL
    cancel,    \* runs whose cancel event is set
    seen,      \* runs whose watcher saw the cancel before the child ended
    stalled,   \* runs the watchdog gave up on
    outcome,   \* how each run was reported
    tracked,   \* `_active_pids`
    abandoned, \* `_abandoned_pids`
    probes,    \* detached probes that have not returned
    sweep      \* the sweeping threads

runVars   == <<pc, outcome, seen, stalled>>
pidVars   == <<tracked, abandoned>>
diskVars  == <<tool, alive, hangs, file, begun, work>>
toolVars == <<tool, alive, hangs, file, begun, work, pc, child, cancel, seen, stalled,
              outcome, tracked, abandoned, probes, sweep>>

Phases == {"idle", "clear", "mkdir", "prepare", "reading", "stalled", "exit", "term",
           "kill", "verdict", "publish", "sweep", "tree", "ended"}
Has(trait) == trait \in tool
Written == IF Has("splits") THEN Parts ELSE {Base}

Sweepers == Runs \X {"before", "after"}
NoSweep == [at |-> "none", todo |-> {}, next |-> NoPath, given |-> FALSE, lost |-> {}]

ToolInit ==
    /\ tool \in Tools
    /\ alive = TRUE /\ hangs = 0
    /\ file = [p \in Parts |-> Absent] /\ begun = [r \in Runs |-> 0] /\ work = {}
    /\ pc = [r \in Runs |-> "idle"]
    /\ child = [r \in Runs |-> "none"]
    /\ cancel = {} /\ seen = {} /\ stalled = {}
    /\ outcome = [r \in Runs |-> "none"]
    /\ tracked = {} /\ abandoned = {} /\ probes = {}
    /\ sweep = [s \in Sweepers |-> NoSweep]

Goto(r, to) == pc' = [pc EXCEPT ![r] = to]

-----------------------------------------------------------------------------
\* Detached threads: at most MaxProbes at a time, each until its call returns.

Sweeping == {s \in Sweepers : sweep[s].at \in {"list", "unlink"}}
RoomForProbe == Cardinality(probes) + Cardinality(Sweeping) < MaxProbes

\* A probe's call returns, whether or not anybody still waits for it.
ProbeReturns(x) ==
    /\ x \in probes /\ alive
    /\ probes' = probes \ {x}
    /\ UNCHANGED <<diskVars, runVars, child, cancel, pidVars, sweep>>

\* _bounded_cleanup dispatches the sweep, or reports at once that it cannot.
StartSweep(s, to, otherwise) ==
    IF RoomForProbe
    THEN /\ sweep' = [sweep EXCEPT ![s].at = "list"]
         /\ Goto(s[1], to)
    ELSE UNCHANGED sweep /\ Goto(s[1], otherwise)

\* What a sweep is to remove: the parts of a split build are looked up on the disk,
\* up to the first number that is not there.
BaseOnly == {Base}
Found == {p \in Written : \A q \in 1..p : file[q] # Absent}

\* _unlink_all: a sweep that was given up does not even list.
SweepLists(s) ==
    /\ sweep[s].at = "list"
    /\ IF sweep[s].given
       THEN sweep' = [sweep EXCEPT ![s].at = "returned"]
       ELSE /\ alive
            /\ sweep' = [sweep EXCEPT ![s].at = "unlink",
                   ![s].todo = Found]
    /\ UNCHANGED <<diskVars, runVars, child, cancel, pidVars, probes>>

\* The flag is read before each path, the destination first.
NeverStops(s) == FALSE
StopsHere(s) == sweep[s].given

SweepNext(s) ==
    /\ sweep[s].at = "unlink" /\ sweep[s].next = NoPath
    /\ \/ /\ StopsHere(s) \/ sweep[s].todo = {}
          /\ sweep' = [sweep EXCEPT ![s].at = "returned", ![s].todo = {}]
       \/ /\ ~StopsHere(s)
          /\ \E p \in sweep[s].todo :
                /\ \A q \in sweep[s].todo : p <= q
                /\ sweep' = [sweep EXCEPT ![s].next = p, ![s].todo = sweep[s].todo \ {p}]
    /\ UNCHANGED <<diskVars, runVars, child, cancel, pidVars, probes>>

\* What is taken from the later runs with path p: the file of one, or a name that
\* the one under way is using.
TakenWith(s, p) ==
    {p} \X {r \in Runs : /\ r > s[1] /\ file[p] # Absent
                         /\ r = file[p] \/ pc[r] \notin {"idle", "ended"}}

\* os.remove; `lost` remembers what later runs have lost by it.
SweepUnlinks(s) ==
    LET p == sweep[s].next IN
    /\ p # NoPath /\ alive
    /\ file' = [file EXCEPT ![p] = Absent]
    /\ sweep' = [sweep EXCEPT ![s].next = NoPath,
           ![s].lost = @ \cup TakenWith(s, p)]
    /\ UNCHANGED <<tool, alive, hangs, begun, work, runVars, child, cancel, pidVars, probes>>

-----------------------------------------------------------------------------
\* Up to the spawn.

\* The failure of run r, once there is nothing left to wait for: the sweep of
\* the tool, or the removal of the work directory, comes before the end.
LastPhase == IF Has("private") THEN "tree" ELSE "ended"
AfterFailure == IF Has("sweeps") THEN "sweep" ELSE LastPhase

EndsAs(r, how) == outcome' = [outcome EXCEPT ![r] = how]

\* _bounded_probe of makedirs.
Prepare(r) ==
    IF RoomForProbe
    THEN /\ Goto(r, "prepare")
         /\ probes' = probes \cup {<<r, "makedirs">>}
         /\ UNCHANGED outcome
    ELSE /\ Goto(r, AfterFailure) /\ EndsAs(r, "failed") /\ UNCHANGED probes

\* A run starts once the one before it has ended.
Begin(r) ==
    /\ pc[r] = "idle" /\ \A q \in 1..(r - 1) : pc[q] = "ended"
    /\ \/ Has("clears") /\ StartSweep(<<r, "before">>, "clear", "ended")
          /\ outcome' = [outcome EXCEPT ![r] = IF RoomForProbe THEN "none" ELSE "failed"]
          /\ UNCHANGED probes
       \/ ~Has("clears") /\ Has("private") /\ Goto(r, "mkdir") /\ UNCHANGED <<outcome, probes, sweep>>
       \/ ~Has("clears") /\ ~Has("private") /\ Prepare(r) /\ UNCHANGED sweep
    /\ UNCHANGED <<diskVars, child, seen, stalled, cancel, pidVars>>

\* The stale output is gone, or the run refuses to start.
Cleared(r) ==
    /\ pc[r] = "clear"
    /\ \/ /\ sweep[<<r, "before">>].at = "returned"
          /\ Prepare(r) /\ UNCHANGED sweep
       \/ /\ sweep[<<r, "before">>].at # "returned"
          /\ sweep' = [sweep EXCEPT ![<<r, "before">>].given = TRUE]
          /\ Goto(r, "ended") /\ EndsAs(r, "failed") /\ UNCHANGED probes
    /\ UNCHANGED <<diskVars, child, seen, stalled, cancel, pidVars>>

\* The work directory is made in the shared thread pool, without a bound.
MakeWorkDir(r) ==
    /\ pc[r] = "mkdir" /\ alive
    /\ Prepare(r)
    /\ UNCHANGED <<diskVars, child, seen, stalled, cancel, pidVars, sweep>>

\* The directory is there and the converter is started, or it did not answer.
\* create_subprocess_exec waits on the event loop until the child has changed to
\* its working directory.
Spawn(r) ==
    /\ pc[r] = "prepare" /\ <<r, "makedirs">> \notin probes
    /\ Has("runs there") => alive
    /\ child' = [child EXCEPT ![r] = "running"]
    /\ tracked' = tracked \cup {r}
    /\ Goto(r, "reading")
    /\ UNCHANGED <<diskVars, seen, stalled, outcome, cancel, abandoned,
                   probes, sweep>>

PrepareExpires(r) ==
    /\ pc[r] = "prepare" /\ <<r, "makedirs">> \in probes
    /\ Goto(r, AfterFailure) /\ EndsAs(r, "failed")
    /\ UNCHANGED <<diskVars, child, seen, stalled, cancel, pidVars, probes, sweep>>

-----------------------------------------------------------------------------
\* The converter.

Exited(r) == child[r] \in {"ok", "bad"}

\* It writes at the destination, or in its work directory: on with the part it is
\* at, or the first of the next.
WritesFor(r, p) ==
    IF Has("private")
    THEN p = Base /\ work' = work \cup {r} /\ UNCHANGED file
    ELSE /\ p \in Written /\ p \in {begun[r], begun[r] + 1}
         /\ file' = [file EXCEPT ![p] = r] /\ UNCHANGED work

Writes(r) ==
    /\ child[r] = "running" /\ alive
    /\ \E p \in Parts : WritesFor(r, p) /\ begun' = [begun EXCEPT ![r] = p]
    /\ UNCHANGED <<tool, alive, hangs, runVars, child, cancel, pidVars, probes, sweep>>

\* It ends by itself, or because of SIGTERM, which leaves it the time to finish.
Exits(r) ==
    /\ child[r] = "running" /\ alive
    /\ \E how \in {"ok", "bad"} : child' = [child EXCEPT ![r] = how]
    /\ begun' = [begun EXCEPT ![r] = 0]
    /\ UNCHANGED <<tool, alive, hangs, file, work, runVars, cancel, pidVars, probes, sweep>>

\* SIGKILL is delivered once the system call under way, a write perhaps, is over.
Dies(r) ==
    /\ child[r] = "dying" /\ alive
    /\ (\E p \in Parts : WritesFor(r, p)) \/ UNCHANGED <<file, work>>
    /\ child' = [child EXCEPT ![r] = "bad"] /\ begun' = [begun EXCEPT ![r] = 0]
    /\ UNCHANGED <<tool, alive, hangs, runVars, cancel, pidVars, probes, sweep>>

-----------------------------------------------------------------------------
\* The read loop, its watchdog and the cancel watcher.

\* process.kill(); SIGTERM changes nothing that a converter could not do anyway.
Killed(r) == child' = [child EXCEPT ![r] = IF @ = "running" THEN "dying" ELSE @]

\* The user cancels.  An event set before the spawn is first read after it.
Cancel(r) ==
    /\ pc[r] \in {"reading", "stalled", "exit", "term", "kill"}
    /\ cancel' = cancel \cup {r}
    /\ UNCHANGED <<diskVars, runVars, child, pidVars, probes, sweep>>

\* What the watcher waits for.
Anyway(r)  == r \notin seen
Awaited(r) == r \in cancel \ seen

\* _cancel_watcher: nothing to stop if the child has ended, else SIGTERM.
WatcherActs(r) ==
    /\ pc[r] \in {"reading", "stalled", "exit", "term", "kill"}
    /\ Awaited(r) /\ ~Exited(r)
    /\ seen' = seen \cup {r}
    /\ UNCHANGED <<diskVars, pc, outcome, stalled, child, cancel, pidVars, probes, sweep>>

\* Five seconds later, SIGKILL.
WatcherKills(r) ==
    /\ pc[r] \in {"reading", "stalled", "exit", "term"} /\ r \in seen /\ child[r] = "running"
    /\ Killed(r)
    /\ UNCHANGED <<diskVars, runVars, cancel, pidVars, probes, sweep>>

\* The probe for the stall timeout and the one for the input are awaited with
\* a bound, _measure_output has one under way at a time and never awaits it.
Measure(r, k) ==
    /\ pc[r] = "reading" /\ <<r, k>> \notin probes /\ RoomForProbe
    /\ probes' = probes \cup {<<r, k>>}
    /\ UNCHANGED <<diskVars, runVars, child, cancel, pidVars, sweep>>

\* The stream ends with the child, or earlier: a converter may close it, and
\* the loop stops reading for a cancel.  reap waits for a voluntary exit only
\* when nothing has asked the child to stop.
EndOfOutput(r) ==
    /\ pc[r] = "reading"
    /\ Goto(r, IF r \in cancel THEN "term" ELSE "exit")
    /\ UNCHANGED <<diskVars, seen, stalled, outcome, child, cancel, pidVars, probes, sweep>>

\* No progress and no growth for the stall timeout.
Stall(r) ==
    /\ pc[r] = "reading"
    /\ stalled' = stalled \cup {r}
    /\ Goto(r, "stalled")
    /\ UNCHANGED <<diskVars, seen, outcome, child, cancel, pidVars, probes, sweep>>

\* Five seconds later the watchdog kills it, and the ladder starts over.
StallKills(r) ==
    /\ pc[r] = "stalled" /\ ~Exited(r)
    /\ Killed(r) /\ Goto(r, "term")
    /\ UNCHANGED <<diskVars, outcome, seen, stalled, cancel, pidVars,
                   probes, sweep>>

-----------------------------------------------------------------------------
\* reap: every wait is bounded.

Reaped(r) ==
    /\ pc[r] \in {"stalled", "exit", "term", "kill"} /\ Exited(r)
    /\ Goto(r, "verdict")
    /\ UNCHANGED <<diskVars, outcome, seen, stalled, child, cancel, pidVars,
                   probes, sweep>>

AskToStop(r) ==
    /\ pc[r] = "exit" /\ ~Exited(r)
    /\ Goto(r, "term")
    /\ UNCHANGED <<diskVars, outcome, seen, stalled, child, cancel, pidVars,
                   probes, sweep>>

Kill(r) ==
    /\ pc[r] = "term" /\ ~Exited(r)
    /\ Goto(r, "kill") /\ Killed(r)
    /\ UNCHANGED <<diskVars, outcome, seen, stalled, cancel, pidVars,
                   probes, sweep>>

\* The child outlived SIGKILL: it is written down and left alone.
ForgetChild(r) == UNCHANGED abandoned
NoteChild(r) == abandoned' = abandoned \cup {r}

WaitsForever(r) == FALSE
GivesUp(r) == pc[r] = "kill" /\ ~Exited(r)

Abandon(r) ==
    /\ GivesUp(r)
    /\ NoteChild(r)
    /\ Goto(r, "verdict")
    /\ UNCHANGED <<diskVars, outcome, seen, stalled, child, cancel, tracked,
                   probes, sweep>>

\* abandoned_pids drops those that are gone.
AbandonedGone(r) ==
    /\ r \in abandoned /\ Exited(r) /\ pc[r] = "ended"
    /\ abandoned' = abandoned \ {r}
    /\ UNCHANGED <<diskVars, runVars, child, cancel, tracked, probes, sweep>>

-----------------------------------------------------------------------------
\* The report, and what follows it.

Produced(r) == IF Has("private") THEN r \in work ELSE file[Base] # Absent

\* Mutant: the exit code of the child is not looked at.
IgnoresExit(r) ==
    IF r \in abandoned THEN "abandoned"
    ELSE IF r \in stalled THEN "failed"
    ELSE IF r \in seen THEN "cancelled"
    ELSE IF Has("requires") /\ ~Produced(r) THEN "failed" ELSE "complete"
\* The order in which run() raises: an abandoned child outranks a stall, a
\* stall outranks a cancel, and a cancel the child's own exit code.
Report(r) ==
    IF r \in abandoned THEN "abandoned"
    ELSE IF r \in stalled THEN "failed"
    ELSE IF r \in seen THEN "cancelled"
    ELSE IF child[r] # "ok" THEN "failed"
    ELSE IF Has("requires") /\ ~Produced(r) THEN "failed" ELSE "complete"

\* The existence check of require_output runs on the event loop.
LooksForOutput(r) == Has("requires") /\ child[r] = "ok" /\ r \notin seen \cup stalled

Verdict(r) ==
    /\ pc[r] = "verdict"
    /\ LooksForOutput(r) => alive
    /\ EndsAs(r, Report(r))
    /\ cancel' = cancel \ {r} /\ seen' = seen \ {r} /\ stalled' = stalled \ {r}
    /\ tracked' = tracked \ {r}
    /\ Goto(r, IF outcome'[r] # "complete" THEN AfterFailure
               ELSE IF tool \cap {"private", "reads back"} # {} THEN "publish"
               ELSE "ended")
    /\ UNCHANGED <<diskVars, child, abandoned, probes, sweep>>

\* os.replace, or the look at what was built, in the shared thread pool;
\* os.replace fails when nothing was written.
Publish(r) ==
    /\ pc[r] = "publish" /\ alive
    /\ \/ /\ ~Has("private")
          /\ Goto(r, "ended") /\ UNCHANGED <<file, work, outcome>>
       \/ /\ Has("private") /\ r \in work
          /\ file' = [file EXCEPT ![Base] = r] /\ work' = work \ {r}
          /\ Goto(r, "tree") /\ UNCHANGED outcome
       \/ /\ Has("private") /\ r \notin work
          /\ EndsAs(r, "failed") /\ Goto(r, AfterFailure)
          /\ UNCHANGED <<file, work>>
    /\ UNCHANGED <<tool, alive, hangs, begun, child, seen, stalled, cancel, pidVars, probes, sweep>>

\* remove_partial_output: dispatch, then wait with a bound.
SweepStarts(r) ==
    /\ pc[r] = "sweep" /\ sweep[<<r, "after">>].at = "none"
    /\ StartSweep(<<r, "after">>, "sweep", LastPhase)
    /\ UNCHANGED <<diskVars, outcome, seen, stalled, child, cancel, pidVars, probes>>

SweepEnds(r) ==
    /\ pc[r] = "sweep" /\ sweep[<<r, "after">>].at # "none"
    /\ \/ sweep[<<r, "after">>].at = "returned" /\ UNCHANGED sweep
       \/ /\ sweep[<<r, "after">>].at # "returned"
          /\ sweep' = [sweep EXCEPT ![<<r, "after">>].given = TRUE]
    /\ Goto(r, LastPhase)
    /\ UNCHANGED <<diskVars, outcome, seen, stalled, child, cancel, pidVars, probes>>

\* remove_partial_tree: the name of the directory is this run's for ever, so
\* it does not matter whether the removal is over when the run ends.
RemoveTree(r) ==
    /\ pc[r] = "tree"
    /\ work' = work \ {r} \/ UNCHANGED work
    /\ Goto(r, "ended")
    /\ UNCHANGED <<tool, alive, hangs, file, begun, outcome, seen, stalled, child, cancel,
                   pidVars, probes, sweep>>

-----------------------------------------------------------------------------
\* The volume.

StopAnswering ==
    /\ alive /\ hangs < MaxHangs
    /\ alive' = FALSE /\ hangs' = hangs + 1
    /\ UNCHANGED <<tool, file, begun, work, runVars, child, cancel, pidVars, probes, sweep>>

AnswerAgain ==
    /\ ~alive /\ alive' = TRUE
    /\ UNCHANGED <<tool, hangs, file, begun, work, runVars, child, cancel, pidVars, probes, sweep>>

-----------------------------------------------------------------------------
Step(r) ==
    \/ Begin(r) \/ Cleared(r) \/ MakeWorkDir(r) \/ Spawn(r) \/ PrepareExpires(r)
    \/ EndOfOutput(r) \/ Stall(r) \/ StallKills(r) \/ Reaped(r) \/ AskToStop(r) \/ Kill(r) \/ Abandon(r)
    \/ Verdict(r) \/ Publish(r) \/ SweepStarts(r) \/ SweepEnds(r) \/ RemoveTree(r)

ToolNext ==
    \/ \E r \in Runs : Step(r) \/ Cancel(r) \/ WatcherActs(r) \/ WatcherKills(r)
          \/ (\E k \in Samples : Measure(r, k)) \/ AbandonedGone(r)
          \/ Writes(r) \/ Exits(r) \/ Dies(r)
    \/ \E x \in probes : ProbeReturns(x)
    \/ \E s \in Sweepers : SweepLists(s) \/ SweepNext(s) \/ SweepUnlinks(s)
    \/ StopAnswering \/ AnswerAgain

ToolSpec == ToolInit /\ [][ToolNext]_toolVars

\* The event loop runs and its timers fire; nothing is assumed of the converter,
\* of the threads or of the volume.
ToolFairSpec == ToolSpec /\ \A r \in Runs : WF_toolVars(Step(r))

-----------------------------------------------------------------------------
\* Properties.

SweepStates == [at : {"none", "list", "unlink", "returned"}, todo : SUBSET Parts,
                next : Parts \cup {NoPath}, given : BOOLEAN, lost : SUBSET (Parts \X Runs)]
ToolTypeOK ==
    /\ tool \in Tools /\ alive \in BOOLEAN /\ hangs \in 0..MaxHangs
    /\ file \in [Parts -> Runs \cup {Absent}] /\ begun \in [Runs -> Parts] /\ work \subseteq Runs
    /\ pc \in [Runs -> Phases]
    /\ child \in [Runs -> {"none", "running", "dying", "ok", "bad"}]
    /\ cancel \subseteq Runs /\ seen \subseteq cancel /\ stalled \subseteq Runs
    /\ outcome \in [Runs -> {"none", "failed", "abandoned", "cancelled", "complete"}]
    /\ tracked \subseteq Runs /\ abandoned \subseteq Runs
    /\ probes \subseteq Runs \X (Samples \cup {"makedirs"})
    /\ sweep \in [Sweepers -> SweepStates]

\* A run that ends while its converter still runs says so, whatever else
\* happened to it: it is not reported as cancelled, stalled or complete, the
\* converter is on the list of the abandoned that later work asks, and it is
\* no longer among the active ones.  (subprocess_runner.py reap and the order
\* of the errors of run.)
StillRunningIsSaid ==
    \A r \in Runs : pc[r] = "ended" /\ child[r] \in {"running", "dying"} =>
        outcome[r] = "abandoned" /\ r \in abandoned \ tracked

\* Children and outcomes agree, on well-formed runs.
RunInv == ToolTypeOK /\ StillRunningIsSaid

\* A sweep that was given up and comes back to life after the volume does may
\* take one file of a later run with it, the one whose removal was under way,
\* and never a second.  (subprocess_runner.py _unlink_all.)
StrayOnce == \A s \in Sweepers : \A x, y \in sweep[s].lost : x[1] = y[1]

\* A numbered part of run r that its own sweep cannot see: a sweep that an earlier
\* run gave up on came back and took a part below it.
BeyondGap(r, p) ==
    \E q \in 1..(p - 1), s \in Sweepers : s[1] < r /\ <<q, r>> \in sweep[s].lost

\* When a tool that sweeps has failed or was cancelled, its converter is gone
\* and the sweep came to its end, no part of what it wrote is left, the parts of
\* a split build included, but those behind a gap that a stray sweep has made.
\* (output_artifacts and _numbered_parts of makeps3iso.py.)
SweptClean ==
    \A r \in Runs :
        (/\ Has("sweeps") /\ pc[r] = "ended" /\ outcome[r] \in {"failed", "cancelled"}
         /\ sweep[<<r, "after">>].at = "returned" /\ ~sweep[<<r, "after">>].given)
        => \A p \in Parts : file[p] = r => BeyondGap(r, p)

\* What a tool with a work directory shows at the destination was written by a
\* converter that ended well, in a run that was not reported as anything else.
PublishedWhole ==
    Has("private") => \A r \in Runs :
        file[Base] = r => child[r] = "ok" /\ outcome[r] = "complete"

\* No way to end leaves a partial output for a product, be it hidden in a work
\* directory or swept away (run, publish, _unlink_all).
NothingPartial == PublishedWhole /\ SweptClean

\* All filesystem calls of a run are bounded, so it ends even if the volume
\* never answers again and the converter cannot be killed.  The steps that are
\* not bounded are those of a work directory, of a working directory on the
\* volume, of require_output and of the look at what was built.
Unbounded == {"private", "requires", "runs there", "reads back"}
NeverHangs == tool \cap Unbounded = {} => <>(\A r \in Runs : pc[r] = "ended")

\* The comment on the sweep: "Every tool that writes its output in place sweeps
\* the partial away when a run ends abnormally."
PartialSwept ==
    \A r \in Runs :
        (/\ ~Has("private") /\ pc[r] = "ended" /\ outcome[r] \in {"failed", "cancelled"}
         /\ ~sweep[<<r, "after">>].given /\ hangs = 0)
        => \A p \in Parts : file[p] # r

\* output_artifacts: "Everything a run of this tool may have put on disk", so that
\* a sweep that came to its end leaves nothing.
EverythingSwept ==
    \A r \in Runs :
        (/\ Has("sweeps") /\ pc[r] = "ended" /\ outcome[r] \in {"failed", "cancelled"}
         /\ sweep[<<r, "after">>].at = "returned" /\ ~sweep[<<r, "after">>].given)
        => \A p \in Parts : file[p] # r

\* The comment on the first probe: every filesystem call of run() is bounded,
\* an unresponsive output mount fails the job and does not hang it.
RunAlwaysEnds == tool \cap {"private", "reads back"} = {} => <>(\A r \in Runs : pc[r] = "ended")

=============================================================================
