----------------------------- MODULE VerifyLane -----------------------------
(***************************************************************************)
(* The verify routes: a lane of limited width, a verifier under a bound in *)
(* a task of its own, and a client that may read, stop reading or leave    *)
(* (routes/info.py, services/workload_limiter.py, and the verify side of   *)
(* services/subprocess_runner.py).                                         *)
(*                                                                         *)
(* A request of kind "sync" is one await, "events" is one stream for one   *)
(* file, and "batch" is one stream for several.  A stream stands still     *)
(* while its client does not read.  What a bounded wait gave up on, while  *)
(* the volume did not answer, is stuck until the volume answers.           *)
(***************************************************************************)
EXTENDS Integers, Sequences, FiniteSets

CONSTANTS
    Sync, Events, Batch, \* the requests of each kind
    Files,      \* the number of files of a batch
    Limit,      \* max_verify_concurrency
    QueueLimit, \* _VERIFY_QUEUE_LIMIT
    MaxHangs    \* bound: how often the volume stops answering

Reqs == Sync \cup Events \cup Batch

ASSUME VerifyLaneAssumption ==
    /\ Files \in Nat \ {0} /\ Limit \in Nat \ {0} /\ QueueLimit \in Nat \ {0}
    /\ MaxHangs \in Nat /\ IsFiniteSet(Reqs)
    /\ Sync \cap Events = {} /\ (Sync \cup Events) \cap Batch = {}

VARIABLES
    alive,   \* the volume answers
    hangs,   \* how often it stopped so far
    client,  \* "reads", "stands still" or "gone"
    pc,      \* where each request stands
    at,      \* the file a batch is at, 0 before the first
    token,   \* requests that hold a slot of the lane
    task,    \* the producing task, or the await of a sync request
    queue,   \* events not delivered yet
    result,  \* what is known of the file a batch is at
    told,    \* requests whose client was sent the verdict, or the last event
    stuck    \* <<request, file>> whose thread or child never came back

reqVars  == <<client, pc, at, told>>
taskVars == <<task, queue, result>>
volVars  == <<alive, hangs>>
vars == <<alive, hangs, client, pc, at, token, task, queue, result, told, stuck>>

Init ==
    /\ alive = TRUE /\ hangs = 0
    /\ client = [q \in Reqs |-> "reads"] /\ pc = [q \in Reqs |-> "idle"]
    /\ at = [q \in Reqs |-> 0] /\ token = {}
    /\ task = [q \in Reqs |-> "none"] /\ queue = [q \in Reqs |-> <<>>]
    /\ result = [q \in Reqs |-> "none"]
    /\ told = {} /\ stuck = {}

Goto(q, to) == pc' = [pc EXCEPT ![q] = to]

\* A wait that gave up left its thread behind if the volume was to blame.
GaveUp(q) == stuck' = IF alive THEN stuck ELSE stuck \cup {<<q, at[q]>>}

-----------------------------------------------------------------------------
\* Admission.

LaneFree == Cardinality(token) < Limit
Release(q) == token' = token \ {q}

\* _guard_verify_path, and the checks of the paths of a batch.
Request(q) ==
    /\ pc[q] = "idle" /\ Goto(q, "guard")
    /\ UNCHANGED <<volVars, client, at, token, taskVars, told, stuck>>

GuardExpires(q) ==
    /\ pc[q] = "guard" /\ ~alive
    /\ GaveUp(q) /\ Goto(q, "ended") /\ told' = told \cup {q}
    /\ UNCHANGED <<volVars, client, at, token, taskVars>>

\* try_acquire: refused when no slot is free, in the route, and for `events`
\* in the stream.
Admit(q) ==
    /\ pc[q] = "guard" /\ alive
    /\ \/ /\ LaneFree /\ token' = token \cup {q}
          /\ Goto(q, IF q \in Batch THEN "taken" ELSE "sizing")
          /\ UNCHANGED told
       \/ /\ ~LaneFree /\ UNCHANGED token
          /\ Goto(q, "ended") /\ told' = told \cup {q}
    /\ UNCHANGED <<volVars, client, at, taskVars, stuck>>

\* The stream of a batch gives back the slot of the route first.
CarryIntoWalk(q) == UNCHANGED token
HandBack(q)      == Release(q)
StartBatch(q) ==
    /\ pc[q] = "taken"
    /\ HandBack(q) /\ Goto(q, "between")
    /\ UNCHANGED <<volVars, client, at, taskVars, told, stuck>>

-----------------------------------------------------------------------------
\* One file.

\* The events before a file have to be taken by the client.
NextFile(q) ==
    /\ pc[q] = "between" /\ client[q] = "reads" /\ at[q] < Files
    /\ at' = [at EXCEPT ![q] = @ + 1] /\ Goto(q, "sizing")
    /\ result' = [result EXCEPT ![q] = "none"] /\ queue' = [queue EXCEPT ![q] = <<>>]
    /\ task' = [task EXCEPT ![q] = "none"]
    /\ UNCHANGED <<volVars, client, token, told, stuck>>

StartTask(q) ==
    /\ Goto(q, "verifying")
    /\ task' = [task EXCEPT ![q] = "probing"]

\* The bound is resolved from the size; without an answer there is a default.
\* A request for one file holds its slot by now, a batch asks for one.
Sized(q) ==
    /\ pc[q] = "sizing"
    /\ GaveUp(q)
    /\ IF q \in Batch
       THEN Goto(q, "waiting") /\ UNCHANGED task
       ELSE StartTask(q)
    /\ UNCHANGED <<volVars, client, at, token, queue, result, told>>

TakeLane(q) ==
    /\ pc[q] = "waiting" /\ LaneFree
    /\ token' = token \cup {q} /\ StartTask(q)
    /\ UNCHANGED <<volVars, client, at, queue, result, told, stuck>>

-----------------------------------------------------------------------------
\* The producing task: verify_stream under a deadline.

\* _offer_verify_update.
OfferAlways(q) == queue' = [queue EXCEPT ![q] = Append(@, "progress")]
OfferProgress(q) ==
    queue' = IF Len(queue[q]) < QueueLimit
             THEN [queue EXCEPT ![q] = Append(@, "progress")] ELSE queue

DropVerdict(q, s) ==
    IF Len(s) < QueueLimit THEN Append(s, "verdict") ELSE s
WithVerdict(q, s) ==
    Append(IF Len(s) < QueueLimit THEN s ELSE Tail(s), "verdict")

KeepForConsumer(q) == UNCHANGED token
ReleaseByTask(q)   == Release(q)

\* The end of the task: verdict, `done`, and the slot of the lane.  What nobody
\* reads any more, because the consumer has left, is not kept in the model.
Unread(q) == pc[q] \in {"closing", "dropped"}
EndTask(q, verdict) ==
    /\ task' = [task EXCEPT ![q] = "over"]
    /\ IF Unread(q) \/ q \in Sync
       THEN UNCHANGED queue
       ELSE queue' = [queue EXCEPT ![q] = WithVerdict(q, @)]
    /\ result' = [result EXCEPT ![q] =
         IF Unread(q) \/ q \notin Batch THEN @ ELSE verdict]
    /\ ReleaseByTask(q)

\* verify_preflight.
Preflight(q) ==
    /\ task[q] = "probing" /\ alive
    /\ \/ task' = [task EXCEPT ![q] = "running"] /\ UNCHANGED <<queue, result, token>>
       \/ EndTask(q, "verdict")
    /\ UNCHANGED <<volVars, reqVars, stuck>>

PreflightExpires(q) ==
    /\ task[q] = "probing"
    /\ GaveUp(q)
    /\ EndTask(q, "abandoned")
    /\ UNCHANGED <<volVars, reqVars>>

Progress(q) ==
    /\ task[q] = "running" /\ alive /\ q \notin Sync /\ ~Unread(q)
    /\ OfferProgress(q)
    /\ UNCHANGED <<volVars, reqVars, token, task, result, stuck>>

\* The verifier comes to an end, and the file is good or bad.
Finish(q) ==
    /\ task[q] = "running" /\ alive
    /\ EndTask(q, "verdict")
    /\ UNCHANGED <<volVars, reqVars, stuck>>

\* The overall bound, the stall bound, or the cancellation of the task: the
\* child is signalled, or the read is left to itself.
Stop(q) ==
    /\ task[q] = "running"
    /\ task' = [task EXCEPT ![q] = "stopping"]
    /\ UNCHANGED <<volVars, reqVars, token, queue, result, stuck>>

\* reap: the child is gone, or it outlived SIGKILL and is reported as such.
Stopped(q) ==
    /\ task[q] = "stopping"
    /\ GaveUp(q)
    /\ EndTask(q, IF alive THEN "verdict" ELSE "abandoned")
    /\ UNCHANGED <<volVars, reqVars>>

-----------------------------------------------------------------------------
\* The consumer.

\* The next event, to the verdict; a task that is over with nothing left to
\* deliver ends the loop as well.
Deliver(q) ==
    /\ pc[q] = "verifying" /\ client[q] = "reads" /\ q \notin Sync
    /\ queue[q] # <<>> \/ task[q] = "over"
    /\ LET verdict == queue[q] # <<>> /\ Head(queue[q]) = "verdict" IN
       /\ IF verdict \/ queue[q] = <<>> THEN Goto(q, "closing") ELSE UNCHANGED pc
       /\ told' = IF verdict /\ q \in Events THEN told \cup {q} ELSE told
    /\ queue' = [queue EXCEPT ![q] = IF @ = <<>> THEN @ ELSE Tail(@)]
    /\ UNCHANGED <<volVars, client, at, token, task, result, stuck>>

\* `finally`: cancel the task, wait for it, release the slot.
TaskGone(q) == task[q] \in {"none", "over"}

Close(q) ==
    /\ pc[q] = "closing" /\ TaskGone(q)
    /\ Release(q)
    /\ Goto(q, IF q \in Batch /\ client[q] # "gone" THEN "report" ELSE "ended")
    /\ queue' = [queue EXCEPT ![q] = <<>>]
    /\ UNCHANGED <<volVars, client, at, task, result, told, stuck>>

Answer(q) ==
    /\ q \in Sync /\ pc[q] = "verifying" /\ task[q] = "over"
    /\ Release(q) /\ Goto(q, "ended") /\ told' = told \cup {q}
    /\ UNCHANGED <<volVars, client, at, taskVars, stuck>>

\* A batch reports the file and goes on, unless something was left stuck.
GoOnAnyway(q) == FALSE
StopsBatch(q) == result[q] = "abandoned"

Report(q) ==
    /\ pc[q] = "report" /\ client[q] = "reads"
    /\ IF StopsBatch(q)
       THEN Goto(q, "ended") /\ told' = told \cup {q}
       ELSE Goto(q, "between") /\ UNCHANGED told
    /\ UNCHANGED <<volVars, client, at, token, taskVars, stuck>>

Complete(q) ==
    /\ pc[q] = "between" /\ client[q] = "reads" /\ at[q] = Files
    /\ Goto(q, "ended") /\ told' = told \cup {q}
    /\ UNCHANGED <<volVars, client, at, token, taskVars, stuck>>

-----------------------------------------------------------------------------
\* The client, and the volume.

Pause(q) ==
    /\ pc[q] # "ended" /\ q \notin Sync /\ client[q] = "reads"
    /\ client' = [client EXCEPT ![q] = "stands still"]
    /\ UNCHANGED <<volVars, pc, at, token, taskVars, told, stuck>>

Resume(q) ==
    /\ pc[q] # "ended" /\ client[q] = "stands still"
    /\ client' = [client EXCEPT ![q] = "reads"]
    /\ UNCHANGED <<volVars, pc, at, token, taskVars, told, stuck>>

\* A stream that waits for something is cancelled there and runs its `finally`;
\* one that has not been started has none to run.  A plain route is not cancelled.
FreedAtOnce(q) == {q}
FreedOnLeave(q) ==
    IF pc[q] \in {"sizing", "waiting", "between", "report"} THEN {q} ELSE {}

Leave(q) ==
    /\ q \notin Sync /\ client[q] # "gone"
    /\ pc[q] \in {"taken", "sizing", "waiting", "verifying", "closing", "between", "report"}
    /\ client' = [client EXCEPT ![q] = "gone"]
    /\ Goto(q, IF pc[q] \in {"verifying", "closing"} THEN "closing" ELSE "ended")
    /\ token' = token \ FreedOnLeave(q)
    /\ task' = [task EXCEPT ![q] =
         IF pc[q] = "verifying" /\ @ \in {"probing", "running"} THEN "stopping" ELSE @]
    /\ queue' = [queue EXCEPT ![q] = <<>>]
    /\ UNCHANGED <<volVars, at, result, told, stuck>>

\* A batch that stands at a `yield` is not cancelled but dropped: the `finally` of
\* wrapped_event_generator gives the slot back first.  The walk inside is collected
\* afterwards, and only its `finally` cancels the verifier and waits for it.
DropAtYield(q) ==
    /\ q \in Batch /\ pc[q] = "verifying" /\ client[q] # "gone"
    /\ client' = [client EXCEPT ![q] = "gone"]
    /\ Release(q) /\ Goto(q, "dropped") /\ queue' = [queue EXCEPT ![q] = <<>>]
    /\ UNCHANGED <<volVars, at, task, result, told, stuck>>

Collect(q) ==
    /\ pc[q] = "dropped" /\ Goto(q, "closing")
    /\ task' = [task EXCEPT ![q] = IF @ \in {"probing", "running"} THEN "stopping" ELSE @]
    /\ UNCHANGED <<volVars, client, at, token, queue, result, told, stuck>>

StopAnswering ==
    /\ alive /\ hangs < MaxHangs
    /\ alive' = FALSE /\ hangs' = hangs + 1
    /\ UNCHANGED <<reqVars, token, taskVars, stuck>>

\* Everything that was stuck comes back.
AnswerAgain ==
    /\ ~alive /\ alive' = TRUE /\ stuck' = {}
    /\ UNCHANGED <<hangs, reqVars, token, taskVars>>

-----------------------------------------------------------------------------
Serve(q) ==
    \/ GuardExpires(q) \/ Admit(q) \/ StartBatch(q) \/ NextFile(q) \/ Sized(q)
    \/ Deliver(q) \/ Close(q) \/ Answer(q) \/ Report(q) \/ Complete(q)
    \/ Collect(q)

Produce(q) ==
    Preflight(q) \/ PreflightExpires(q) \/ Finish(q) \/ Stop(q) \/ Stopped(q)

Next ==
    \/ \E q \in Reqs : Request(q) \/ Serve(q) \/ TakeLane(q) \/ Produce(q) \/ Progress(q)
                         \/ Pause(q) \/ Resume(q) \/ Leave(q) \/ DropAtYield(q)
    \/ StopAnswering \/ AnswerAgain

Spec == Init /\ [][Next]_vars

\* The loop runs what is ready, timers fire, and the lane is handed out in the
\* order of waiting.  Nothing is assumed of the clients or of the volume.
FairSpec == Spec /\ \A q \in Reqs : WF_vars(Serve(q)) /\ SF_vars(TakeLane(q)) /\ WF_vars(Produce(q))

-----------------------------------------------------------------------------
\* Properties.

TypeOK ==
    /\ alive \in BOOLEAN /\ hangs \in 0..MaxHangs
    /\ client \in [Reqs -> {"reads", "stands still", "gone"}]
    /\ pc \in [Reqs -> {"idle", "guard", "taken", "between", "sizing", "waiting",
                        "verifying", "dropped", "closing", "report", "ended"}]
    /\ at \in [Reqs -> 0..Files] /\ token \subseteq Reqs
    /\ task \in [Reqs -> {"none", "probing", "running", "stopping", "over"}]
    /\ \A q \in Reqs : /\ queue[q] \in Seq({"progress", "verdict"})
                       /\ Len(queue[q]) <= QueueLimit
    /\ result \in [Reqs -> {"none", "verdict", "abandoned"}]
    /\ told \subseteq Reqs /\ stuck \subseteq Reqs \X (0..Files)

\* Every verifier that runs stands for a slot of the lane, through time-outs,
\* clients that leave in the middle and batches that take a slot per file: the
\* slot is given back when the verifier has been dealt with.  The one that may run
\* without is that of a batch whose client left while the stream stood at a
\* `yield`, and nothing of it is left when the stream has ended.
Verifying == {q \in Reqs : task[q] \in {"probing", "running", "stopping"}}
Overrun == Verifying \ token
LaneBound ==
    /\ Cardinality(token) <= Limit
    /\ \A q \in Overrun : q \in Batch /\ client[q] = "gone" /\ pc[q] \in {"dropped", "closing"}
    /\ \A q \in token : pc[q] = "ended" => q \in Batch /\ at[q] = 0

\* The lane is never wider than it should be, on well-formed requests.
LaneInv == TypeOK /\ LaneBound

\* One unresponsive volume costs a batch the threads and children of one file:
\* it stops there instead of opening the next.  (The abandoned flag, the sink of
\* collect_abandonment, and the end of validation at the first time-out.)
StrandsOneFile ==
    \A q \in Batch : Cardinality({i \in 0..Files : <<q, i>> \in stuck}) <= 1

\* A client that stays is told the verdict before its stream ends, however far
\* it was behind the verifier: _offer_verify_update may drop progress and never
\* a verdict.
Told == \A q \in Reqs : pc[q] = "ended" /\ client[q] # "gone" => q \in told

\* A slot that is held comes free although the client stops reading, although
\* the volume never answers again and although a child cannot be killed.  A
\* batch that has not started is the matter of NoSlotLost.
TokenReturns ==
    \A q \in Reqs : (q \in token /\ pc[q] \notin {"taken", "ended"}) ~> q \notin token

\* A client that goes on reading comes to the end of what it asked for, a batch
\* that waits for the lane included, as long as no slot is lost.
Lost == {q \in token : pc[q] = "ended"}
Served ==
    \A q \in Reqs :
        pc[q] # "idle" ~> pc[q] = "ended" \/ client[q] # "reads" \/ Lost # {}

\* The verifier of a dropped stream does not go on for long without a slot.
OverrunEnds == \A q \in Batch : q \in Overrun ~> q \notin Verifying

\* The lane moves on: slots come back, those who wait are served, and nobody who
\* has lost his slot goes on without one.
LaneMoves == TokenReturns /\ Served /\ OverrunEnds

\* The comment on wrapped_event_generator: its `finally` gives back the slot of
\* the route also after "a disconnect before the first file".
NoSlotLost == \A q \in token : pc[q] # "ended"

\* max_verify_concurrency: "Maximum concurrent verify workloads across all
\* endpoints", that is, no more verifiers at once than the lane has slots.
WorkloadBound == Cardinality(Verifying) <= Limit

=============================================================================
