-------------------------- MODULE VerifyLaneProofs --------------------------
(***************************************************************************)
(* Theorems about VerifyLane for any requests, batches of any length, any  *)
(* width of the lane and of the queues, and a volume that stops answering  *)
(* any number of times: the lane is never wider than its limit, a batch    *)
(* strands one file at most, and a client that stays is told the verdict.  *)
(***************************************************************************)
EXTENDS VerifyLane, FiniteSetTheorems, TLAPS

-----------------------------------------------------------------------------
\* The inductive invariant, request by request.

Busy == {"probing", "running", "stopping"}

\* Who holds a slot, and what the phases say of the task.
Holds(q) ==
    /\ task[q] \in Busy => \/ q \in token /\ pc[q] \in {"verifying", "closing"}
                           \/ q \in Batch /\ client[q] = "gone" /\ pc[q] \in {"dropped", "closing"}
    /\ q \in token => \/ pc[q] = "taken"
                      \/ pc[q] = "sizing" /\ q \notin Batch
                      \/ pc[q] \in {"verifying", "closing"} /\ task[q] \in Busy
                      \/ pc[q] = "ended" /\ q \in Batch /\ at[q] = 0
    /\ pc[q] = "sizing" /\ q \notin Batch => q \in token
    /\ pc[q] \in {"verifying", "dropped", "closing"} => task[q] # "none"
    /\ pc[q] \in {"idle", "guard", "taken", "sizing", "waiting"} => task[q] = "none"
    /\ pc[q] \in {"idle", "guard", "taken"} => at[q] = 0
    /\ pc[q] \in {"taken", "between", "waiting", "dropped", "report"} => q \in Batch
    /\ pc[q] = "dropped" => client[q] = "gone"
    /\ q \in Sync => pc[q] \in {"idle", "guard", "sizing", "verifying", "ended"}

\* The queue is progress, and the verdict behind it once the task is over.
Ends(s) == Len(s) > 0 /\ s[Len(s)] = "verdict" /\ \A n \in 1..(Len(s) - 1) : s[n] = "progress"
Carries(q) ==
    /\ task[q] # "over" => \A n \in DOMAIN queue[q] : queue[q][n] = "progress"
    /\ pc[q] = "verifying" /\ task[q] = "over" /\ q \notin Sync => Ends(queue[q])
    /\ pc[q] = "closing" /\ client[q] # "gone" => task[q] = "over" /\ (q \in Events => q \in told)
    /\ pc[q] = "ended" /\ client[q] # "gone" => q \in told

\* What a batch has left stuck is of the file it is at, and it will not go on to
\* another: it is about to learn so, has learnt it, or is at its end.
Stranded(q) ==
    \/ pc[q] \in {"waiting", "ended"}
    \/ pc[q] = "verifying" /\ task[q] = "probing"
    \/ pc[q] \in {"dropped", "closing"} /\ client[q] = "gone"
    \/ pc[q] \in {"verifying", "closing", "report"} /\ task[q] = "over" /\ result[q] = "abandoned"
Strands(q) == \A i : q \in Batch /\ <<q, i>> \in stuck => i = at[q] /\ Stranded(q)

Right(q) == Holds(q) /\ Carries(q) /\ Strands(q)

Queues == queue \in [Reqs -> Seq({"progress", "verdict"})]

IInv ==
    /\ TypeOK /\ Queues /\ Cardinality(token) <= Limit
    /\ alive => stuck = {}
    /\ \A q \in Reqs : Right(q)

-----------------------------------------------------------------------------
\* Types.

\* What an action of request q may make of its variables.
LEMMA GaveUpType ==
    ASSUME TypeOK, NEW q \in Reqs, GaveUp(q)
    PROVE  /\ stuck' \subseteq Reqs \X (0..Files)
           /\ stuck \subseteq stuck' /\ stuck' \subseteq stuck \cup {<<q, at[q]>>}
           /\ alive => stuck' = stuck
<1>1. at[q] \in 0..Files /\ stuck \subseteq Reqs \X (0..Files)  BY DEF TypeOK
<1> QED  BY <1>1 DEF GaveUp

\* A queue with one more in it, or one fewer.
LEMMA Queued ==
    ASSUME NEW q, NEW s \in Seq({"progress", "verdict"}), Len(s) <= QueueLimit
    PROVE  /\ WithVerdict(q, s) \in Seq({"progress", "verdict"}) /\ Len(WithVerdict(q, s)) <= QueueLimit
           /\ (\A n \in DOMAIN s : s[n] = "progress") => Ends(WithVerdict(q, s))
<1> DEFINE t == IF Len(s) < QueueLimit THEN s ELSE Tail(s)
<1>1. QueueLimit \in Nat \ {0}  BY VerifyLaneAssumption
<1>2. t \in Seq({"progress", "verdict"}) /\ Len(t) < QueueLimit
  <2>1. CASE Len(s) < QueueLimit  BY <2>1
  <2>2. CASE ~(Len(s) < QueueLimit)
    <3>1. s # <<>> /\ Len(s) = QueueLimit  BY <1>1, <2>2
    <3> QED  BY <1>1, <2>2, <3>1
  <2> QED  BY <2>1, <2>2
<1>3. (\A n \in DOMAIN s : s[n] = "progress") => \A n \in 1..Len(t) : t[n] = "progress"
  <2>1. CASE Len(s) < QueueLimit  BY <2>1
  <2>2. CASE ~(Len(s) < QueueLimit)
    <3>1. s # <<>>  BY <1>1, <2>2
    <3> QED  BY <2>2, <3>1
  <2> QED  BY <2>1, <2>2
<1>4. WithVerdict(q, s) = Append(t, "verdict")  BY DEF WithVerdict
<1> HIDE DEF t
<1> DEFINE u == Append(t, "verdict")
<1>5. Len(t) \in Nat /\ u \in Seq({"progress", "verdict"}) /\ Len(u) = Len(t) + 1
      /\ u[Len(t) + 1] = "verdict" /\ \A n \in 1..Len(t) : u[n] = t[n]
  BY <1>2
<1> HIDE DEF u
<1>6. Len(u) <= QueueLimit  BY <1>1, <1>2, <1>5
<1>7. (\A n \in 1..Len(t) : t[n] = "progress") => Ends(u)  BY <1>5 DEF Ends
<1> QED  BY <1>3, <1>4, <1>5, <1>6, <1>7 DEF u

LEMMA Bounds == Files \in Nat \ {0} /\ Limit \in Nat /\ QueueLimit \in Nat \ {0} /\ MaxHangs \in Nat
BY VerifyLaneAssumption

Lane == TypeOK /\ Queues /\ Cardinality(token) <= Limit /\ (alive => stuck = {})

\* The lane gives a slot only while one is free, and takes any back.
LEMMA LaneKept ==
    ASSUME Lane, NEW q \in Reqs,
           token' \subseteq token \/ (LaneFree /\ token' = token \cup {q})
    PROVE  token' \subseteq Reqs /\ Cardinality(token') <= Limit
<1>1. token \subseteq Reqs /\ IsFiniteSet(token) /\ Cardinality(token) \in Nat /\ Limit \in Nat
  BY VerifyLaneAssumption, FS_Subset, FS_CardinalityType DEF Lane, TypeOK
<1>2. CASE token' \subseteq token
  <2>1. Cardinality(token') <= Cardinality(token) /\ Cardinality(token') \in Nat
    BY <1>1, <1>2, FS_Subset, FS_CardinalityType
  <2> QED  BY <1>1, <1>2, <2>1 DEF Lane
<1>3. CASE LaneFree /\ token' = token \cup {q}
  <2>1. Cardinality(token') \in {Cardinality(token), Cardinality(token) + 1}
    BY <1>1, <1>3, FS_AddElement
  <2> QED  BY <1>1, <1>3, <2>1 DEF LaneFree
<1> QED  BY <1>2, <1>3

\* The types of what belongs to the requests.
Typed ==
    /\ client \in [Reqs -> {"reads", "stands still", "gone"}]
    /\ pc \in [Reqs -> {"idle", "guard", "taken", "between", "sizing", "waiting",
                        "verifying", "dropped", "closing", "report", "ended"}]
    /\ at \in [Reqs -> 0..Files]
    /\ task \in [Reqs -> {"none", "probing", "running", "stopping", "over"}]
    /\ queue \in [Reqs -> Seq({"progress", "verdict"})]
    /\ \A q \in Reqs : Len(queue[q]) <= QueueLimit
    /\ result \in [Reqs -> {"none", "verdict", "abandoned"}]
    /\ told \subseteq Reqs

LEMMA Typing == Lane <=> /\ Typed /\ token \subseteq Reqs /\ Cardinality(token) <= Limit
                         /\ alive \in BOOLEAN /\ hangs \in 0..MaxHangs
                         /\ stuck \subseteq Reqs \X (0..Files) /\ (alive => stuck = {})
BY DEF Lane, TypeOK, Queues, Typed

\* The end of a task: its types.
LEMMA EndTaskTypes ==
    ASSUME Typed, NEW q \in Reqs, NEW v \in {"verdict", "abandoned"}, EndTask(q, v),
           UNCHANGED reqVars
    PROVE  Typed' /\ token' \subseteq token
<1>1. task' \in [Reqs -> {"none", "probing", "running", "stopping", "over"}]
  BY DEF Typed, EndTask
<1>2. result' \in [Reqs -> {"none", "verdict", "abandoned"}]
  BY DEF Typed, EndTask
<1>3. /\ WithVerdict(q, queue[q]) \in Seq({"progress", "verdict"})
      /\ Len(WithVerdict(q, queue[q])) <= QueueLimit
  <2>1. queue[q] \in Seq({"progress", "verdict"}) /\ Len(queue[q]) <= QueueLimit  BY DEF Typed
  <2> QED  BY <2>1, Queued
<1>4. queue' = queue \/ queue' = [queue EXCEPT ![q] = WithVerdict(q, queue[q])]
  BY DEF EndTask, Unread, Typed
<1>5. queue' \in [Reqs -> Seq({"progress", "verdict"})] /\ \A p \in Reqs : Len(queue'[p]) <= QueueLimit
  BY <1>3, <1>4 DEF Typed
<1>6. token' \subseteq token  BY DEF EndTask, ReleaseByTask, Release
<1> QED  BY <1>1, <1>2, <1>5, <1>6 DEF Typed, reqVars

LEMMA NothingQueued == <<>> \in Seq({"progress", "verdict"}) /\ Len(<<>>) <= QueueLimit
BY Bounds

LEMMA ServeTypes ==
    ASSUME Typed, NEW q \in Reqs, Serve(q)
    PROVE  Typed'
<1>1. CASE GuardExpires(q)  BY <1>1 DEF Typed, GuardExpires, Goto, taskVars
<1>2. CASE Admit(q)  BY <1>2 DEF Typed, Admit, Goto, taskVars
<1>3. CASE StartBatch(q)  BY <1>3 DEF Typed, StartBatch, Goto, taskVars
<1>4. CASE NextFile(q)
  <2>1. at' \in [Reqs -> 0..Files]
    <3>1. at[q] + 1 \in 0..Files
      <4>1. at[q] \in 0..Files /\ at[q] < Files  BY <1>4 DEF Typed, NextFile
      <4> QED  BY <4>1, Bounds
    <3> QED  BY <1>4, <3>1 DEF Typed, NextFile
  <2>2. /\ queue' \in [Reqs -> Seq({"progress", "verdict"})]
        /\ \A p \in Reqs : Len(queue'[p]) <= QueueLimit
    BY <1>4, Bounds, NothingQueued DEF Typed, NextFile
  <2> QED  BY <1>4, <2>1, <2>2 DEF Typed, NextFile, Goto
<1>5. CASE Sized(q)  BY <1>5 DEF Typed, Sized, StartTask, Goto
<1>6. CASE Deliver(q)
  <2>1. /\ queue' \in [Reqs -> Seq({"progress", "verdict"})]
        /\ \A p \in Reqs : Len(queue'[p]) <= QueueLimit
    <3> DEFINE s == IF queue[q] = <<>> THEN queue[q] ELSE Tail(queue[q])
    <3>1. s \in Seq({"progress", "verdict"}) /\ Len(s) <= QueueLimit
      <4>1. queue[q] \in Seq({"progress", "verdict"}) /\ Len(queue[q]) <= QueueLimit  BY DEF Typed
      <4>2. QueueLimit \in Nat  BY VerifyLaneAssumption
      <4> QED  BY <4>1, <4>2
    <3>2. queue' = [queue EXCEPT ![q] = s]  BY <1>6 DEF Deliver
    <3> HIDE DEF s
    <3> QED  BY <3>1, <3>2 DEF Typed
  <2>2. pc' = pc \/ Goto(q, "closing")  BY <1>6 DEF Deliver
  <2>3. told' \subseteq told \cup {q}  BY <1>6 DEF Deliver
  <2>4. UNCHANGED <<client, at, task, result>>  BY <1>6 DEF Deliver
  <2> QED  BY <2>1, <2>2, <2>3, <2>4 DEF Typed, Goto
<1>7. CASE Close(q)
  <2>1. /\ queue' \in [Reqs -> Seq({"progress", "verdict"})]
        /\ \A p \in Reqs : Len(queue'[p]) <= QueueLimit
    BY <1>7, NothingQueued DEF Typed, Close
  <2> QED  BY <1>7, <2>1 DEF Typed, Close, Goto
<1>8. CASE Answer(q)  BY <1>8 DEF Typed, Answer, Goto, taskVars
<1>9. CASE Report(q)  BY <1>9 DEF Typed, Report, Goto, taskVars
<1>10. CASE Complete(q)  BY <1>10 DEF Typed, Complete, Goto, taskVars
<1>11. CASE Collect(q)  BY <1>11 DEF Typed, Collect, Goto
<1> QED  BY <1>1, <1>2, <1>3, <1>4, <1>5, <1>6, <1>7, <1>8, <1>9, <1>10, <1>11 DEF Serve

LEMMA ProduceTypes ==
    ASSUME Typed, NEW q \in Reqs, Produce(q) \/ Progress(q)
    PROVE  Typed' /\ token' \subseteq token
<1>1. CASE Preflight(q)
  <2>1. CASE EndTask(q, "verdict")  BY <1>1, <2>1, EndTaskTypes DEF Preflight
  <2>2. CASE ~EndTask(q, "verdict")  BY <1>1, <2>2 DEF Typed, Preflight, reqVars
  <2> QED  BY <2>1, <2>2
<1>2. CASE PreflightExpires(q)  BY <1>2, EndTaskTypes DEF PreflightExpires
<1>3. CASE Finish(q)  BY <1>3, EndTaskTypes DEF Finish
<1>4. CASE Stop(q)  BY <1>4 DEF Typed, Stop, reqVars
<1>5. CASE Stopped(q)
  <2>1. PICK v \in {"verdict", "abandoned"} : EndTask(q, v)  BY <1>5 DEF Stopped
  <2> QED  BY <1>5, <2>1, EndTaskTypes DEF Stopped
<1>6. CASE Progress(q)
  <2> DEFINE s == IF Len(queue[q]) < QueueLimit THEN Append(queue[q], "progress") ELSE queue[q]
  <2>1. s \in Seq({"progress", "verdict"}) /\ Len(s) <= QueueLimit
    <3>1. queue[q] \in Seq({"progress", "verdict"}) /\ Len(queue[q]) <= QueueLimit  BY DEF Typed
    <3>2. QueueLimit \in Nat  BY VerifyLaneAssumption
    <3> QED  BY <3>1, <3>2
  <2>2. queue' = [queue EXCEPT ![q] = s]  BY <1>6 DEF Progress, Unread, OfferProgress, Typed
  <2> HIDE DEF s
  <2>3. queue' \in [Reqs -> Seq({"progress", "verdict"})] /\ \A p \in Reqs : Len(queue'[p]) <= QueueLimit
    BY <2>1, <2>2 DEF Typed
  <2> QED  BY <1>6, <2>3 DEF Typed, Progress, reqVars
<1> QED  BY <1>1, <1>2, <1>3, <1>4, <1>5, <1>6 DEF Produce

LEMMA ClientTypes ==
    ASSUME Typed, NEW q \in Reqs, Request(q) \/ TakeLane(q) \/ Pause(q) \/ Resume(q) \/ Leave(q)
                             \/ DropAtYield(q)
    PROVE  Typed'
<1>1. CASE Request(q)  BY <1>1 DEF Typed, Request, Goto, taskVars
<1>2. CASE TakeLane(q)  BY <1>2 DEF Typed, TakeLane, StartTask, Goto
<1>3. CASE Pause(q) \/ Resume(q)  BY <1>3 DEF Typed, Pause, Resume, taskVars
<1>4. CASE Leave(q)
  <2>1. /\ queue' \in [Reqs -> Seq({"progress", "verdict"})]
        /\ \A p \in Reqs : Len(queue'[p]) <= QueueLimit
    BY <1>4, NothingQueued DEF Typed, Leave
  <2> QED  BY <1>4, <2>1 DEF Typed, Leave, Goto
<1>5. CASE DropAtYield(q)
  <2>1. /\ queue' \in [Reqs -> Seq({"progress", "verdict"})]
        /\ \A p \in Reqs : Len(queue'[p]) <= QueueLimit
    BY <1>5, NothingQueued DEF Typed, DropAtYield
  <2> QED  BY <1>5, <2>1 DEF Typed, DropAtYield, Goto
<1> QED  BY <1>1, <1>2, <1>3, <1>4, <1>5

LEMMA LaneStep == Lane /\ [Next]_vars => Lane'
<1> SUFFICES ASSUME Lane, [Next]_vars PROVE Lane'  OBVIOUS
<1>0. /\ Typed /\ token \subseteq Reqs /\ alive \in BOOLEAN /\ hangs \in 0..MaxHangs
      /\ stuck \subseteq Reqs \X (0..Files) /\ (alive => stuck = {})
  BY Typing
<1>1. ASSUME NEW q \in Reqs, Request(q) \/ Serve(q) \/ TakeLane(q) \/ Produce(q) \/ Progress(q)
                             \/ Pause(q) \/ Resume(q) \/ Leave(q) \/ DropAtYield(q)
      PROVE  Lane'
  <2>1. Typed'  BY <1>0, <1>1, ServeTypes, ProduceTypes, ClientTypes
  <2>2. token' \subseteq Reqs /\ Cardinality(token') <= Limit
    <3>1. CASE Produce(q) \/ Progress(q)  BY <1>0, <3>1, ProduceTypes, LaneKept
    <3>2. CASE Serve(q) \/ Request(q) \/ TakeLane(q) \/ Pause(q) \/ Resume(q) \/ Leave(q) \/ DropAtYield(q)
      <4>1. token' \subseteq token \/ (LaneFree /\ token' = token \cup {q})
        BY <3>2 DEF Serve, GuardExpires, Admit, StartBatch, HandBack, Release, NextFile, Sized, Deliver,
           Close, Answer, Report, Complete, Collect, Request, TakeLane, Pause, Resume, Leave, DropAtYield
      <4> QED  BY <4>1, LaneKept
    <3> QED  BY <1>1, <3>1, <3>2
  <2>3. UNCHANGED volVars
    BY <1>1 DEF Serve, GuardExpires, Admit, StartBatch, NextFile, Sized, Deliver, Close, Answer, Report,
       Complete, Collect, Request, TakeLane, Pause, Resume, Leave, DropAtYield, Produce, Preflight, PreflightExpires, Finish,
       Stop, Stopped, Progress
  <2>4. UNCHANGED stuck \/ GaveUp(q)
    BY <1>1 DEF Serve, GuardExpires, Admit, StartBatch, NextFile, Sized, Deliver, Close, Answer, Report,
       Complete, Collect, Request, TakeLane, Pause, Resume, Leave, DropAtYield, Produce, Preflight, PreflightExpires, Finish,
       Stop, Stopped, Progress
  <2>5. stuck' \subseteq Reqs \X (0..Files) /\ (alive => stuck' = {})
    BY <1>0, <2>4, GaveUpType DEF Lane
  <2> QED  BY <1>0, <2>1, <2>2, <2>3, <2>5 DEF Lane, TypeOK, Queues, Typed, volVars
<1>2. CASE StopAnswering
  <2>1. Typed' /\ UNCHANGED <<token, stuck>> /\ alive' = FALSE
    BY <1>0, <1>2 DEF Typed, StopAnswering, reqVars, taskVars
  <2>2. hangs' \in 0..MaxHangs  BY <1>0, <1>2, Bounds DEF StopAnswering
  <2> QED  BY <1>0, <2>1, <2>2 DEF Lane, TypeOK, Queues, Typed
<1>3. CASE AnswerAgain
  <2>1. Typed' /\ UNCHANGED <<token, hangs>> /\ alive' = TRUE /\ stuck' = {}
    BY <1>0, <1>3 DEF Typed, AnswerAgain, reqVars, taskVars
  <2> QED  BY <1>0, <2>1 DEF Lane, TypeOK, Queues, Typed
<1>4. CASE UNCHANGED vars
  BY <1>0, <1>4 DEF Lane, TypeOK, Queues, Typed, vars
<1> QED  BY <1>1, <1>2, <1>3, <1>4 DEF Next

-----------------------------------------------------------------------------
\* What a step of one request means for the others.

\* Nothing of request p changes, but that what was stuck may have come back.
Same(p) ==
    /\ client'[p] = client[p] /\ pc'[p] = pc[p] /\ at'[p] = at[p] /\ task'[p] = task[p]
    /\ queue'[p] = queue[p] /\ result'[p] = result[p]
    /\ (p \in token' <=> p \in token) /\ (p \in told' <=> p \in told)
    /\ \A i : <<p, i>> \in stuck' => <<p, i>> \in stuck

LEMMA SameKeeps ==
    ASSUME NEW p \in Reqs, Right(p), Same(p)
    PROVE  Right(p)'
<1>1. Holds(p)'  BY DEF Right, Same, Holds
<1>2. Carries(p)'  BY DEF Right, Same, Carries
<1>3. Strands(p)'  BY DEF Right, Same, Strands, Stranded
<1> QED  BY <1>1, <1>2, <1>3 DEF Right

\* An action of q changes nothing of another request.
LEMMA OthersSame ==
    ASSUME Typed, NEW q \in Reqs, NEW p \in Reqs \ {q},
           Request(q) \/ Serve(q) \/ TakeLane(q) \/ Produce(q) \/ Progress(q)
             \/ Pause(q) \/ Resume(q) \/ Leave(q) \/ DropAtYield(q)
    PROVE  Same(p)
<1>1. CASE GuardExpires(q)  BY <1>1 DEF Typed, Same, GuardExpires, GaveUp, Goto, volVars, taskVars
<1>2. CASE Admit(q)  BY <1>2 DEF Typed, Same, Admit, Goto, volVars, taskVars
<1>3. CASE StartBatch(q)  BY <1>3 DEF Typed, Same, StartBatch, HandBack, Release, Goto, volVars, taskVars
<1>4. CASE NextFile(q)  BY <1>4 DEF Typed, Same, NextFile, Goto, volVars
<1>5. CASE Sized(q)  BY <1>5 DEF Typed, Same, Sized, GaveUp, StartTask, Goto, volVars
<1>6. CASE Deliver(q)  BY <1>6 DEF Typed, Same, Deliver, Goto, volVars
<1>7. CASE Close(q)  BY <1>7 DEF Typed, Same, Close, Release, Goto, volVars
<1>8. CASE Answer(q)  BY <1>8 DEF Typed, Same, Answer, Release, Goto, volVars, taskVars
<1>9. CASE Report(q)  BY <1>9 DEF Typed, Same, Report, Goto, volVars, taskVars
<1>10. CASE Complete(q)  BY <1>10 DEF Typed, Same, Complete, Goto, volVars, taskVars
<1>11. CASE Request(q)  BY <1>11 DEF Typed, Same, Request, Goto, volVars, taskVars
<1>12. CASE TakeLane(q)  BY <1>12 DEF Typed, Same, TakeLane, StartTask, Goto, volVars
<1>13. CASE Pause(q) \/ Resume(q)  BY <1>13 DEF Typed, Same, Pause, Resume, volVars, taskVars
<1>14. CASE Leave(q)  BY <1>14 DEF Typed, Same, Leave, FreedOnLeave, Goto, volVars
<1>15. ASSUME NEW v, EndTask(q, v), UNCHANGED reqVars, GaveUp(q) \/ UNCHANGED stuck PROVE Same(p)
  BY <1>15 DEF Typed, Same, EndTask, ReleaseByTask, Release, GaveUp, reqVars
<1>16. CASE Preflight(q)
  <2>1. CASE EndTask(q, "verdict")  BY <1>15, <1>16, <2>1 DEF Preflight
  <2>2. CASE ~EndTask(q, "verdict")  BY <1>16, <2>2 DEF Typed, Same, Preflight, reqVars
  <2> QED  BY <2>1, <2>2
<1>17. CASE PreflightExpires(q) \/ Finish(q) \/ Stopped(q)
  BY <1>15, <1>17 DEF PreflightExpires, Finish, Stopped
<1>20. CASE Collect(q)  BY <1>20 DEF Typed, Same, Collect, Goto, volVars
<1>21. CASE DropAtYield(q)  BY <1>21 DEF Typed, Same, DropAtYield, Release, Goto, volVars
<1>18. CASE Stop(q)  BY <1>18 DEF Typed, Same, Stop, reqVars
<1>19. CASE Progress(q)  BY <1>19 DEF Typed, Same, Progress, Unread, OfferProgress, reqVars
<1> QED
  BY <1>1, <1>2, <1>3, <1>4, <1>5, <1>6, <1>7, <1>8, <1>9, <1>10, <1>11, <1>12, <1>13, <1>14, <1>16,
     <1>17, <1>18, <1>19, <1>20, <1>21 DEF Serve, Produce

-----------------------------------------------------------------------------
\* What an action means for its own request.

\* A request is of one kind, and each kind has its phases.
LEMMA Kinds == \A q \in Reqs : /\ q \in Sync => q \notin Events /\ q \notin Batch
                               /\ q \in Events => q \notin Batch
                               /\ q \in Sync \/ q \in Events \/ q \in Batch
BY VerifyLaneAssumption DEF Reqs

\* No wait of q has been given up on, or this is the first for its file.
LEMMA StrandsAgain ==
    ASSUME Lane, NEW q \in Reqs, Strands(q), GaveUp(q), at'[q] = at[q], Stranded(q)'
    PROVE  Strands(q)'
<1>1. \A i : <<q, i>> \in stuck' => <<q, i>> \in stuck \/ i = at[q]  BY DEF GaveUp
<1> QED  BY <1>1 DEF Strands

LEMMA NothingStuck ==
    ASSUME Lane, NEW q \in Reqs, alive, stuck' = stuck
    PROVE  Strands(q)'
BY DEF Lane, Strands

LEMMA ArrivalRight ==
    ASSUME Lane, NEW q \in Reqs, Right(q),
           Request(q) \/ GuardExpires(q) \/ Admit(q) \/ StartBatch(q) \/ NextFile(q)
             \/ Sized(q) \/ TakeLane(q)
    PROVE  Right(q)'
<1>0. Typed /\ Holds(q) /\ Carries(q) /\ Strands(q)  BY Typing DEF Right
<1>1. CASE Request(q)
  <2>1. /\ pc[q] = "idle" /\ pc'[q] = "guard" /\ UNCHANGED <<client, at, token, task, queue, result, told, stuck>>
    BY <1>0, <1>1 DEF Typed, Request, Goto, taskVars
  <2> QED  BY <1>0, <2>1 DEF Right, Holds, Carries, Strands, Stranded
<1>2. CASE GuardExpires(q)
  <2>1. /\ pc[q] = "guard" /\ pc'[q] = "ended" /\ q \in told' /\ GaveUp(q)
        /\ UNCHANGED <<client, at, token, task, queue, result>>
    BY <1>0, <1>2 DEF Typed, GuardExpires, Goto, taskVars
  <2>2. Holds(q)' /\ Carries(q)'  BY <1>0, <2>1 DEF Holds, Carries
  <2>3. Strands(q)'  BY <1>0, <2>1, StrandsAgain DEF Stranded
  <2> QED  BY <2>2, <2>3 DEF Right
<1>3. CASE Admit(q)
  <2>1. /\ pc[q] = "guard" /\ UNCHANGED <<client, at, task, queue, result, stuck>>
        /\ \/ pc'[q] = (IF q \in Batch THEN "taken" ELSE "sizing") /\ q \in token' /\ UNCHANGED told
           \/ pc'[q] = "ended" /\ q \in told' /\ UNCHANGED token
    BY <1>0, <1>3 DEF Typed, Admit, Goto, taskVars
  <2>2. Holds(q)'  BY <1>0, <2>1, Kinds DEF Holds, Busy
  <2>3. Carries(q)'  BY <1>0, <2>1 DEF Carries, Holds
  <2>4. Strands(q)'  BY <1>0, <2>1 DEF Strands, Stranded, Holds
  <2> QED  BY <2>2, <2>3, <2>4 DEF Right
<1>4. CASE StartBatch(q)
  <2>1. /\ pc[q] = "taken" /\ pc'[q] = "between" /\ q \notin token'
        /\ UNCHANGED <<client, at, task, queue, result, told, stuck>>
    BY <1>0, <1>4 DEF Typed, StartBatch, HandBack, Release, Goto, taskVars
  <2>2. Holds(q)'  BY <1>0, <2>1, Kinds DEF Holds, Busy
  <2>3. Carries(q)'  BY <1>0, <2>1 DEF Carries, Holds
  <2>4. Strands(q)'  BY <1>0, <2>1 DEF Strands, Stranded
  <2> QED  BY <2>2, <2>3, <2>4 DEF Right
<1>5. CASE NextFile(q)
  <2>1. /\ pc[q] = "between" /\ pc'[q] = "sizing" /\ queue'[q] = <<>> /\ task'[q] = "none"
        /\ UNCHANGED <<client, token, told, stuck>>
    BY <1>0, <1>5 DEF Typed, NextFile, Goto
  <2>2. \A i : <<q, i>> \notin stuck  BY <1>0, <2>1 DEF Strands, Stranded, Holds
  <2>3. DOMAIN queue'[q] = {}  BY <2>1
  <2>4. Holds(q)'  BY <1>0, <2>1, Kinds DEF Holds, Busy
  <2>5. Carries(q)'  BY <2>1, <2>3 DEF Carries
  <2> QED  BY <2>1, <2>2, <2>4, <2>5 DEF Right, Strands
<1>6. CASE Sized(q)
  <2>1. /\ pc[q] = "sizing" /\ GaveUp(q) /\ UNCHANGED <<client, at, token, queue, result, told>>
        /\ \/ q \in Batch /\ pc'[q] = "waiting" /\ task'[q] = task[q]
           \/ q \notin Batch /\ pc'[q] = "verifying" /\ task'[q] = "probing"
    BY <1>0, <1>6 DEF Typed, Sized, StartTask, Goto
  <2>2. Holds(q)'  BY <1>0, <2>1, Kinds DEF Holds, Busy
  <2>3. Carries(q)'  BY <1>0, <2>1 DEF Carries, Holds
  <2>4. Strands(q)'  BY <1>0, <2>1, StrandsAgain DEF Stranded, Strands
  <2> QED  BY <2>2, <2>3, <2>4 DEF Right
<1>7. CASE TakeLane(q)
  <2>1. /\ pc[q] = "waiting" /\ pc'[q] = "verifying" /\ task'[q] = "probing" /\ q \in token'
        /\ UNCHANGED <<client, at, queue, result, told, stuck>>
    BY <1>0, <1>7 DEF Typed, TakeLane, StartTask, Goto
  <2> QED  BY <1>0, <2>1, Kinds DEF Right, Holds, Carries, Strands, Stranded, Busy
<1> QED  BY <1>1, <1>2, <1>3, <1>4, <1>5, <1>6, <1>7

\* A task ends with its verdict in the queue, unless its consumer has left.
LEMMA EndTaskRight ==
    ASSUME Lane, NEW q \in Reqs, Right(q), task[q] \in Busy,
           NEW v \in {"verdict", "abandoned"}, EndTask(q, v), UNCHANGED reqVars,
           (alive /\ stuck' = stuck) \/ (v = "abandoned" /\ GaveUp(q))
    PROVE  Right(q)'
<1>0. Typed /\ Holds(q) /\ Carries(q) /\ Strands(q)  BY Typing DEF Right
<1>1. /\ pc'[q] = pc[q] /\ client'[q] = client[q] /\ at'[q] = at[q] /\ (q \in told' <=> q \in told)
  BY DEF reqVars
<1>2. task'[q] = "over" /\ q \notin token' /\ pc[q] \in {"verifying", "dropped", "closing"}
  BY <1>0 DEF EndTask, ReleaseByTask, Release, Typed, Holds
<1>3. Holds(q)'
  BY <1>0, <1>1, <1>2 DEF Holds, Busy
<1>4. pc[q] = "verifying" /\ q \notin Sync => queue'[q] = WithVerdict(q, queue[q])
  BY <1>0 DEF EndTask, Unread, Typed
<1>5. pc[q] = "verifying" /\ q \notin Sync => Ends(queue'[q])
  <2>1. queue[q] \in Seq({"progress", "verdict"}) /\ Len(queue[q]) <= QueueLimit  BY <1>0 DEF Typed
  <2>2. \A n \in DOMAIN queue[q] : queue[q][n] = "progress"  BY <1>0 DEF Carries, Busy
  <2> QED  BY <1>4, <2>1, <2>2, Queued
<1>6. Carries(q)'
  BY <1>0, <1>1, <1>2, <1>5 DEF Carries, Ends, Busy
<1>7. Strands(q)'
  <2>1. CASE alive /\ stuck' = stuck  BY <2>1, NothingStuck
  <2>2. CASE v = "abandoned" /\ GaveUp(q)
    <3>1. q \in Batch /\ pc[q] = "verifying" => result'[q] = "abandoned"
      BY <1>0, <2>2, Kinds DEF EndTask, Unread, Typed
    <3>2. pc[q] \in {"dropped", "closing"} => client[q] = "gone"  BY <1>0 DEF Holds, Carries, Busy
    <3>3. q \in Batch => Stranded(q)'  BY <1>1, <1>2, <3>1, <3>2 DEF Stranded
    <3>4. q \notin Batch => Strands(q)'  BY DEF Strands
    <3> QED  BY <1>0, <1>1, <2>2, <3>3, <3>4, StrandsAgain
  <2> QED  BY <2>1, <2>2
<1> QED  BY <1>3, <1>6, <1>7 DEF Right

LEMMA TaskRight ==
    ASSUME Lane, NEW q \in Reqs, Right(q), Produce(q) \/ Progress(q)
    PROVE  Right(q)'
<1>0. Typed /\ Holds(q) /\ Carries(q) /\ Strands(q)  BY Typing DEF Right
<1>1. CASE Preflight(q)
  <2>1. CASE EndTask(q, "verdict")
    <3>1. task[q] \in Busy /\ alive /\ UNCHANGED reqVars /\ stuck' = stuck
      BY <1>1 DEF Preflight, Busy
    <3> QED  BY <2>1, <3>1, EndTaskRight
  <2>2. CASE ~EndTask(q, "verdict")
    <3>1. /\ alive /\ task[q] = "probing" /\ task'[q] = "running"
          /\ UNCHANGED <<queue, token, stuck, client, pc, at, told>>
      BY <1>0, <1>1, <2>2 DEF Typed, Preflight, reqVars
    <3>2. Holds(q)' /\ Carries(q)'  BY <1>0, <3>1 DEF Holds, Carries, Busy
    <3>3. Strands(q)'  BY <3>1, NothingStuck
    <3> QED  BY <3>2, <3>3 DEF Right
  <2> QED  BY <2>1, <2>2
<1>2. CASE PreflightExpires(q)  BY <1>2, EndTaskRight DEF PreflightExpires, Busy
<1>3. CASE Finish(q)
  <2>1. task[q] \in Busy /\ alive /\ EndTask(q, "verdict") /\ UNCHANGED reqVars /\ stuck' = stuck
    BY <1>3 DEF Finish, Busy
  <2> QED  BY <2>1, EndTaskRight
<1>4. CASE Stop(q)
  <2>1. /\ task[q] = "running" /\ task'[q] = "stopping"
        /\ UNCHANGED <<queue, token, stuck, result, client, pc, at, told>>
    BY <1>0, <1>4 DEF Typed, Stop, reqVars
  <2> QED  BY <1>0, <2>1 DEF Right, Holds, Carries, Strands, Stranded, Busy
<1>5. CASE Stopped(q)
  <2>1. task[q] = "stopping" /\ UNCHANGED reqVars /\ GaveUp(q)  BY <1>5 DEF Stopped
  <2>2. CASE alive
    <3>1. EndTask(q, "verdict") /\ stuck' = stuck  BY <1>5, <2>2 DEF Stopped, GaveUp
    <3> QED  BY <2>1, <2>2, <3>1, EndTaskRight DEF Busy
  <2>3. CASE ~alive
    <3>1. EndTask(q, "abandoned")  BY <1>5, <2>3 DEF Stopped
    <3> QED  BY <2>1, <3>1, EndTaskRight DEF Busy
  <2> QED  BY <2>2, <2>3
<1>6. CASE Progress(q)
  <2>1. /\ task[q] = "running" /\ UNCHANGED <<client, pc, at, told, token, task, result, stuck>>
        /\ queue'[q] = queue[q] \/ queue'[q] = Append(queue[q], "progress")
    BY <1>0, <1>6 DEF Typed, Progress, Unread, OfferProgress, reqVars
  <2>2. \A n \in DOMAIN queue'[q] : queue'[q][n] = "progress"
    <3>1. queue[q] \in Seq({"progress", "verdict"})  BY <1>0 DEF Typed
    <3>2. \A n \in DOMAIN queue[q] : queue[q][n] = "progress"  BY <1>0, <2>1 DEF Carries
    <3> QED  BY <2>1, <3>1, <3>2
  <2>3. Holds(q)' /\ Strands(q)'  BY <1>0, <2>1 DEF Holds, Strands, Stranded
  <2>4. Carries(q)'  BY <1>0, <2>1, <2>2 DEF Carries
  <2> QED  BY <2>3, <2>4 DEF Right
<1> QED  BY <1>1, <1>2, <1>3, <1>4, <1>5, <1>6 DEF Produce

-----------------------------------------------------------------------------
\* The consumer, and the client.

LEMMA DeliverRight ==
    ASSUME Lane, NEW q \in Reqs, Right(q), Deliver(q)
    PROVE  Right(q)'
<1>0. Typed /\ Holds(q) /\ Carries(q) /\ Strands(q)  BY Typing DEF Right
<1> DEFINE verdict == queue[q] # <<>> /\ Head(queue[q]) = "verdict"
<1>1. /\ pc[q] = "verifying" /\ client[q] = "reads" /\ q \notin Sync
      /\ queue[q] # <<>> \/ task[q] = "over"
      /\ UNCHANGED <<client, at, token, task, result, stuck>>
  BY DEF Deliver
<1>2. pc'[q] = IF verdict \/ queue[q] = <<>> THEN "closing" ELSE "verifying"
  BY <1>0, <1>1 DEF Deliver, Goto, Typed
<1>3. q \in told' <=> q \in told \/ (verdict /\ q \in Events)  BY DEF Deliver
<1>4. queue[q] \in Seq({"progress", "verdict"})
      /\ queue'[q] = IF queue[q] = <<>> THEN queue[q] ELSE Tail(queue[q])
  BY <1>0 DEF Deliver, Typed
<1>5. task[q] # "over" => ~verdict /\ queue[q] # <<>> /\ \A n \in DOMAIN queue'[q] : queue'[q][n] = "progress"
  <2> SUFFICES ASSUME task[q] # "over" PROVE ~verdict /\ queue[q] # <<>> /\ \A n \in DOMAIN queue'[q] : queue'[q][n] = "progress"
    OBVIOUS
  <2>1. queue[q] # <<>> /\ \A n \in DOMAIN queue[q] : queue[q][n] = "progress"  BY <1>0, <1>1 DEF Carries
  <2>2. Head(queue[q]) = "progress"  BY <1>4, <2>1
  <2>3. \A n \in DOMAIN Tail(queue[q]) : Tail(queue[q])[n] = "progress"  BY <1>4, <2>1
  <2> QED  BY <1>4, <2>1, <2>2, <2>3
<1>6. task[q] = "over" => queue[q] # <<>> /\ (~verdict => Ends(queue'[q]))
  <2> SUFFICES ASSUME task[q] = "over" PROVE queue[q] # <<>> /\ (~verdict => Ends(queue'[q]))  OBVIOUS
  <2>1. Ends(queue[q])  BY <1>0, <1>1 DEF Carries
  <2>2. queue[q] # <<>>  BY <1>4, <2>1 DEF Ends
  <2>3. ~verdict => Len(queue[q]) > 1  BY <1>4, <2>1, <2>2 DEF Ends
  <2>4. Len(queue[q]) > 1 => Ends(Tail(queue[q]))
    <3> DEFINE s == queue[q]
               t == Tail(s)
    <3>1. s \in Seq({"progress", "verdict"}) /\ s # <<>>  BY <1>4, <2>2
    <3>2. Len(t) = Len(s) - 1 /\ \A n \in 1..Len(t) : t[n] = s[n + 1]  BY <3>1
    <3>3. Len(s) \in Nat /\ s[Len(s)] = "verdict" /\ \A n \in 1..(Len(s) - 1) : s[n] = "progress"
      BY <2>1, <3>1 DEF Ends
    <3> HIDE DEF s, t
    <3>4. Len(s) > 1 => Ends(t)  BY <3>2, <3>3 DEF Ends
    <3> QED  BY <3>4 DEF s, t
  <2> QED  BY <1>4, <2>2, <2>3, <2>4
<1> HIDE DEF verdict
<1>7. Holds(q)'  BY <1>0, <1>1, <1>2 DEF Holds, Busy
<1>8. Carries(q)'  BY <1>0, <1>1, <1>2, <1>3, <1>5, <1>6, Kinds DEF Carries
<1>9. Strands(q)'
  <2>1. task[q] = "probing" => pc'[q] = "verifying"  BY <1>2, <1>5
  <2> QED  BY <1>0, <1>1, <1>2, <2>1 DEF Strands, Stranded
<1> QED  BY <1>7, <1>8, <1>9 DEF Right

LEMMA ConsumerRight ==
    ASSUME Lane, NEW q \in Reqs, Right(q),
           Close(q) \/ Answer(q) \/ Report(q) \/ Complete(q) \/ Collect(q)
    PROVE  Right(q)'
<1>0. Typed /\ Holds(q) /\ Carries(q) /\ Strands(q)  BY Typing DEF Right
<1>1. CASE Close(q)
  <2>1. /\ pc[q] = "closing" /\ task[q] \in {"none", "over"} /\ q \notin token' /\ queue'[q] = <<>>
        /\ pc'[q] = IF q \in Batch /\ client[q] # "gone" THEN "report" ELSE "ended"
        /\ UNCHANGED <<client, at, task, result, told, stuck>>
    BY <1>0, <1>1 DEF Typed, Close, TaskGone, Release, Goto
  <2>2. DOMAIN queue'[q] = {}  BY <2>1
  <2>3. Holds(q)'  BY <1>0, <2>1 DEF Holds, Busy
  <2>4. Carries(q)'  BY <1>0, <2>1, <2>2, Kinds DEF Carries, Holds
  <2>5. Strands(q)'  BY <1>0, <2>1 DEF Strands, Stranded, Holds
  <2> QED  BY <2>3, <2>4, <2>5 DEF Right
<1>2. CASE Answer(q)
  <2>1. /\ q \in Sync /\ pc[q] = "verifying" /\ task[q] = "over" /\ pc'[q] = "ended" /\ q \notin token'
        /\ q \in told' /\ UNCHANGED <<client, at, task, queue, result, stuck>>
    BY <1>0, <1>2 DEF Typed, Answer, Release, Goto, taskVars
  <2> QED  BY <1>0, <2>1, Kinds DEF Right, Holds, Carries, Strands, Stranded, Busy
<1>3. CASE Report(q)
  <2>1. /\ pc[q] = "report" /\ UNCHANGED <<client, at, token, task, queue, result, stuck>>
        /\ \/ pc'[q] = "ended" /\ q \in told'
           \/ pc'[q] = "between" /\ result[q] # "abandoned" /\ UNCHANGED told
    BY <1>0, <1>3 DEF Typed, Report, StopsBatch, Goto, taskVars
  <2> QED  BY <1>0, <2>1, Kinds DEF Right, Holds, Carries, Strands, Stranded, Busy
<1>4. CASE Complete(q)
  <2>1. /\ pc[q] = "between" /\ pc'[q] = "ended" /\ q \in told'
        /\ UNCHANGED <<client, at, token, task, queue, result, stuck>>
    BY <1>0, <1>4 DEF Typed, Complete, Goto, taskVars
  <2> QED  BY <1>0, <2>1, Kinds DEF Right, Holds, Carries, Strands, Stranded, Busy
<1>5. CASE Collect(q)
  <2>1. /\ pc[q] = "dropped" /\ pc'[q] = "closing"
        /\ task'[q] = (IF task[q] \in {"probing", "running"} THEN "stopping" ELSE task[q])
        /\ UNCHANGED <<client, at, token, queue, result, told, stuck>>
    BY <1>0, <1>5 DEF Typed, Collect, Goto
  <2>2. Holds(q)'  BY <1>0, <2>1, Kinds DEF Holds, Busy
  <2>3. Carries(q)'  BY <1>0, <2>1 DEF Holds, Carries
  <2>4. Strands(q)'  BY <1>0, <2>1 DEF Holds, Strands, Stranded
  <2> QED  BY <2>2, <2>3, <2>4 DEF Right
<1> QED  BY <1>1, <1>2, <1>3, <1>4, <1>5

LEMMA ClientRight ==
    ASSUME Lane, NEW q \in Reqs, Right(q), Pause(q) \/ Resume(q) \/ Leave(q) \/ DropAtYield(q)
    PROVE  Right(q)'
<1>0. Typed /\ Holds(q) /\ Carries(q) /\ Strands(q)  BY Typing DEF Right
<1>1. CASE Pause(q) \/ Resume(q)
  <2>1. /\ client[q] # "gone" /\ client'[q] # "gone"
        /\ UNCHANGED <<pc, at, token, task, queue, result, told, stuck>>
    BY <1>0, <1>1 DEF Typed, Pause, Resume, taskVars
  <2> QED  BY <1>0, <2>1 DEF Right, Holds, Carries, Strands, Stranded
<1>2. CASE Leave(q)
  <2>1. /\ q \notin Sync /\ client'[q] = "gone"
        /\ pc[q] \in {"taken", "sizing", "waiting", "verifying", "closing", "between", "report"}
        /\ pc'[q] = (IF pc[q] \in {"verifying", "closing"} THEN "closing" ELSE "ended")
        /\ task'[q] = (IF pc[q] = "verifying" /\ task[q] \in {"probing", "running"} THEN "stopping" ELSE task[q])
        /\ queue'[q] = <<>> /\ UNCHANGED <<at, result, told, stuck>>
        /\ q \in token' <=> q \in token /\ pc[q] \notin {"sizing", "waiting", "between", "report"}
    BY <1>0, <1>2 DEF Typed, Leave, FreedOnLeave, Goto
  <2>2. DOMAIN queue'[q] = {}  BY <2>1
  <2>3. Holds(q)'  BY <1>0, <2>1, Kinds DEF Holds, Busy
  <2>4. Carries(q)'  BY <2>1, <2>2 DEF Carries
  <2>5. Strands(q)'  BY <1>0, <2>1 DEF Strands, Stranded
  <2> QED  BY <2>3, <2>4, <2>5 DEF Right
<1>3. CASE DropAtYield(q)
  <2>1. /\ q \in Batch /\ client'[q] = "gone" /\ pc[q] = "verifying" /\ pc'[q] = "dropped"
        /\ q \notin token' /\ queue'[q] = <<>> /\ UNCHANGED <<at, task, result, told, stuck>>
    BY <1>0, <1>3 DEF Typed, DropAtYield, Release, Goto
  <2>2. DOMAIN queue'[q] = {}  BY <2>1
  <2>3. Holds(q)'  BY <1>0, <2>1, Kinds DEF Holds, Busy
  <2>4. Carries(q)'  BY <2>1, <2>2 DEF Carries
  <2>5. Strands(q)'  BY <1>0, <2>1 DEF Strands, Stranded
  <2> QED  BY <2>3, <2>4, <2>5 DEF Right
<1> QED  BY <1>1, <1>2, <1>3

-----------------------------------------------------------------------------
\* The theorems.

LEMMA RightInit == Init => \A q \in Reqs : Right(q)
<1> SUFFICES ASSUME Init, NEW q \in Reqs PROVE Right(q)  OBVIOUS
<1>1. /\ pc[q] = "idle" /\ task[q] = "none" /\ queue[q] = <<>> /\ at[q] = 0
      /\ token = {} /\ stuck = {} /\ client[q] = "reads"
  BY DEF Init
<1>2. DOMAIN queue[q] = {}  BY <1>1
<1> QED  BY <1>1, <1>2 DEF Right, Holds, Carries, Strands, Busy

LEMMA LaneInit == Init => Lane
<1> SUFFICES ASSUME Init PROVE Lane  OBVIOUS
<1>1. Typed  BY NothingQueued, Bounds DEF Init, Typed
<1>2. Cardinality(token) <= Limit  BY FS_EmptySet, Bounds DEF Init
<1>3. hangs \in 0..MaxHangs  BY Bounds DEF Init
<1> QED  BY <1>1, <1>2, <1>3, Typing DEF Init

LEMMA RightStep ==
    ASSUME Lane, \A q \in Reqs : Right(q), [Next]_vars
    PROVE  \A q \in Reqs : Right(q)'
<1>0. Typed  BY Typing
<1>1. ASSUME NEW q \in Reqs, Request(q) \/ Serve(q) \/ TakeLane(q) \/ Produce(q) \/ Progress(q)
                             \/ Pause(q) \/ Resume(q) \/ Leave(q) \/ DropAtYield(q)
      PROVE  \A p \in Reqs : Right(p)'
  <2>1. ASSUME NEW p \in Reqs \ {q} PROVE Right(p)'  BY <1>0, <1>1, OthersSame, SameKeeps
  <2>2. Right(q)  OBVIOUS
  <2>3. Right(q)'
    BY <1>1, <2>2, ArrivalRight, TaskRight, DeliverRight, ConsumerRight, ClientRight DEF Serve
  <2> QED  BY <2>1, <2>3
<1>2. CASE StopAnswering \/ AnswerAgain \/ UNCHANGED vars
  <2> TAKE p \in Reqs
  <2>1. Same(p)  BY <1>2 DEF StopAnswering, AnswerAgain, vars, Same, reqVars, taskVars
  <2> QED  BY <2>1, SameKeeps
<1> QED  BY <1>1, <1>2 DEF Next

LEMMA Inductive == Spec => []IInv
<1>1. IInv <=> Lane /\ \A q \in Reqs : Right(q)  BY DEF IInv, Lane
<1>2. Init => Lane /\ \A q \in Reqs : Right(q)  BY LaneInit, RightInit
<1>3. (Lane /\ \A q \in Reqs : Right(q)) /\ [Next]_vars => (Lane /\ \A q \in Reqs : Right(q))'
  BY LaneStep, RightStep
<1> QED  BY <1>1, <1>2, <1>3, PTL DEF Spec

\* No more slots than max_verify_concurrency are given out, and a slot is given back
\* only when the verifier it stood for has been dealt with, whoever times out and
\* whoever leaves, but for the batch whose client left while its stream stood at a
\* `yield`; a slot of a request that ended is that of a batch never begun.
THEOREM LaneNeverWider == Spec => []LaneInv
<1>1. ASSUME IInv PROVE LaneInv
  <2>1. \A q \in Overrun : q \in Batch /\ client[q] = "gone" /\ pc[q] \in {"dropped", "closing"}
    BY <1>1 DEF IInv, Right, Holds, Overrun, Verifying, Busy
  <2>2. \A q \in token : pc[q] = "ended" => q \in Batch /\ at[q] = 0
    BY <1>1 DEF IInv, TypeOK, Right, Holds
  <2> QED  BY <1>1, <2>1, <2>2 DEF IInv, LaneInv, LaneBound
<1> QED  BY <1>1, Inductive, PTL

\* Whatever the volume does, a batch leaves the threads and children of one file
\* behind at most.
THEOREM OneFileStranded == Spec => []StrandsOneFile
<1>1. ASSUME IInv, NEW q \in Batch PROVE Cardinality({i \in 0..Files : <<q, i>> \in stuck}) <= 1
  <2> DEFINE left == {i \in 0..Files : <<q, i>> \in stuck}
  <2>1. left \subseteq {at[q]}  BY <1>1 DEF IInv, Right, Strands, Reqs
  <2>2. IsFiniteSet({at[q]}) /\ Cardinality({at[q]}) = 1  BY FS_Singleton
  <2> HIDE DEF left
  <2>3. Cardinality(left) <= 1  BY <2>1, <2>2, FS_Subset
  <2> QED  BY <2>3 DEF left
<1>2. IInv => StrandsOneFile  BY <1>1 DEF StrandsOneFile
<1> QED  BY <1>2, Inductive, PTL

\* A client that stays is told the verdict, or the last event, before its stream
\* ends, although progress may be dropped in front of it.
THEOREM AlwaysTold == Spec => []Told
<1>1. IInv => Told  BY DEF IInv, Right, Carries, Told
<1> QED  BY <1>1, Inductive, PTL
=============================================================================
