--------------------------- MODULE JobQueueProofs ---------------------------
(***************************************************************************)
(* Theorems about JobQueue for any number of jobs, folders, destinations   *)
(* and permits.                                                            *)
(*                                                                         *)
(* The locks: type correctness, and that the lock manager together with    *)
(* the exits of `_process_job` keeps one writer per destination and keeps  *)
(* a folder quiet while it is packed.                                      *)
(*                                                                         *)
(* The accounts: every job is accounted for, the limits hold, a job        *)
(* cancelled while it was queued never writes, and a job that is over is   *)
(* never queued again.  These share one inductive invariant, which says of *)
(* each job where it stands and what it holds there, and of the tickets in *)
(* which order they stand.                                                 *)
(***************************************************************************)
EXTENDS JobQueue, FiniteSetTheorems, SequenceTheorems, TLAPS

Keys == Jobs \cup Foreign

\* The steps of Next that are neither a submission, nor the dispatcher, nor a
\* coroutine: a request on a job or its re-queue timer, and the other process.
OnRequest(j) == CancelQueued(j) \/ CancelProcessing(j) \/ Delete(j) \/ Requeue(j)
OnForeign(f) == ForeignTicket(f) \/ ForeignSlot(f) \/ ForeignRelease(f)

\* Giving a ticket back leaves a sequence of keys.
LEMMA DropType ==
    ASSUME NEW s \in Seq(Keys), NEW k
    PROVE  Drop(s, k) \in Seq(Keys)
<1>1. CASE \E i \in DOMAIN s : s[i] = k
  <2> DEFINE i == CHOOSE i \in DOMAIN s : s[i] = k
  <2>1. i \in 1..Len(s)  BY <1>1
  <2>2. SubSeq(s, 1, i - 1) \in Seq(Keys)
    <3>1. \A n \in 1..(i - 1) : s[n] \in Keys  BY <2>1
    <3>2. 1 \in Int /\ i - 1 \in Int  BY <2>1
    <3> HIDE DEF i
    <3> QED  BY <3>1, <3>2, SubSeqProperties
  <2>3. SubSeq(s, i + 1, Len(s)) \in Seq(Keys)
    <3>1. \A n \in (i + 1)..Len(s) : s[n] \in Keys  BY <2>1
    <3>2. i + 1 \in Int /\ Len(s) \in Int  BY <2>1
    <3> HIDE DEF i
    <3> QED  BY <3>1, <3>2, SubSeqProperties
  <2>4. Drop(s, k) = SubSeq(s, 1, i - 1) \o SubSeq(s, i + 1, Len(s))
    BY <1>1 DEF Drop
  <2> HIDE DEF i
  <2> QED  BY <2>2, <2>3, <2>4, ConcatProperties
<1>2. CASE ~\E i \in DOMAIN s : s[i] = k
  BY <1>2 DEF Drop
<1> QED  BY <1>1, <1>2

\* Reserving a ticket leaves a sequence of keys.
LEMMA ReserveType ==
    ASSUME NEW s \in Seq(Keys), NEW k \in Keys
    PROVE  Reserve(s, k) \in Seq(Keys)
BY AppendProperties DEF Reserve

\* A submission is a sequence of jobs.
LEMMA SubmissionType ==
    ASSUME NEW s \in Submissions
    PROVE  s \in Seq(Jobs) /\ s \in Seq(Keys)
<1>1. CASE s \in {<<j>> : j \in Jobs}
  <2>1. PICK j \in Jobs : s = <<j>>  BY <1>1
  <2>2. <<j>> \in Seq(Jobs) /\ <<j>> \in Seq(Keys)  BY DEF Keys
  <2> QED  BY <2>1, <2>2
<1>2. CASE s \in Jobs \X Jobs
  <2>1. PICK j \in Jobs, k \in Jobs : s = <<j, k>>  BY <1>2
  <2>2. <<j, k>> \in Seq(Jobs) /\ <<j, k>> \in Seq(Keys)  BY DEF Keys
  <2> QED  BY <2>1, <2>2
<1> QED  BY <1>1, <1>2 DEF Submissions

\* Releasing a slot and a ticket keeps the types of both.
LEMMA ReleaseType ==
    ASSUME TypeOK, NEW k, ReleasePool(k)
    PROVE  tickets' \in Seq(Keys) /\ slots' \subseteq Keys
BY DropType DEF ReleasePool, TypeOK, Keys

\* The first step of the coroutine keeps the types of what it changes.
LEMMA EnterType ==
    ASSUME TypeOK, NEW j \in Jobs, Enter(j)
    PROVE  /\ cancelled' \subseteq Jobs
           /\ event' \in [Jobs -> {"none", "clear", "set"}]
           /\ tickets' \in Seq(Keys) /\ slots' \subseteq Keys
           /\ pc' \in [Jobs -> Phases]
<1>1. tickets \in Seq(Keys) /\ j \in Keys  BY DEF TypeOK, Keys
<1>2. Reserve(tickets, j) \in Seq(Keys)  BY <1>1, ReserveType
<1>3. tickets' = tickets \/ tickets' = Reserve(tickets, j)
  BY DEF Enter, poolVars
<1>4. tickets' \in Seq(Keys)  BY <1>1, <1>2, <1>3
<1>5. slots' = slots \/ slots' = slots \cup {j}
  BY DEF Enter, poolVars
<1>6. slots' \subseteq Keys  BY <1>5 DEF TypeOK, Keys
<1>7. /\ cancelled' \subseteq Jobs
      /\ event' \in [Jobs -> {"none", "clear", "set"}]
  BY DEF Enter, TypeOK
<1>8. pc' \in [Jobs -> Phases]
  BY DEF Enter, TypeOK, Phases, Owning
<1> QED  BY <1>4, <1>6, <1>7, <1>8

\* Launching a job keeps the types of what it changes.
LEMMA LaunchType ==
    ASSUME TypeOK, NEW j \in Jobs, Launch(j)
    PROVE  /\ cancelled' \subseteq Jobs
           /\ event' \in [Jobs -> {"none", "clear", "set"}]
           /\ tickets' \in Seq(Keys) /\ slots' \subseteq Keys
           /\ pc' \in [Jobs -> Phases]
           /\ disp' \in Jobs \cup {NoJob} /\ sem' \in Int
<1>1. CASE MaxConcurrent = 1
  BY <1>1, EnterType DEF Launch, TakePermit, TypeOK
<1>2. CASE MaxConcurrent # 1
  BY <1>2 DEF Launch, TakePermit, poolVars, TypeOK, Keys, Phases, Owning
<1> QED  BY <1>1, <1>2

\* Every exit through the finally block keeps the types of what it changes.
LEMMA FinalizeType ==
    ASSUME TypeOK, NEW j \in Jobs, NEW st \in Terminal, Finalize(j, st)
    PROVE  /\ jobs' \subseteq Jobs /\ requeue' \subseteq Jobs /\ ackd' \subseteq Jobs
           /\ status' \in [Jobs -> Statuses] /\ told' \in [Jobs -> Statuses]
           /\ event' \in [Jobs -> {"none", "clear", "set"}]
           /\ pc' \in [Jobs -> Phases]
           /\ queue' \in Seq(Jobs) /\ disp' \in Jobs \cup {NoJob} /\ sem' \in Int
           /\ tickets' \in Seq(Keys) /\ slots' \subseteq Keys
           /\ outLock' \in [Outs -> Jobs \cup {NoJob}] /\ dirLock' \subseteq Dirs
<1>1. tickets' \in Seq(Keys) /\ slots' \subseteq Keys
  BY ReleaseType DEF Finalize
<1> QED  BY <1>1 DEF Finalize, FreedFolder, Goto, TypeOK, Statuses, Phases, Owning

-----------------------------------------------------------------------------
\* The steps of the requests, of the dispatcher and of the other process.
LEMMA TypeRequests ==
    ASSUME TypeOK
    PROVE  /\ \A s \in Submissions : Submit(s) => TypeOK'
           /\ Dispatcher => TypeOK'
           /\ \A j \in Jobs : OnRequest(j) => TypeOK'
           /\ \A f \in Foreign : OnForeign(f) => TypeOK'
<1> USE DEF listVars, poolVars, lockVars, noteVars
<1>1. ASSUME NEW s \in Submissions, Submit(s) PROVE TypeOK'
  <2>0. s \in Seq(Jobs) /\ s \in Seq(Keys)  BY SubmissionType
  <2>1. queue' \in Seq(Jobs)
    <3>1. queue \in Seq(Jobs)  BY DEF TypeOK
    <3> QED  BY <1>1, <2>0, <3>1, ConcatProperties DEF Submit
  <2>4. tickets' \in Seq(Keys)
    <3>1. tickets \in Seq(Keys)  BY DEF TypeOK, Keys
    <3> QED  BY <1>1, <2>0, <3>1, ConcatProperties DEF Submit
  <2>2. jobs' \subseteq Jobs
    BY <1>1, SubmissionType DEF Submit, TypeOK
  <2>3. status' \in [Jobs -> Statuses]
    BY <1>1 DEF Submit, TypeOK, Statuses
  <2> QED  BY <1>1, <2>1, <2>2, <2>3, <2>4 DEF Submit, TypeOK, Keys
<1>2. ASSUME Dispatcher PROVE TypeOK'
  <2>1. queue # <<>> => Head(queue) \in Jobs /\ Tail(queue) \in Seq(Jobs)
    BY HeadTailProperties DEF TypeOK
  <2>2. CASE Skip
    BY <2>1, <2>2 DEF Skip, TypeOK
  <2>3. CASE Dispatch
    <3>1. CASE Launch(Head(queue))
      <4>1. Head(queue) \in Jobs /\ Tail(queue) \in Seq(Jobs)
        BY <2>1, <2>3 DEF Dispatch
      <4> QED  BY <2>3, <3>1, <4>1, LaunchType DEF Dispatch, TypeOK, Keys
    <3>2. CASE ~Launch(Head(queue))
      BY <2>1, <2>3, <3>2 DEF Dispatch, TypeOK
    <3> QED  BY <3>1, <3>2
  <2>4. CASE DispatchHeld
    <3>1. disp \in Jobs  BY <2>4 DEF DispatchHeld, TypeOK
    <3> QED  BY <2>4, <3>1, LaunchType DEF DispatchHeld, TypeOK, Keys
  <2> QED  BY <1>2, <2>2, <2>3, <2>4 DEF Dispatcher
<1>3. ASSUME NEW j \in Jobs, OnRequest(j)
      PROVE  TypeOK'
  <2>1. CASE CancelQueued(j)
    <3>1. tickets' \in Seq(Keys) /\ slots' \subseteq Keys
      BY <2>1, ReleaseType DEF CancelQueued
    <3> QED  BY <2>1, <3>1 DEF CancelQueued, TypeOK, Keys, Statuses, Terminal
  <2>2. CASE CancelProcessing(j)
    BY <2>2 DEF CancelProcessing, TypeOK
  <2>3. CASE Delete(j)
    <3>1. tickets' \in Seq(Keys) /\ slots' \subseteq Keys
      BY <2>3, ReleaseType DEF Delete, TypeOK, Keys
    <3> QED  BY <2>3, <3>1 DEF Delete, TypeOK, Keys
  <2>4. CASE Requeue(j)
    <3>0. tickets \in Seq(Keys) /\ j \in Keys  BY DEF TypeOK, Keys
    <3>1. tickets' \in Seq(Keys)
      BY <2>4, <3>0, ReserveType DEF Requeue
    <3>2. queue' \in Seq(Jobs)
      <4>1. queue \in Seq(Jobs)  BY DEF TypeOK
      <4>2. Append(queue, j) \in Seq(Jobs)  BY <4>1, AppendProperties
      <4> QED  BY <2>4, <4>1, <4>2 DEF Requeue
    <3> QED  BY <2>4, <3>1, <3>2 DEF Requeue, TypeOK, Keys, Statuses
  <2> QED  BY <1>3, <2>1, <2>2, <2>3, <2>4 DEF OnRequest
<1>4. ASSUME NEW f \in Foreign, OnForeign(f)
      PROVE  TypeOK'
  <2>1. CASE ForeignTicket(f)
    <3>1. tickets' \in Seq(Keys)
      BY <2>1, AppendProperties DEF ForeignTicket, TypeOK, Keys
    <3> QED  BY <2>1, <3>1 DEF ForeignTicket, TypeOK, Keys
  <2>2. CASE ForeignSlot(f)
    BY <2>2 DEF ForeignSlot, TypeOK, Keys
  <2>3. CASE ForeignRelease(f)
    <3>1. tickets' \in Seq(Keys) /\ slots' \subseteq Keys
      BY <2>3, ReleaseType DEF ForeignRelease
    <3> QED  BY <2>3, <3>1 DEF ForeignRelease, TypeOK, Keys
  <2> QED  BY <1>4, <2>1, <2>2, <2>3 DEF OnForeign
<1> QED  BY <1>1, <1>2, <1>3, <1>4

\* The steps of the coroutine before the job is PROCESSING.
LEMMA TypeAdmission ==
    ASSUME TypeOK, LocksOwned, NEW j \in Jobs, Admission(j)
    PROVE  TypeOK'
<1> USE DEF listVars, poolVars, lockVars, noteVars
<1>1. CASE EnterSpawned(j)
  BY <1>1, EnterType DEF EnterSpawned, TypeOK, Keys
<1>2. CASE GetSlot(j)
  BY <1>2 DEF GetSlot, Goto, TypeOK, Keys, Phases, Owning
<1>3. CASE GiveUpSlot(j)
  <2>1. tickets' \in Seq(Keys) /\ slots' \subseteq Keys
    BY <1>3, ReleaseType DEF GiveUpSlot
  <2> QED
    BY <1>3, <2>1 DEF GiveUpSlot, EndEarly, Goto, TypeOK, Keys, Statuses, Terminal, Phases, Owning
<1>4. CASE Probe(j)
  BY <1>4 DEF Probe, Goto, TypeOK, Phases, Owning
<1>5. CASE Defer(j)
  <2>1. tickets' \in Seq(Keys) /\ slots' \subseteq Keys
    BY <1>5, ReleaseType DEF Defer
  <2>2. sem' \in Int /\ disp' \in Jobs \cup {NoJob} /\ pc' \in [Jobs -> Phases]
    BY <1>5 DEF Defer, Return, TypeOK, Phases, Owning
  <2> QED  BY <1>5, <2>1, <2>2 DEF Defer, PutBack, TypeOK, Keys
<1>6. CASE TakeOutput(j)
  BY <1>6 DEF TakeOutput, Begin, Goto, TypeOK, Statuses, Phases, Owning
<1>7. CASE RefuseOutput(j)
  BY <1>7 DEF RefuseOutput, Goto, TypeOK, Phases, Owning
<1>8. CASE FailEarly(j)
  <2>1. tickets' \in Seq(Keys) /\ slots' \subseteq Keys
    BY <1>8, ReleaseType DEF FailEarly
  <2> QED
    BY <1>8, <2>1 DEF FailEarly, EndEarly, FreedEarly, Goto, TypeOK, Keys, Statuses, Terminal, Phases, Owning
<1>9. CASE NoParts(j)
  BY <1>9 DEF NoParts, Goto, TypeOK, Phases, Owning
<1>10. CASE TakeFolder(j)
  <2>1. j \in Dirs  BY <1>10 DEF TakeFolder, LocksOwned
  <2> QED  BY <1>10, <2>1 DEF TakeFolder, Goto, TypeOK, Phases, Owning
<1>11. CASE RefuseFolder(j)
  BY <1>11 DEF RefuseFolder, Goto, TypeOK, Phases, Owning
<1>12. CASE StartFolder(j)
  BY <1>12 DEF StartFolder, Begin, Goto, TypeOK, Statuses, Phases, Owning
<1> QED
  BY <1>1, <1>2, <1>3, <1>4, <1>5, <1>6, <1>7, <1>8, <1>9, <1>10, <1>11, <1>12
  DEF Admission

\* The steps of the main try block.
LEMMA TypeRun ==
    ASSUME TypeOK, NEW j \in Jobs, Run(j)
    PROVE  TypeOK'
<1> USE DEF listVars, poolVars, lockVars, noteVars
<1>0. "completed" \in Terminal /\ "failed" \in Terminal /\ "cancelled" \in Terminal
  BY DEF Terminal
<1>1. CASE AlreadyDone(j)
  BY <1>0, <1>1, FinalizeType DEF AlreadyDone, TypeOK, Keys
<1>2. CASE Fail(j)
  <2>1. cancelled' \subseteq Jobs /\ exists' \subseteq Outs
    BY <1>2 DEF Fail, TypeOK
  <2> QED  BY <1>0, <1>2, <2>1, FinalizeType DEF Fail, TypeOK, Keys
<1>3. CASE StopCancelled(j)
  <2>1. cancelled' \subseteq Jobs /\ exists' \subseteq Outs
    BY <1>3 DEF StopCancelled, TypeOK
  <2> QED  BY <1>0, <1>3, <2>1, FinalizeType DEF StopCancelled, TypeOK, Keys
<1>4. CASE StartConvert(j)
  <2>1. exists' \subseteq Outs
    BY <1>4, PathsAssumption DEF StartConvert, TypeOK
  <2>2. pc' \in [Jobs -> Phases]
    BY <1>4 DEF StartConvert, Goto, TypeOK, Phases, Owning
  <2> QED  BY <1>4, <2>1, <2>2 DEF StartConvert, TypeOK
<1>5. CASE Converted(j)
  BY <1>5 DEF Converted, Goto, TypeOK, Phases, Owning
<1>6. CASE VerifyStep(j)
  BY <1>6 DEF VerifyStep, Goto, TypeOK, Phases, Owning
<1>7. CASE Complete(j)
  BY <1>0, <1>7, FinalizeType DEF Complete, TypeOK, Keys
<1>8. CASE Finish(j)
  <2>1. sem' \in Int /\ disp' \in Jobs \cup {NoJob} /\ pc' \in [Jobs -> Phases]
    BY <1>8 DEF Finish, Return, TypeOK, Phases, Owning
  <2> QED  BY <1>8, <2>1 DEF Finish, TypeOK
<1> QED
  BY <1>1, <1>2, <1>3, <1>4, <1>5, <1>6, <1>7, <1>8 DEF Run

-----------------------------------------------------------------------------
\* The inductive invariant.  OneWriter follows from LocksOwned; FolderQuiet needs
\* it, because a folder is locked only when no lock names an output inside it.
IInv == TypeOK /\ LocksOwned /\ FolderQuiet

\* A step inside the coroutine of j that takes and releases no lock keeps the
\* discipline when it enters no phase that owns more than the one it leaves.
LEMMA MoveKeepsLocks ==
    ASSUME IInv, NEW j \in Jobs, NEW p \in Phases,
           pc' = [pc EXCEPT ![j] = p], UNCHANGED lockVars,
           p \in {"parts", "dirlock", "dirbusy", "dirheld"} => j \in Dirs,
           p \in Owning => pc[j] \in Owning,
           p \in Packing /\ j \in Dirs => pc[j] \in Packing
    PROVE  LocksOwned' /\ FolderQuiet'
<1>1. /\ pc'[j] = p
      /\ \A k \in Jobs \ {j} : pc'[k] = pc[k]
      /\ outLock' = outLock /\ dirLock' = dirLock
  BY DEF IInv, TypeOK, lockVars
<1>2. LocksOwned'
  BY <1>1 DEF IInv, LocksOwned
<1>3. FolderQuiet'
  <2>1. \A k \in Jobs : pc'[k] \in Owning => pc[k] \in Owning
    BY <1>1
  <2>2. \A k \in Dirs : pc'[k] \in Packing => pc[k] \in Packing
    BY <1>1, PathsAssumption
  <2> QED  BY <2>1, <2>2, PathsAssumption DEF IInv, FolderQuiet
<1> QED  BY <1>2, <1>3

\* A step by which the coroutine of j leaves what it owned keeps the discipline:
\* the locks it frees are the ones it held.
LEMMA LeaveKeepsLocks ==
    ASSUME IInv, NEW j \in Jobs, NEW p \in Phases \ Owning,
           pc' = [pc EXCEPT ![j] = p],
           \/ outLock' = outLock
           \/ pc[j] \in Owning /\ outLock' = [outLock EXCEPT ![Out[j]] = NoJob],
           dirLock' = dirLock \/ dirLock' = dirLock \ {j}
    PROVE  LocksOwned' /\ FolderQuiet'
<1>1. /\ pc'[j] = p /\ p \notin Packing
      /\ p \notin {"parts", "dirlock", "dirbusy", "dirheld"}
      /\ \A k \in Jobs \ {j} : pc'[k] = pc[k]
  BY DEF IInv, TypeOK, Owning, Packing
<1>2. \A k \in Jobs \ {j} : pc[k] \in Owning => outLock'[Out[k]] = k
  BY PathsAssumption DEF IInv, TypeOK, LocksOwned
<1>3. \A k \in Jobs \ {j} : k \in dirLock => k \in dirLock'
  OBVIOUS
<1>4. LocksOwned'
  BY <1>1, <1>2, <1>3 DEF IInv, LocksOwned
<1>5. FolderQuiet'
  <2>1. \A k \in Jobs : pc'[k] \in Owning => pc[k] \in Owning
    BY <1>1
  <2>2. \A k \in Dirs : pc'[k] \in Packing => pc[k] \in Packing
    BY <1>1, PathsAssumption
  <2> QED  BY <2>1, <2>2, PathsAssumption DEF IInv, FolderQuiet
<1> QED  BY <1>4, <1>5

\* A step that moves no coroutine and no lock keeps the discipline.
LEMMA StillKeepsLocks ==
    ASSUME IInv, UNCHANGED <<pc, lockVars>>
    PROVE  LocksOwned' /\ FolderQuiet'
BY DEF IInv, LocksOwned, FolderQuiet, lockVars

\* acquire_lock: the destination was free and in no folder being packed.
LEMMA TakeOutputKeepsLocks ==
    ASSUME IInv, NEW j \in Jobs, TakeOutput(j)
    PROVE  LocksOwned' /\ FolderQuiet'
<1>1. PICK p \in {"prepare", "parts", "dirlock"} :
        /\ pc' = [pc EXCEPT ![j] = p]
        /\ p = "prepare" => j \notin Dirs
        /\ p # "prepare" => j \in Dirs
  BY DEF TakeOutput, Begin, Goto
<1>2. /\ pc'[j] = p /\ \A k \in Jobs \ {j} : pc'[k] = pc[k]
  BY <1>1 DEF IInv, TypeOK
<1>3. /\ outLock[Out[j]] = NoJob /\ outLock' = [outLock EXCEPT ![Out[j]] = j]
      /\ dirLock' = dirLock
      /\ \A d \in dirLock : Out[j] \notin OutInside[d]
  BY DEF TakeOutput, CanLock, OutInLockedFolder
<1>4. \A k \in Jobs \ {j} : pc[k] \in Owning => outLock'[Out[k]] = k
  BY <1>3, JobsAssumption, PathsAssumption DEF IInv, TypeOK, LocksOwned
<1>5. outLock'[Out[j]] = j
  BY <1>3, PathsAssumption DEF IInv, TypeOK
<1>6. LocksOwned'
  BY <1>1, <1>2, <1>3, <1>4, <1>5 DEF IInv, LocksOwned, Packing
<1>7. FolderQuiet'
  <2>1. \A d \in Dirs : pc'[d] \in Packing => pc[d] \in Packing /\ d \in dirLock
    BY <1>1, <1>2, PathsAssumption DEF IInv, LocksOwned, Packing
  <2>2. \A d \in Dirs : pc'[d] \in Packing => Out[j] \notin OutInside[d]
    BY <1>3, <2>1
  <2> QED  BY <1>2, <2>1, <2>2, PathsAssumption DEF IInv, FolderQuiet
<1> QED  BY <1>6, <1>7

\* acquire_dir_lock: no locked output lies in the folder and no locked folder
\* nests with it, so none of the jobs that own one is in the way.
LEMMA TakeFolderKeepsLocks ==
    ASSUME IInv, NEW j \in Jobs, TakeFolder(j)
    PROVE  LocksOwned' /\ FolderQuiet'
<1>0. j \in Dirs /\ pc[j] = "dirlock" /\ outLock' = outLock
  BY DEF TakeFolder, IInv, LocksOwned
<1>1. /\ pc' = [pc EXCEPT ![j] = "dirheld"] /\ dirLock' = dirLock \cup {j}
      /\ \A o \in OutInside[j] : outLock[o] = NoJob
      /\ \A e \in dirLock : <<j, e>> \notin Nested
  BY DEF TakeFolder, Goto, FolderBusy
<1>2. pc'[j] = "dirheld" /\ \A k \in Jobs \ {j} : pc'[k] = pc[k]
  BY <1>1 DEF IInv, TypeOK
<1>3. LocksOwned'
  BY <1>0, <1>1, <1>2 DEF IInv, LocksOwned, Owning
<1>4. \A k \in Jobs \ {j} : Out[k] \in OutInside[j] => pc[k] \notin Owning
  BY <1>1, JobsAssumption DEF IInv, LocksOwned
<1>5. \A k \in Dirs \ {j} : pc[k] \in Packing =>
          <<j, k>> \notin Nested /\ <<k, j>> \notin Nested
  BY <1>0, <1>1, PathsAssumption DEF IInv, LocksOwned
<1>6. \A k \in Dirs \ {j} : pc[k] \in Packing => Out[j] \notin OutInside[k]
  BY <1>0, PathsAssumption DEF IInv, FolderQuiet, Owning
<1>7. FolderQuiet'
  BY <1>0, <1>2, <1>4, <1>5, <1>6, PathsAssumption DEF IInv, FolderQuiet
<1> QED  BY <1>3, <1>7

\* The exits through the finally block leave every phase that owns a lock.
LEMMA FinalizeKeepsLocks ==
    ASSUME IInv, NEW j \in Jobs, NEW st, pc[j] \in Owning, Finalize(j, st)
    PROVE  LocksOwned' /\ FolderQuiet'
<1>1. /\ pc' = [pc EXCEPT ![j] = "ending"]
      /\ outLock' = [outLock EXCEPT ![Out[j]] = NoJob]
      /\ dirLock' = dirLock \ {j}
  BY DEF Finalize, FreedFolder, Goto
<1>2. "ending" \in Phases \ Owning  BY DEF Phases, Owning
<1> QED  BY <1>1, <1>2, LeaveKeepsLocks

\* The first step of a coroutine owns nothing yet.
LEMMA EnterKeepsLocks ==
    ASSUME IInv, NEW j \in Jobs, Enter(j), UNCHANGED lockVars
    PROVE  LocksOwned' /\ FolderQuiet'
<1>1. PICK p \in {"ending", "probe", "waiting"} : pc' = [pc EXCEPT ![j] = p]
  BY DEF Enter
<1>2. p \in Phases \ Owning  BY DEF Phases, Owning
<1> QED  BY <1>1, <1>2, LeaveKeepsLocks DEF lockVars

LEMMA LaunchKeepsLocks ==
    ASSUME IInv, NEW j \in Jobs, Launch(j), UNCHANGED lockVars
    PROVE  LocksOwned' /\ FolderQuiet'
<1>1. CASE MaxConcurrent = 1
  BY <1>1, EnterKeepsLocks DEF Launch
<1>2. CASE MaxConcurrent # 1
  <2>1. pc' = [pc EXCEPT ![j] = "spawned"]  BY <1>2 DEF Launch
  <2>2. "spawned" \in Phases \ Owning  BY DEF Phases, Owning
  <2> QED  BY <2>1, <2>2, LeaveKeepsLocks DEF lockVars
<1> QED  BY <1>1, <1>2

\* The steps of the coroutine before the job is PROCESSING.
LEMMA AdmissionKeepsLocks ==
    ASSUME IInv, NEW j \in Jobs, Admission(j)
    PROVE  LocksOwned' /\ FolderQuiet'
<1> USE DEF Phases, Owning, Packing
<1>1. CASE EnterSpawned(j)
  BY <1>1, EnterKeepsLocks DEF EnterSpawned
<1>2. CASE GetSlot(j)
  BY <1>2, LeaveKeepsLocks DEF GetSlot, Goto, lockVars
<1>3. CASE GiveUpSlot(j)
  BY <1>3, LeaveKeepsLocks DEF GiveUpSlot, Goto, lockVars
<1>4. CASE Probe(j)
  BY <1>4, LeaveKeepsLocks DEF Probe, Goto, lockVars
<1>5. CASE Defer(j)
  <2>1. /\ pc' = [pc EXCEPT ![j] = "none"] /\ dirLock' = dirLock
        /\ \/ outLock' = outLock
           \/ pc[j] \in Owning /\ outLock' = [outLock EXCEPT ![Out[j]] = NoJob]
    BY <1>5 DEF Defer, Return
  <2> QED  BY <2>1, LeaveKeepsLocks
<1>6. CASE TakeOutput(j)
  BY <1>6, TakeOutputKeepsLocks
<1>7. CASE RefuseOutput(j)
  BY <1>7, LeaveKeepsLocks DEF RefuseOutput, Goto, lockVars
<1>8. CASE FailEarly(j)
  <2>1. /\ pc' = [pc EXCEPT ![j] = "ending"] /\ dirLock' = dirLock
        /\ \/ outLock' = outLock
           \/ pc[j] \in Owning /\ outLock' = [outLock EXCEPT ![Out[j]] = NoJob]
    BY <1>8 DEF FailEarly, FreedEarly, Goto
  <2> QED  BY <2>1, LeaveKeepsLocks
<1>9. CASE NoParts(j)
  <2>1. j \in Dirs  BY <1>9 DEF NoParts, IInv, LocksOwned
  <2> QED  BY <1>9, <2>1, MoveKeepsLocks DEF NoParts, Goto
<1>10. CASE TakeFolder(j)
  BY <1>10, TakeFolderKeepsLocks
<1>11. CASE RefuseFolder(j)
  <2>1. j \in Dirs  BY <1>11 DEF RefuseFolder, IInv, LocksOwned
  <2> QED  BY <1>11, <2>1, MoveKeepsLocks DEF RefuseFolder, Goto
<1>12. CASE StartFolder(j)
  BY <1>12, MoveKeepsLocks DEF StartFolder, Begin, Goto
<1> QED
  BY <1>1, <1>2, <1>3, <1>4, <1>5, <1>6, <1>7, <1>8, <1>9, <1>10, <1>11, <1>12
  DEF Admission

\* The steps of the main try block.
LEMMA RunKeepsLocks ==
    ASSUME IInv, NEW j \in Jobs, Run(j)
    PROVE  LocksOwned' /\ FolderQuiet'
<1> USE DEF Phases, Owning, Packing
<1>1. CASE AlreadyDone(j)
  BY <1>1, FinalizeKeepsLocks DEF AlreadyDone
<1>2. CASE Fail(j)
  BY <1>2, FinalizeKeepsLocks DEF Fail
<1>3. CASE StopCancelled(j)
  BY <1>3, FinalizeKeepsLocks DEF StopCancelled
<1>4. CASE StartConvert(j)
  <2>1. PICK p \in {"clearing", "convert"} : pc' = [pc EXCEPT ![j] = p]
    BY <1>4 DEF StartConvert, Goto
  <2> QED  BY <1>4, <2>1, MoveKeepsLocks DEF StartConvert
<1>5. CASE Converted(j)
  BY <1>5, MoveKeepsLocks DEF Converted, Goto
<1>6. CASE VerifyStep(j)
  <2>1. PICK p \in {"verify", "verified"} : pc' = [pc EXCEPT ![j] = p]
    BY <1>6 DEF VerifyStep, Goto
  <2> QED  BY <1>6, <2>1, MoveKeepsLocks DEF VerifyStep
<1>7. CASE Complete(j)
  BY <1>7, FinalizeKeepsLocks DEF Complete
<1>8. CASE Finish(j)
  BY <1>8, LeaveKeepsLocks DEF Finish, Return, lockVars
<1> QED
  BY <1>1, <1>2, <1>3, <1>4, <1>5, <1>6, <1>7, <1>8 DEF Run

\* Requests, timers, the dispatcher and the other process touch no lock.
LEMMA OthersKeepLocks ==
    ASSUME IInv
    PROVE  /\ \A s \in Submissions : Submit(s) => LocksOwned' /\ FolderQuiet'
           /\ Dispatcher => LocksOwned' /\ FolderQuiet'
           /\ \A j \in Jobs : OnRequest(j) => LocksOwned' /\ FolderQuiet'
           /\ \A f \in Foreign : OnForeign(f) => LocksOwned' /\ FolderQuiet'
<1>1. ASSUME NEW s \in Submissions, Submit(s) PROVE LocksOwned' /\ FolderQuiet'
  BY <1>1, StillKeepsLocks DEF Submit
<1>2. ASSUME Dispatcher PROVE LocksOwned' /\ FolderQuiet'
  <2>1. CASE Skip
    BY <2>1, StillKeepsLocks DEF Skip
  <2>2. CASE Dispatch
    <3>1. Head(queue) \in Jobs
      BY <2>2, HeadTailProperties DEF Dispatch, IInv, TypeOK
    <3>2. CASE Launch(Head(queue))
      BY <2>2, <3>1, <3>2, LaunchKeepsLocks DEF Dispatch
    <3>3. CASE ~Launch(Head(queue))
      BY <2>2, <3>3, StillKeepsLocks DEF Dispatch
    <3> QED  BY <3>2, <3>3
  <2>3. CASE DispatchHeld
    <3>1. disp \in Jobs  BY <2>3 DEF DispatchHeld, IInv, TypeOK
    <3> QED  BY <2>3, <3>1, LaunchKeepsLocks DEF DispatchHeld
  <2> QED  BY <1>2, <2>1, <2>2, <2>3 DEF Dispatcher
<1>3. ASSUME NEW j \in Jobs, OnRequest(j)
      PROVE  LocksOwned' /\ FolderQuiet'
  BY <1>3, StillKeepsLocks DEF OnRequest, CancelQueued, CancelProcessing, Delete, Requeue
<1>4. ASSUME NEW f \in Foreign, OnForeign(f)
      PROVE  LocksOwned' /\ FolderQuiet'
  BY <1>4, StillKeepsLocks DEF OnForeign, ForeignTicket, ForeignSlot, ForeignRelease
<1> QED  BY <1>1, <1>2, <1>3, <1>4

-----------------------------------------------------------------------------
\* The lock discipline and the types are inductive: every step of every actor
\* of the queue, for any instance, keeps IInv.
THEOREM LockDiscipline == Spec => []IInv
<1>1. Init => IInv
  <2> SUFFICES ASSUME Init PROVE IInv  OBVIOUS
  <2>1. TypeOK
    BY LimitsAssumption DEF Init, TypeOK, Statuses, Phases
  <2>2. LocksOwned /\ FolderQuiet
    BY PathsAssumption DEF Init, LocksOwned, FolderQuiet, Owning, Packing
  <2> QED  BY <2>1, <2>2 DEF IInv
<1>2. IInv /\ [Next]_vars => IInv'
  <2> SUFFICES ASSUME IInv, [Next]_vars PROVE IInv'  OBVIOUS
  <2>1. CASE Next
    <3>0. TypeOK /\ LocksOwned  BY DEF IInv
    <3>1. TypeOK'
      <4>1. CASE \E s \in Submissions : Submit(s)
        BY <3>0, <4>1, TypeRequests
      <4>2. CASE Dispatcher
        BY <3>0, <4>2, TypeRequests
      <4>3. CASE \E j \in Jobs : OnRequest(j)
        BY <3>0, <4>3, TypeRequests
      <4>4. CASE \E j \in Jobs : Admission(j) \/ Run(j)
        BY <3>0, <4>4, TypeAdmission, TypeRun
      <4>5. CASE \E f \in Foreign : OnForeign(f)
        BY <3>0, <4>5, TypeRequests
      <4> QED  BY <2>1, <4>1, <4>2, <4>3, <4>4, <4>5 DEF Next, OnRequest, OnForeign
    <3>2. LocksOwned' /\ FolderQuiet'
      BY <2>1, OthersKeepLocks, AdmissionKeepsLocks, RunKeepsLocks
         DEF Next, OnRequest, OnForeign
    <3> QED  BY <3>1, <3>2 DEF IInv
  <2>2. CASE UNCHANGED vars
    BY <2>2 DEF vars, IInv, TypeOK, LocksOwned, FolderQuiet
  <2> QED  BY <2>1, <2>2
<1> QED  BY <1>1, <1>2, PTL DEF Spec

\* Type correctness of the conversion queue.
THEOREM TypeCorrect == Spec => []TypeOK
<1>1. IInv => TypeOK  BY DEF IInv
<1> QED  BY <1>1, LockDiscipline, PTL

\* Two jobs with one destination never both own it (acquire_lock's promise, kept
\* through every cancel, delete, deferral and early exit).
THEOREM OneWriterAlways == Spec => []OneWriter
<1>1. IInv => OneWriter  BY DEF IInv, LocksOwned, OneWriter
<1> QED  BY <1>1, LockDiscipline, PTL

\* A folder being packed stays free of other writers and of nested packers
\* (acquire_dir_lock's promise).
THEOREM FolderQuietAlways == Spec => []FolderQuiet
<1>1. IInv => FolderQuiet  BY DEF IInv
<1> QED  BY <1>1, LockDiscipline, PTL

\* A coroutine that owns a destination or a folder holds its lock itself.
THEOREM LocksOwnedAlways == Spec => []LocksOwned
<1>1. IInv => LocksOwned  BY DEF IInv
<1> QED  BY <1>1, LockDiscipline, PTL

-----------------------------------------------------------------------------
\* Refinement: the queue implements OutputOwnership.

\* The coroutine of j moves from phase to phase and comes to own or pack nothing
\* more or less.
LEMMA MoveMaps ==
    ASSUME IInv, NEW j \in Jobs, NEW p,
           pc' = [pc EXCEPT ![j] = p],
           p \in Owning <=> pc[j] \in Owning,
           j \in Dirs => (p \in Packing <=> pc[j] \in Packing)
    PROVE  Owners' = Owners /\ Packers' = Packers
<1>1. pc'[j] = p /\ \A k \in Jobs \ {j} : pc'[k] = pc[k]
  BY DEF IInv, TypeOK
<1> QED  BY <1>1, PathsAssumption DEF Owners, Packers

\* It gives up what it had, if anything, and its file may go with it.
LEMMA LeaveMaps ==
    ASSUME IInv, NEW j \in Jobs, NEW p,
           pc' = [pc EXCEPT ![j] = p], p \notin Owning,
           exists' = exists \/ (pc[j] \in Owning /\ exists' = exists \ {Out[j]})
    PROVE  [Ownership!Next]_(Ownership!vars)
<1>1. pc'[j] = p /\ p \notin Packing /\ \A k \in Jobs \ {j} : pc'[k] = pc[k]
  BY DEF IInv, TypeOK, Owning, Packing
<1>2. CASE pc[j] \in Owning
  <2>1. j \in Owners /\ Owners' = Owners \ {j}
    BY <1>1, <1>2 DEF Owners
  <2>2. Packers' = Packers \ {j}
    BY <1>1, PathsAssumption DEF Packers
  <2>3. Ownership!Leave(j)
    BY <2>1, <2>2 DEF Ownership!Leave
  <2> QED  BY <2>3 DEF Ownership!Next
<1>3. CASE pc[j] \notin Owning
  <2>1. pc[j] \notin Packing  BY <1>3 DEF Owning, Packing
  <2>2. Owners' = Owners /\ Packers' = Packers /\ exists' = exists
    BY <1>1, <1>3, <2>1, MoveMaps
  <2> QED  BY <2>2 DEF Ownership!vars
<1> QED  BY <1>2, <1>3

\* acquire_lock that succeeds is the taking of the destination.
LEMMA TakeOutputMaps ==
    ASSUME IInv, NEW j \in Jobs, TakeOutput(j)
    PROVE  Ownership!Own(j)
<1>1. PICK p \in {"prepare", "parts", "dirlock"} :
        /\ pc' = [pc EXCEPT ![j] = p]
        /\ p = "prepare" => j \notin Dirs
  BY DEF TakeOutput, Begin, Goto
<1>2. /\ pc[j] = "clear" /\ exists' = exists
      /\ outLock[Out[j]] = NoJob
      /\ \A d \in dirLock : Out[j] \notin OutInside[d]
  BY DEF TakeOutput, CanLock, OutInLockedFolder
<1>3. /\ pc'[j] = p /\ \A k \in Jobs \ {j} : pc'[k] = pc[k]
      /\ p \in Owning /\ pc[j] \notin Owning /\ pc[j] \notin Packing
      /\ j \in Dirs => p \notin Packing
  BY <1>1, <1>2 DEF IInv, TypeOK, Owning, Packing
<1>4. j \notin Owners /\ Owners' = Owners \cup {j}
  BY <1>3 DEF Owners
<1>5. Packers' = Packers
  BY <1>3, PathsAssumption DEF Packers
<1>6. \A k \in Owners : Out[k] # Out[j]
  BY <1>2, JobsAssumption DEF Owners, IInv, LocksOwned
<1>7. \A d \in Packers : Out[j] \notin OutInside[d]
  BY <1>2, PathsAssumption DEF Packers, IInv, LocksOwned
<1> QED  BY <1>2, <1>4, <1>5, <1>6, <1>7 DEF Ownership!Own

\* acquire_dir_lock that succeeds is the start of packing.
LEMMA TakeFolderMaps ==
    ASSUME IInv, NEW j \in Jobs, TakeFolder(j)
    PROVE  [Ownership!Next]_(Ownership!vars)
<1>0. j \in Dirs /\ pc[j] = "dirlock" /\ exists' = exists
  BY DEF TakeFolder, IInv, LocksOwned, noteVars
<1>1. /\ pc' = [pc EXCEPT ![j] = "dirheld"]
      /\ \A o \in OutInside[j] : outLock[o] = NoJob
      /\ \A e \in dirLock : <<j, e>> \notin Nested
  BY DEF TakeFolder, Goto, FolderBusy
<1>2. pc'[j] = "dirheld" /\ \A k \in Jobs \ {j} : pc'[k] = pc[k]
  BY <1>1 DEF IInv, TypeOK
<1>3. j \in Owners /\ Owners' = Owners
  BY <1>0, <1>2 DEF Owners, Owning
<1>4. Packers' = Packers \cup {j}
  BY <1>0, <1>2, PathsAssumption DEF Packers, Packing
<1>5. \A k \in Owners : Out[k] \notin OutInside[j]
  BY <1>1, JobsAssumption DEF Owners, IInv, LocksOwned
<1>6. \A e \in Packers : <<j, e>> \notin Nested
  BY <1>1, PathsAssumption DEF Packers, IInv, LocksOwned
<1>7. Ownership!Pack(j)
  BY <1>0, <1>3, <1>4, <1>5, <1>6 DEF Ownership!Pack
<1> QED  BY <1>7 DEF Ownership!Next

\* The steps of the coroutine before the job is PROCESSING.
LEMMA AdmissionMaps ==
    ASSUME IInv, NEW j \in Jobs, Admission(j)
    PROVE  [Ownership!Next]_(Ownership!vars)
<1>1. CASE EnterSpawned(j)
  <2>1. PICK p \in {"ending", "probe", "waiting"} : pc' = [pc EXCEPT ![j] = p]
    BY <1>1 DEF EnterSpawned, Enter
  <2> QED  BY <1>1, <2>1, LeaveMaps DEF EnterSpawned, Owning
<1>2. CASE GetSlot(j)
  BY <1>2, LeaveMaps DEF GetSlot, Goto, Owning
<1>3. CASE GiveUpSlot(j)
  BY <1>3, LeaveMaps DEF GiveUpSlot, Goto, Owning
<1>4. CASE Probe(j)
  BY <1>4, LeaveMaps DEF Probe, Goto, Owning
<1>5. CASE Defer(j)
  BY <1>5, LeaveMaps DEF Defer, Return, Owning
<1>6. CASE TakeOutput(j)
  BY <1>6, TakeOutputMaps DEF Ownership!Next
<1>7. CASE RefuseOutput(j)
  BY <1>7, LeaveMaps DEF RefuseOutput, Goto, Owning
<1>8. CASE FailEarly(j)
  BY <1>8, LeaveMaps DEF FailEarly, Goto, Owning
<1>9. CASE NoParts(j)
  <2>1. Owners' = Owners /\ Packers' = Packers
    BY <1>9, MoveMaps DEF NoParts, Goto, Owning, Packing
  <2> QED  BY <1>9, <2>1 DEF NoParts, Ownership!vars
<1>10. CASE TakeFolder(j)
  BY <1>10, TakeFolderMaps
<1>11. CASE RefuseFolder(j)
  <2>1. Owners' = Owners /\ Packers' = Packers
    BY <1>11, MoveMaps DEF RefuseFolder, Goto, Owning, Packing
  <2> QED  BY <1>11, <2>1 DEF RefuseFolder, Ownership!vars
<1>12. CASE StartFolder(j)
  <2>1. Owners' = Owners /\ Packers' = Packers
    BY <1>12, MoveMaps DEF StartFolder, Begin, Goto, Owning, Packing
  <2> QED  BY <1>12, <2>1 DEF StartFolder, Ownership!vars
<1> QED
  BY <1>1, <1>2, <1>3, <1>4, <1>5, <1>6, <1>7, <1>8, <1>9, <1>10, <1>11, <1>12
  DEF Admission

\* The steps of the main try block.
LEMMA RunMaps ==
    ASSUME IInv, NEW j \in Jobs, Run(j)
    PROVE  [Ownership!Next]_(Ownership!vars)
<1>1. ASSUME NEW st, Finalize(j, st),
             exists' = exists \/ (pc[j] \in Owning /\ exists' = exists \ {Out[j]})
      PROVE  [Ownership!Next]_(Ownership!vars)
  <2>1. pc' = [pc EXCEPT ![j] = "ending"] /\ "ending" \notin Owning
    BY <1>1 DEF Finalize, Goto, Owning
  <2> QED  BY <1>1, <2>1, LeaveMaps
<1>2. CASE AlreadyDone(j)
  BY <1>1, <1>2 DEF AlreadyDone
<1>3. CASE Fail(j)
  BY <1>1, <1>3 DEF Fail, Owning
<1>4. CASE StopCancelled(j)
  BY <1>1, <1>4 DEF StopCancelled, Owning
<1>5. CASE StartConvert(j)
  <2>1. PICK p \in {"clearing", "convert"} :
          /\ pc' = [pc EXCEPT ![j] = p]
          /\ exists' = exists \/ exists' = exists \cup {Out[j]}
    BY <1>5 DEF StartConvert, Goto
  <2>2. pc[j] \in Owning /\ pc[j] \in Packing /\ p \in Owning /\ p \in Packing
    BY <1>5 DEF StartConvert, Owning, Packing
  <2>3. Owners' = Owners /\ Packers' = Packers /\ j \in Owners
    BY <2>1, <2>2, MoveMaps DEF Owners
  <2>4. CASE exists' = exists  BY <2>3, <2>4 DEF Ownership!vars
  <2>5. CASE exists' = exists \cup {Out[j]}
    BY <2>3, <2>5 DEF Ownership!Write, Ownership!Next
  <2> QED  BY <2>1, <2>4, <2>5
<1>6. CASE Converted(j)
  <2>1. Owners' = Owners /\ Packers' = Packers
    BY <1>6, MoveMaps DEF Converted, Goto, Owning, Packing
  <2> QED  BY <1>6, <2>1 DEF Converted, Ownership!vars
<1>7. CASE VerifyStep(j)
  <2>1. PICK p \in {"verify", "verified"} : pc' = [pc EXCEPT ![j] = p]
    BY <1>7 DEF VerifyStep, Goto
  <2>2. Owners' = Owners /\ Packers' = Packers
    BY <1>7, <2>1, MoveMaps DEF VerifyStep, Owning, Packing
  <2> QED  BY <1>7, <2>2 DEF VerifyStep, Ownership!vars
<1>8. CASE Complete(j)
  BY <1>1, <1>8 DEF Complete
<1>9. CASE Finish(j)
  BY <1>9, LeaveMaps DEF Finish, Return, Owning
<1> QED
  BY <1>2, <1>3, <1>4, <1>5, <1>6, <1>7, <1>8, <1>9 DEF Run

\* Requests, timers and the other process change nothing of it; the dispatcher
\* may start a coroutine, which owns nothing in its first phase.
LEMMA OthersMap ==
    ASSUME IInv
    PROVE  /\ \A s \in Submissions : Submit(s) => [Ownership!Next]_(Ownership!vars)
           /\ Dispatcher => [Ownership!Next]_(Ownership!vars)
           /\ \A j \in Jobs : OnRequest(j) => [Ownership!Next]_(Ownership!vars)
           /\ \A f \in Foreign : OnForeign(f) => [Ownership!Next]_(Ownership!vars)
<1>0. ASSUME UNCHANGED <<pc, exists>> PROVE [Ownership!Next]_(Ownership!vars)
  BY <1>0 DEF Ownership!vars, Owners, Packers
<1>1. ASSUME NEW j \in Jobs, Launch(j), UNCHANGED exists
      PROVE  [Ownership!Next]_(Ownership!vars)
  <2>1. PICK p \in {"ending", "probe", "waiting", "spawned"} : pc' = [pc EXCEPT ![j] = p]
    BY <1>1 DEF Launch, Enter
  <2> QED  BY <1>1, <2>1, LeaveMaps DEF Owning
<1>2. ASSUME NEW s \in Submissions, Submit(s) PROVE [Ownership!Next]_(Ownership!vars)
  BY <1>0, <1>2 DEF Submit
<1>3. ASSUME Dispatcher PROVE [Ownership!Next]_(Ownership!vars)
  <2>1. CASE Skip
    BY <1>0, <2>1 DEF Skip
  <2>2. CASE Dispatch
    <3>1. Head(queue) \in Jobs
      BY <2>2, HeadTailProperties DEF Dispatch, IInv, TypeOK
    <3> QED  BY <1>0, <1>1, <2>2, <3>1 DEF Dispatch
  <2>3. CASE DispatchHeld
    <3>1. disp \in Jobs  BY <2>3 DEF DispatchHeld, IInv, TypeOK
    <3> QED  BY <1>1, <2>3, <3>1 DEF DispatchHeld
  <2> QED  BY <1>3, <2>1, <2>2, <2>3 DEF Dispatcher
<1>4. ASSUME NEW j \in Jobs, OnRequest(j) PROVE [Ownership!Next]_(Ownership!vars)
  BY <1>0, <1>4 DEF OnRequest, CancelQueued, CancelProcessing, Delete, Requeue
<1>5. ASSUME NEW f \in Foreign, OnForeign(f) PROVE [Ownership!Next]_(Ownership!vars)
  BY <1>0, <1>5 DEF OnForeign, ForeignTicket, ForeignSlot, ForeignRelease
<1> QED  BY <1>2, <1>3, <1>4, <1>5

\* The queue, with its locks, exits, deferrals and cancels, implements exclusive
\* ownership of destinations and folders, for any instance.
THEOREM ImplementsOwnership == Spec => Exclusive
<1>1. Init => Ownership!Init
  BY PathsAssumption DEF Init, Ownership!Init, Owners, Packers, Owning, Packing
<1>2. IInv /\ [Next]_vars => [Ownership!Next]_(Ownership!vars)
  <2> SUFFICES ASSUME IInv, [Next]_vars PROVE [Ownership!Next]_(Ownership!vars)
    OBVIOUS
  <2>1. CASE Next
    BY <2>1, OthersMap, AdmissionMaps, RunMaps DEF Next, OnRequest, OnForeign
  <2>2. CASE UNCHANGED vars
    BY <2>2 DEF vars, Ownership!vars, Owners, Packers
  <2> QED  BY <2>1, <2>2
<1> QED  BY <1>1, <1>2, LockDiscipline, PTL DEF Spec, Exclusive, Ownership!Spec

-----------------------------------------------------------------------------
\* The accounts of the queue.


\* The inductive invariant: what is true of one job at any moment.

Queued    == Range(queue)
Ticketed  == Range(tickets)
Held(j)   == disp = j /\ pc[j] = "none"
Running   == {j \in Jobs : pc[j] # "none"}
Locked(j) == \E o \in Outs : outLock[o] = j

\* A job is running its admission, or its main try block, past its first step.
Admitting == {"waiting", "probe", "blocked", "clear", "reprobe", "reblocked",
              "refuse", "parts", "dirlock", "dirbusy", "dirheld"}
Main      == {"prepare", "clearing", "convert", "post", "verify", "verified"}

\* Where a job stands decides its status, and it stands in one place only.
Placed(j) ==
    /\ status[j] = "none" => /\ j \notin jobs /\ pc[j] = "none" /\ disp # j
                             /\ j \notin Queued /\ j \notin requeue /\ j \notin Ticketed
                             /\ j \notin slots /\ ~Locked(j) /\ j \notin cancelled
    /\ status[j] = "queued" => /\ j \in jobs /\ j \notin cancelled
                               /\ j \in Queued \/ disp = j \/ pc[j] # "none" \/ j \in requeue
    /\ status[j] = "processing" <=> pc[j] \in Main
    /\ status[j] \in {"completed", "failed"} => pc[j] \in {"none", "ending"}
    /\ pc[j] = "ending" => status[j] \in Terminal
    /\ j \in Queued => pc[j] = "none" /\ disp # j /\ j \notin requeue
    /\ j \in requeue => pc[j] = "none" /\ disp # j
    /\ j \in Queued \/ Held(j) \/ j \in requeue => status[j] \in {"queued", "cancelled"}

\* The cancel event lives from the first step of the coroutine to its exit, it is
\* set when the job was cancelled meanwhile, and the listeners of a job that is
\* over heard its status.
Signalled(j) ==
    /\ event[j] # "none" <=> pc[j] \in Admitting \cup Main
    /\ status[j] = "cancelled" => event[j] # "clear"
    /\ status[j] \in Terminal => told[j] = status[j]

\* A job holds tickets, slots and locks only while it can still use them.
Supplied(j) ==
    /\ j \in dirLock => pc[j] \in Packing
    /\ \A o \in Outs : outLock[o] = j => o = Out[j] /\ (pc[j] \in Owning \/ j \notin jobs)
    /\ status[j] \in Terminal /\ event[j] = "none" => j \notin Ticketed /\ j \notin slots
    /\ j \in requeue => j \notin Ticketed
    /\ status[j] = "queued" /\ j \notin requeue => j \in Ticketed
    /\ pc[j] \in Admitting \cup Main /\ pc[j] # "waiting" => j \in slots \/ j \in ackd

\* A job whose cancel was accepted while it was queued is on its way out.
Leaving(j) ==
    j \in ackd =>
        /\ status[j] \in {"cancelled", "processing", "failed"}
        /\ status[j] = "processing" => pc[j] = "prepare"
        /\ event[j] # "clear"

JobInv(j) == Placed(j) /\ Signalled(j) /\ Supplied(j) /\ Leaving(j)

\* Each job has one entry and one ticket.
Single == IsInjective(queue) /\ IsInjective(tickets)

\* The permits out are the coroutines that run; the slot files are bounded.
Permits ==
    /\ IsFiniteSet(Running) /\ sem \in Nat
    /\ Cardinality(Running) + sem = MaxConcurrent
    /\ IsFiniteSet(slots) /\ Cardinality(slots) <= MaxConcurrent

\* x stands before y in s.
Before(s, x, y) == \E h, i \in DOMAIN s : h < i /\ s[h] = x /\ s[i] = y

\* The tickets stand in the order in which the jobs run: those of running
\* coroutines first, then the job the dispatcher holds, then the queue.
InOrder ==
    /\ \A x, y \in Jobs : Before(tickets, x, y) /\ pc[x] = "none" => pc[y] = "none"
    /\ \A x, y \in Jobs : Before(tickets, x, y) /\ Held(y) => pc[x] # "none"
    /\ \A x, y \in Jobs : Before(queue, x, y) => ~Before(tickets, y, x)

AInv == IInv /\ (\A j \in Jobs : JobInv(j)) /\ Single /\ Permits /\ InOrder

-----------------------------------------------------------------------------
\* Sequences without repetition: what the queue and the ticket list are made of.

LEMMA BeforeInRange ==
    ASSUME NEW s, NEW x, NEW y, Before(s, x, y)
    PROVE  x \in Range(s) /\ y \in Range(s)
BY DEF Before, Range

LEMMA BeforeTotal ==
    ASSUME NEW S, NEW s \in Seq(S), NEW x \in Range(s), NEW y \in Range(s), x # y
    PROVE  Before(s, x, y) \/ Before(s, y, x)
<1>1. PICK h \in 1..Len(s) : s[h] = x  BY DEF Range
<1>2. PICK i \in 1..Len(s) : s[i] = y  BY DEF Range
<1>3. h < i \/ i < h  BY <1>1, <1>2
<1> QED  BY <1>1, <1>2, <1>3 DEF Before

LEMMA BeforeAsymmetric ==
    ASSUME NEW S, NEW s \in Seq(S), IsInjective(s), NEW x, NEW y, Before(s, x, y)
    PROVE  ~Before(s, y, x)
<1> SUFFICES ASSUME Before(s, y, x) PROVE FALSE  OBVIOUS
<1>1. PICK h, i \in 1..Len(s) : h < i /\ s[h] = x /\ s[i] = y  BY DEF Before
<1>2. PICK m, n \in 1..Len(s) : m < n /\ s[m] = y /\ s[n] = x  BY DEF Before
<1>3. h = n /\ i = m  BY <1>1, <1>2 DEF IsInjective
<1> QED  BY <1>1, <1>2, <1>3

\* Giving a ticket back takes it out and leaves the others in their order.
LEMMA DropOnce ==
    ASSUME NEW S, NEW s \in Seq(S), IsInjective(s), NEW k
    PROVE  /\ Drop(s, k) \in Seq(S) /\ IsInjective(Drop(s, k))
           /\ Range(Drop(s, k)) = Range(s) \ {k}
           /\ \A x, y : Before(Drop(s, k), x, y) => Before(s, x, y)
<1>1. CASE \E i \in DOMAIN s : s[i] = k
  <2> DEFINE i == CHOOSE i \in DOMAIN s : s[i] = k
             r == Drop(s, k)
  <2>1. i \in 1..Len(s) /\ s[i] = k  BY <1>1
  <2>2. r = SubSeq(s, 1, i - 1) \o SubSeq(s, i + 1, Len(s))
    BY <1>1 DEF Drop
  <2> HIDE DEF i, r
  <2>3. /\ SubSeq(s, 1, i - 1) \in Seq(S) /\ Len(SubSeq(s, 1, i - 1)) = i - 1
        /\ \A n \in 1..(i - 1) : SubSeq(s, 1, i - 1)[n] = s[n]
    <3>1. \A n \in 1..(i - 1) : s[n] \in S  BY <2>1
    <3>2. 1 \in Int /\ i - 1 \in Int  BY <2>1
    <3> QED  BY <2>1, <3>1, <3>2, SubSeqProperties
  <2>4. /\ SubSeq(s, i + 1, Len(s)) \in Seq(S)
        /\ Len(SubSeq(s, i + 1, Len(s))) = Len(s) - i
        /\ \A n \in 1..(Len(s) - i) : SubSeq(s, i + 1, Len(s))[n] = s[n + i]
    <3>1. \A n \in (i + 1)..Len(s) : s[n] \in S  BY <2>1
    <3>2. i + 1 \in Int /\ Len(s) \in Int /\ i \in Int /\ i <= Len(s)  BY <2>1
    <3>3. Len(SubSeq(s, i + 1, Len(s))) = Len(s) - i
      BY <3>1, <3>2, SubSeqProperties
    <3> QED  BY <3>1, <3>2, <3>3, SubSeqProperties
  <2>5. /\ r \in Seq(S) /\ Len(r) = Len(s) - 1
        /\ \A n \in 1..(i - 1) : r[n] = s[n]
        /\ \A n \in i..(Len(s) - 1) : r[n] = s[n + 1]
    <3> DEFINE u == SubSeq(s, 1, i - 1)
               v == SubSeq(s, i + 1, Len(s))
    <3>0. /\ u \in Seq(S) /\ Len(u) = i - 1 /\ \A n \in 1..(i - 1) : u[n] = s[n]
          /\ v \in Seq(S) /\ Len(v) = Len(s) - i
          /\ \A n \in 1..(Len(s) - i) : v[n] = s[n + i]
          /\ r = u \o v
      BY <2>2, <2>3, <2>4
    <3> HIDE DEF u, v
    <3>1. /\ r \in Seq(S) /\ Len(r) = Len(u) + Len(v)
          /\ \A n \in 1..(Len(u) + Len(v)) :
                r[n] = IF n <= Len(u) THEN u[n] ELSE v[n - Len(u)]
      BY <3>0, ConcatProperties
    <3>2. Len(r) = Len(s) - 1  BY <2>1, <3>0, <3>1
    <3>3. ASSUME NEW n \in 1..(i - 1) PROVE r[n] = s[n]
      <4>1. n \in 1..(Len(u) + Len(v)) /\ n <= Len(u)  BY <2>1, <3>0
      <4> QED  BY <3>0, <3>1, <4>1
    <3>4. ASSUME NEW n \in i..(Len(s) - 1) PROVE r[n] = s[n + 1]
      <4>1. /\ n \in 1..(Len(u) + Len(v)) /\ ~(n <= Len(u))
            /\ n - Len(u) \in 1..(Len(s) - i) /\ n - Len(u) + i = n + 1
        BY <2>1, <3>0
      <4> QED  BY <3>0, <3>1, <4>1
    <3> QED  BY <3>1, <3>2, <3>3, <3>4
  <2> DEFINE at(n) == IF n < i THEN n ELSE n + 1
  <2>6. /\ \A n \in 1..Len(r) : at(n) \in 1..Len(s) /\ at(n) # i /\ r[n] = s[at(n)]
        /\ \A m, n \in 1..Len(r) : (m < n => at(m) < at(n)) /\ (at(m) = at(n) => m = n)
        /\ \A h \in 1..Len(s) : h # i => \E n \in 1..Len(r) : h = at(n)
    <3>1. ASSUME NEW n \in 1..Len(r)
          PROVE  at(n) \in 1..Len(s) /\ at(n) # i /\ r[n] = s[at(n)]
      BY <2>1, <2>5
    <3>2. ASSUME NEW m \in 1..Len(r), NEW n \in 1..Len(r)
          PROVE  (m < n => at(m) < at(n)) /\ (at(m) = at(n) => m = n)
      BY <2>1, <2>5
    <3>3. ASSUME NEW h \in 1..Len(s), h # i PROVE \E n \in 1..Len(r) : h = at(n)
      <4>1. CASE h < i
        <5>1. h \in 1..Len(r) /\ h = at(h)  BY <2>1, <2>5, <4>1
        <5> HIDE DEF at
        <5> QED  BY <5>1
      <4>2. CASE h > i
        <5>1. h - 1 \in 1..Len(r) /\ h = at(h - 1)  BY <2>1, <2>5, <4>2
        <5> HIDE DEF at
        <5> QED  BY <5>1
      <4> QED  BY <3>3, <2>1, <4>1, <4>2
    <3> QED  BY <3>1, <3>2, <3>3
  <2> HIDE DEF at
  <2>7. IsInjective(r)
    BY <2>5, <2>6 DEF IsInjective
  <2>8. Range(r) = Range(s) \ {k}
    <3>1. ASSUME NEW x \in Range(r) PROVE x \in Range(s) \ {k}
      <4>1. PICK n \in 1..Len(r) : r[n] = x  BY <2>5 DEF Range
      <4>2. at(n) \in DOMAIN s /\ at(n) # i /\ x = s[at(n)]  BY <2>6, <4>1
      <4>3. x # k  BY <2>1, <4>2 DEF IsInjective
      <4> QED  BY <4>2, <4>3 DEF Range
    <3>2. ASSUME NEW x \in Range(s), x # k PROVE x \in Range(r)
      <4>1. PICK h \in 1..Len(s) : s[h] = x  BY DEF Range
      <4>2. h # i  BY <2>1, <3>2, <4>1
      <4>3. PICK n \in 1..Len(r) : h = at(n)  BY <2>6, <4>1, <4>2
      <4>4. r[n] = x /\ n \in DOMAIN r  BY <2>5, <2>6, <4>1, <4>3
      <4> QED  BY <4>4 DEF Range
    <3> QED  BY <3>1, <3>2
  <2>9. ASSUME NEW x, NEW y, Before(r, x, y) PROVE Before(s, x, y)
    <3>1. PICK m, n \in 1..Len(r) : m < n /\ r[m] = x /\ r[n] = y
      BY <2>5, <2>9 DEF Before
    <3>2. /\ at(m) \in DOMAIN s /\ at(n) \in DOMAIN s /\ at(m) < at(n)
          /\ s[at(m)] = x /\ s[at(n)] = y
      BY <2>6, <3>1
    <3> QED  BY <3>2 DEF Before
  <2> QED  BY <2>5, <2>7, <2>8, <2>9 DEF r
<1>2. CASE ~\E i \in DOMAIN s : s[i] = k
  <2>1. Drop(s, k) = s  BY <1>2 DEF Drop
  <2>2. k \notin Range(s)  BY <1>2 DEF Range
  <2> QED  BY <2>1, <2>2
<1> QED  BY <1>1, <1>2

\* A new entry stands behind all the others.
LEMMA AppendOnce ==
    ASSUME NEW S, NEW s \in Seq(S), IsInjective(s), NEW k \in S, k \notin Range(s)
    PROVE  /\ IsInjective(Append(s, k))
           /\ Range(Append(s, k)) = Range(s) \cup {k}
           /\ \A x, y : Before(Append(s, k), x, y) =>
                            Before(s, x, y) \/ (x \in Range(s) /\ y = k)
<1> DEFINE r == Append(s, k)
<1>1. /\ r \in Seq(S) /\ Len(r) = Len(s) + 1
      /\ \A n \in 1..Len(s) : r[n] = s[n]
      /\ r[Len(s) + 1] = k
  BY AppendProperties
<1> HIDE DEF r
<1>0. DOMAIN r = 1..(Len(s) + 1) /\ DOMAIN s = 1..Len(s) /\ Len(s) \in Nat
  BY <1>1
<1>2. \A n \in 1..Len(s) : s[n] # k  BY DEF Range
<1>3. IsInjective(r)
  <2> SUFFICES ASSUME NEW m \in 1..(Len(s) + 1), NEW n \in 1..(Len(s) + 1), r[m] = r[n]
               PROVE  m = n
    BY <1>0 DEF IsInjective
  <2>1. CASE m \in 1..Len(s) /\ n \in 1..Len(s)
    BY <1>0, <1>1, <2>1 DEF IsInjective
  <2>2. CASE m \in 1..Len(s) /\ n = Len(s) + 1
    BY <1>1, <1>2, <2>2
  <2>3. CASE n \in 1..Len(s) /\ m = Len(s) + 1
    BY <1>1, <1>2, <2>3
  <2> QED  BY <1>0, <2>1, <2>2, <2>3
<1>4. Range(r) = Range(s) \cup {k}
  <2>1. ASSUME NEW x \in Range(r) PROVE x \in Range(s) \cup {k}
    <3>1. PICK n \in 1..(Len(s) + 1) : r[n] = x  BY <1>0 DEF Range
    <3> QED  BY <1>0, <1>1, <3>1 DEF Range
  <2>2. ASSUME NEW x \in Range(s) PROVE x \in Range(r)
    <3>1. PICK n \in 1..Len(s) : s[n] = x  BY <1>0 DEF Range
    <3>2. n \in DOMAIN r /\ r[n] = x  BY <1>0, <1>1, <3>1
    <3> QED  BY <3>2 DEF Range
  <2>3. k \in Range(r)
    <3>1. Len(s) + 1 \in DOMAIN r  BY <1>0
    <3> QED  BY <1>1, <3>1 DEF Range
  <2> QED  BY <2>1, <2>2, <2>3
<1>5. ASSUME NEW x, NEW y, Before(r, x, y)
      PROVE  Before(s, x, y) \/ (x \in Range(s) /\ y = k)
  <2>1. PICK m, n \in 1..(Len(s) + 1) : m < n /\ r[m] = x /\ r[n] = y
    BY <1>0, <1>5 DEF Before
  <2>2. m \in DOMAIN s /\ s[m] = x  BY <1>0, <1>1, <2>1
  <2>3. CASE n \in 1..Len(s)
    <3>1. n \in DOMAIN s /\ s[n] = y  BY <1>0, <1>1, <2>1, <2>3
    <3> QED  BY <2>1, <2>2, <3>1 DEF Before
  <2>4. CASE n = Len(s) + 1
    BY <1>1, <2>1, <2>2, <2>4 DEF Range
  <2> QED  BY <1>0, <2>1, <2>3, <2>4
<1> QED  BY <1>3, <1>4, <1>5 DEF r

\* So do the entries of a batch, in their own order.
LEMMA ConcatOnce ==
    ASSUME NEW S, NEW s \in Seq(S), NEW t \in Seq(S), IsInjective(s), IsInjective(t),
           Range(s) \cap Range(t) = {}
    PROVE  /\ IsInjective(s \o t)
           /\ Range(s \o t) = Range(s) \cup Range(t)
           /\ \A x, y : Before(s \o t, x, y) =>
                            \/ Before(s, x, y) \/ Before(t, x, y)
                            \/ x \in Range(s) /\ y \in Range(t)
<1> DEFINE r == s \o t
<1>1. /\ r \in Seq(S) /\ Len(r) = Len(s) + Len(t)
      /\ \A n \in 1..Len(r) : r[n] = IF n <= Len(s) THEN s[n] ELSE t[n - Len(s)]
  BY ConcatProperties
<1> HIDE DEF r
<1>0. /\ DOMAIN r = 1..(Len(s) + Len(t)) /\ DOMAIN s = 1..Len(s) /\ DOMAIN t = 1..Len(t)
      /\ Len(s) \in Nat /\ Len(t) \in Nat
  BY <1>1
<1>2. \A n \in DOMAIN r :
         \/ n \in DOMAIN s /\ r[n] = s[n]
         \/ n - Len(s) \in DOMAIN t /\ r[n] = t[n - Len(s)] /\ n > Len(s)
  BY <1>0, <1>1
<1>3. \A m \in DOMAIN s, n \in DOMAIN t : s[m] # t[n]  BY DEF Range
<1>4. IsInjective(r)
  <2> SUFFICES ASSUME NEW m \in DOMAIN r, NEW n \in DOMAIN r, r[m] = r[n]
               PROVE  m = n
    BY DEF IsInjective
  <2>1. CASE m \in DOMAIN s /\ n \in DOMAIN s
    BY <1>0, <1>1, <2>1 DEF IsInjective
  <2>2. CASE m \notin DOMAIN s /\ n \notin DOMAIN s
    <3>1. m - Len(s) = n - Len(s)  BY <1>2, <2>2 DEF IsInjective
    <3> QED  BY <1>0, <3>1
  <2>3. ~(m \in DOMAIN s /\ n \notin DOMAIN s) /\ ~(n \in DOMAIN s /\ m \notin DOMAIN s)
    BY <1>0, <1>2, <1>3, <1>1
  <2> QED  BY <2>1, <2>2, <2>3
<1>5. Range(r) = Range(s) \cup Range(t)
  <2>1. ASSUME NEW x \in Range(r) PROVE x \in Range(s) \cup Range(t)
    <3>1. PICK n \in DOMAIN r : r[n] = x  BY DEF Range
    <3> QED  BY <1>2, <3>1 DEF Range
  <2>2. ASSUME NEW x \in Range(s) PROVE x \in Range(r)
    <3>1. PICK n \in DOMAIN s : s[n] = x  BY DEF Range
    <3>2. n \in DOMAIN r /\ r[n] = x  BY <1>0, <1>1, <3>1
    <3> QED  BY <3>2 DEF Range
  <2>3. ASSUME NEW x \in Range(t) PROVE x \in Range(r)
    <3>1. PICK n \in DOMAIN t : t[n] = x  BY DEF Range
    <3>2. n + Len(s) \in DOMAIN r /\ n + Len(s) > Len(s) /\ n + Len(s) - Len(s) = n
      BY <1>0, <3>1
    <3>3. r[n + Len(s)] = x  BY <1>0, <1>1, <3>1, <3>2
    <3> QED  BY <3>2, <3>3 DEF Range
  <2> QED  BY <2>1, <2>2, <2>3
<1>6. ASSUME NEW x, NEW y, Before(r, x, y)
      PROVE  \/ Before(s, x, y) \/ Before(t, x, y)
             \/ x \in Range(s) /\ y \in Range(t)
  <2>1. PICK m, n \in DOMAIN r : m < n /\ r[m] = x /\ r[n] = y
    BY <1>6 DEF Before
  <2>2. CASE m \in DOMAIN s /\ n \in DOMAIN s
    <3>1. s[m] = x /\ s[n] = y  BY <1>0, <1>1, <2>1, <2>2
    <3> QED  BY <2>1, <2>2, <3>1 DEF Before
  <2>3. CASE m \notin DOMAIN s /\ n \notin DOMAIN s
    <3>1. /\ m - Len(s) \in DOMAIN t /\ t[m - Len(s)] = x
          /\ n - Len(s) \in DOMAIN t /\ t[n - Len(s)] = y
          /\ m - Len(s) < n - Len(s)
      BY <1>0, <1>2, <2>1, <2>3
    <3> QED  BY <3>1 DEF Before
  <2>4. CASE m \in DOMAIN s /\ n \notin DOMAIN s
    <3>1. s[m] = x  BY <1>0, <1>1, <2>1, <2>4
    <3>2. n - Len(s) \in DOMAIN t /\ t[n - Len(s)] = y  BY <1>2, <2>1, <2>4
    <3> QED  BY <2>4, <3>1, <3>2 DEF Range
  <2>5. ~(m \notin DOMAIN s /\ n \in DOMAIN s)  BY <1>0, <2>1
  <2> QED  BY <2>2, <2>3, <2>4, <2>5
<1> QED  BY <1>4, <1>5, <1>6 DEF r

\* The head leaves the queue, and stood before all the others.
LEMMA TailOnce ==
    ASSUME NEW S, NEW s \in Seq(S), IsInjective(s), s # <<>>
    PROVE  /\ Head(s) \in Range(s) /\ IsInjective(Tail(s))
           /\ Range(Tail(s)) = Range(s) \ {Head(s)}
           /\ \A x, y : Before(Tail(s), x, y) => Before(s, x, y)
           /\ \A y \in Range(Tail(s)) : Before(s, Head(s), y)
<1> DEFINE r == Tail(s)
<1>1. /\ r \in Seq(S) /\ Len(r) = Len(s) - 1
      /\ \A n \in 1..Len(r) : r[n] = s[n + 1]
      /\ Head(s) = s[1]
  BY HeadTailProperties
<1> HIDE DEF r
<1>0. /\ DOMAIN r = 1..(Len(s) - 1) /\ DOMAIN s = 1..Len(s)
      /\ Len(s) \in Nat /\ Len(s) >= 1
  BY <1>1, EmptySeq
<1>2. \A n \in DOMAIN r : n + 1 \in DOMAIN s /\ n + 1 # 1 /\ r[n] = s[n + 1]
  BY <1>0, <1>1
<1>3. Head(s) \in Range(s)  BY <1>0, <1>1 DEF Range
<1>4. IsInjective(r)
  <2> SUFFICES ASSUME NEW m \in DOMAIN r, NEW n \in DOMAIN r, r[m] = r[n]
               PROVE  m = n
    BY DEF IsInjective
  <2>1. m + 1 = n + 1  BY <1>2 DEF IsInjective
  <2> QED  BY <1>0, <2>1
<1>5. Range(r) = Range(s) \ {Head(s)}
  <2>1. ASSUME NEW x \in Range(r) PROVE x \in Range(s) \ {Head(s)}
    <3>1. PICK n \in DOMAIN r : r[n] = x  BY DEF Range
    <3>2. 1 \in DOMAIN s  BY <1>0
    <3>3. s[n + 1] # s[1]  BY <1>2, <3>1, <3>2 DEF IsInjective
    <3> QED  BY <1>1, <1>2, <3>1, <3>3 DEF Range
  <2>2. ASSUME NEW x \in Range(s), x # Head(s) PROVE x \in Range(r)
    <3>1. PICK n \in DOMAIN s : s[n] = x  BY DEF Range
    <3>2. n - 1 \in DOMAIN r /\ n - 1 + 1 = n  BY <1>0, <1>1, <2>2, <3>1
    <3>3. r[n - 1] = x  BY <1>2, <3>1, <3>2
    <3> QED  BY <3>2, <3>3 DEF Range
  <2> QED  BY <2>1, <2>2
<1>6. ASSUME NEW x, NEW y, Before(r, x, y) PROVE Before(s, x, y)
  <2>1. PICK m, n \in DOMAIN r : m < n /\ r[m] = x /\ r[n] = y
    BY <1>6 DEF Before
  <2>2. /\ m + 1 \in DOMAIN s /\ n + 1 \in DOMAIN s /\ m + 1 < n + 1
        /\ s[m + 1] = x /\ s[n + 1] = y
    BY <1>0, <1>2, <2>1
  <2> QED  BY <2>2 DEF Before
<1>7. ASSUME NEW y \in Range(r) PROVE Before(s, Head(s), y)
  <2>1. PICK n \in DOMAIN r : r[n] = y  BY DEF Range
  <2>2. 1 \in DOMAIN s /\ n + 1 \in DOMAIN s /\ 1 < n + 1 /\ s[n + 1] = y
    BY <1>0, <1>2, <2>1
  <2> QED  BY <1>1, <2>2 DEF Before
<1> QED  BY <1>3, <1>4, <1>5, <1>6, <1>7 DEF r

-----------------------------------------------------------------------------
\* Each job keeps its invariant.  A step of one job leaves the others as they are.

Same(k) ==
    /\ status'[k] = status[k] /\ pc'[k] = pc[k]
    /\ event'[k] = event[k] /\ told'[k] = told[k]
    /\ k \in jobs' <=> k \in jobs
    /\ k \in cancelled' <=> k \in cancelled
    /\ k \in requeue' <=> k \in requeue
    /\ k \in slots' <=> k \in slots
    /\ k \in dirLock' <=> k \in dirLock
    /\ k \in ackd' <=> k \in ackd
    /\ disp' = k <=> disp = k
    /\ k \in Queued' <=> k \in Queued
    /\ k \in Ticketed' <=> k \in Ticketed
    /\ \A o \in Outs : outLock'[o] = k <=> outLock[o] = k

LEMMA SameKeeps ==
    ASSUME NEW k \in Jobs, JobInv(k), Same(k)
    PROVE  JobInv(k)'
<1>1. (Held(k)' <=> Held(k)) /\ (Locked(k)' <=> Locked(k))
  BY DEF Same, Held, Locked
<1>2. Placed(k)'
  BY <1>1 DEF Same, JobInv, Placed
<1>3. Signalled(k)'
  BY DEF Same, JobInv, Signalled
<1>4. Supplied(k)'
  BY DEF Same, JobInv, Supplied
<1>5. Leaving(k)'
  BY DEF Same, JobInv, Leaving
<1> QED  BY <1>2, <1>3, <1>4, <1>5 DEF JobInv

\* The ticket of j is given back: it is the only one to go.
LEMMA ReleaseOnce ==
    ASSUME TypeOK, Single, NEW k, ReleasePool(k)
    PROVE  /\ IsInjective(tickets') /\ Ticketed' = Ticketed \ {k}
           /\ slots' = slots \ {k}
           /\ \A x, y : Before(tickets', x, y) => Before(tickets, x, y)
<1>1. tickets \in Seq(Keys) /\ IsInjective(tickets)  BY DEF TypeOK, Keys, Single
<1>2. tickets' = Drop(tickets, k) /\ slots' = slots \ {k}  BY DEF ReleasePool
<1> HIDE DEF Keys
<1> QED  BY <1>1, <1>2, DropOnce DEF Ticketed

\* What a submission puts into the queue and the ticket list.
LEMMA SubmitOnce ==
    ASSUME AInv, NEW s \in Submissions, Submit(s)
    PROVE  /\ IsInjective(s) /\ Range(s) \subseteq Jobs
           /\ \A k \in Range(s) : status[k] = "none"
           /\ jobs' = jobs \cup Range(s)
           /\ \A k \in Jobs : status'[k] = IF k \in Range(s) THEN "queued" ELSE status[k]
           /\ IsInjective(queue') /\ Queued' = Queued \cup Range(s)
           /\ IsInjective(tickets') /\ Ticketed' = Ticketed \cup Range(s)
           /\ \A x, y : Before(tickets', x, y) =>
                 Before(tickets, x, y) \/ Before(s, x, y) \/ (x \in Ticketed /\ y \in Range(s))
           /\ \A x, y : Before(queue', x, y) =>
                 Before(queue, x, y) \/ Before(s, x, y) \/ (x \in Queued /\ y \in Range(s))
<1>1. s \in Seq(Jobs) /\ s \in Seq(Keys)  BY SubmissionType
<1>2. IsInjective(s)
  <2>1. CASE s \in {<<j>> : j \in Jobs}
    BY <2>1 DEF IsInjective
  <2>2. CASE s \in {t \in Jobs \X Jobs : t[1] # t[2]}
    <3>1. PICK j \in Jobs, k \in Jobs : s = <<j, k>> /\ j # k  BY <2>2
    <3> QED  BY <3>1 DEF IsInjective
  <2> QED  BY <2>1, <2>2 DEF Submissions
<1>3. Range(s) \subseteq Jobs  BY <1>1 DEF Range
<1>4. {s[i] : i \in DOMAIN s} = Range(s)  BY DEF Range
<1>5. /\ \A k \in Range(s) : status[k] = "none"
      /\ jobs' = jobs \cup Range(s)
      /\ status' = [k \in Jobs |-> IF k \in Range(s) THEN "queued" ELSE status[k]]
      /\ tickets' = tickets \o s /\ queue' = queue \o s
  BY <1>4 DEF Submit
<1>6. Range(s) \cap Queued = {} /\ Range(s) \cap Ticketed = {}
  BY <1>3, <1>5 DEF AInv, JobInv, Placed
<1>7. /\ queue \in Seq(Jobs) /\ tickets \in Seq(Keys)
      /\ IsInjective(queue) /\ IsInjective(tickets)
  BY DEF AInv, IInv, TypeOK, Keys, Single
<1>8. /\ IsInjective(queue') /\ Queued' = Queued \cup Range(s)
      /\ \A x, y : Before(queue', x, y) =>
            Before(queue, x, y) \/ Before(s, x, y) \/ (x \in Queued /\ y \in Range(s))
  BY <1>1, <1>2, <1>5, <1>6, <1>7, ConcatOnce DEF Queued
<1>9. /\ IsInjective(tickets') /\ Ticketed' = Ticketed \cup Range(s)
      /\ \A x, y : Before(tickets', x, y) =>
            Before(tickets, x, y) \/ Before(s, x, y) \/ (x \in Ticketed /\ y \in Range(s))
  <2>1. Range(tickets) \cap Range(s) = {}  BY <1>6 DEF Ticketed
  <2> HIDE DEF Keys
  <2> QED  BY <1>1, <1>2, <1>5, <2>1, <1>7, ConcatOnce DEF Ticketed
<1> QED  BY <1>2, <1>3, <1>5, <1>8, <1>9

\* What a re-queue task that still finds its job wanted puts back.
LEMMA RequeueOnce ==
    ASSUME AInv, NEW j \in Jobs, Requeue(j), StillWanted(j)
    PROVE  /\ status[j] = "queued" /\ status' = status
           /\ j \notin Queued /\ j \notin Ticketed
           /\ IsInjective(queue') /\ Queued' = Queued \cup {j}
           /\ IsInjective(tickets') /\ Ticketed' = Ticketed \cup {j}
           /\ \A x, y : Before(tickets', x, y) =>
                 Before(tickets, x, y) \/ (x \in Ticketed /\ y = j)
           /\ \A x, y : Before(queue', x, y) =>
                 Before(queue, x, y) \/ (x \in Queued /\ y = j)
<1>1. /\ j \in requeue /\ status' = [status EXCEPT ![j] = "queued"]
      /\ tickets' = Reserve(tickets, j) /\ queue' = Append(queue, j)
  BY DEF Requeue
<1>2. status[j] = "queued" /\ j \notin Queued /\ j \notin Ticketed
  BY <1>1 DEF AInv, JobInv, Placed, Supplied, StillWanted, Terminal
<1>3. status' = status  BY <1>1, <1>2 DEF AInv, IInv, TypeOK
<1>4. tickets' = Append(tickets, j)
  BY <1>1, <1>2 DEF Reserve, Ticketed, Range
<1>5. /\ queue \in Seq(Jobs) /\ tickets \in Seq(Keys) /\ j \in Keys
      /\ IsInjective(queue) /\ IsInjective(tickets)
  BY DEF AInv, IInv, TypeOK, Keys, Single
<1>6. /\ IsInjective(queue') /\ Queued' = Queued \cup {j}
      /\ \A x, y : Before(queue', x, y) => Before(queue, x, y) \/ (x \in Queued /\ y = j)
  BY <1>1, <1>2, <1>5, AppendOnce DEF Queued
<1>7. /\ IsInjective(tickets') /\ Ticketed' = Ticketed \cup {j}
      /\ \A x, y : Before(tickets', x, y) => Before(tickets, x, y) \/ (x \in Ticketed /\ y = j)
  <2> HIDE DEF Keys
  <2> QED  BY <1>2, <1>4, <1>5, AppendOnce DEF Ticketed
<1> QED  BY <1>2, <1>3, <1>6, <1>7

\* The dispatcher takes the head of the queue.
LEMMA PopOnce ==
    ASSUME AInv, queue # <<>>, queue' = Tail(queue)
    PROVE  /\ Head(queue) \in Jobs /\ Head(queue) \in Queued
           /\ IsInjective(queue') /\ Queued' = Queued \ {Head(queue)}
           /\ \A x, y : Before(queue', x, y) => Before(queue, x, y)
           /\ \A y \in Queued : y # Head(queue) => Before(queue, Head(queue), y)
<1>1. queue \in Seq(Jobs) /\ IsInjective(queue)  BY DEF AInv, IInv, TypeOK, Single
<1>2. Head(queue) \in Jobs  BY <1>1, HeadTailProperties
<1> QED  BY <1>1, <1>2, TailOnce DEF Queued

\* A job whose coroutine takes its first step and goes on has its ticket already.
LEMMA EnterOnce ==
    ASSUME AInv, NEW j \in Jobs, Enter(j),
           status[j] \in {"queued", "cancelled"}, j \notin requeue
    PROVE  /\ tickets' = tickets
           /\ pc'[j] \in {"ending", "probe", "waiting"}
           /\ \A k \in Jobs \ {j} : pc'[k] = pc[k] /\ event'[k] = event[k]
           /\ \/ /\ pc'[j] = "ending" /\ status[j] = "cancelled"
                 /\ event' = event /\ slots' = slots
                 /\ cancelled' = cancelled \/ cancelled' = cancelled \ {j}
              \/ /\ pc'[j] # "ending" /\ status[j] = "queued"
                 /\ event'[j] = "clear" /\ cancelled' = cancelled
                 /\ pc'[j] = "probe" => slots' = slots \cup {j}
                                        /\ Cardinality(slots) < MaxConcurrent
                 /\ pc'[j] = "waiting" => slots' = slots
<1>1. JobInv(j) /\ TypeOK  BY DEF AInv, IInv
<1>2. CASE j \notin jobs \/ IsCancelled(j)
  <2>1. /\ pc' = [pc EXCEPT ![j] = "ending"]
        /\ cancelled' = cancelled \/ cancelled' = cancelled \ {j}
        /\ event' = event /\ slots' = slots /\ tickets' = tickets
    BY <1>2 DEF Enter, poolVars
  <2>2. status[j] = "cancelled"
    BY <1>1, <1>2 DEF JobInv, Placed, IsCancelled
  <2> QED  BY <1>1, <2>1, <2>2 DEF TypeOK
<1>3. CASE j \in jobs /\ ~IsCancelled(j)
  <2>1. /\ event' = [event EXCEPT ![j] = "clear"]
        /\ tickets' = Reserve(tickets, j)
        /\ IF Admitted(tickets', j)
           THEN slots' = slots \cup {j} /\ pc' = [pc EXCEPT ![j] = "probe"]
           ELSE slots' = slots /\ pc' = [pc EXCEPT ![j] = "waiting"]
        /\ cancelled' = cancelled
    BY <1>3 DEF Enter
  <2>2. status[j] = "queued"  BY <1>3 DEF IsCancelled
  <2>3. j \in Ticketed  BY <1>1, <2>2 DEF JobInv, Supplied
  <2>4. tickets' = tickets  BY <2>1, <2>3 DEF Reserve, Ticketed, Range
  <2> QED  BY <1>1, <2>1, <2>2, <2>4 DEF TypeOK, Admitted
<1> QED  BY <1>2, <1>3

\* The requests, the timers and the other process.
LEMMA RequestsKeepJobs ==
    ASSUME AInv, NEW k \in Jobs
    PROVE  /\ \A s \in Submissions : Submit(s) => JobInv(k)'
           /\ \A j \in Jobs : OnRequest(j) => JobInv(k)'
           /\ \A f \in Foreign : OnForeign(f) => JobInv(k)'
<1> USE DEF listVars, poolVars, lockVars, noteVars
<1>0. TypeOK /\ Single /\ \A j \in Jobs : JobInv(j)  BY DEF AInv, IInv
<1>1. ASSUME NEW s \in Submissions, Submit(s) PROVE JobInv(k)'
  <2>1. /\ UNCHANGED <<cancelled, event, disp, pc, requeue, slots, outLock, dirLock, told, ackd>>
        /\ \A x \in Range(s) : status[x] = "none"
        /\ jobs' = jobs \cup Range(s)
        /\ status'[k] = IF k \in Range(s) THEN "queued" ELSE status[k]
        /\ Queued' = Queued \cup Range(s) /\ Ticketed' = Ticketed \cup Range(s)
    BY <1>1, SubmitOnce DEF Submit
  <2>2. CASE k \in Range(s)
    <3>1. /\ status[k] = "none" /\ status'[k] = "queued"
          /\ k \in Queued' /\ k \in Ticketed' /\ k \in jobs'
      BY <2>1, <2>2
    <3>2. ~Locked(k) /\ pc[k] = "none" /\ disp # k /\ k \notin requeue /\ k \notin cancelled
          /\ event[k] = "none" /\ k \notin ackd /\ k \notin dirLock
      BY <1>0, <3>1 DEF JobInv, Placed, Signalled, Supplied, Leaving, Main, Admitting, Packing, TypeOK
    <3>3. Placed(k)'
      BY <2>1, <3>1, <3>2 DEF Placed, Held, Main
    <3>4. Signalled(k)' /\ Leaving(k)'
      BY <2>1, <3>1, <3>2 DEF Signalled, Leaving, Main, Admitting, Terminal
    <3>5. Supplied(k)'
      BY <2>1, <3>1, <3>2 DEF Supplied, Locked, Main, Admitting, Terminal
    <3> QED  BY <3>3, <3>4, <3>5 DEF JobInv
  <2>3. CASE k \notin Range(s)
    BY <1>0, <2>1, <2>3, SameKeeps DEF Same
  <2> QED  BY <2>2, <2>3
<1>2. ASSUME NEW j \in Jobs, OnRequest(j) PROVE JobInv(k)'
  <2>0. JobInv(j) /\ JobInv(k)  BY <1>0
  <2>1. CASE CancelQueued(j)
    <3>1. /\ Ticketed' = Ticketed \ {j} /\ slots' = slots \ {j}
          /\ UNCHANGED <<jobs, queue, disp, pc, requeue, outLock, dirLock>>
          /\ cancelled' = cancelled \cup {j} /\ ackd' = ackd \cup {j}
          /\ status' = [status EXCEPT ![j] = "cancelled"]
          /\ told' = [told EXCEPT ![j] = "cancelled"]
          /\ event' = IF event[j] = "none" THEN event ELSE [event EXCEPT ![j] = "set"]
          /\ status[j] = "queued"
      BY <1>0, <2>1, ReleaseOnce DEF CancelQueued
    <3>2. Queued' = Queued  BY <3>1 DEF Queued
    <3>3. CASE k # j
      <4>1. Same(k)  BY <1>0, <3>1, <3>2, <3>3 DEF Same, TypeOK
      <4> QED  BY <2>0, <4>1, SameKeeps
    <3>4. CASE k = j
      <4>1. /\ status'[j] = "cancelled" /\ told'[j] = "cancelled"
            /\ event[j] = "none" => event'[j] = "none"
            /\ event[j] # "none" => event'[j] = "set"
        BY <1>0, <3>1 DEF TypeOK
      <4>2. Held(j)' <=> Held(j)  BY <3>1 DEF Held
      <4>3. Placed(j)'
        BY <2>0, <3>1, <3>2, <4>1, <4>2 DEF JobInv, Placed, Terminal, Main
      <4>4. Signalled(j)' /\ Leaving(j)'
        BY <2>0, <3>1, <3>2, <4>1 DEF JobInv, Placed, Signalled, Leaving, Terminal
      <4>5. Supplied(j)'
        BY <2>0, <3>1, <3>2, <4>1 DEF JobInv, Supplied
      <4> QED  BY <3>4, <4>3, <4>4, <4>5 DEF JobInv
    <3> QED  BY <3>3, <3>4
  <2>2. CASE CancelProcessing(j)
    <3>1. /\ UNCHANGED <<jobs, status, queue, disp, pc, requeue, tickets, slots,
                         outLock, dirLock, told, ackd>>
          /\ cancelled' = cancelled \cup {j}
          /\ event' = IF event[j] = "none" THEN event ELSE [event EXCEPT ![j] = "set"]
          /\ status[j] = "processing"
      BY <2>2 DEF CancelProcessing
    <3>2. Queued' = Queued /\ Ticketed' = Ticketed  BY <3>1 DEF Queued, Ticketed
    <3>3. CASE k # j
      <4>1. Same(k)  BY <1>0, <3>1, <3>2, <3>3 DEF Same, TypeOK
      <4> QED  BY <2>0, <4>1, SameKeeps
    <3>4. CASE k = j
      <4>1. /\ event[j] = "none" => event'[j] = "none"
            /\ event[j] # "none" => event'[j] = "set"
        BY <1>0, <3>1 DEF TypeOK
      <4>2. Held(j)' <=> Held(j)  BY <3>1 DEF Held
      <4>3. Placed(j)'
        BY <2>0, <3>1, <3>2, <4>2 DEF JobInv, Placed
      <4>4. Signalled(j)' /\ Leaving(j)'
        BY <2>0, <3>1, <4>1 DEF JobInv, Signalled, Leaving
      <4>5. Supplied(j)'
        BY <2>0, <3>1, <3>2, <4>1 DEF JobInv, Supplied, Terminal
      <4> QED  BY <3>4, <4>3, <4>4, <4>5 DEF JobInv
    <3> QED  BY <3>3, <3>4
  <2>3. CASE Delete(j)
    <3>1. /\ UNCHANGED <<status, event, queue, disp, pc, requeue, outLock, dirLock, told, ackd>>
          /\ cancelled' = cancelled \ {j} /\ jobs' = jobs \ {j}
          /\ status[j] \in Terminal
          /\ \/ event[j] = "none" /\ Ticketed' = Ticketed \ {j} /\ slots' = slots \ {j}
             \/ Ticketed' = Ticketed /\ slots' = slots
      BY <1>0, <2>3, ReleaseOnce DEF Delete, Ticketed
    <3>2. Queued' = Queued /\ (Held(j)' <=> Held(j))  BY <3>1 DEF Queued, Held
    <3>3. CASE k # j
      <4>1. Same(k)  BY <3>1, <3>2, <3>3 DEF Same
      <4> QED  BY <2>0, <4>1, SameKeeps
    <3>4. CASE k = j
      <4>1. Placed(j)'
        BY <2>0, <3>1, <3>2 DEF JobInv, Placed, Terminal
      <4>2. Signalled(j)' /\ Leaving(j)'
        BY <2>0, <3>1 DEF JobInv, Signalled, Leaving
      <4>3. Supplied(j)'
        BY <2>0, <3>1 DEF JobInv, Supplied, Signalled, Terminal
      <4> QED  BY <3>4, <4>1, <4>2, <4>3 DEF JobInv
    <3> QED  BY <3>3, <3>4
  <2>4. CASE Requeue(j)
    <3>1. /\ UNCHANGED <<jobs, cancelled, event, disp, pc, slots, outLock, dirLock, told, ackd>>
          /\ j \in requeue /\ requeue' = requeue \ {j}
      BY <2>4 DEF Requeue
    <3>2. \/ /\ status[j] = "queued" /\ status' = status
             /\ Queued' = Queued \cup {j} /\ Ticketed' = Ticketed \cup {j}
          \/ /\ status[j] # "queued" /\ status' = status
             /\ Queued' = Queued /\ Ticketed' = Ticketed
      <4>1. CASE StillWanted(j)
        BY <2>4, <4>1, RequeueOnce
      <4>2. CASE ~StillWanted(j)
        <5>1. status' = status /\ Queued' = Queued /\ Ticketed' = Ticketed
          BY <2>4, <4>2 DEF Requeue, Queued, Ticketed
        <5>2. status[j] # "queued"
          BY <2>0, <4>2 DEF JobInv, Placed, StillWanted, Terminal
        <5> QED  BY <5>1, <5>2
      <4> QED  BY <4>1, <4>2
    <3>3. CASE k # j
      <4>1. Same(k)  BY <3>1, <3>2, <3>3 DEF Same
      <4> QED  BY <2>0, <4>1, SameKeeps
    <3>4. CASE k = j
      <4>0. Held(j)' <=> Held(j)  BY <3>1 DEF Held
      <4>1. Placed(j)'
        BY <2>0, <3>1, <3>2, <4>0 DEF JobInv, Placed
      <4>2. Signalled(j)' /\ Leaving(j)'
        BY <2>0, <3>1, <3>2 DEF JobInv, Signalled, Leaving
      <4>3. Supplied(j)'
        BY <2>0, <3>1, <3>2 DEF JobInv, Placed, Supplied, Terminal
      <4> QED  BY <3>4, <4>1, <4>2, <4>3 DEF JobInv
    <3> QED  BY <3>3, <3>4
  <2> QED  BY <1>2, <2>1, <2>2, <2>3, <2>4 DEF OnRequest
<1>3. ASSUME NEW f \in Foreign, OnForeign(f) PROVE JobInv(k)'
  <2>1. f # k  BY JobsAssumption
  <2>2. /\ UNCHANGED <<jobs, cancelled, queue, requeue, status, event, disp, pc,
                       outLock, dirLock, told, ackd>>
        /\ k \in slots' <=> k \in slots
    BY <1>3, <2>1 DEF OnForeign, ForeignTicket, ForeignSlot, ForeignRelease, ReleasePool
  <2>3. k \in Ticketed' <=> k \in Ticketed
    <3>1. CASE ForeignTicket(f)
      <4>1. tickets \in Seq(Keys) /\ IsInjective(tickets) /\ f \in Keys
        BY <1>0 DEF TypeOK, Keys, Single
      <4>2. tickets' = Append(tickets, f) /\ f \notin Range(tickets)
        BY <3>1 DEF ForeignTicket, Range
      <4> HIDE DEF Keys
      <4> QED  BY <2>1, <4>1, <4>2, AppendOnce DEF Ticketed
    <3>2. CASE ForeignSlot(f)
      BY <3>2 DEF ForeignSlot, Ticketed
    <3>3. CASE ForeignRelease(f)
      BY <1>0, <2>1, <3>3, ReleaseOnce DEF ForeignRelease
    <3> QED  BY <1>3, <3>1, <3>2, <3>3 DEF OnForeign
  <2>4. Same(k)  BY <2>2, <2>3 DEF Same, Queued
  <2> QED  BY <1>0, <2>4, SameKeeps
<1> QED  BY <1>1, <1>2, <1>3

\* The first step of a coroutine, taken inline by the dispatcher or by its task.
LEMMA EnterKeepsJob ==
    ASSUME AInv, NEW j \in Jobs, Enter(j),
           pc[j] \in {"none", "spawned"}, j \notin requeue,
           status[j] \in {"queued", "cancelled"},
           UNCHANGED <<jobs, status, requeue, lockVars, noteVars>>, j \notin Queued'
    PROVE  JobInv(j)'
<1>0. JobInv(j) /\ TypeOK  BY DEF AInv, IInv
<1>1. UNCHANGED <<jobs, status, requeue, outLock, dirLock, told, ackd>>
  BY DEF lockVars, noteVars
<1>2. Ticketed' = Ticketed  BY EnterOnce DEF Ticketed
<1>3. event[j] = "none"
  BY <1>0 DEF JobInv, Signalled, Admitting, Main
<1>4. CASE pc'[j] = "ending"
  <2>1. /\ status[j] = "cancelled" /\ event' = event /\ slots' = slots
        /\ cancelled' = cancelled \/ cancelled' = cancelled \ {j}
    BY <1>4, EnterOnce
  <2>2. ~Held(j)'  BY <1>4 DEF Held
  <2>3. Placed(j)'
    BY <1>0, <1>1, <1>4, <2>1, <2>2 DEF JobInv, Placed, Main, Terminal
  <2>4. Signalled(j)' /\ Leaving(j)'
    BY <1>0, <1>1, <1>3, <1>4, <2>1 DEF JobInv, Signalled, Leaving, Main, Admitting
  <2>5. Supplied(j)'
    BY <1>0, <1>1, <1>2, <1>3, <1>4, <2>1
       DEF JobInv, Supplied, Main, Admitting, Owning, Packing
  <2> QED  BY <2>3, <2>4, <2>5 DEF JobInv
<1>5. CASE pc'[j] # "ending"
  <2>1. /\ pc'[j] \in {"probe", "waiting"} /\ status[j] = "queued"
        /\ event'[j] = "clear" /\ cancelled' = cancelled
        /\ pc'[j] = "probe" => slots' = slots \cup {j}
        /\ pc'[j] = "waiting" => slots' = slots
    BY <1>5, EnterOnce
  <2>2. ~Held(j)'  BY <2>1 DEF Held
  <2>3. Placed(j)'
    BY <1>0, <1>1, <2>1, <2>2 DEF JobInv, Placed, Main
  <2>4. Signalled(j)' /\ Leaving(j)'
    BY <1>0, <1>1, <2>1 DEF JobInv, Signalled, Leaving, Main, Admitting, Terminal
  <2>5. Supplied(j)'
    BY <1>0, <1>1, <1>2, <2>1 DEF JobInv, Supplied, Main, Owning, Packing, Terminal
  <2> QED  BY <2>3, <2>4, <2>5 DEF JobInv
<1> QED  BY <1>4, <1>5

\* The dispatcher.
LEMMA LaunchKeepsJobs ==
    ASSUME AInv, NEW j \in Jobs, Launch(j),
           pc[j] = "none", disp \in {j, NoJob}, j \notin requeue,
           status[j] \in {"queued", "cancelled"},
           Queued' = Queued \ {j},
           UNCHANGED <<jobs, status, requeue, lockVars, noteVars>>,
           NEW k \in Jobs
    PROVE  JobInv(k)'
<1>0. JobInv(j) /\ JobInv(k) /\ TypeOK  BY DEF AInv, IInv
<1>1. j # NoJob  BY JobsAssumption
<1>2. CASE MaxConcurrent = 1
  <2>1. disp' = j /\ Enter(j)  BY <1>2 DEF Launch
  <2>2. CASE k = j
    BY <2>1, <2>2, EnterKeepsJob
  <2>3. CASE k # j
    <3>1. /\ Ticketed' = Ticketed /\ pc'[k] = pc[k] /\ event'[k] = event[k]
          /\ k \in slots' <=> k \in slots
          /\ k \in cancelled' <=> k \in cancelled
      BY <2>1, <2>3, EnterOnce DEF Ticketed
    <3>2. disp' = k <=> disp = k  BY <1>1, <2>1, <2>3, JobsAssumption
    <3>3. Same(k)  BY <2>3, <3>1, <3>2 DEF Same, lockVars, noteVars
    <3> QED  BY <1>0, <3>3, SameKeeps
  <2> QED  BY <2>2, <2>3
<1>3. CASE MaxConcurrent # 1
  <2>1. /\ disp' = NoJob /\ pc' = [pc EXCEPT ![j] = "spawned"]
        /\ cancelled' = cancelled /\ event' = event /\ slots' = slots
        /\ tickets' = tickets
        /\ UNCHANGED <<jobs, status, requeue, outLock, dirLock, told, ackd>>
    BY <1>3 DEF Launch, poolVars, lockVars, noteVars
  <2>2. Ticketed' = Ticketed  BY <2>1 DEF Ticketed
  <2>3. CASE k = j
    <3>1. pc'[j] = "spawned" /\ disp' # j  BY <1>0, <1>1, <2>1 DEF TypeOK
    <3>2. ~Held(j)'  BY <3>1 DEF Held
    <3>3. Placed(j)'
      BY <1>0, <2>1, <3>1, <3>2 DEF JobInv, Placed, Main
    <3>4. Signalled(j)' /\ Leaving(j)'
      BY <1>0, <2>1, <3>1 DEF JobInv, Signalled, Leaving, Main, Admitting
    <3>5. Supplied(j)'
      BY <1>0, <2>1, <2>2, <3>1 DEF JobInv, Supplied, Main, Admitting, Owning, Packing
    <3> QED  BY <2>3, <3>3, <3>4, <3>5 DEF JobInv
  <2>4. CASE k # j
    <3>1. pc'[k] = pc[k]  BY <2>1, <2>4 DEF TypeOK
    <3>2. disp' = k <=> disp = k  BY <2>1, <2>4, JobsAssumption
    <3>3. Same(k)  BY <2>1, <2>2, <2>4, <3>1, <3>2 DEF Same
    <3> QED  BY <1>0, <3>3, SameKeeps
  <2> QED  BY <2>3, <2>4
<1> QED  BY <1>2, <1>3

LEMMA DispatcherKeepsJobs ==
    ASSUME AInv, Dispatcher, NEW k \in Jobs
    PROVE  JobInv(k)'
<1>0. TypeOK /\ \A j \in Jobs : JobInv(j)  BY DEF AInv, IInv
<1>1. CASE Skip
  <2>0. PICK j : j = Head(queue)  OBVIOUS
  <2>1. /\ UNCHANGED <<jobs, status, event, disp, pc, requeue, tickets, slots,
                       outLock, dirLock, told, ackd>>
        /\ queue # <<>> /\ queue' = Tail(queue)
        /\ \/ j \notin jobs /\ cancelled' = cancelled
           \/ IsCancelled(j) /\ cancelled' = cancelled \ {j}
    BY <1>1, <2>0 DEF Skip, poolVars, lockVars, noteVars
  <2>2. j \in Jobs /\ j \in Queued /\ Queued' = Queued \ {j}
    BY <2>0, <2>1, PopOnce
  <2>3. Ticketed' = Ticketed  BY <2>1 DEF Ticketed
  <2>4. CASE k = j
    <3>1. status[j] = "cancelled"
      BY <1>0, <2>1, <2>2 DEF JobInv, Placed, IsCancelled
    <3>2. Held(j)' <=> Held(j)  BY <2>1 DEF Held
    <3>3. Placed(j)'
      BY <1>0, <2>1, <2>2, <3>1, <3>2 DEF JobInv, Placed
    <3>4. Signalled(j)' /\ Leaving(j)' /\ Supplied(j)'
      BY <1>0, <2>1, <2>2, <2>3 DEF JobInv, Signalled, Leaving, Supplied
    <3> QED  BY <2>4, <3>3, <3>4 DEF JobInv
  <2>5. CASE k # j
    <3>1. Same(k)  BY <2>1, <2>2, <2>3, <2>5 DEF Same
    <3> QED  BY <1>0, <3>1, SameKeeps
  <2> QED  BY <2>4, <2>5
<1>2. CASE Dispatch
  <2>0. PICK j : j = Head(queue)  OBVIOUS
  <2>1. /\ UNCHANGED <<jobs, status, requeue, lockVars, noteVars>>
        /\ queue # <<>> /\ queue' = Tail(queue) /\ disp = NoJob
        /\ \/ Launch(j)
           \/ /\ disp' = j
              /\ UNCHANGED <<cancelled, event, pc, tickets, slots>>
    BY <1>2, <2>0 DEF Dispatch, poolVars
  <2>2. j \in Jobs /\ j \in Queued /\ Queued' = Queued \ {j}
    BY <2>0, <2>1, PopOnce
  <2>4. pc[j] = "none" /\ j \notin requeue /\ status[j] \in {"queued", "cancelled"}
    BY <1>0, <2>2 DEF JobInv, Placed
  <2>5. CASE Launch(j)
    BY <2>1, <2>2, <2>4, <2>5, LaunchKeepsJobs
  <2>6. CASE ~Launch(j)
    <3>1. /\ disp' = j /\ UNCHANGED <<cancelled, event, pc, slots, Ticketed, outLock, dirLock, told, ackd>>
      BY <2>1, <2>6 DEF Ticketed, lockVars, noteVars
    <3>2. CASE k = j
      <4>1. Placed(j)'
        BY <1>0, <2>1, <2>2, <2>4, <3>1 DEF JobInv, Placed, Main
      <4>2. Signalled(j)' /\ Leaving(j)' /\ Supplied(j)'
        BY <1>0, <2>1, <2>2, <3>1 DEF JobInv, Signalled, Leaving, Supplied
      <4> QED  BY <3>2, <4>1, <4>2 DEF JobInv
    <3>3. CASE k # j
      <4>0. disp' = k <=> disp = k  BY <2>1, <3>1, <3>3, JobsAssumption
      <4>1. Same(k)  BY <2>1, <2>2, <3>1, <3>3, <4>0 DEF Same
      <4> QED  BY <1>0, <4>1, SameKeeps
    <3> QED  BY <3>2, <3>3
  <2> QED  BY <2>5, <2>6
<1>3. CASE DispatchHeld
  <2>1. disp \in Jobs /\ Held(disp)  BY <1>0, <1>3 DEF DispatchHeld, TypeOK, Held
  <2>2. /\ pc[disp] = "none" /\ disp \notin requeue /\ disp \notin Queued
        /\ status[disp] \in {"queued", "cancelled"}
    BY <1>0, <2>1 DEF JobInv, Placed, Held
  <2>3. UNCHANGED <<jobs, status, requeue, lockVars, noteVars>> /\ Queued' = Queued /\ Launch(disp)
    BY <1>3 DEF DispatchHeld, Queued
  <2>4. Queued' = Queued \ {disp}  BY <2>2, <2>3
  <2> QED  BY <2>1, <2>2, <2>3, <2>4, LaunchKeepsJobs
<1> QED  BY <1>1, <1>2, <1>3 DEF Dispatcher

\* A step of a coroutine that only moves it, and changes at most its own locks,
\* its cancelled mark and the files.
LEMMA MoveKeepsJobs ==
    ASSUME AInv, NEW j \in Jobs, NEW p,
           pc' = [pc EXCEPT ![j] = p],
           \/ pc[j] \in Admitting \ {"waiting"} /\ p \in Admitting \ {"waiting"}
           \/ pc[j] \in Main /\ p \in Main /\ j \notin ackd,
           pc[j] \in Owning => p \in Owning,
           pc[j] \in Packing => p \in Packing,
           UNCHANGED <<jobs, status, event, queue, disp, requeue, tickets, slots,
                       told, ackd>>,
           \A i \in Jobs, o \in Outs : i # j => (outLock'[o] = i <=> outLock[o] = i),
           \A o \in Outs : outLock'[o] = j => outLock[o] = j \/ (o = Out[j] /\ p \in Owning),
           cancelled' = cancelled \/ cancelled' = cancelled \ {j},
           dirLock' = dirLock \/ (dirLock' = dirLock \cup {j} /\ p \in Packing),
           NEW k \in Jobs
    PROVE  JobInv(k)'
<1>0. JobInv(j) /\ JobInv(k) /\ TypeOK  BY DEF AInv, IInv
<1>1. Queued' = Queued /\ Ticketed' = Ticketed  BY DEF Queued, Ticketed
<1>2. CASE k # j
  <2>1. pc'[k] = pc[k]  BY <1>0, <1>2 DEF TypeOK
  <2>2. Same(k)  BY <1>1, <1>2, <2>1 DEF Same
  <2> QED  BY <1>0, <2>2, SameKeeps
<1>3. CASE k = j
  <2>1. pc'[j] = p  BY <1>0 DEF TypeOK
  <2>2. /\ pc[j] # "none" /\ p # "none" /\ p # "ending" /\ pc[j] # "ending"
        /\ p \in Main <=> pc[j] \in Main
        /\ p \in Admitting \cup Main /\ pc[j] \in Admitting \cup Main
        /\ p # "waiting" /\ pc[j] # "waiting"
    BY DEF Admitting, Main
  <2>3. ~Held(j)' /\ ~Held(j)  BY <2>1, <2>2 DEF Held
  <2>4. Placed(j)'
    BY <1>0, <1>1, <2>1, <2>2, <2>3 DEF JobInv, Placed
  <2>5. Signalled(j)'
    BY <1>0, <2>1, <2>2 DEF JobInv, Signalled
  <2>6. Supplied(j)'
    BY <1>0, <1>1, <2>1, <2>2 DEF JobInv, Supplied
  <2>7. Leaving(j)'
    <3>1. j \in ackd => status[j] # "processing"
      BY <1>0, <2>2 DEF JobInv, Placed, Main, Admitting
    <3> QED  BY <1>0, <2>1, <3>1 DEF JobInv, Leaving
  <2> QED  BY <1>3, <2>4, <2>5, <2>6, <2>7 DEF JobInv
<1> QED  BY <1>2, <1>3

\* The coroutine of j begins its main try block.
LEMMA BeginKeepsJobs ==
    ASSUME AInv, NEW j \in Jobs, Begin(j), pc[j] \in {"clear", "dirheld"},
           UNCHANGED <<jobs, cancelled, event, queue, disp, requeue, tickets, slots,
                       dirLock, told, ackd>>,
           \A k \in Jobs, o \in Outs : k # j => (outLock'[o] = k <=> outLock[o] = k),
           \A o \in Outs : outLock'[o] = j => outLock[o] = j \/ o = Out[j],
           NEW k \in Jobs
    PROVE  JobInv(k)'
<1>0. JobInv(j) /\ JobInv(k) /\ TypeOK  BY DEF AInv, IInv
<1>1. Queued' = Queued /\ Ticketed' = Ticketed  BY DEF Queued, Ticketed
<1>2. CASE k # j
  <2>1. pc'[k] = pc[k] /\ status'[k] = status[k]  BY <1>0, <1>2 DEF TypeOK, Begin, Goto
  <2>2. Same(k)  BY <1>1, <1>2, <2>1 DEF Same
  <2> QED  BY <1>0, <2>2, SameKeeps
<1>3. CASE k = j
  <2>1. pc'[j] = "prepare" /\ status'[j] = "processing"
    BY <1>0 DEF TypeOK, Begin, Goto
  <2>2. ~Held(j)'  BY <2>1 DEF Held
  <2>3. status[j] \in {"queued", "cancelled"}
    BY <1>0 DEF JobInv, Placed, TypeOK, Statuses, Terminal, Main
  <2>4. Placed(j)'
    BY <1>0, <1>1, <2>1, <2>2 DEF JobInv, Placed, Main
  <2>5. Signalled(j)' /\ Leaving(j)'
    BY <1>0, <2>1, <2>3 DEF JobInv, Signalled, Leaving, Main, Admitting, Terminal
  <2>6. Supplied(j)'
    BY <1>0, <1>1, <2>1 DEF JobInv, Supplied, Main, Admitting, Owning, Packing, Terminal
  <2> QED  BY <1>3, <2>4, <2>5, <2>6 DEF JobInv
<1> QED  BY <1>2, <1>3

\* The coroutine of j comes to a terminal status and gives everything back.
LEMMA EndKeepsJobs ==
    ASSUME AInv, NEW j \in Jobs, NEW st \in Terminal,
           status' = [status EXCEPT ![j] = st], told' = [told EXCEPT ![j] = st],
           event' = [event EXCEPT ![j] = "none"], Goto(j, "ending"), ReleasePool(j),
           UNCHANGED <<jobs, queue, disp, requeue, ackd>>,
           cancelled' = cancelled \/ cancelled' = cancelled \ {j},
           pc[j] \in Admitting \cup Main,
           j \in ackd => st # "completed",
           \/ pc[j] \in {"waiting", "refuse"} /\ UNCHANGED outLock
           \/ pc[j] \in Owning /\ outLock' = [outLock EXCEPT ![Out[j]] = NoJob],
           \/ pc[j] \in Admitting \ Packing /\ UNCHANGED dirLock
           \/ dirLock' = dirLock \ {j},
           NEW k \in Jobs
    PROVE  JobInv(k)'
<1>0. JobInv(j) /\ JobInv(k) /\ TypeOK /\ LocksOwned /\ Single  BY DEF AInv, IInv
<1>1. Queued' = Queued /\ Ticketed' = Ticketed \ {j} /\ slots' = slots \ {j}
  BY <1>0, ReleaseOnce DEF Queued
<1>2. \A o \in Outs : k # j => (outLock'[o] = k <=> outLock[o] = k)
  BY <1>0, JobsAssumption DEF TypeOK, LocksOwned
<1>3. CASE k # j
  <2>1. /\ pc'[k] = pc[k] /\ status'[k] = status[k]
        /\ told'[k] = told[k] /\ event'[k] = event[k]
    BY <1>0, <1>3 DEF TypeOK, Goto
  <2>2. Same(k)  BY <1>1, <1>2, <1>3, <2>1 DEF Same
  <2> QED  BY <1>0, <2>2, SameKeeps
<1>4. CASE k = j
  <2>1. /\ pc'[j] = "ending" /\ status'[j] = st /\ told'[j] = st /\ event'[j] = "none"
    BY <1>0 DEF TypeOK, Goto
  <2>2. ~Held(j)'  BY <2>1 DEF Held
  <2>3. pc[j] # "none" /\ status[j] # "none"
    BY <1>0 DEF JobInv, Placed, Admitting, Main
  <2>4. Placed(j)'
    BY <1>0, <1>1, <2>1, <2>2, <2>3 DEF JobInv, Placed, Main, Terminal
  <2>5. Signalled(j)' /\ Leaving(j)'
    BY <1>0, <2>1 DEF JobInv, Signalled, Leaving, Main, Admitting, Terminal
  <2>6. \A o \in Outs : outLock'[o] = j => o = Out[j] /\ j \notin jobs
    <3>1. CASE pc[j] \in {"waiting", "refuse"} /\ UNCHANGED outLock
      BY <1>0, <3>1 DEF JobInv, Supplied, Owning
    <3>2. CASE pc[j] \in Owning /\ outLock' = [outLock EXCEPT ![Out[j]] = NoJob]
      BY <1>0, <3>2, JobsAssumption, PathsAssumption DEF JobInv, Supplied, TypeOK
    <3> QED  BY <3>1, <3>2
  <2>7. j \notin dirLock'
    BY <1>0 DEF JobInv, Supplied
  <2>8. Supplied(j)'
    BY <1>0, <1>1, <2>1, <2>6, <2>7 DEF JobInv, Placed, Supplied, Main, Admitting, Terminal
  <2> QED  BY <1>4, <2>4, <2>5, <2>8 DEF JobInv
<1> QED  BY <1>3, <1>4

\* `_defer_blocked_job`: j is out of everything but the pending re-queue.
LEMMA DeferKeepsJobs ==
    ASSUME AInv, NEW j \in Jobs, Defer(j), NEW k \in Jobs
    PROVE  JobInv(k)'
<1>0. JobInv(j) /\ JobInv(k) /\ TypeOK /\ LocksOwned /\ Single  BY DEF AInv, IInv
<1>1. /\ pc[j] \in {"blocked", "reblocked", "dirbusy"}
      /\ UNCHANGED <<jobs, status, cancelled, queue, dirLock, told, ackd>>
      /\ event' = [event EXCEPT ![j] = "none"]
      /\ pc' = [pc EXCEPT ![j] = "none"]
      /\ disp' = IF disp = j THEN NoJob ELSE disp
      /\ requeue' = requeue \cup {j}
      /\ outLock' = IF pc[j] = "dirbusy" /\ j \in jobs
                    THEN [outLock EXCEPT ![Out[j]] = NoJob] ELSE outLock
  BY DEF Defer, PutBack, Return, noteVars
<1>2. Ticketed' = Ticketed \ {j} /\ slots' = slots \ {j}
  BY <1>0, ReleaseOnce DEF Defer
<1>3. Queued' = Queued  BY <1>1 DEF Queued
<1>4. CASE k # j
  <2>1. pc'[k] = pc[k] /\ event'[k] = event[k]  BY <1>0, <1>1, <1>4 DEF TypeOK
  <2>2. disp' = k <=> disp = k  BY <1>1, <1>4, JobsAssumption
  <2>3. \A o \in Outs : outLock'[o] = k <=> outLock[o] = k
    BY <1>0, <1>1, <1>4, JobsAssumption DEF TypeOK, LocksOwned, Owning
  <2>4. Same(k)  BY <1>1, <1>2, <1>3, <1>4, <2>1, <2>2, <2>3 DEF Same
  <2> QED  BY <1>0, <2>4, SameKeeps
<1>5. CASE k = j
  <2>1. pc'[j] = "none" /\ event'[j] = "none" /\ disp' # j
    BY <1>0, <1>1, JobsAssumption DEF TypeOK
  <2>2. ~Held(j)'  BY <2>1 DEF Held
  <2>3. status[j] \in {"queued", "cancelled"} /\ j \notin Queued
    BY <1>0, <1>1 DEF JobInv, Placed, TypeOK, Statuses, Terminal, Main
  <2>4. Placed(j)'
    BY <1>0, <1>1, <1>3, <2>1, <2>2, <2>3 DEF JobInv, Placed, Main
  <2>5. Signalled(j)' /\ Leaving(j)'
    BY <1>0, <1>1, <2>1, <2>3 DEF JobInv, Signalled, Leaving, Main, Admitting
  <2>6. \A o \in Outs : outLock'[o] = j => o = Out[j] /\ j \notin jobs
    <3>1. CASE pc[j] = "dirbusy" /\ j \in jobs
      BY <1>0, <1>1, <3>1, JobsAssumption, PathsAssumption DEF JobInv, Supplied, TypeOK
    <3>2. CASE pc[j] # "dirbusy" \/ j \notin jobs
      BY <1>0, <1>1, <3>2 DEF JobInv, Supplied, Owning
    <3> QED  BY <3>1, <3>2
  <2>7. j \notin dirLock  BY <1>0, <1>1 DEF JobInv, Supplied, Packing
  <2>8. Supplied(j)'
    BY <1>1, <1>2, <2>1, <2>6, <2>7 DEF Supplied, Main, Admitting
  <2> QED  BY <1>5, <2>4, <2>5, <2>8 DEF JobInv
<1> QED  BY <1>4, <1>5

\* The steps of the coroutine before the job is PROCESSING.
LEMMA AdmissionKeepsJobs ==
    ASSUME AInv, NEW j \in Jobs, Admission(j), NEW k \in Jobs
    PROVE  JobInv(k)'
<1> USE DEF listVars, poolVars, lockVars, noteVars
<1>0. JobInv(j) /\ JobInv(k) /\ TypeOK  BY DEF AInv, IInv
<1>1. CASE EnterSpawned(j)
  <2>1. /\ pc[j] = "spawned" /\ Enter(j)
        /\ UNCHANGED <<jobs, status, queue, disp, requeue, lockVars, noteVars>>
    BY <1>1 DEF EnterSpawned
  <2>2. status[j] \in {"queued", "cancelled"} /\ j \notin requeue /\ j \notin Queued
    BY <1>0, <2>1 DEF JobInv, Placed, TypeOK, Statuses, Terminal, Main
  <2>3. Queued' = Queued  BY <2>1 DEF Queued
  <2>4. CASE k = j
    BY <2>1, <2>2, <2>3, <2>4, EnterKeepsJob
  <2>5. CASE k # j
    <3>1. /\ Ticketed' = Ticketed /\ pc'[k] = pc[k] /\ event'[k] = event[k]
          /\ k \in slots' <=> k \in slots
          /\ k \in cancelled' <=> k \in cancelled
      BY <2>1, <2>2, <2>5, EnterOnce DEF Ticketed
    <3>2. Same(k)  BY <2>1, <2>3, <2>5, <3>1 DEF Same
    <3> QED  BY <1>0, <3>2, SameKeeps
  <2> QED  BY <2>4, <2>5
<1>2. CASE GetSlot(j)
  <2>1. /\ pc[j] = "waiting" /\ event[j] # "set"
        /\ slots' = slots \cup {j} /\ pc' = [pc EXCEPT ![j] = "probe"]
        /\ UNCHANGED <<jobs, cancelled, queue, requeue, status, event, disp, tickets,
                       outLock, dirLock, told, ackd>>
    BY <1>2 DEF GetSlot, Goto
  <2>2. Queued' = Queued /\ Ticketed' = Ticketed  BY <2>1 DEF Queued, Ticketed
  <2>3. CASE k # j
    <3>1. pc'[k] = pc[k]  BY <1>0, <2>1, <2>3 DEF TypeOK
    <3>2. Same(k)  BY <2>1, <2>2, <2>3, <3>1 DEF Same
    <3> QED  BY <1>0, <3>2, SameKeeps
  <2>4. CASE k = j
    <3>1. pc'[j] = "probe"  BY <1>0, <2>1 DEF TypeOK
    <3>2. ~Held(j)'  BY <3>1 DEF Held
    <3>3. event[j] # "none" /\ event[j] = "clear"
      BY <1>0, <2>1 DEF JobInv, Signalled, Admitting, TypeOK
    <3>4. Placed(j)'
      BY <1>0, <2>1, <2>2, <3>1, <3>2 DEF JobInv, Placed, Main
    <3>5. Signalled(j)' /\ Leaving(j)'
      BY <1>0, <2>1, <3>1, <3>3 DEF JobInv, Signalled, Leaving, Admitting
    <3>6. Supplied(j)'
      BY <1>0, <2>1, <2>2, <3>1, <3>3 DEF JobInv, Supplied, Owning, Packing
    <3> QED  BY <2>4, <3>4, <3>5, <3>6 DEF JobInv
  <2> QED  BY <2>3, <2>4
<1>3. CASE GiveUpSlot(j)
  <2>1. "cancelled" \in Terminal /\ "waiting" \in Admitting \ Packing
    BY DEF Terminal, Admitting, Packing
  <2> QED  BY <1>3, <2>1, EndKeepsJobs DEF GiveUpSlot, EndEarly
<1>4. CASE Probe(j)
  <2>1. PICK p \in {"blocked", "clear", "reblocked", "refuse"} :
          pc' = [pc EXCEPT ![j] = p] /\ pc[j] \in {"probe", "reprobe"}
    BY <1>4 DEF Probe, Goto
  <2> QED  BY <1>4, <2>1, MoveKeepsJobs DEF Probe, Admitting, Owning, Packing
<1>5. CASE Defer(j)
  BY <1>5, DeferKeepsJobs
<1>6. CASE TakeOutput(j)
  <2>1. /\ pc[j] = "clear" /\ outLock[Out[j]] = NoJob
        /\ outLock' = [outLock EXCEPT ![Out[j]] = j]
        /\ UNCHANGED <<jobs, cancelled, queue, requeue, event, disp, tickets, slots,
                       dirLock, told, ackd>>
    BY <1>6 DEF TakeOutput, CanLock
  <2>2. \A i \in Jobs, o \in Outs : i # j => (outLock'[o] = i <=> outLock[o] = i)
    BY <1>0, <2>1, JobsAssumption DEF TypeOK
  <2>3. \A o \in Outs : outLock'[o] = j => outLock[o] = j \/ o = Out[j]
    BY <1>0, <2>1 DEF TypeOK
  <2>4. CASE Begin(j)
    BY <2>1, <2>2, <2>3, <2>4, BeginKeepsJobs
  <2>5. CASE ~Begin(j)
    <3>1. PICK p \in {"parts", "dirlock"} : pc' = [pc EXCEPT ![j] = p] /\ status' = status
      BY <1>6, <2>5 DEF TakeOutput, Goto
    <3>2. p \in Owning /\ p \in Admitting \ {"waiting"} /\ "clear" \in Admitting \ {"waiting"}
          /\ "clear" \notin Packing
      BY DEF Owning, Admitting, Packing
    <3>3. /\ pc[j] \in Admitting \ {"waiting"} /\ p \in Admitting \ {"waiting"}
          /\ pc[j] \in Owning => p \in Owning
          /\ pc[j] \in Packing => p \in Packing
          /\ \A o \in Outs : outLock'[o] = j => outLock[o] = j \/ (o = Out[j] /\ p \in Owning)
      BY <2>1, <2>3, <3>2
    <3>4. UNCHANGED <<jobs, status, event, queue, disp, requeue, tickets, slots, told, ackd>>
      BY <2>1, <3>1
    <3> QED  BY <2>1, <2>2, <3>1, <3>3, <3>4, MoveKeepsJobs
  <2> QED  BY <2>4, <2>5
<1>7. CASE RefuseOutput(j)
  BY <1>7, MoveKeepsJobs DEF RefuseOutput, Goto, Admitting, Owning, Packing
<1>8. CASE FailEarly(j)
  <2>1. /\ "failed" \in Terminal
        /\ {"refuse", "parts"} \subseteq Admitting \ Packing /\ "parts" \in Owning
    BY DEF Terminal, Admitting, Packing, Owning
  <2>2. \/ pc[j] \in {"waiting", "refuse"} /\ UNCHANGED outLock
        \/ pc[j] \in Owning /\ outLock' = [outLock EXCEPT ![Out[j]] = NoJob]
    BY <1>8, <2>1 DEF FailEarly, FreedEarly
  <2> QED  BY <1>8, <2>1, <2>2, EndKeepsJobs DEF FailEarly, EndEarly
<1>9. CASE NoParts(j)
  BY <1>9, MoveKeepsJobs DEF NoParts, Goto, Admitting, Owning, Packing
<1>10. CASE TakeFolder(j)
  BY <1>10, MoveKeepsJobs DEF TakeFolder, Goto, Admitting, Owning, Packing
<1>11. CASE RefuseFolder(j)
  BY <1>11, MoveKeepsJobs DEF RefuseFolder, Goto, Admitting, Owning, Packing
<1>12. CASE StartFolder(j)
  BY <1>12, BeginKeepsJobs DEF StartFolder
<1> QED
  BY <1>1, <1>2, <1>3, <1>4, <1>5, <1>6, <1>7, <1>8, <1>9, <1>10, <1>11, <1>12
  DEF Admission

\* The steps of the main try block, and the return of the coroutine.
LEMMA RunKeepsJobs ==
    ASSUME AInv, NEW j \in Jobs, Run(j), NEW k \in Jobs
    PROVE  JobInv(k)'
<1> USE DEF listVars, poolVars, lockVars, noteVars
<1>0. JobInv(j) /\ JobInv(k) /\ TypeOK  BY DEF AInv, IInv
<1>1. ASSUME NEW st \in Terminal, Finalize(j, st), pc[j] \in Main,
             j \in ackd => st # "completed",
             cancelled' = cancelled \/ cancelled' = cancelled \ {j}
      PROVE  JobInv(k)'
  <2>1. pc[j] \in Owning  BY <1>1 DEF Main, Owning
  <2>2. /\ UNCHANGED <<jobs, queue, disp, requeue, ackd>>
        /\ dirLock' = dirLock \ {j}
        /\ outLock' = [outLock EXCEPT ![Out[j]] = NoJob]
        /\ status' = [status EXCEPT ![j] = st] /\ told' = [told EXCEPT ![j] = st]
        /\ event' = [event EXCEPT ![j] = "none"] /\ Goto(j, "ending") /\ ReleasePool(j)
    BY <1>1 DEF Finalize, FreedFolder
  <2> QED  BY <1>1, <2>1, <2>2, EndKeepsJobs
\* A job past the last look at its event has no accepted cancel behind it.
<1>2. pc[j] \in Main /\ (event[j] = "clear" \/ pc[j] # "prepare") => j \notin ackd
  BY <1>0 DEF JobInv, Placed, Leaving
<1>3. CASE AlreadyDone(j)
  BY <1>1, <1>2, <1>3 DEF AlreadyDone, Terminal, Main
<1>4. CASE Fail(j)
  BY <1>1, <1>4 DEF Fail, Terminal, Main
<1>5. CASE StopCancelled(j)
  BY <1>1, <1>5 DEF StopCancelled, Terminal, Main
<1>6. CASE StartConvert(j)
  <2>1. PICK p \in {"clearing", "convert"} :
          /\ pc' = [pc EXCEPT ![j] = p] /\ pc[j] \in {"prepare", "clearing"}
          /\ event[j] = "clear" \/ pc[j] # "prepare"
    BY <1>6 DEF StartConvert, Goto, GoAhead
  <2>2. {"prepare", "clearing", "convert"} \subseteq Main \cap Owning \cap Packing
    BY DEF Main, Owning, Packing
  <2> QED  BY <1>2, <1>6, <2>1, <2>2, MoveKeepsJobs DEF StartConvert
<1>7. CASE Converted(j)
  <2>1. {"convert", "post"} \subseteq Main \cap Owning \cap Packing
    BY DEF Main, Owning, Packing
  <2> QED  BY <1>2, <1>7, <2>1, MoveKeepsJobs DEF Converted, Goto
<1>8. CASE VerifyStep(j)
  <2>1. PICK p \in {"verify", "verified"} :
          pc' = [pc EXCEPT ![j] = p] /\ pc[j] \in {"post", "verify"}
    BY <1>8 DEF VerifyStep, Goto
  <2>2. {"post", "verify", "verified"} \subseteq Main \cap Owning \cap Packing
    BY DEF Main, Owning, Packing
  <2> QED  BY <1>2, <1>8, <2>1, <2>2, MoveKeepsJobs DEF VerifyStep
<1>9. CASE Complete(j)
  BY <1>1, <1>2, <1>9 DEF Complete, Terminal, Main
<1>10. CASE Finish(j)
  <2>1. /\ pc[j] = "ending" /\ pc' = [pc EXCEPT ![j] = "none"]
        /\ disp' = IF disp = j THEN NoJob ELSE disp
        /\ UNCHANGED <<jobs, cancelled, queue, requeue, status, event, tickets, slots,
                       outLock, dirLock, told, ackd>>
    BY <1>10 DEF Finish, Return
  <2>2. Queued' = Queued /\ Ticketed' = Ticketed  BY <2>1 DEF Queued, Ticketed
  <2>3. CASE k # j
    <3>1. pc'[k] = pc[k]  BY <1>0, <2>1, <2>3 DEF TypeOK
    <3>2. disp' = k <=> disp = k  BY <2>1, <2>3, JobsAssumption
    <3>3. Same(k)  BY <2>1, <2>2, <2>3, <3>1, <3>2 DEF Same
    <3> QED  BY <1>0, <3>3, SameKeeps
  <2>4. CASE k = j
    <3>1. pc'[j] = "none" /\ disp' # j
      BY <1>0, <2>1, JobsAssumption DEF TypeOK
    <3>2. ~Held(j)'  BY <3>1 DEF Held
    <3>3. Placed(j)'
      BY <1>0, <2>1, <2>2, <3>1, <3>2 DEF JobInv, Placed, Main, Terminal
    <3>4. Signalled(j)' /\ Leaving(j)'
      BY <1>0, <2>1, <3>1 DEF JobInv, Placed, Signalled, Leaving, Main, Admitting, Terminal
    <3>5. Supplied(j)'
      BY <1>0, <2>1, <2>2, <3>1 DEF JobInv, Supplied, Main, Admitting, Owning, Packing
    <3> QED  BY <2>4, <3>3, <3>4, <3>5 DEF JobInv
  <2> QED  BY <2>3, <2>4
<1> QED
  BY <1>3, <1>4, <1>5, <1>6, <1>7, <1>8, <1>9, <1>10 DEF Run

-----------------------------------------------------------------------------
\* The order of the tickets.

\* A step that takes tickets and entries away, and lets a coroutine come to its
\* end only without a ticket, keeps the order.
LEMMA ShrinkKeepsOrder ==
    ASSUME AInv, IsInjective(queue'), IsInjective(tickets'),
           \A x, y : Before(tickets', x, y) => Before(tickets, x, y),
           \A x, y : Before(queue', x, y) => Before(queue, x, y),
           \A k \in Jobs : pc[k] = "none" => pc'[k] = "none",
           \A k \in Jobs : pc'[k] = "none" /\ k \in Ticketed' => pc[k] = "none",
           disp' = disp \/ disp' = NoJob
    PROVE  Single' /\ InOrder'
<1>1. Single'  BY DEF Single
<1>2. \A x, y \in Jobs : Before(tickets', x, y) => x \in Ticketed' /\ y \in Ticketed'
  BY BeforeInRange DEF Ticketed
<1>3. ASSUME NEW x \in Jobs, NEW y \in Jobs, Before(tickets', x, y), pc'[x] = "none"
      PROVE  pc'[y] = "none"
  BY <1>2, <1>3 DEF AInv, InOrder
<1>4. ASSUME NEW x \in Jobs, NEW y \in Jobs, Before(tickets', x, y), Held(y)'
      PROVE  pc'[x] # "none"
  <2>1. Held(y)  BY <1>2, <1>4, JobsAssumption DEF Held
  <2>2. pc[x] # "none"  BY <1>4, <2>1 DEF AInv, InOrder
  <2> QED  BY <1>2, <1>4, <2>2
<1>5. ASSUME NEW x \in Jobs, NEW y \in Jobs, Before(queue', x, y), Before(tickets', y, x)
      PROVE  FALSE
  BY <1>5 DEF AInv, InOrder
<1> QED  BY <1>1, <1>3, <1>4, <1>5 DEF InOrder

\* No job that waits to be launched has a ticket before the head of the queue.
LEMMA HeadIsFirst ==
    ASSUME AInv, queue # <<>>, disp = NoJob, NEW x \in Jobs,
           Before(tickets, x, Head(queue))
    PROVE  pc[x] # "none"
<1> SUFFICES ASSUME pc[x] = "none" PROVE FALSE  OBVIOUS
<1>1. PICK j : j = Head(queue)  OBVIOUS
<1>2. queue \in Seq(Jobs) /\ IsInjective(queue) /\ JobInv(x)
      /\ tickets \in Seq(Keys) /\ IsInjective(tickets) /\ TypeOK
  BY DEF AInv, IInv, TypeOK, Single, Keys
<1>3. j \in Jobs  BY <1>1, <1>2, HeadTailProperties
<1>4. x \in Ticketed  BY BeforeInRange DEF Ticketed
<1>5. status[x] = "queued" /\ x \notin requeue
  BY <1>2, <1>4
     DEF JobInv, Placed, Signalled, Supplied, Main, Admitting, TypeOK, Statuses
<1>6. x \in Queued  BY <1>2, <1>5, JobsAssumption DEF JobInv, Placed
<1>7. x # j
  <2> HIDE DEF Keys
  <2> QED  BY <1>1, <1>2, BeforeAsymmetric
<1>8. Before(queue, j, x)
  BY <1>1, <1>2, <1>6, <1>7, TailOnce DEF Queued
<1> QED  BY <1>1, <1>3, <1>8 DEF AInv, InOrder

\* The job that is launched stands before all that wait.
LEMMA LaunchKeepsOrder ==
    ASSUME AInv, NEW j \in Jobs, Launch(j),
           status[j] \in {"queued", "cancelled"}, j \notin requeue,
           IsInjective(queue'),
           \A x, y : Before(queue', x, y) => Before(queue, x, y),
           \A x \in Jobs : Before(tickets, x, j) => pc[x] # "none"
    PROVE  Single' /\ InOrder'
<1>1. /\ tickets' = tickets /\ disp' \in {j, NoJob} /\ pc'[j] # "none"
      /\ \A k \in Jobs \ {j} : pc'[k] = pc[k]
  <2>1. CASE MaxConcurrent = 1
    BY <2>1, EnterOnce DEF Launch
  <2>2. CASE MaxConcurrent # 1
    BY <2>2 DEF Launch, poolVars, AInv, IInv, TypeOK
  <2> QED  BY <2>1, <2>2
<1>2. Single'  BY <1>1 DEF AInv, Single
<1>3. ASSUME NEW x \in Jobs, NEW y \in Jobs, Before(tickets', x, y), pc'[x] = "none"
      PROVE  pc'[y] = "none"
  BY <1>1, <1>3 DEF AInv, InOrder
<1>4. \A y \in Jobs : ~Held(y)'
  BY <1>1, JobsAssumption DEF Held
<1>5. ASSUME NEW x \in Jobs, NEW y \in Jobs, Before(queue', x, y), Before(tickets', y, x)
      PROVE  FALSE
  BY <1>1, <1>5 DEF AInv, InOrder
<1> QED  BY <1>2, <1>3, <1>4, <1>5 DEF InOrder

LEMMA DispatcherKeepsOrder ==
    ASSUME AInv, Dispatcher
    PROVE  Single' /\ InOrder'
<1>0. /\ TypeOK /\ IsInjective(queue) /\ IsInjective(tickets)
      /\ \A j \in Jobs : JobInv(j)
  BY DEF AInv, IInv, Single
<1>1. CASE Skip
  <2>1. /\ queue # <<>> /\ queue' = Tail(queue)
        /\ UNCHANGED <<tickets, pc, disp>>
    BY <1>1 DEF Skip, poolVars
  <2> QED  BY <1>0, <2>1, PopOnce, ShrinkKeepsOrder
<1>2. CASE Dispatch
  <2>0. PICK j : j = Head(queue)  OBVIOUS
  <2>1. /\ queue # <<>> /\ queue' = Tail(queue) /\ disp = NoJob
        /\ Launch(j) \/ (disp' = j /\ UNCHANGED <<pc, tickets>>)
    BY <1>2, <2>0 DEF Dispatch, poolVars
  <2>2. /\ j \in Jobs /\ j \in Queued /\ IsInjective(queue')
        /\ \A x, y : Before(queue', x, y) => Before(queue, x, y)
    BY <2>0, <2>1, PopOnce
  <2>3. j \notin requeue /\ status[j] \in {"queued", "cancelled"}
    BY <1>0, <2>2 DEF JobInv, Placed
  <2>4. \A x \in Jobs : Before(tickets, x, j) => pc[x] # "none"
    BY <2>0, <2>1, HeadIsFirst
  <2>5. CASE Launch(j)
    BY <2>2, <2>3, <2>4, <2>5, LaunchKeepsOrder
  <2>6. CASE disp' = j /\ UNCHANGED <<pc, tickets>>
    <3>1. Single'  BY <1>0, <2>2, <2>6 DEF Single
    <3>2. \A y \in Jobs : Held(y)' => y = j
      BY <2>6 DEF Held
    <3> QED  BY <2>2, <2>4, <2>6, <3>1, <3>2 DEF AInv, InOrder
  <2> QED  BY <2>1, <2>5, <2>6
<1>3. CASE DispatchHeld
  <2>0. PICK j : j = disp  OBVIOUS
  <2>1. j \in Jobs /\ Held(j) /\ queue' = queue /\ Launch(j)
    BY <1>0, <1>3, <2>0 DEF DispatchHeld, TypeOK, Held
  <2>2. j \notin requeue /\ status[j] \in {"queued", "cancelled"}
    BY <1>0, <2>1 DEF JobInv, Placed, Held
  <2>3. \A x \in Jobs : Before(tickets, x, j) => pc[x] # "none"
    BY <2>1 DEF AInv, InOrder
  <2> QED  BY <1>0, <2>1, <2>2, <2>3, LaunchKeepsOrder
<1> QED  BY <1>1, <1>2, <1>3 DEF Dispatcher

\* The requests, the timers and the other process.
LEMMA RequestsKeepOrder ==
    ASSUME AInv
    PROVE  /\ \A s \in Submissions : Submit(s) => Single' /\ InOrder'
           /\ \A j \in Jobs : OnRequest(j) => Single' /\ InOrder'
           /\ \A f \in Foreign : OnForeign(f) => Single' /\ InOrder'
<1> USE DEF listVars, poolVars
<1>0. /\ TypeOK /\ Single /\ InOrder /\ IsInjective(queue) /\ IsInjective(tickets)
      /\ \A j \in Jobs : JobInv(j)
  BY DEF AInv, IInv, Single
<1>1. ASSUME NEW s \in Submissions, Submit(s) PROVE Single' /\ InOrder'
  <2>1. /\ IsInjective(s) /\ Range(s) \subseteq Jobs
        /\ \A k \in Range(s) : status[k] = "none"
        /\ IsInjective(queue') /\ IsInjective(tickets')
        /\ \A x, y : Before(tickets', x, y) =>
              Before(tickets, x, y) \/ Before(s, x, y) \/ (x \in Ticketed /\ y \in Range(s))
        /\ \A x, y : Before(queue', x, y) =>
              Before(queue, x, y) \/ Before(s, x, y) \/ (x \in Queued /\ y \in Range(s))
    BY <1>1, SubmitOnce
  <2>2. UNCHANGED <<pc, disp>>  BY <1>1 DEF Submit
  <2>3. \A k \in Range(s) : /\ pc[k] = "none" /\ disp # k
                            /\ k \notin Queued /\ k \notin Ticketed
    BY <1>0, <2>1 DEF JobInv, Placed
  <2>4. \A x, y : Before(s, x, y) => x \in Range(s) /\ y \in Range(s) /\ ~Before(s, y, x)
    <3>1. s \in Seq(Jobs)  BY SubmissionType
    <3> QED  BY <2>1, <3>1, BeforeInRange, BeforeAsymmetric
  <2>5. \A x, y : /\ Before(tickets, x, y) => x \in Ticketed /\ y \in Ticketed
                  /\ Before(queue, x, y) => x \in Queued /\ y \in Queued
    BY BeforeInRange DEF Ticketed, Queued
  <2>6. Single'  BY <2>1 DEF Single
  <2>7. ASSUME NEW x \in Jobs, NEW y \in Jobs, Before(tickets', x, y), pc'[x] = "none"
        PROVE  pc'[y] = "none"
    BY <1>0, <2>1, <2>2, <2>3, <2>4, <2>7 DEF InOrder
  <2>8. ASSUME NEW x \in Jobs, NEW y \in Jobs, Before(tickets', x, y), Held(y)'
        PROVE  pc'[x] # "none"
    BY <1>0, <2>1, <2>2, <2>3, <2>4, <2>8 DEF InOrder, Held
  <2>9. ASSUME NEW x \in Jobs, NEW y \in Jobs, Before(queue', x, y), Before(tickets', y, x)
        PROVE  FALSE
    <3>1. CASE Before(queue, x, y)
      BY <1>0, <2>1, <2>3, <2>4, <2>5, <2>9, <3>1 DEF InOrder
    <3>2. CASE Before(s, x, y)
      BY <2>1, <2>3, <2>4, <2>5, <2>9, <3>2
    <3>3. CASE x \in Queued /\ y \in Range(s)
      BY <2>1, <2>3, <2>4, <2>5, <2>9, <3>3
    <3> QED  BY <2>1, <2>9, <3>1, <3>2, <3>3
  <2> QED  BY <2>6, <2>7, <2>8, <2>9 DEF InOrder
<1>2. ASSUME NEW j \in Jobs, OnRequest(j) PROVE Single' /\ InOrder'
  <2>1. CASE CancelQueued(j)
    <3>1. UNCHANGED <<queue, pc, disp>> /\ ReleasePool(j)
      BY <2>1 DEF CancelQueued
    <3> QED  BY <1>0, <3>1, ReleaseOnce, ShrinkKeepsOrder
  <2>2. CASE CancelProcessing(j)
    BY <1>0, <2>2, ShrinkKeepsOrder DEF CancelProcessing
  <2>3. CASE Delete(j)
    <3>1. UNCHANGED <<queue, pc, disp>> /\ (ReleasePool(j) \/ UNCHANGED tickets)
      BY <2>3 DEF Delete
    <3>2. CASE ReleasePool(j)
      BY <1>0, <3>1, <3>2, ReleaseOnce, ShrinkKeepsOrder
    <3>3. CASE UNCHANGED tickets
      BY <1>0, <3>1, <3>3, ShrinkKeepsOrder
    <3> QED  BY <3>1, <3>2, <3>3
  <2>4. CASE Requeue(j)
    <3>0. UNCHANGED <<pc, disp>> /\ j \in requeue  BY <2>4 DEF Requeue
    <3>1. CASE ~StillWanted(j)
      BY <1>0, <2>4, <3>0, <3>1, ShrinkKeepsOrder DEF Requeue
    <3>2. CASE StillWanted(j)
      <4>1. /\ j \notin Queued /\ j \notin Ticketed
            /\ IsInjective(queue') /\ IsInjective(tickets')
            /\ \A x, y : Before(tickets', x, y) =>
                  Before(tickets, x, y) \/ (x \in Ticketed /\ y = j)
            /\ \A x, y : Before(queue', x, y) =>
                  Before(queue, x, y) \/ (x \in Queued /\ y = j)
        BY <2>4, <3>2, RequeueOnce
      <4>2. pc[j] = "none" /\ disp # j  BY <1>0, <3>0 DEF JobInv, Placed
      <4>3. \A x, y : /\ Before(tickets, x, y) => x \in Ticketed /\ y \in Ticketed
                      /\ Before(queue, x, y) => x \in Queued /\ y \in Queued
        BY BeforeInRange DEF Ticketed, Queued
      <4>4. Single'  BY <4>1 DEF Single
      <4>5. ASSUME NEW x \in Jobs, NEW y \in Jobs, Before(tickets', x, y), pc'[x] = "none"
            PROVE  pc'[y] = "none"
        BY <1>0, <3>0, <4>1, <4>2, <4>5 DEF InOrder
      <4>6. ASSUME NEW x \in Jobs, NEW y \in Jobs, Before(tickets', x, y), Held(y)'
            PROVE  pc'[x] # "none"
        BY <1>0, <3>0, <4>1, <4>2, <4>6 DEF InOrder, Held
      <4>7. ASSUME NEW x \in Jobs, NEW y \in Jobs, Before(queue', x, y), Before(tickets', y, x)
            PROVE  FALSE
        BY <1>0, <4>1, <4>3, <4>7 DEF InOrder
      <4> QED  BY <4>4, <4>5, <4>6, <4>7 DEF InOrder
    <3> QED  BY <3>1, <3>2
  <2> QED  BY <1>2, <2>1, <2>2, <2>3, <2>4 DEF OnRequest
<1>3. ASSUME NEW f \in Foreign, OnForeign(f) PROVE Single' /\ InOrder'
  <2>1. CASE ForeignTicket(f)
    <3>1. tickets \in Seq(Keys) /\ f \in Keys  BY <1>0 DEF TypeOK, Keys
    <3>2. tickets' = Append(tickets, f) /\ f \notin Range(tickets) /\ UNCHANGED <<pc, disp, queue>>
      BY <2>1 DEF ForeignTicket, Range
    <3>3. /\ IsInjective(tickets')
          /\ \A x, y : Before(tickets', x, y) => Before(tickets, x, y) \/ y = f
      <4> HIDE DEF Keys
      <4> QED  BY <1>0, <3>1, <3>2, AppendOnce
    <3>4. \A x, y \in Jobs : Before(tickets', x, y) => Before(tickets, x, y)
      BY <3>3, JobsAssumption
    <3>5. Single'  BY <1>0, <3>2, <3>3 DEF Single
    <3> QED  BY <1>0, <3>2, <3>4, <3>5 DEF InOrder, Held
  <2>2. CASE ForeignSlot(f)
    BY <1>0, <2>2, ShrinkKeepsOrder DEF ForeignSlot
  <2>3. CASE ForeignRelease(f)
    <3>1. UNCHANGED <<queue, pc, disp>> /\ ReleasePool(f)
      BY <2>3 DEF ForeignRelease
    <3> QED  BY <1>0, <3>1, ReleaseOnce, ShrinkKeepsOrder
  <2> QED  BY <1>3, <2>1, <2>2, <2>3 DEF OnForeign
<1> QED  BY <1>1, <1>2, <1>3

\* The coroutines: a ticket is given back at the latest when the coroutine ends.
LEMMA CoroutineKeepsOrder ==
    ASSUME AInv, NEW j \in Jobs, Admission(j) \/ Run(j)
    PROVE  Single' /\ InOrder'
<1> USE DEF listVars, poolVars
<1>0. /\ TypeOK /\ Single /\ IsInjective(queue) /\ IsInjective(tickets) /\ JobInv(j)
  BY DEF AInv, IInv, Single
<1>1. /\ queue' = queue /\ (disp' = disp \/ disp' = NoJob)
      /\ \A k \in Jobs \ {j} : pc'[k] = pc[k]
      /\ pc[j] # "none"
      /\ tickets' = tickets \/ ReleasePool(j)
      /\ pc'[j] = "none" => ReleasePool(j) \/ (pc[j] = "ending" /\ tickets' = tickets)
  <2>1. CASE EnterSpawned(j)
    <3>1. /\ pc[j] = "spawned" /\ Enter(j) /\ queue' = queue /\ disp' = disp
      BY <2>1 DEF EnterSpawned
    <3>2. status[j] \in {"queued", "cancelled"} /\ j \notin requeue
      BY <1>0, <3>1 DEF JobInv, Placed, TypeOK, Statuses, Terminal, Main
    <3> QED  BY <3>1, <3>2, EnterOnce
  <2>2. CASE Admission(j) /\ ~EnterSpawned(j)
    BY <1>0, <2>2 DEF Admission, GetSlot, GiveUpSlot, Probe, Defer, TakeOutput, RefuseOutput,
          FailEarly, NoParts, TakeFolder, RefuseFolder, StartFolder, Goto, Begin, Return, TypeOK
  <2>3. CASE Run(j)
    BY <1>0, <2>3 DEF Run, AlreadyDone, Fail, StopCancelled, StartConvert, Converted,
          VerifyStep, Complete, Finish, Finalize, Goto, Return, TypeOK
  <2> QED  BY <2>1, <2>2, <2>3
<1>2. CASE ReleasePool(j)
  <2>1. /\ IsInjective(tickets') /\ j \notin Ticketed'
        /\ \A x, y : Before(tickets', x, y) => Before(tickets, x, y)
    BY <1>0, <1>2, ReleaseOnce
  <2> QED  BY <1>0, <1>1, <2>1, ShrinkKeepsOrder
<1>3. CASE ~ReleasePool(j)
  <2>1. pc'[j] = "none" => j \notin Ticketed
    BY <1>0, <1>1, <1>3 DEF JobInv, Placed, Signalled, Supplied, Main, Admitting
  <2>2. tickets' = tickets /\ Ticketed' = Ticketed  BY <1>1, <1>3 DEF Ticketed
  <2> QED  BY <1>0, <1>1, <2>1, <2>2, ShrinkKeepsOrder
<1> QED  BY <1>2, <1>3

-----------------------------------------------------------------------------
\* The permits and the slots.

LEMMA StillKeepsPermits ==
    ASSUME AInv, Running' = Running, sem' = sem, slots' \subseteq slots
    PROVE  Permits'
<1>1. IsFiniteSet(slots) /\ Cardinality(slots) \in Nat /\ Cardinality(slots) <= MaxConcurrent
  BY FS_CardinalityType DEF AInv, Permits
<1>2. IsFiniteSet(slots') /\ Cardinality(slots') \in Nat /\ Cardinality(slots') <= Cardinality(slots)
  BY <1>1, FS_Subset, FS_CardinalityType
<1>3. Cardinality(slots') <= MaxConcurrent
  BY <1>1, <1>2, LimitsAssumption
<1> QED  BY <1>2, <1>3 DEF AInv, Permits

\* A slot file is created while fewer than MaxConcurrent are held.
LEMMA SlotKeepsBound ==
    ASSUME AInv, NEW k, slots' = slots \cup {k}, Cardinality(slots) < MaxConcurrent
    PROVE  IsFiniteSet(slots') /\ Cardinality(slots') <= MaxConcurrent
<1>1. IsFiniteSet(slots) /\ Cardinality(slots) \in Nat
  BY FS_CardinalityType DEF AInv, Permits
<1>2. IsFiniteSet(slots') /\ (\/ Cardinality(slots') = Cardinality(slots)
                              \/ Cardinality(slots') = Cardinality(slots) + 1)
  BY <1>1, FS_AddElement
<1> QED  BY <1>1, <1>2, LimitsAssumption

\* A permit is taken for each coroutine that starts, and given back when it returns.
LEMMA LaunchKeepsPermits ==
    ASSUME AInv, NEW j \in Jobs, Launch(j), pc[j] = "none",
           status[j] \in {"queued", "cancelled"}, j \notin requeue
    PROVE  Permits'
<1>1. sem > 0 /\ sem' = sem - 1  BY DEF Launch, TakePermit
<1>2. /\ pc'[j] # "none" /\ \A k \in Jobs \ {j} : pc'[k] = pc[k]
      /\ \/ slots' = slots
         \/ slots' = slots \cup {j} /\ Cardinality(slots) < MaxConcurrent
  <2>1. CASE MaxConcurrent = 1
    BY <2>1, EnterOnce DEF Launch
  <2>2. CASE MaxConcurrent # 1
    BY <2>2 DEF Launch, poolVars, AInv, IInv, TypeOK
  <2> QED  BY <2>1, <2>2
<1>3. Running' = Running \cup {j} /\ j \notin Running
  BY <1>2 DEF Running
<1>4. IsFiniteSet(Running) /\ Cardinality(Running) \in Nat /\ sem \in Nat
      /\ Cardinality(Running) + sem = MaxConcurrent
  BY FS_CardinalityType DEF AInv, Permits
<1>5. IsFiniteSet(Running') /\ Cardinality(Running') = Cardinality(Running) + 1
  BY <1>3, <1>4, FS_AddElement
<1>6. sem' \in Nat /\ Cardinality(Running') + sem' = MaxConcurrent
  BY <1>1, <1>4, <1>5
<1>7. IsFiniteSet(slots') /\ Cardinality(slots') <= MaxConcurrent
  BY <1>2, SlotKeepsBound DEF AInv, Permits
<1> QED  BY <1>5, <1>6, <1>7 DEF Permits

LEMMA ReturnKeepsPermits ==
    ASSUME AInv, NEW j \in Jobs, Return(j), pc[j] # "none", slots' \subseteq slots
    PROVE  Permits'
<1>1. sem' = sem + 1 /\ pc' = [pc EXCEPT ![j] = "none"]  BY DEF Return
<1>2. Running' = Running \ {j} /\ j \in Running
  BY <1>1 DEF Running, AInv, IInv, TypeOK
<1>3. IsFiniteSet(Running) /\ Cardinality(Running) \in Nat /\ sem \in Nat
      /\ Cardinality(Running) + sem = MaxConcurrent
      /\ IsFiniteSet(slots) /\ Cardinality(slots) \in Nat /\ Cardinality(slots) <= MaxConcurrent
  BY FS_CardinalityType DEF AInv, Permits
<1>4. IsFiniteSet(Running') /\ Cardinality(Running') = Cardinality(Running) - 1
  BY <1>2, <1>3, FS_RemoveElement
<1>5. sem' \in Nat /\ Cardinality(Running') + sem' = MaxConcurrent
  BY <1>1, <1>3, <1>4
<1>6. IsFiniteSet(slots') /\ Cardinality(slots') \in Nat /\ Cardinality(slots') <= Cardinality(slots)
  BY <1>3, FS_Subset, FS_CardinalityType
<1>7. Cardinality(slots') <= MaxConcurrent
  BY <1>3, <1>6, LimitsAssumption
<1> QED  BY <1>4, <1>5, <1>6, <1>7 DEF Permits

LEMMA OthersKeepPermits ==
    ASSUME AInv
    PROVE  /\ \A s \in Submissions : Submit(s) => Permits'
           /\ Dispatcher => Permits'
           /\ \A j \in Jobs : OnRequest(j) => Permits'
           /\ \A f \in Foreign : OnForeign(f) => Permits'
<1> USE DEF listVars, poolVars
<1>0. TypeOK /\ \A j \in Jobs : JobInv(j)  BY DEF AInv, IInv
<1>1. ASSUME NEW s \in Submissions, Submit(s) PROVE Permits'
  BY <1>1, StillKeepsPermits DEF Submit, Running
<1>2. ASSUME Dispatcher PROVE Permits'
  <2>1. CASE Skip
    BY <2>1, StillKeepsPermits DEF Skip, Running
  <2>2. CASE Dispatch
    <3>0. PICK j : j = Head(queue)  OBVIOUS
    <3>1. /\ queue # <<>> /\ queue' = Tail(queue)
          /\ Launch(j) \/ UNCHANGED <<pc, sem, slots>>
      BY <2>2, <3>0 DEF Dispatch
    <3>2. j \in Jobs /\ j \in Queued  BY <3>0, <3>1, PopOnce
    <3>3. pc[j] = "none" /\ j \notin requeue /\ status[j] \in {"queued", "cancelled"}
      BY <1>0, <3>2 DEF JobInv, Placed
    <3>4. CASE Launch(j)
      BY <3>2, <3>3, <3>4, LaunchKeepsPermits
    <3>5. CASE UNCHANGED <<pc, sem, slots>>
      BY <3>5, StillKeepsPermits DEF Running
    <3> QED  BY <3>1, <3>4, <3>5
  <2>3. CASE DispatchHeld
    <3>0. PICK j : j = disp  OBVIOUS
    <3>1. j \in Jobs /\ Held(j) /\ Launch(j) /\ pc[j] = "none"
      BY <1>0, <2>3, <3>0 DEF DispatchHeld, TypeOK, Held
    <3>2. j \notin requeue /\ status[j] \in {"queued", "cancelled"}
      BY <1>0, <3>1 DEF JobInv, Placed, Held
    <3> QED  BY <3>1, <3>2, LaunchKeepsPermits
  <2> QED  BY <1>2, <2>1, <2>2, <2>3 DEF Dispatcher
<1>3. ASSUME NEW j \in Jobs, OnRequest(j) PROVE Permits'
  BY <1>3, StillKeepsPermits
     DEF OnRequest, CancelQueued, CancelProcessing, Delete, Requeue, ReleasePool, Running
<1>4. ASSUME NEW f \in Foreign, OnForeign(f) PROVE Permits'
  <2>1. CASE ForeignSlot(f)
    <3>1. Running' = Running /\ sem' = sem /\ slots' = slots \cup {f}
          /\ Cardinality(slots) < MaxConcurrent
      BY <2>1 DEF ForeignSlot, Admitted, Running
    <3> QED  BY <3>1, SlotKeepsBound DEF AInv, Permits
  <2>2. CASE ForeignTicket(f) \/ ForeignRelease(f)
    BY <2>2, StillKeepsPermits DEF ForeignTicket, ForeignRelease, ReleasePool, Running
  <2> QED  BY <1>4, <2>1, <2>2 DEF OnForeign
<1> QED  BY <1>1, <1>2, <1>3, <1>4

LEMMA CoroutineKeepsPermits ==
    ASSUME AInv, NEW j \in Jobs, Admission(j) \/ Run(j)
    PROVE  Permits'
<1> USE DEF listVars, poolVars
<1>0. TypeOK /\ JobInv(j)  BY DEF AInv, IInv
<1>1. ASSUME pc[j] # "none", pc'[j] # "none", \A k \in Jobs \ {j} : pc'[k] = pc[k]
      PROVE  Running' = Running
  BY <1>1 DEF Running
<1>2. CASE EnterSpawned(j)
  <2>1. pc[j] = "spawned" /\ Enter(j) /\ sem' = sem
    BY <1>2 DEF EnterSpawned
  <2>2. status[j] \in {"queued", "cancelled"} /\ j \notin requeue
    BY <1>0, <2>1 DEF JobInv, Placed, TypeOK, Statuses, Terminal, Main
  <2>3. /\ Running' = Running
        /\ \/ slots' = slots
           \/ slots' = slots \cup {j} /\ Cardinality(slots) < MaxConcurrent
    BY <1>1, <2>1, <2>2, EnterOnce
  <2> QED  BY <2>1, <2>3, SlotKeepsBound DEF AInv, Permits
<1>3. CASE GetSlot(j)
  <2>1. /\ sem' = sem /\ slots' = slots \cup {j} /\ Cardinality(slots) < MaxConcurrent
        /\ Running' = Running
    BY <1>0, <1>1, <1>3 DEF GetSlot, Admitted, Goto, TypeOK
  <2> QED  BY <2>1, SlotKeepsBound DEF AInv, Permits
<1>4. CASE Defer(j)
  BY <1>4, ReturnKeepsPermits DEF Defer, ReleasePool
<1>5. CASE Finish(j)
  BY <1>5, ReturnKeepsPermits DEF Finish
<1>6. CASE ~(EnterSpawned(j) \/ GetSlot(j) \/ Defer(j) \/ Finish(j))
  <2>1. /\ pc[j] # "none" /\ pc'[j] # "none" /\ \A k \in Jobs \ {j} : pc'[k] = pc[k]
        /\ sem' = sem /\ slots' \subseteq slots
    <3>1. CASE Admission(j)
      BY <1>0, <1>6, <3>1 DEF Admission, GiveUpSlot, Probe, TakeOutput, RefuseOutput,
         FailEarly, NoParts, TakeFolder, RefuseFolder, StartFolder, Goto, Begin, ReleasePool, TypeOK
    <3>2. CASE Run(j)
      BY <1>0, <1>6, <3>2 DEF Run, AlreadyDone, Fail, StopCancelled, StartConvert, Converted,
         VerifyStep, Complete, Finalize, Goto, ReleasePool, TypeOK
    <3> QED  BY <3>1, <3>2
  <2> QED  BY <1>1, <2>1, StillKeepsPermits
<1> QED  BY <1>2, <1>3, <1>4, <1>5, <1>6

-----------------------------------------------------------------------------
\* The accounts are inductive, on top of the lock discipline.
THEOREM AccountsKept == Spec => []AInv
<1> DEFINE Rest == (\A j \in Jobs : JobInv(j)) /\ Single /\ Permits /\ InOrder
<1>1. Init => Rest
  <2> SUFFICES ASSUME Init PROVE Rest  OBVIOUS
  <2>1. Queued = {} /\ Ticketed = {}  BY DEF Init, Queued, Ticketed, Range
  <2>2. ASSUME NEW j \in Jobs PROVE JobInv(j)
    <3>1. disp # j /\ ~Held(j) /\ ~Locked(j) /\ \A o \in Outs : outLock[o] # j
      BY JobsAssumption DEF Init, Held, Locked
    <3>2. Placed(j)
      BY <2>1, <3>1 DEF Init, Placed, Main
    <3>3. Signalled(j) /\ Supplied(j) /\ Leaving(j)
      BY <2>1, <3>1 DEF Init, Signalled, Supplied, Leaving, Main, Admitting, Terminal
    <3> QED  BY <3>2, <3>3 DEF JobInv
  <2>3. Single /\ InOrder  BY DEF Init, Single, InOrder, IsInjective, Before
  <2>4. Permits
    <3>1. Running = {}  BY DEF Init, Running
    <3> QED  BY <3>1, FS_EmptySet, LimitsAssumption DEF Init, Permits
  <2> QED  BY <2>2, <2>3, <2>4
<1>2. Rest /\ IInv /\ [Next]_vars => Rest'
  <2> SUFFICES ASSUME Rest, IInv, [Next]_vars PROVE Rest'  OBVIOUS
  <2>0. AInv  BY DEF AInv
  <2>1. CASE Next
    <3>1. ASSUME NEW k \in Jobs PROVE JobInv(k)'
      BY <2>0, <2>1, RequestsKeepJobs, DispatcherKeepsJobs, AdmissionKeepsJobs, RunKeepsJobs
         DEF Next, OnRequest, OnForeign
    <3>2. Single' /\ InOrder'
      BY <2>0, <2>1, RequestsKeepOrder, DispatcherKeepsOrder, CoroutineKeepsOrder
         DEF Next, OnRequest, OnForeign
    <3>3. Permits'
      BY <2>0, <2>1, OthersKeepPermits, CoroutineKeepsPermits
         DEF Next, OnRequest, OnForeign
    <3> QED  BY <3>1, <3>2, <3>3
  <2>2. CASE UNCHANGED vars
    <3>1. UNCHANGED <<Queued, Ticketed, Running>>
      BY <2>2 DEF vars, Queued, Ticketed, Running
    <3>2. ASSUME NEW k \in Jobs PROVE JobInv(k)'
      <4>1. Same(k)  BY <2>2, <3>1 DEF vars, Same
      <4> QED  BY <4>1, SameKeeps
    <3>3. Single' /\ InOrder'  BY <2>2 DEF vars, Single, InOrder, Held
    <3>4. Permits'  BY <2>2, <3>1 DEF vars, Permits
    <3> QED  BY <3>2, <3>3, <3>4
  <2> QED  BY <2>1, <2>2
<1>3. AInv <=> IInv /\ Rest  BY DEF AInv
<1> HIDE DEF Rest
<1> QED  BY <1>1, <1>2, <1>3, LockDiscipline, PTL DEF Spec

\* Every job is accounted for: a queued job is on one way forward and no second,
\* and a job that is over holds nothing and was announced (the exits of
\* `_process_job`, `_defer_blocked_job`, `_requeue`, cancel_job, delete_job).
THEOREM AccountedAlways == Spec => []Accounted
<1>1. ASSUME AInv PROVE OneRoute
  <2> SUFFICES ASSUME NEW j \in jobs, status[j] = "queued"
               PROVE  Cardinality({i \in DOMAIN queue : queue[i] = j})
                      + (IF disp = j /\ pc[j] = "none" THEN 1 ELSE 0)
                      + (IF pc[j] # "none" THEN 1 ELSE 0)
                      + (IF j \in requeue THEN 1 ELSE 0) = 1
    BY DEF OneRoute
  <2> DEFINE E == {i \in DOMAIN queue : queue[i] = j}
  <2>1. j \in Jobs /\ JobInv(j) /\ IsInjective(queue)
    BY <1>1 DEF AInv, IInv, TypeOK, Single
  <2>2. CASE j \in Queued
    <3>1. PICK i \in DOMAIN queue : queue[i] = j  BY <2>2 DEF Queued, Range
    <3>2. E = {i}  BY <2>1, <3>1 DEF IsInjective
    <3>3. Cardinality(E) = 1  BY <3>2, FS_Singleton
    <3>4. pc[j] = "none" /\ disp # j /\ j \notin requeue
      BY <2>1, <2>2 DEF JobInv, Placed
    <3> HIDE DEF E
    <3> QED  BY <3>3, <3>4 DEF E
  <2>3. CASE j \notin Queued
    <3>1. E = {}  BY <2>3 DEF Queued, Range
    <3>2. Cardinality(E) = 0  BY <3>1, FS_EmptySet
    <3>3. /\ disp = j \/ pc[j] # "none" \/ j \in requeue
          /\ j \in requeue => pc[j] = "none" /\ disp # j
      BY <2>1, <2>3 DEF JobInv, Placed
    <3> HIDE DEF E
    <3> QED  BY <3>2, <3>3 DEF E
  <2> QED  BY <2>2, <2>3
<1>2. ASSUME AInv PROVE NothingLeaks
  <2> SUFFICES ASSUME NEW j \in Jobs, status[j] \in Terminal, pc[j] \in {"none", "ending"}
               PROVE  /\ \A i \in DOMAIN tickets : tickets[i] # j
                      /\ j \notin slots /\ j \notin dirLock /\ event[j] = "none"
                      /\ j \in jobs => \A o \in Outs : outLock[o] # j
    BY DEF NothingLeaks
  <2>1. JobInv(j)  BY <1>2 DEF AInv
  <2>2. event[j] = "none"  BY <2>1 DEF JobInv, Signalled, Admitting, Main
  <2>3. j \notin Ticketed /\ j \notin slots  BY <2>1, <2>2 DEF JobInv, Supplied
  <2>4. /\ j \notin dirLock /\ (j \in jobs => \A o \in Outs : outLock[o] # j)
    BY <2>1 DEF JobInv, Supplied, Owning, Packing
  <2> QED  BY <2>2, <2>3, <2>4 DEF Ticketed, Range
<1>3. AInv => EndAnnounced  BY DEF AInv, JobInv, Signalled, EndAnnounced
<1>4. AInv => Accounted  BY <1>1, <1>2, <1>3 DEF Accounted
<1> QED  BY <1>4, AccountsKept, PTL

\* Permits, tickets and slots together bound the work, and no coroutine waits
\* for a ticket of a job that has no permit (issue #183, MAX_CONCURRENT_JOBS).
THEOREM WithinLimitsAlways == Spec => []WithinLimits
<1>1. ASSUME AInv PROVE ProcessingBound
  <2> DEFINE P == {j \in Jobs : status[j] = "processing"}
  <2>1. P \subseteq Running
    BY <1>1 DEF AInv, JobInv, Placed, Main, Running
  <2>2. /\ IsFiniteSet(Running) /\ Cardinality(Running) \in Nat /\ sem \in Nat
        /\ Cardinality(Running) + sem = MaxConcurrent
    BY <1>1, FS_CardinalityType DEF AInv, Permits
  <2>3. IsFiniteSet(P) /\ Cardinality(P) <= Cardinality(Running) /\ Cardinality(P) \in Nat
    BY <2>1, <2>2, FS_Subset, FS_CardinalityType
  <2>4. Cardinality(P) <= MaxConcurrent
    <3> HIDE DEF P
    <3> QED  BY <2>2, <2>3, LimitsAssumption
  <2>5. Cardinality(slots) <= MaxConcurrent  BY <1>1 DEF AInv, Permits
  <2>6. ASSUME NEW j \in Jobs, pc[j] \in Writing PROVE j \in slots
    BY <1>1, <2>6 DEF AInv, JobInv, Placed, Supplied, Leaving, Writing, Main
  <2> QED  BY <2>4, <2>5, <2>6 DEF ProcessingBound
<1>2. ASSUME AInv PROVE NoTicketAhead
  <2> SUFFICES ASSUME NEW j \in Jobs, pc[j] = "waiting", event[j] = "clear"
               PROVE  \E i \in DOMAIN tickets :
                        /\ tickets[i] = j
                        /\ Cardinality({h \in 1..(i - 1) : tickets[h] \in Jobs}) < MaxConcurrent
    BY DEF NoTicketAhead
  <2>1. JobInv(j) /\ TypeOK /\ IsInjective(tickets) /\ InOrder /\ tickets \in Seq(Keys)
    BY <1>2 DEF AInv, IInv, Single, TypeOK, Keys
  <2>2. status[j] = "queued" /\ j \notin requeue
    BY <2>1 DEF JobInv, Placed, Signalled, Supplied, Leaving, Admitting, TypeOK, Statuses, Main, Terminal
  <2>3. PICK i \in DOMAIN tickets : tickets[i] = j
    BY <2>1, <2>2 DEF JobInv, Supplied, Ticketed, Range
  <2> DEFINE A == {h \in 1..(i - 1) : tickets[h] \in Jobs}
             B == Running \ {j}
             g == [h \in A |-> tickets[h]]
  <2>4. \A h \in A : h \in DOMAIN tickets /\ h < i /\ tickets[h] \in Jobs
    BY <2>1, <2>3
  <2>5. \A h \in A : tickets[h] \in B
    <3> SUFFICES ASSUME NEW h \in A PROVE tickets[h] \in B  OBVIOUS
    <3>1. Before(tickets, tickets[h], j)  BY <2>3, <2>4 DEF Before
    <3>2. pc[tickets[h]] # "none"  BY <2>1, <2>4, <3>1 DEF InOrder
    <3>3. tickets[h] # j  BY <2>1, <2>3, <2>4 DEF IsInjective
    <3> QED  BY <2>4, <3>2, <3>3 DEF Running
  <2>6. g \in Injection(A, B)
    <3>1. g \in [A -> B]  BY <2>5
    <3>2. IsInjective(g)  BY <2>1, <2>4 DEF IsInjective
    <3> QED  BY <3>1, <3>2 DEF Injection
  <2>7. /\ IsFiniteSet(Running) /\ Cardinality(Running) \in Nat /\ sem \in Nat
        /\ Cardinality(Running) + sem = MaxConcurrent /\ j \in Running
    BY <1>2, FS_CardinalityType DEF AInv, Permits, Running
  <2>8. IsFiniteSet(B) /\ Cardinality(B) = Cardinality(Running) - 1
    BY <2>7, FS_RemoveElement
  <2> HIDE DEF A, B, g
  <2>9. IsFiniteSet(A) /\ Cardinality(A) <= Cardinality(B)
    BY <2>6, <2>8, FS_Injection
  <2>10. Cardinality(A) < MaxConcurrent
    <3>1. Cardinality(A) \in Nat  BY <2>9, FS_CardinalityType
    <3> QED  BY <2>7, <2>8, <2>9, <3>1, LimitsAssumption
  <2> QED  BY <2>3, <2>10 DEF A
<1>3. AInv => WithinLimits  BY <1>1, <1>2 DEF WithinLimits
<1> QED  BY <1>3, AccountsKept, PTL

\* A job whose cancel was accepted while it was QUEUED never sweeps or writes its
\* destination and never completes, wherever its admission stood (cancel_job and
\* the last look at the event before `_clear_existing_output`).
THEOREM CancelIsFinalForOutput == Spec => []CancelledNeverWrites
<1>1. AInv => CancelledNeverWrites
  BY DEF AInv, IInv, TypeOK, JobInv, Placed, Leaving, CancelledNeverWrites, Writing, Main
<1> QED  BY <1>1, AccountsKept, PTL

\* No task that is still pending revives a job: completed and failed are final,
\* and a cancelled job is never queued again or completed.
THEOREM NoRevivalEver == Spec => NoRevival
<1> DEFINE N == \A j \in Jobs :
        /\ status[j] \in {"completed", "failed"} => status'[j] = status[j]
        /\ status[j] = "cancelled" => status'[j] \notin {"queued", "completed"}
<1>1. AInv /\ [Next]_vars => [N]_vars
  <2> SUFFICES ASSUME AInv, Next PROVE N  OBVIOUS
  <2>0. TypeOK /\ \A j \in Jobs : JobInv(j)  BY DEF AInv, IInv
  <2>1. ASSUME status' = status PROVE N
    <3> SUFFICES ASSUME NEW k \in Jobs PROVE status'[k] = status[k]  OBVIOUS
    <3> QED  BY <2>1
  <2>2. ASSUME NEW j \in Jobs, NEW st, status' = [status EXCEPT ![j] = st],
               status[j] \notin {"completed", "failed"},
               status[j] = "cancelled" => st \notin {"queued", "completed"}
        PROVE  N
    <3> SUFFICES ASSUME NEW k \in Jobs
                 PROVE  /\ status[k] \in {"completed", "failed"} => status'[k] = status[k]
                        /\ status[k] = "cancelled" => status'[k] \notin {"queued", "completed"}
      OBVIOUS
    <3> QED  BY <2>0, <2>2 DEF TypeOK
  <2> HIDE DEF N
  <2>3. ASSUME NEW s \in Submissions, Submit(s) PROVE N
    BY <2>3, SubmitOnce DEF N
  <2>4. CASE Dispatcher
    BY <2>1, <2>4 DEF Dispatcher, Skip, Dispatch, DispatchHeld
  <2>5. ASSUME NEW j \in Jobs, OnRequest(j) PROVE N
    <3>1. CASE CancelQueued(j)
      BY <2>2, <3>1 DEF CancelQueued
    <3>2. CASE Requeue(j)
      BY <2>1, <3>2, RequeueOnce DEF Requeue
    <3>3. CASE CancelProcessing(j) \/ Delete(j)
      BY <2>1, <3>3 DEF CancelProcessing, Delete
    <3> QED  BY <2>5, <3>1, <3>2, <3>3 DEF OnRequest
  <2>6. ASSUME NEW j \in Jobs, Admission(j) PROVE N
    <3>1. pc[j] \in Admitting => status[j] \notin {"completed", "failed"}
      BY <2>0 DEF JobInv, Placed, Admitting
    <3>2. CASE GiveUpSlot(j)
      BY <2>2, <3>1, <3>2 DEF GiveUpSlot, EndEarly, Admitting
    <3>3. CASE FailEarly(j)
      BY <2>2, <3>1, <3>3 DEF FailEarly, EndEarly, Admitting
    <3>4. CASE TakeOutput(j)
      BY <2>1, <2>2, <3>1, <3>4 DEF TakeOutput, Begin, Admitting
    <3>5. CASE StartFolder(j)
      BY <2>2, <3>1, <3>5 DEF StartFolder, Begin, Admitting
    <3> QED
      BY <2>1, <2>6, <3>2, <3>3, <3>4, <3>5 DEF Admission, EnterSpawned, GetSlot, Probe, Defer,
         RefuseOutput, NoParts, TakeFolder, RefuseFolder
  <2>7. ASSUME NEW j \in Jobs, Run(j) PROVE N
    <3>1. pc[j] \in Main => status[j] = "processing"
      BY <2>0 DEF JobInv, Placed
    <3>2. ASSUME NEW st, Finalize(j, st), pc[j] \in Main PROVE N
      BY <2>2, <3>1, <3>2 DEF Finalize
    <3>3. CASE AlreadyDone(j) \/ Fail(j) \/ StopCancelled(j) \/ Complete(j)
      BY <3>2, <3>3 DEF AlreadyDone, Fail, StopCancelled, Complete, Main
    <3> QED
      BY <2>1, <2>7, <3>3 DEF Run, StartConvert, Converted, VerifyStep, Finish
  <2>8. ASSUME NEW f \in Foreign, OnForeign(f) PROVE N
    BY <2>1, <2>8 DEF OnForeign, ForeignTicket, ForeignSlot, ForeignRelease
  <2> QED
    BY <2>3, <2>4, <2>5, <2>6, <2>7, <2>8 DEF Next, OnRequest, OnForeign
<1>2. [][N]_vars => NoRevival  BY PTL DEF NoRevival
<1> QED  BY <1>1, <1>2, AccountsKept, PTL DEF Spec
=============================================================================
