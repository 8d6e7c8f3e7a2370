---------------------------- MODULE SourceDelete ----------------------------
(***************************************************************************)
(* Delete-on-verify: the way of one conversion from the snapshot of its    *)
(* source set, taken while it is planned (routes/convert.py, `plan_job`,   *)
(* and utils/delete_plan.py), to the removal of that set at the end of     *)
(* `_process_job` (services/job_manager.py), against other jobs, the       *)
(* delete request of the file browser (routes/files.py), and whatever else *)
(* writes to the volume.                                                   *)
(*                                                                         *)
(* A source is one file, or a descriptor (.cue, .gdi) and the tracks it    *)
(* names.  What a file holds is a version; a changed file gets a version   *)
(* never seen before, which is what size, mtime_ns, inode and device give. *)
(***************************************************************************)
EXTENDS Integers, FiniteSets

CONSTANTS
    Jobs,         \* conversions with delete_on_verify
    Files,        \* regular files of the volume
    Desc,         \* Desc[j]: the file job j converts (job.file_path)
    Out,          \* Out[j]: the output of job j
    Refs,         \* Refs[f][v]: the tracks that version v of f names
    MaxVersion    \* bound: versions ever written

ASSUME VersionsAssumption == MaxVersion \in Nat \ {0}
ASSUME FilesAssumption ==
    /\ Desc \in [Jobs -> Files] /\ Out \in [Jobs -> Files]
    /\ Refs \in [Files -> [1..MaxVersion -> SUBSET Files]]

VARIABLES
    disk,      \* the version each file has, 0 when it is absent
    clock,     \* the last version written
    pc,        \* where each job stands
    left,      \* the files its present loop has still to visit
    snap,      \* `delete_snapshot`: path -> fingerprint
    read,      \* the version of each file the converter consumed
    gone,      \* the files the job removed
    cancel,    \* jobs whose cancel event is set
    inTime,    \* jobs cancelled before the verdict on the output was acted on
    request    \* files whose removal by a delete request has passed its checks

vars == <<disk, clock, pc, left, snap, read, gone, cancel, inTime, request>>
userVars == <<cancel, inTime, request>>

Versions == 1..MaxVersion
Nothing  == [f \in {} |-> 0]
Maps     == UNION {[F -> Versions] : F \in SUBSET Files}

Running == {"read", "verify", "verdict", "replan", "check", "remove"}
Ended   == {"refused", "done", "kept", "failed", "cancelled"}
Phases  == {"none", "stat", "queued"} \cup Running \cup Ended

\* `_is_active_conversion`: QUEUED or PROCESSING.
IsActive(j) == pc[j] = "queued" \/ pc[j] \in Running

-----------------------------------------------------------------------------
\* The files of the volume.

\* build_delete_plan: the source and the tracks its present content names.
Plan(f) == {f} \cup IF disk[f] = 0 THEN {} ELSE Refs[f][disk[f]]

\* The plan lists no file that is missing.
PlanIsSafe(f) == \A g \in Plan(f) : disk[g] # 0

\* A new version of f.
Write(f) ==
    /\ clock < MaxVersion
    /\ clock' = clock + 1
    /\ disk' = [disk EXCEPT ![f] = clock + 1]

Unlink(f) == disk' = [disk EXCEPT ![f] = 0] /\ UNCHANGED clock

\* `_candidate_paths`: what an active job reads or writes, the tracks of its
\* descriptor as they are listed at this moment.
Candidates(j) == Plan(Desc[j]) \cup {Out[j]}

\* `_is_path_in_use_by_other_job`.
NobodyElse(j, f) == FALSE
InUseByOther(j, f) == \E k \in Jobs \ {j} : IsActive(k) /\ f \in Candidates(k)

\* Job j moves on to a phase with files to visit, or to its next file.
Goto(j, to, files) ==
    pc' = [pc EXCEPT ![j] = to] /\ left' = [left EXCEPT ![j] = files]
Visit(j, f) == Goto(j, pc[j], left[j] \ {f})

Init ==
    /\ disk = [f \in Files |-> IF \E j \in Jobs : Out[j] = f THEN 0 ELSE 1]
    /\ clock = 1
    /\ pc = [j \in Jobs |-> "none"] /\ left = [j \in Jobs |-> {}]
    /\ snap = [j \in Jobs |-> Nothing] /\ read = [j \in Jobs |-> Nothing]
    /\ gone = [j \in Jobs |-> {}]
    /\ cancel = {} /\ inTime = {} /\ request = {}

-----------------------------------------------------------------------------
\* Planning: build_delete_snapshot runs in a thread, before the job exists.

Parse(j) ==
    /\ pc[j] = "none" /\ PlanIsSafe(Desc[j])
    /\ Goto(j, "stat", Plan(Desc[j]))
    /\ UNCHANGED <<disk, clock, snap, read, gone, userVars>>

\* The fingerprint of one file; a file that vanished refuses the request.
VanishedNever(f) == FALSE
Vanished(f) == disk[f] = 0

Stat(j, f) ==
    /\ pc[j] = "stat" /\ f \in left[j]
    /\ IF Vanished(f)
       THEN Goto(j, "refused", {}) /\ UNCHANGED snap
       ELSE /\ Visit(j, f)
            /\ snap' = [snap EXCEPT ![j] =
                   [g \in DOMAIN @ \cup {f} |-> IF g = f THEN disk[f] ELSE @[g]]]
    /\ UNCHANGED <<disk, clock, read, gone, userVars>>

\* The job is created with its snapshot.
Queue(j) ==
    /\ pc[j] = "stat" /\ left[j] = {}
    /\ Goto(j, "queued", {})
    /\ UNCHANGED <<disk, clock, snap, read, gone, userVars>>

-----------------------------------------------------------------------------
\* Conversion and verification.

\* The converter opens the source and learns which tracks to read.
Start(j) ==
    /\ pc[j] = "queued" /\ disk[Desc[j]] # 0
    /\ read' = [read EXCEPT ![j] = [g \in {Desc[j]} |-> disk[g]]]
    /\ Goto(j, "read", Plan(Desc[j]) \ {Desc[j]})
    /\ UNCHANGED <<disk, clock, snap, gone, userVars>>

\* It reads a track.
Read(j, f) ==
    /\ pc[j] = "read" /\ f \in left[j] /\ disk[f] # 0
    /\ read' = [read EXCEPT ![j] =
           [g \in DOMAIN @ \cup {f} |-> IF g = f THEN disk[f] ELSE @[g]]]
    /\ Visit(j, f)
    /\ UNCHANGED <<disk, clock, snap, gone, userVars>>

\* It has written the output.
Converted(j) ==
    /\ pc[j] = "read" /\ left[j] = {}
    /\ Write(Out[j])
    /\ Goto(j, "verify", {})
    /\ UNCHANGED <<snap, read, gone, userVars>>

\* The verifier found the output valid; the verification is put on record.
Verified(j) ==
    /\ pc[j] = "verify" /\ j \notin cancel
    /\ Goto(j, "verdict", {})
    /\ UNCHANGED <<disk, clock, snap, read, gone, userVars>>

\* A converter or a verifier that sees the cancel event ends the job.
StopCancelled(j) ==
    /\ pc[j] \in {"read", "verify"} /\ j \in cancel
    /\ Goto(j, "cancelled", {})
    /\ UNCHANGED <<disk, clock, snap, read, gone, userVars>>

\* A missing source, an invalid output, or any other error on the way.
Fail(j) ==
    /\ pc[j] = "queued" \/ pc[j] \in Running
    /\ Goto(j, "failed", {})
    /\ UNCHANGED <<disk, clock, snap, read, gone, userVars>>

-----------------------------------------------------------------------------
\* The removal of the source.

\* A cancellation that came during the verification keeps the source.
DecideAnyway(j) == pc[j] = "verdict" /\ Goto(j, "replan", {})
DeleteOrKeep(j) ==
    /\ pc[j] = "verdict"
    /\ Goto(j, IF j \in cancel THEN "kept" ELSE "replan", {})

Decide(j) ==
    /\ DeleteOrKeep(j)
    /\ UNCHANGED <<disk, clock, snap, read, gone, userVars>>

\* The files both loops visit: the paths of the snapshot.
Expected(j) == DOMAIN snap[j]

\* The plan is made again, in a thread, and has to list the same files.
Replan(j) ==
    /\ pc[j] = "replan"
    /\ IF PlanIsSafe(Desc[j]) /\ Plan(Desc[j]) = Expected(j)
       THEN Goto(j, "check", Expected(j))
       ELSE Goto(j, "failed", {})
    /\ UNCHANGED <<disk, clock, snap, read, gone, userVars>>

\* The fingerprint is the one of the snapshot, whose path it is not the output.
SameName(j, f)  == disk[f] # 0 /\ f # Out[j]
Unchanged(j, f) == disk[f] = snap[j][f] /\ f # Out[j]

\* What is checked of one path after the volume check, which runs in a thread.
\* Between two paths, and before the first removal, others may act.
Check(j, f) ==
    /\ pc[j] = "check" /\ f \in left[j]
    /\ IF InUseByOther(j, f) \/ ~Unchanged(j, f) THEN Goto(j, "failed", {})
       ELSE IF left[j] = {f} THEN Goto(j, "remove", Expected(j))
       ELSE Visit(j, f)
    /\ UNCHANGED <<disk, clock, snap, read, gone, userVars>>

\* `delete_order`: the source itself comes last.
AnyOrder(j, f) == f \in left[j]
InOrder(j, f) == f \in left[j] /\ (f = Desc[j] => left[j] = {f})

\* One os.remove, in a thread.  One that raises ends the job (Fail).
Remove(j, f) ==
    /\ pc[j] = "remove" /\ InOrder(j, f) /\ disk[f] # 0
    /\ Unlink(f)
    /\ gone' = [gone EXCEPT ![j] = @ \cup {f}]
    /\ IF left[j] = {f} THEN Goto(j, "done", {}) ELSE Visit(j, f)
    /\ UNCHANGED <<snap, read, userVars>>

-----------------------------------------------------------------------------
\* The user, the file browser, and everything else that writes to the volume.

\* cancel_job, of a queued or of a running job.
Cancel(j) ==
    /\ IsActive(j) /\ j \notin cancel
    /\ cancel' = cancel \cup {j}
    /\ inTime' = IF pc[j] \in {"queued", "read", "verify", "verdict"}
                 THEN inTime \cup {j} ELSE inTime
    /\ IF pc[j] = "queued" THEN Goto(j, "cancelled", {}) ELSE UNCHANGED <<pc, left>>
    /\ UNCHANGED <<disk, clock, snap, read, gone, request>>

\* `_assert_path_not_in_use`, of one file.  It reads the job table twice; its
\* last look, find_active_job_for_path, decides.
InUse(f) == \E j \in Jobs : IsActive(j) /\ f \in Candidates(j)

\* delete_file: the path exists and no active job uses it ...
AskDelete(f) ==
    /\ f \notin request /\ disk[f] # 0
    /\ ~InUse(f)
    /\ request' = request \cup {f}
    /\ UNCHANGED <<disk, clock, pc, left, snap, read, gone, cancel, inTime>>

\* ... and the file is removed in a later step of the request; delete_files_batch
\* does both for one path after the other.
RouteRemove(f) ==
    /\ f \in request
    /\ request' = request \ {f}
    /\ IF disk[f] # 0 THEN Unlink(f) ELSE UNCHANGED <<disk, clock>>
    /\ UNCHANGED <<pc, left, snap, read, gone, cancel, inTime>>

\* Someone outside the program replaces or removes a file.
Edit(f) ==
    /\ Write(f) \/ (disk[f] # 0 /\ Unlink(f))
    /\ UNCHANGED <<pc, left, snap, read, gone, userVars>>

-----------------------------------------------------------------------------
Convert(j) ==
    \/ Parse(j) \/ Queue(j) \/ Start(j) \/ Converted(j) \/ Verified(j)
    \/ StopCancelled(j) \/ Fail(j) \/ Decide(j) \/ Replan(j)
    \/ \E f \in Files : Stat(j, f) \/ Read(j, f) \/ Check(j, f) \/ Remove(j, f)

Next ==
    \/ \E j \in Jobs : Convert(j) \/ Cancel(j)
    \/ \E f \in Files : AskDelete(f) \/ RouteRemove(f) \/ Edit(f)

Spec == Init /\ [][Next]_vars

-----------------------------------------------------------------------------
\* Every variable keeps its type: no fingerprint is one of an absent file, and
\* the removal stays within the paths confirmed when the job was planned.
TypeOK ==
    /\ disk \in [Files -> 0..MaxVersion] /\ clock \in Versions
    /\ pc \in [Jobs -> Phases] /\ left \in [Jobs -> SUBSET Files]
    /\ snap \in [Jobs -> Maps] /\ read \in [Jobs -> Maps]
    /\ gone \in [Jobs -> SUBSET Files]
    /\ cancel \subseteq Jobs /\ inTime \subseteq cancel /\ request \subseteq Files
    /\ \A j \in Jobs : /\ pc[j] \in {"check", "remove"} => left[j] \subseteq DOMAIN snap[j]
                       /\ gone[j] \subseteq DOMAIN snap[j]

\* A job that goes on to remove its source converted exactly that source: the
\* same files in the same versions, whatever was edited, and when, between its
\* planning and its checks.
OnlyConvertedRemoved ==
    \A j \in Jobs : pc[j] \in {"remove", "done"} => read[j] = snap[j]

\* A removal that stops half-way leaves the descriptor: without it nobody could
\* tell which files belonged together.
DescriptorLast ==
    \A j \in Jobs : Desc[j] \in gone[j] => gone[j] = DOMAIN snap[j]

\* A cancel that came before the verdict was acted on costs no source file.
CancelKeepsSource == \A j \in inTime : gone[j] = {}

\* Two jobs each of which would remove what the other converts, those of one
\* descriptor among them, never both pass their checks.  (Of two descriptors
\* with a track in common, one edited between two checks of its job, they may.)
OneRemover ==
    \A j, k \in Jobs :
        j # k /\ pc[j] = "remove" /\ pc[k] = "remove"
        => ~(Desc[j] \in DOMAIN snap[k] /\ Desc[k] \in DOMAIN snap[j])

\* What a removal may never cost: a set cut off from its descriptor, a file of a
\* job cancelled in time, or a file that another job is about to remove
\* (`delete_order`, the look at the cancel event, `_is_path_in_use_by_other_job`).
RemovalSafe == DescriptorLast /\ CancelKeepsSource /\ OneRemover

\* `_track_candidate_paths`: an active job's inputs are guarded "so rename/delete
\* can't pull one out from under a running conversion".
NotPulledOut ==
    [][\A f \in Files : RouteRemove(f) =>
          \A j \in Jobs : pc[j] = "read" => disk[f] = 0 \/ f \notin Candidates(j)]_vars

=============================================================================
