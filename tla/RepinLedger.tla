----------------------------- MODULE RepinLedger -----------------------------
(***************************************************************************)
(* The ledger that carries a ROM's metadata across a conversion: rows are  *)
(* recorded when a conversion is planned and settled once RomM has scanned *)
(* the output (services/romm/repin.py, and the plan, cancel, settle and    *)
(* settings routes of routes/romm.py).                                     *)
(*                                                                         *)
(* All conversions here write one output.  A tab records before it submits *)
(* and may be closed at any moment; a sweep submits first.  A version of   *)
(* the output is named after the client whose job wrote it.  Left out: a   *)
(* tab that learns from the answer to its submission that the queue chose  *)
(* another name, and records once more, for that name (output_paths).      *)
(***************************************************************************)
EXTENDS Integers, Sequences, FiniteSets, FiniteSetsExt

CONSTANTS
    Tabs, Sweeps,       \* the clients, each of which plans one conversion
    Source,             \* [client -> the source file it converts]
    MaxInst,            \* bound: RomM instances pointed at
    MaxFaults           \* bound: crashes, failed requests and failed clean-ups

Clients == Tabs \cup Sweeps
ASSUME RepinLedgerAssumption ==
    /\ IsFiniteSet(Clients) /\ Tabs \cap Sweeps = {}
    /\ MaxInst \in Nat \ {0} /\ MaxFaults \in Nat
    /\ Clients \cap {"none", "old", "partial"} = {}

VARIABLES
    rows,    \* the table, in the order of ids
    file,    \* "none", "old", "partial", or the client whose job wrote it
    job,     \* the job of each client: "none", "queued", "running", "over"
    pc,      \* where each client stands
    saw,     \* what its plan has read: the generation, ids' instance, fingerprint
    inst,    \* the RomM instance and library that are configured
    owed,    \* the clean-up after a change of it has not been done
    lock,    \* _settle_lock: "free", "pass", or the step of a clean-up
    pass,    \* the row a settle pass is at, and how far it is
    cursor,  \* where the next pass goes on
    known,   \* the versions of the output that RomM has indexed
    pushed,  \* history: the row, version, instance and marker of every update
    faults   \* how many faults there were

clientVars == <<pc, saw>>
diskVars   == <<file, job>>
rommVars   == <<known, pushed>>
passVars   == <<pass, cursor>>
vars == <<rows, file, job, pc, saw, inst, owed, lock, pass, cursor, known, pushed, faults>>

Ids     == DOMAIN rows
Nowhere == [at |-> "none", row |-> 0, sha |-> "none"]
Fault == faults < MaxFaults /\ faults' = faults + 1

Init ==
    \* An earlier conversion has left an output.
    /\ rows = <<>> /\ file = "old" /\ job = [c \in Clients |-> "none"]
    /\ pc = [c \in Clients |-> "idle"]
    /\ saw = [c \in Clients |-> [gen |-> 0, from |-> 0, pre |-> "none", row |-> 0]]
    /\ inst = 1 /\ owed = FALSE /\ lock = "free"
    /\ pass = Nowhere /\ cursor = 0
    /\ known = {} /\ pushed = {}
    /\ faults = 0

-----------------------------------------------------------------------------
\* Jobs.

Active  == {c \in Clients : job[c] \in {"queued", "running"}}

\* The queue refuses a destination that another job holds.
Submit(c, to) ==
    IF Active = {}
    THEN job' = [job EXCEPT ![c] = "queued"] /\ pc' = [pc EXCEPT ![c] = to]
    ELSE UNCHANGED job /\ pc' = [pc EXCEPT ![c] = IF c \in Tabs THEN "refused" ELSE "end"]

\* The tool creates its output as it starts, in place of what was there.
JobStarts(c) ==
    /\ job[c] = "queued" /\ job' = [job EXCEPT ![c] = "running"] /\ file' = "partial"
    /\ UNCHANGED <<rows, clientVars, inst, owed, lock, passVars, rommVars, faults>>

JobEnds(c) ==
    /\ c \in Active /\ job' = [job EXCEPT ![c] = "over"]
    /\ IF job[c] = "running" THEN file' \in {c, "none"} ELSE UNCHANGED file
    /\ UNCHANGED <<rows, clientVars, inst, owed, lock, passVars, rommVars, faults>>

-----------------------------------------------------------------------------
\* The table.  A row keeps the instance its ids were read from.

Pending(r)     == rows[r].state = "pending"
Outstanding(r) == rows[r].state \in {"pending", "settling", "stale"}
NewerPending(r) == \E q \in Ids \ {r} : Pending(q)

\* _supersede_pending, then _insert_pending.
StackPending(table) == table
Superseded(table) ==
    [r \in DOMAIN table |->
        IF table[r].state = "pending" THEN [table[r] EXCEPT !.state = "abandoned"] ELSE table[r]]
Record(c) ==
    rows' = Append(Superseded(rows),
                   [src |-> Source[c], from |-> saw[c].from, pre |-> saw[c].pre,
                    sha |-> "none", state |-> "pending"])

SetState(r, s) == rows' = [rows EXCEPT ![r].state = s]

\* retire_all_pending.
Retired(table) ==
    [r \in DOMAIN table |->
        IF table[r].state \in {"pending", "settling", "stale"}
        THEN [table[r] EXCEPT !.state = "abandoned"] ELSE table[r]]

\* claim: a pending row, or a stale claim that no newer pending row covers.
ClaimsAny(r)  == Outstanding(r)
MayClaim(r) == Pending(r) \/ (rows[r].state = "stale" /\ ~NewerPending(r))

\* release: back to pending, unless a newer row covers the output.
ReleasedTo(r) == IF NewerPending(r) THEN "abandoned" ELSE "pending"

\* A claim that nobody works on is stale after _CLAIM_STALE_SECONDS.
ClaimAges(r) ==
    /\ rows[r].state = "settling" /\ pass.row # r
    /\ SetState(r, "stale")
    /\ UNCHANGED <<diskVars, clientVars, inst, owed, lock, passVars, rommVars, faults>>

-----------------------------------------------------------------------------
\* A tab: plan, submit, and cancel what was not accepted.

PlanBegins(c) ==
    /\ c \in Tabs /\ pc[c] = "idle" /\ ~owed
    /\ pc' = [pc EXCEPT ![c] = "begun"] /\ saw' = [saw EXCEPT ![c].gen = inst]
    /\ UNCHANGED <<rows, diskVars, inst, owed, lock, passVars, rommVars, faults>>

\* The catalog is read, then the destination: a job that is going to write
\* there owns the row for it.
PlanMatches(c) ==
    /\ pc[c] = "begun"
    /\ pc' = [pc EXCEPT ![c] = IF Active = {} THEN "matched" ELSE "ready"]
    /\ saw' = [saw EXCEPT ![c].from = inst]
    /\ UNCHANGED <<rows, diskVars, inst, owed, lock, passVars, rommVars, faults>>

PlanLooks(c) ==
    /\ pc[c] = "matched"
    /\ pc' = [pc EXCEPT ![c] = "looked"] /\ saw' = [saw EXCEPT ![c].pre = file]
    /\ UNCHANGED <<rows, diskVars, inst, owed, lock, passVars, rommVars, faults>>

\* The write phase, under the lock.
CheckedEarlier(c) == TRUE
SameIdentity(c)   == saw[c].gen = inst /\ ~owed
PlanRecords(c) ==
    /\ pc[c] = "looked" /\ lock = "free"
    /\ IF SameIdentity(c)
       THEN /\ Record(c) /\ saw' = [saw EXCEPT ![c].row = Len(rows) + 1]
            /\ pc' = [pc EXCEPT ![c] = "ready"]
       ELSE UNCHANGED <<rows, saw>> /\ pc' = [pc EXCEPT ![c] = "end"]
    /\ UNCHANGED <<diskVars, inst, owed, lock, passVars, rommVars, faults>>

TabSubmits(c) ==
    /\ pc[c] = "ready" /\ Submit(c, "end")
    /\ UNCHANGED <<rows, file, saw, inst, owed, lock, passVars, rommVars, faults>>

\* The rows whose own conversion is queued are kept: asked first, then the
\* rest is retired.
CancelAsks(c) ==
    /\ pc[c] = "refused"
    /\ pc' = [pc EXCEPT ![c] =
         IF saw[c].row = 0 \/ \E a \in Active : Source[a] = Source[c] THEN "end" ELSE "cancels"]
    /\ UNCHANGED <<rows, diskVars, saw, inst, owed, lock, passVars, rommVars, faults>>

CancelRetires(c) ==
    /\ pc[c] = "cancels" /\ pc' = [pc EXCEPT ![c] = "end"]
    /\ IF Pending(saw[c].row) THEN SetState(saw[c].row, "abandoned") ELSE UNCHANGED rows
    /\ UNCHANGED <<diskVars, saw, inst, owed, lock, passVars, rommVars, faults>>

\* A sweep looks, submits, then records; an identity change waits for it.
SweepLooks(c) ==
    /\ c \in Sweeps /\ pc[c] = "idle" /\ ~owed /\ lock \in {"free", "pass"}
    /\ pc' = [pc EXCEPT ![c] = "looked at"]
    /\ saw' = [saw EXCEPT ![c].from = inst, ![c].pre = file]
    /\ UNCHANGED <<rows, diskVars, inst, owed, lock, passVars, rommVars, faults>>

SweepSubmits(c) ==
    /\ pc[c] = "looked at" /\ Submit(c, "queued")
    /\ UNCHANGED <<rows, file, saw, inst, owed, lock, passVars, rommVars, faults>>

SweepRecords(c) ==
    /\ pc[c] = "queued" /\ Record(c) /\ pc' = [pc EXCEPT ![c] = "end"]
    /\ UNCHANGED <<diskVars, saw, inst, owed, lock, passVars, rommVars, faults>>

Sweeping == \E c \in Sweeps : pc[c] \in {"looked at", "queued"}

-----------------------------------------------------------------------------
\* A settle pass.  It walks the rows from the cursor and may stop after each.

OnlyUnclaimed == {r \in Ids : Pending(r)}
Listed        == {r \in Ids : rows[r].state \in {"pending", "stale"}}

After(r) == {q \in Listed : q > r}
Examine(r) == pass' = [at |-> "probe", row |-> r, sha |-> rows[r].sha]

\* The pass in the background starts only while no clean-up is owed, the one a
\* request starts does not ask.
PassStarts ==
    /\ lock = "free" /\ Listed # {}
    /\ lock' = "pass"
    /\ Examine(Min(IF After(cursor) # {} THEN After(cursor) ELSE Listed))
    /\ UNCHANGED <<rows, diskVars, clientVars, inst, owed, cursor, rommVars, faults>>

\* The next row, or the end of the pass.
StopUnfinished ==
    /\ UNCHANGED pass /\ lock' = "free"
    /\ cursor' = IF After(pass.row) = {} THEN 0 ELSE pass.row
Stop ==
    /\ pass' = Nowhere /\ lock' = "free"
    /\ cursor' = IF After(pass.row) = {} THEN 0 ELSE pass.row
Leave ==
    \/ Stop
    \/ /\ After(pass.row) # {} /\ Examine(Min(After(pass.row)))
       /\ UNCHANGED <<lock, cursor>>

Advance(to) == pass' = [pass EXCEPT !.at = to] /\ UNCHANGED <<lock, cursor>>

\* A file that was there when the row was recorded is not the output.
Present == file # "none" /\ file # rows[pass.row].pre
ProbeOutput ==
    /\ pass.at = "probe"
    /\ Advance(IF Present THEN "locked" ELSE IF pass.sha = "none" THEN "absent" ELSE "find")
    /\ UNCHANGED <<rows, diskVars, clientVars, inst, owed, rommVars, faults>>

\* Nothing there, or nothing that RomM knows: wait, and after
\* repin_abandon_days give up, but not while a job means to write.
Absent ==
    /\ pass.at = "absent" /\ Leave
    /\ UNCHANGED <<rows, diskVars, clientVars, inst, owed, rommVars, faults>>

Hopeless ==
    \/ pass.at = "absent" /\ Active = {}
    \/ pass.at = "find" /\ pass.sha \notin known
GiveUp ==
    /\ Hopeless /\ Leave
    /\ IF Outstanding(pass.row) THEN SetState(pass.row, "abandoned") ELSE UNCHANGED rows
    /\ UNCHANGED <<diskVars, clientVars, inst, owed, rommVars, faults>>

\* Never hash what a job is writing or is going to replace.
CheckLock ==
    /\ pass.at = "locked"
    /\ IF Active # {} THEN Leave ELSE Advance(IF pass.sha = "none" THEN "hash" ELSE "find")
    /\ UNCHANGED <<rows, diskVars, clientVars, inst, owed, rommVars, faults>>

\* The digest stands for the version that was read; a file that is gone is
\* tried again.
HashOutput ==
    /\ pass.at = "hash"
    /\ IF file = "none" THEN Leave
       ELSE pass' = [pass EXCEPT !.at = "store", !.sha = file] /\ UNCHANGED <<lock, cursor>>
    /\ UNCHANGED <<rows, diskVars, clientVars, inst, owed, rommVars, faults>>

StoreSha ==
    /\ pass.at = "store" /\ Advance("find")
    /\ rows' = IF Pending(pass.row) THEN [rows EXCEPT ![pass.row].sha = pass.sha] ELSE rows
    /\ UNCHANGED <<diskVars, clientVars, inst, owed, rommVars, faults>>

FindMatch ==
    /\ pass.at = "find"
    /\ \/ pass.sha \in known /\ Advance("claim") /\ UNCHANGED faults
       \/ pass.sha \notin known /\ Leave /\ UNCHANGED faults
       \/ Fault /\ Stop
    /\ UNCHANGED <<rows, diskVars, clientVars, inst, owed, rommVars>>

Claim ==
    /\ pass.at = "claim"
    /\ IF MayClaim(pass.row)
       THEN SetState(pass.row, "settling") /\ Advance("push")
       ELSE /\ IF rows[pass.row].state = "stale"
               THEN SetState(pass.row, "abandoned") ELSE UNCHANGED rows
            /\ Leave
    /\ UNCHANGED <<diskVars, clientVars, inst, owed, rommVars, faults>>

Push ==
    /\ pass.at = "push"
    /\ \/ /\ pushed' = pushed \cup {[row |-> pass.row, version |-> pass.sha, to |-> inst, owed |-> owed]}
          /\ Advance("close") /\ UNCHANGED faults
       \/ Fault /\ Advance("release") /\ UNCHANGED pushed
    /\ UNCHANGED <<rows, diskVars, clientVars, inst, owed, known>>

Release ==
    /\ pass.at = "release" /\ Stop
    /\ IF rows[pass.row].state = "settling"
       THEN SetState(pass.row, ReleasedTo(pass.row)) ELSE UNCHANGED rows
    /\ UNCHANGED <<diskVars, clientVars, inst, owed, rommVars, faults>>

Settle ==
    /\ pass.at = "close" /\ Leave
    /\ IF Outstanding(pass.row) THEN SetState(pass.row, "done") ELSE UNCHANGED rows
    /\ UNCHANGED <<diskVars, clientVars, inst, owed, rommVars, faults>>

-----------------------------------------------------------------------------
\* Another instance is configured: the marker is saved together with it, then
\* its rows are retired, then the marker is cleared.

SaveIdentity ==
    /\ lock = "free" /\ ~Sweeping /\ inst < MaxInst
    /\ inst' = inst + 1 /\ owed' = TRUE /\ known' = {} /\ lock' = "retire"
    /\ UNCHANGED <<rows, diskVars, clientVars, passVars, pushed, faults>>

RetireRows ==
    /\ lock = "retire"
    /\ \/ rows' = Retired(rows) /\ lock' = "clear" /\ UNCHANGED faults
       \/ Fault /\ lock' = "free" /\ UNCHANGED rows
    /\ UNCHANGED <<diskVars, clientVars, inst, owed, passVars, rommVars>>

ClearOwed ==
    /\ lock = "clear" /\ owed' = FALSE /\ lock' = "free"
    /\ UNCHANGED <<rows, diskVars, clientVars, inst, passVars, rommVars, faults>>

\* identity_cleanup_is_owed, and the next save.
RetryCleanup ==
    /\ lock = "free" /\ owed /\ ~Sweeping /\ lock' = "retire"
    /\ UNCHANGED <<rows, diskVars, clientVars, inst, owed, passVars, rommVars, faults>>

\* A crash takes the jobs, the requests and the lock; a clean-up that is owed
\* is replayed before requests are served.
InRequest == {"begun", "matched", "looked", "cancels", "looked at", "queued"}
Crash ==
    /\ Fault
    /\ job' = [c \in Clients |-> IF c \in Active THEN "over" ELSE job[c]]
    /\ pc' = [c \in Clients |-> IF pc[c] \in InRequest THEN "end" ELSE pc[c]]
    /\ lock' = (IF owed THEN "retire" ELSE "free") /\ pass' = Nowhere
    /\ UNCHANGED <<rows, file, saw, inst, owed, cursor, rommVars>>

\* RomM scans the library.
Scan ==
    /\ file \notin {"none", "partial"} /\ file \notin known
    /\ known' = known \cup {file}
    /\ UNCHANGED <<rows, diskVars, clientVars, inst, owed, lock, passVars, pushed, faults>>

-----------------------------------------------------------------------------
Job(c)  == JobStarts(c) \/ JobEnds(c)
Client(c) ==
    \/ PlanBegins(c) \/ PlanMatches(c) \/ PlanLooks(c) \/ PlanRecords(c) \/ TabSubmits(c)
    \/ CancelAsks(c) \/ CancelRetires(c)
    \/ SweepLooks(c) \/ SweepSubmits(c) \/ SweepRecords(c)
Passing ==
    \/ PassStarts \/ ProbeOutput \/ Absent \/ GiveUp \/ CheckLock \/ HashOutput \/ StoreSha \/ FindMatch
    \/ Claim \/ Push \/ Release \/ Settle
Identity == SaveIdentity \/ RetireRows \/ ClearOwed \/ RetryCleanup

Next ==
    \/ \E c \in Clients : Job(c) \/ Client(c)
    \/ \E r \in Ids : ClaimAges(r)
    \/ Passing \/ Identity \/ Crash \/ Scan

Spec == Init /\ [][Next]_vars

\* Jobs end, passes and clean-ups go on, and a row that no pass can settle comes
\* of age.  Clients and RomM's
\* scans are under no obligation.
MaxRows == Cardinality(Clients)
FairSpec ==
    /\ Spec
    /\ \A c \in Clients : WF_vars(JobEnds(c))
    /\ SF_vars(Passing) /\ SF_vars(GiveUp) /\ WF_vars(RetireRows \/ ClearOwed) /\ SF_vars(RetryCleanup)
    /\ \A r \in 1..MaxRows : WF_vars(r \in Ids /\ ClaimAges(r))

-----------------------------------------------------------------------------
\* Properties.

TypeOK ==
    /\ \A r \in Ids :
         /\ rows[r].src \in {Source[c] : c \in Clients} /\ rows[r].from \in 1..MaxInst
         /\ rows[r].pre \in {"none", "old", "partial"} \cup Clients
         /\ rows[r].sha \in {"none", "old", "partial"} \cup Clients
         /\ rows[r].state \in {"pending", "settling", "stale", "done", "abandoned"}
    /\ file \in {"none", "old", "partial"} \cup Clients
    /\ job \in [Clients -> {"none", "queued", "running", "over"}]
    /\ pc \in [Clients -> InRequest \cup {"idle", "ready", "refused", "end"}]
    /\ \A c \in Clients : saw[c].row \in Ids \cup {0} /\ saw[c].gen \in 0..MaxInst
    /\ inst \in 1..MaxInst /\ owed \in BOOLEAN
    /\ lock \in {"free", "pass", "retire", "clear"}
    /\ pass.row \in Ids \cup {0} /\ cursor \in Ids \cup {0}
    /\ (lock = "pass") <=> (pass.at # "none")
    /\ faults \in 0..MaxFaults

\* At most one pending row for the output, through re-plans, claims that are
\* handed back and crashes: what the partial unique index demands of every
\* writer, so that no write ends in an IntegrityError.
OnePending == Cardinality({r \in Ids : Pending(r)}) <= 1

\* The ledger is well formed and has one pending row for the output.
LedgerInv == TypeOK /\ OnePending

\* The ids of one RomM instance are never pushed to another once the change has
\* been cleaned up after, although the plan that read them, the pass that
\* carries them and the change itself take several steps, each of which may be
\* the last.  (While a clean-up that failed is owed, a requested pass may.)
RightInstance == \A p \in pushed : rows[p.row].from = p.to \/ p.owed

\* A row is never taken up, for the first time or after a crash, while a newer
\* plan for the output is waiting.
NewerPlanWins ==
    [][\A r \in Ids : rows[r].state # "settling" /\ rows'[r].state = "settling"
                        => ~NewerPending(r)]_vars

\* No row is left behind: it is settled or given up, also when the process that
\* had claimed it died, and also when RomM never shows its output.
NoRowStranded ==
    \A r \in 1..MaxRows : (r \in Ids) ~> (r \in Ids /\ ~Outstanding(r))

\* Every row moves on to its end, and none is taken up over a newer one
\* (`claim`, `reset_stale`, the settle pass).
LedgerMoves == NewerPlanWins /\ NoRowStranded

\* The comment in romm_repin_cancel: a row must not let "the settle pass" stamp
\* one game's identity onto the output of another.
RightIdentity ==
    \A p \in pushed : p.version \in Clients => Source[p.version] = rows[p.row].src

=============================================================================
