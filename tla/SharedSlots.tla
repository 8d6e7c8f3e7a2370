---------------------------- MODULE SharedSlots ----------------------------
(***************************************************************************)
(* The concurrency limit and the queue order that several processes share  *)
(* through one lock directory (src/app/services/concurrency_manager.py):   *)
(* a counter file that hands out tickets, one ticket file per waiting job, *)
(* and slot files of which a running job holds one with flock.             *)
(*                                                                         *)
(* A file that is unlinked lives on, locks included, for those who have it *)
(* open, and the next to open its name gets a new one; opening a slot file *)
(* and locking it are therefore two steps.  The clean-up of a process that *)
(* starts runs beside the jobs of the others, and a process may die at any *)
(* moment: the kernel frees its locks and leaves its tickets.              *)
(***************************************************************************)
EXTENDS Integers, FiniteSets, FiniteSetsExt

CONSTANTS
    Procs,          \* the processes that share the directory
    Keys,           \* job ids
    Owner,          \* Owner[k]: the process that queues job k
    Rank,           \* Rank[k]: the order of ids, the last to break a tie
    MaxConcurrent,  \* the number of slots
    MaxCrashes,     \* bound: how often a process dies
    Faults,         \* the failures of file operations that may happen
    MaxFaults       \* bound: how many do, each at most once

ASSUME KeysAssumption == IsFiniteSet(Keys) /\ Owner \in [Keys -> Procs] /\ Rank \in [Keys -> Nat]
ASSUME TiesAssumption == \A k, l \in Keys : k # l => Rank[k] # Rank[l]
ASSUME FaultsAssumption == Faults \subseteq {"counter", "empty", "garbled", "ticket"}
ASSUME BoundsAssumption == MaxCrashes \in Nat /\ MaxFaults \in Nat
ASSUME LimitAssumption == MaxConcurrent \in Nat \ {0}
ASSUME ActorsAssumption == Keys \cap Procs = {} /\ "nobody" \notin Keys \cup Procs

Slots == 1..MaxConcurrent
Actors == Keys \cup Procs
\* Files are numbered; a number is used again once no name and no actor has it.
Inodes == 1..(MaxConcurrent * (1 + Cardinality(Procs)) + Cardinality(Actors) + 1)
NoFile == 0
Nobody == "nobody"
Corrupt == -1

VARIABLES
    state,    \* state[p]: "down", "slots", "tickets", "unlink", "up"
    cleaned,  \* cleaned[p]: the slot its clean-up tries next, those it locked, its verdict
    counter,  \* the body of the counter file: a number (an empty body reads as 0)
    fallback, \* fallback[p]: `_fallback_ticket`
    seqs,     \* seqs[p]: `_seq`, the reservations of this life of p
    pc,       \* where the coroutine of a job stands
    num,      \* num[k]: its ticket, 0 before it has one
    seq,      \* seq[k]: its number within its process
    onDisk,   \* the jobs whose ticket file exists
    idx,      \* idx[k]: the slot job k tries or has
    open,     \* open[x]: the slot file job k has open, or the clean-up of p is about to lock
    file,     \* file[i]: the file that bears the name of slot i
    flock,    \* flock[f]: who holds the lock on file f
    torn,     \* a clean-up has unlinked a slot file that another actor had open
    unseen,   \* a counter was rebuilt while a job that waits had no ticket file
    crashes, faults

procVars == <<state, cleaned>>
tickVars == <<counter, fallback, seqs, num, seq, unseen>>
slotVars == <<open, file, flock, torn>>
vars == <<state, cleaned, counter, fallback, seqs, pc, num, seq, onDisk, idx, open, file,
          flock, torn, unseen, crashes, faults>>

Fresh == [slot |-> 1, held |-> {}, busy |-> FALSE]

\* All processes are up, with an empty directory.
Init ==
    /\ state = [p \in Procs |-> "up"]
    /\ cleaned = [p \in Procs |-> Fresh]
    /\ counter = 0
    /\ fallback = [p \in Procs |-> 0] /\ seqs = [p \in Procs |-> 0]
    /\ pc = [k \in Keys |-> "none"]
    /\ num = [k \in Keys |-> 0] /\ seq = [k \in Keys |-> 0]
    /\ onDisk = {}
    /\ idx = [k \in Keys |-> 1]
    /\ open = [x \in Actors |-> NoFile]
    /\ file = [i \in Slots |-> NoFile]
    /\ flock = [f \in Inodes |-> Nobody]
    /\ torn = FALSE /\ unseen = FALSE /\ crashes = 0 /\ faults = {}

-----------------------------------------------------------------------------
\* Files.

HeldBy(p) == {s[2] : s \in cleaned[p].held}
InUse == {file[i] : i \in Slots} \cup {open[x] : x \in Actors} \cup UNION {HeldBy(p) : p \in Procs}
NewFile == CHOOSE f \in Inodes : f \notin InUse

\* open(path, "ab"): the file of that name, made when there is none (the numbers
\* never run out).
OpenSlot(x, i) ==
    LET f == IF file[i] = NoFile THEN NewFile ELSE file[i] IN
    /\ Inodes \ InUse # {}
    /\ file' = [file EXCEPT ![i] = f]
    /\ open' = [open EXCEPT ![x] = f]

\* flock with LOCK_NB succeeds.
\* Mutant: a busy lock is taken for a free one.
AlwaysLockable(x) == open[x] # NoFile
Lockable(x) == flock[open[x]] = Nobody

-----------------------------------------------------------------------------
\* Tickets.

\* A failure of kind e, or none.
Fails(e, happens) ==
    /\ happens => e \in Faults \ faults /\ Cardinality(faults) < MaxFaults
    /\ faults' = IF happens THEN faults \cup {e} ELSE faults

\* _list_tickets: the files by ticket, then by number within the process, then by id.
Before(k, l) ==
    \/ num[k] < num[l]
    \/ num[k] = num[l] /\ seq[k] < seq[l]
    \/ num[k] = num[l] /\ seq[k] = seq[l] /\ Rank[k] < Rank[l]
HasTurn(k) == Cardinality({l \in onDisk : Before(l, k)}) < MaxConcurrent

\* _highest_known_ticket: the counter, when it can be read, and the ticket files.
HighestKnown(body) == Max({0, body} \cup {num[k] : k \in onDisk})

\* _next_ticket with the counter at hand: its number, or what the tickets tell
\* when its body is corrupt, but above those this process gave without it.
\* Mutant: the counter is believed, whatever was issued without it.
NextOnDisk(p) == (IF counter = Corrupt THEN HighestKnown(counter) ELSE counter) + 1
\* Mutant: a corrupt counter starts again, whatever tickets wait.
NextAfterOwn(p) == Max({counter, fallback[p]}) + 1
NextTicket(p) ==
    LET body == IF counter = Corrupt THEN HighestKnown(counter) ELSE counter
    IN  Max({body, fallback[p]}) + 1

\* reserve_ticket, when the job is queued.  Without the counter the process goes
\* on from its own last ticket.  The ticket file may fail to be written.
Issue(k, t, made) ==
    LET p == Owner[k] IN
    /\ num' = [num EXCEPT ![k] = t]
    /\ fallback' = [fallback EXCEPT ![p] = t]
    /\ seqs' = [seqs EXCEPT ![p] = @ + 1]
    /\ seq' = [seq EXCEPT ![k] = seqs[p] + 1]
    /\ onDisk' = IF made THEN onDisk \cup {k} ELSE onDisk
    /\ pc' = [pc EXCEPT ![k] = "reserved"]
    /\ UNCHANGED <<procVars, idx, slotVars, crashes>>

\* The jobs whose ticket file is written again when it is missed.
Waiting == {k \in Keys : pc[k] \in {"reserved", "turn"}}

Reserve(k) ==
    /\ state[Owner[k]] = "up" /\ pc[k] = "none"
    /\ counter' = NextTicket(Owner[k])
    /\ unseen' = (unseen \/ (counter = Corrupt /\ ~(Waiting \subseteq onDisk)))
    /\ \E made \in BOOLEAN : Fails("ticket", ~made) /\ Issue(k, NextTicket(Owner[k]), made)

ReserveBlind(k) ==
    /\ state[Owner[k]] = "up" /\ pc[k] = "none"
    /\ Fails("counter", TRUE)
    /\ UNCHANGED <<counter, unseen>>
    /\ Issue(k, fallback[Owner[k]] + 1, TRUE)

\* A write of the counter that was cut short: it is no number.
Garble ==
    /\ Fails("garbled", TRUE)
    /\ counter' = Corrupt
    /\ UNCHANGED <<procVars, fallback, seqs, unseen, pc, num, seq, onDisk, idx, slotVars, crashes>>

-----------------------------------------------------------------------------
\* The coroutine of a job: acquire, run, release.

\* acquire begins, and waits for its turn.
Acquire(k) ==
    /\ state[Owner[k]] = "up" /\ pc[k] = "reserved"
    /\ pc' = [pc EXCEPT ![k] = "turn"]
    /\ UNCHANGED <<procVars, tickVars, onDisk, idx, slotVars, crashes, faults>>

\* One round of _wait_for_turn that finds the ticket file missing.
RestoreTicket(k) ==
    /\ pc[k] = "turn" /\ k \notin onDisk
    /\ onDisk' = onDisk \cup {k}
    /\ UNCHANGED <<procVars, tickVars, pc, idx, slotVars, crashes, faults>>

\* One that finds the job among the first.
TakeTurn(k) ==
    /\ pc[k] = "turn" /\ k \in onDisk /\ HasTurn(k)
    /\ pc' = [pc EXCEPT ![k] = "slot"]
    /\ idx' = [idx EXCEPT ![k] = 1]
    /\ UNCHANGED <<procVars, tickVars, onDisk, slotVars, crashes, faults>>

\* The loop of acquire opens a slot file ...
JobOpen(k) ==
    /\ pc[k] = "slot"
    /\ OpenSlot(k, idx[k])
    /\ pc' = [pc EXCEPT ![k] = "opened"]
    /\ UNCHANGED <<procVars, tickVars, onDisk, idx, flock, torn, crashes, faults>>

\* Mutant: the search goes on past the last slot.
SlotBeyond(i) == i + 1
SlotAfter(i) == IF i = MaxConcurrent THEN 1 ELSE i + 1

\* ... and locks it, or goes on to the next and in the end round again.
JobLock(k) ==
    /\ pc[k] = "opened"
    /\ \/ /\ Lockable(k)
          /\ flock' = [flock EXCEPT ![open[k]] = k]
          /\ pc' = [pc EXCEPT ![k] = "held"]
          /\ UNCHANGED <<idx, open>>
       \/ /\ ~Lockable(k)
          /\ open' = [open EXCEPT ![k] = NoFile]
          /\ idx' = [idx EXCEPT ![k] = SlotAfter(@)]
          /\ pc' = [pc EXCEPT ![k] = "slot"]
          /\ UNCHANGED flock
    /\ UNCHANGED <<procVars, tickVars, onDisk, file, torn, crashes, faults>>

\* release: the lock, then the ticket.
Release(k) ==
    /\ pc[k] = "held"
    /\ flock' = [f \in Inodes |-> IF flock[f] = k THEN Nobody ELSE flock[f]]
    /\ open' = [open EXCEPT ![k] = NoFile]
    /\ onDisk' = onDisk \ {k}
    /\ pc' = [pc EXCEPT ![k] = "done"]
    /\ UNCHANGED <<procVars, tickVars, idx, file, torn, crashes, faults>>

\* The job is cancelled: acquire returns FALSE at the next round, and release
\* drops the ticket, as it does for a job that is still queued.
GiveUp(k) ==
    /\ pc[k] \in {"reserved", "turn", "slot"}
    /\ onDisk' = onDisk \ {k}
    /\ pc' = [pc EXCEPT ![k] = "done"]
    /\ UNCHANGED <<procVars, tickVars, idx, slotVars, crashes, faults>>

-----------------------------------------------------------------------------
\* A process dies and starts again: _cleanup_stale_locks.

\* Its jobs are lost, the kernel closes their files, and the tickets stay.
Die(p) ==
    LET gone == {p} \cup {k \in Keys : Owner[k] = p} IN
    /\ state[p] # "down" /\ crashes < MaxCrashes
    /\ crashes' = crashes + 1
    /\ state' = [state EXCEPT ![p] = "down"]
    /\ cleaned' = [cleaned EXCEPT ![p] = Fresh]
    /\ fallback' = [fallback EXCEPT ![p] = 0]
    /\ seqs' = [seqs EXCEPT ![p] = 0]
    /\ pc' = [k \in Keys |-> IF k \in gone /\ pc[k] \notin {"none", "done"} THEN "lost" ELSE pc[k]]
    /\ flock' = [f \in Inodes |-> IF flock[f] \in gone THEN Nobody ELSE flock[f]]
    /\ open' = [x \in Actors |-> IF x \in gone THEN NoFile ELSE open[x]]
    /\ UNCHANGED <<num, seq, unseen, onDisk, idx, file, torn>>

Crash(p) == Die(p) /\ UNCHANGED <<counter, faults>>

\* It dies between the truncation of the counter and the write of its number.
CrashInCounter(p) ==
    /\ state[p] = "up" /\ \E k \in Keys : Owner[k] = p /\ pc[k] = "none"
    /\ Die(p) /\ counter' = 0 /\ Fails("empty", TRUE)

Start(p) ==
    /\ state[p] = "down"
    /\ state' = [state EXCEPT ![p] = "slots"]
    /\ UNCHANGED <<cleaned, tickVars, pc, onDisk, idx, slotVars, crashes, faults>>

\* The slots are opened ...
CleanOpen(p) ==
    /\ state[p] = "slots" /\ open[p] = NoFile
    /\ OpenSlot(p, cleaned[p].slot)
    /\ UNCHANGED <<procVars, tickVars, pc, onDisk, idx, flock, torn, crashes, faults>>

\* ... and locked one after the other; the first that is busy ends the search
\* and frees those locked before.
CleanLock(p) ==
    LET i == cleaned[p].slot IN
    /\ state[p] = "slots" /\ open[p] # NoFile
    /\ \/ /\ Lockable(p)
          /\ flock' = [flock EXCEPT ![open[p]] = p]
          /\ cleaned' = [cleaned EXCEPT ![p].slot = i + 1, ![p].held = @ \cup {<<i, open[p]>>}]
          /\ state' = [state EXCEPT ![p] = IF i = MaxConcurrent THEN "tickets" ELSE @]
       \/ /\ ~Lockable(p)
          /\ flock' = [f \in Inodes |-> IF flock[f] = p THEN Nobody ELSE flock[f]]
          /\ cleaned' = [cleaned EXCEPT ![p].held = {}, ![p].busy = TRUE]
          /\ state' = [state EXCEPT ![p] = "tickets"]
    /\ open' = [open EXCEPT ![p] = NoFile]
    /\ UNCHANGED <<tickVars, pc, onDisk, idx, file, torn, crashes, faults>>

\* Every ticket goes when no slot was busy, else those of dead processes.
\* Mutant: with a busy slot every ticket is kept.
KeepTickets(p) ==
    /\ state[p] = "tickets"
    /\ onDisk' = IF cleaned[p].busy THEN onDisk ELSE {}
    /\ state' = [state EXCEPT ![p] = "unlink"]
    /\ UNCHANGED <<cleaned, tickVars, pc, idx, slotVars, crashes, faults>>
CleanTickets(p) ==
    /\ state[p] = "tickets"
    /\ onDisk' = IF cleaned[p].busy THEN {k \in onDisk : pc[k] # "lost"} ELSE {}
    /\ state' = [state EXCEPT ![p] = "unlink"]
    /\ UNCHANGED <<cleaned, tickVars, pc, idx, slotVars, crashes, faults>>

\* The names of the locked slots are unlinked, whatever file bears them now, the
\* locks dropped, and the process resumes above the tickets it can see.  It
\* reads the counter without its lock: while another writes it, it is empty.
CleanUnlink(p) ==
    LET names == {s[1] : s \in cleaned[p].held}
        cut   == {file[i] : i \in names} \ {NoFile}
    IN
    /\ state[p] = "unlink"
    /\ state' = [state EXCEPT ![p] = "up"]
    /\ cleaned' = [cleaned EXCEPT ![p] = Fresh]
    /\ file' = [i \in Slots |-> IF i \in names THEN NoFile ELSE file[i]]
    /\ flock' = [f \in Inodes |-> IF flock[f] = p THEN Nobody ELSE flock[f]]
    /\ torn' = (torn \/ \E x \in Actors : open[x] \in cut)
    /\ \E body \in {counter} \cup {0 : q \in {r \in Procs \ {p} : state[r] = "up"}} :
          fallback' = [fallback EXCEPT ![p] = HighestKnown(body)]
    /\ UNCHANGED <<counter, seqs, unseen, pc, num, seq, onDisk, idx, open, crashes, faults>>

-----------------------------------------------------------------------------
Next ==
    \/ \E k \in Keys :
          \/ Reserve(k) \/ ReserveBlind(k) \/ Acquire(k) \/ RestoreTicket(k) \/ TakeTurn(k)
          \/ JobOpen(k) \/ JobLock(k) \/ Release(k) \/ GiveUp(k)
    \/ \E p \in Procs :
          \/ Crash(p) \/ CrashInCounter(p) \/ Start(p)
          \/ CleanOpen(p) \/ CleanLock(p) \/ CleanTickets(p) \/ CleanUnlink(p)
    \/ Garble

Spec == Init /\ [][Next]_vars

\* The loops go on, a job that holds a slot ends, and the supervisor restarts a
\* process that died.  Nothing need be queued, cancelled or fail.
JobStep(k) ==
    Acquire(k) \/ RestoreTicket(k) \/ TakeTurn(k) \/ JobOpen(k) \/ JobLock(k) \/ Release(k)
CleanStep(p) == Start(p) \/ CleanOpen(p) \/ CleanLock(p) \/ CleanTickets(p) \/ CleanUnlink(p)
Fairness ==
    /\ \A k \in Keys : WF_vars(JobStep(k))
    /\ \A p \in Procs : WF_vars(CleanStep(p))

FairSpec == Spec /\ Fairness

-----------------------------------------------------------------------------
\* Properties.

TypeOK ==
    /\ state \in [Procs -> {"down", "slots", "tickets", "unlink", "up"}]
    /\ cleaned \in [Procs -> [slot : 1..MaxConcurrent + 1, held : SUBSET (Slots \X Inodes),
                              busy : BOOLEAN]]
    /\ counter \in Nat \cup {Corrupt}
    /\ fallback \in [Procs -> Nat] /\ seqs \in [Procs -> Nat]
    /\ pc \in [Keys -> {"none", "reserved", "turn", "slot", "opened", "held", "done", "lost"}]
    /\ num \in [Keys -> Nat] /\ seq \in [Keys -> Nat]
    /\ onDisk \subseteq Keys
    /\ idx \in [Keys -> Slots]
    /\ open \in [Actors -> Inodes \cup {NoFile}]
    /\ file \in [Slots -> Inodes \cup {NoFile}]
    /\ flock \in [Inodes -> Actors \cup {Nobody}]
    /\ torn \in BOOLEAN /\ unseen \in BOOLEAN /\ crashes \in 0..MaxCrashes /\ faults \subseteq Faults

Gets(k) == num[k] = 0 /\ num'[k] # 0

\* Whatever fails, a process gives every job a ticket above all it gave before
\* in its life, so that the order of its own queue and that of the ticket files
\* agree and the job at the head of one is never behind in the other
\* (concurrency_manager.py:260-267, `_fallback_ticket`).
TicketsGrow ==
    [][\A k, l \in Keys :
          Gets(k) /\ Owner[l] = Owner[k] /\ pc[l] \in {"reserved", "turn", "slot", "opened", "held"}
             => num[l] < num'[k]]_vars

\* As long as the counter can be opened and is not lost empty, a new ticket
\* comes after every ticket in the directory, those of other processes and
\* those kept across a restart included, even when its body is garbage; unless
\* the garbage was replaced while the file of a job that waits was missing,
\* whose ticket the new numbers then need not exceed when it is restored
\* (concurrency_manager.py:207-215, `_highest_known_ticket`).
FifoAcross ==
    [][\A k \in Keys :
          Gets(k) /\ ~unseen /\ faults' \cap {"counter", "empty"} = {}
             => \A l \in onDisk : num[l] < num'[k]]_vars

\* No more jobs hold a slot than there are, in all processes together, unless a
\* clean-up unlinked a slot file that another had open and not yet locked
\* (`acquire`, `_cleanup_stale_locks`).
SlotBound == torn \/ Cardinality({k \in Keys : pc[k] = "held"}) <= MaxConcurrent

\* The slots are shared within their number, on well-formed files.
SlotInv == TypeOK /\ SlotBound

\* A job that waits for its turn comes to hold a slot, ends or dies with its
\* process: neither a ticket file that a clean-up took away nor the ticket of a
\* dead process keeps it waiting for ever (`_wait_for_turn`, `_restore_ticket_file`).
NoStarvation == \A k \in Keys : pc[k] = "turn" ~> pc[k] \in {"held", "done", "lost"}
=============================================================================
