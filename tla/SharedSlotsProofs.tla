------------------------- MODULE SharedSlotsProofs -------------------------
(***************************************************************************)
(* Theorems about SharedSlots for any number of processes, jobs, slots,    *)
(* crashes and failures: types, the bound on jobs that hold a slot, and    *)
(* that the tickets of one process grow.                                   *)
(***************************************************************************)
EXTENDS SharedSlots, FiniteSetTheorems, TLAPS

-----------------------------------------------------------------------------
\* Maxima.

\* A set of two integers has a maximum.
LEMMA MaxOfTwo ==
    ASSUME NEW a \in Int, NEW b \in Int
    PROVE  /\ Max({a, b}) \in Int /\ Max({a, b}) >= a /\ Max({a, b}) >= b
           /\ (a \in Nat /\ b \in Nat => Max({a, b}) \in Nat)
<1>1. \E x \in {a, b} : \A y \in {a, b} : x >= y
  <2>1. CASE a >= b  BY <2>1
  <2>2. CASE ~(a >= b)  BY <2>2
  <2> QED  BY <2>1, <2>2
<1>2. Max({a, b}) \in {a, b} /\ \A y \in {a, b} : Max({a, b}) >= y
  BY <1>1 DEF Max
<1> QED  BY <1>2

\* A finite set of naturals that is not empty has a maximum.
LEMMA MaxOfFinite ==
    ASSUME NEW S \in SUBSET Nat, IsFiniteSet(S), S # {}
    PROVE  Max(S) \in S /\ \A y \in S : Max(S) >= y
<1> DEFINE HasMax(T) == \E x \in T : \A y \in T : x >= y
           Without == {T \in FiniteSubsetsOf(Nat) : T # {} /\ ~HasMax(T)}
<1>1. Without = {}
  <2>1. SUFFICES ASSUME Without # {} PROVE FALSE  OBVIOUS
  <2>2. Without \subseteq FiniteSubsetsOf(Nat)  OBVIOUS
  <2>3. IsWellFoundedOn(StrictSubsetOrdering(Nat), FiniteSubsetsOf(Nat))
    BY FS_StrictSubsetOrderingWellFounded
  <2> HIDE DEF Without
  <2>4. PICK T \in Without : \A U \in Without : <<U, T>> \notin StrictSubsetOrdering(Nat)
    BY <2>1, <2>2, <2>3, WFMin
  <2> USE DEF Without
  <2>5. T \in SUBSET Nat /\ IsFiniteSet(T) /\ T # {} /\ ~HasMax(T)
    BY DEF FiniteSubsetsOf
  <2>6. PICK x \in T : TRUE  BY <2>5
  <2>7. T \ {x} \in FiniteSubsetsOf(Nat)
    BY <2>5, FS_RemoveElement DEF FiniteSubsetsOf
  <2>8. <<T \ {x}, T>> \in StrictSubsetOrdering(Nat)
    BY <2>5, <2>6 DEF StrictSubsetOrdering
  <2>9. T \ {x} = {} \/ HasMax(T \ {x})  BY <2>4, <2>7, <2>8
  <2>10. CASE T \ {x} = {}
    <3>1. \A y \in T : x >= y  BY <2>5, <2>6, <2>10
    <3> QED  BY <2>5, <2>6, <3>1
  <2>11. CASE HasMax(T \ {x})
    <3>1. PICK z \in T \ {x} : \A y \in T \ {x} : z >= y  BY <2>11
    <3>2. CASE z >= x
      <4>1. \A y \in T : z >= y  BY <3>1, <3>2
      <4> QED  BY <2>5, <4>1
    <3>3. CASE ~(z >= x)
      <4>1. \A y \in T : x >= y  BY <2>5, <2>6, <3>1, <3>3
      <4> QED  BY <2>5, <2>6, <4>1
    <3> QED  BY <3>2, <3>3
  <2> QED  BY <2>9, <2>10, <2>11
<1>2. HasMax(S)  BY <1>1 DEF FiniteSubsetsOf
<1> QED  BY <1>2 DEF Max

\* The highest known ticket is a natural number, a corrupt counter included.
LEMMA HighestKnownType ==
    ASSUME num \in [Keys -> Nat], onDisk \subseteq Keys, NEW body \in Nat \cup {Corrupt}
    PROVE  HighestKnown(body) \in Nat
<1> DEFINE Shown == {num[k] : k \in onDisk}
           f == [k \in onDisk |-> num[k]]
<1>1. IsFiniteSet(onDisk)  BY KeysAssumption, FS_Subset
<1>2. f \in Surjection(onDisk, Shown)  BY DEF Surjection
<1>3. IsFiniteSet(Shown)
  <2> HIDE DEF f, Shown
  <2> QED  BY <1>1, <1>2, FS_Surjection
<1>4. Shown \subseteq Nat  OBVIOUS
<1>5. CASE body \in Nat
  <2>1. IsFiniteSet((Shown \cup {0}) \cup {body})
    <3> HIDE DEF Shown
    <3> QED  BY <1>3, FS_AddElement
  <2>2. {0, body} \cup Shown = (Shown \cup {0}) \cup {body}  OBVIOUS
  <2>3. {0, body} \cup Shown \in SUBSET Nat  BY <1>4, <1>5
  <2>4. Max({0, body} \cup Shown) \in {0, body} \cup Shown
    <3> HIDE DEF Shown
    <3> QED  BY <2>1, <2>2, <2>3, MaxOfFinite
  <2> QED  BY <2>3, <2>4 DEF HighestKnown
<1>6. CASE body = Corrupt
  <2>1. IsFiniteSet(Shown \cup {0})
    <3> HIDE DEF Shown
    <3> QED  BY <1>3, FS_AddElement
  <2>2. Shown \cup {0} \in SUBSET Nat /\ Shown \cup {0} # {}  BY <1>4
  <2>3. /\ Max(Shown \cup {0}) \in Shown \cup {0}
        /\ \A y \in Shown \cup {0} : Max(Shown \cup {0}) >= y
    <3> HIDE DEF Shown
    <3> QED  BY <2>1, <2>2, MaxOfFinite
  <2>4. PICK m \in Shown \cup {0} : \A y \in Shown \cup {0} : m >= y  BY <2>3
  <2>5. m \in Nat  BY <2>2
  <2>6. \A y \in {0, body} \cup Shown : m >= y
    BY <1>4, <1>6, <2>4, <2>5 DEF Corrupt
  <2>7. /\ Max({0, body} \cup Shown) \in {0, body} \cup Shown
        /\ \A y \in {0, body} \cup Shown : Max({0, body} \cup Shown) >= y
    BY <2>4, <2>6 DEF Max
  <2>8. Max({0, body} \cup Shown) \in Nat
    BY <1>4, <1>6, <2>7 DEF Corrupt
  <2> QED  BY <2>8 DEF HighestKnown
<1> QED  BY <1>5, <1>6

\* The highest known ticket bounds every ticket in the directory.
LEMMA HighestKnownAbove ==
    ASSUME num \in [Keys -> Nat], onDisk \subseteq Keys, NEW l \in onDisk
    PROVE  HighestKnown(Corrupt) >= num[l]
<1> DEFINE Shown == {num[k] : k \in onDisk}
           f == [k \in onDisk |-> num[k]]
<1>1. IsFiniteSet(onDisk)  BY KeysAssumption, FS_Subset
<1>2. f \in Surjection(onDisk, Shown)  BY DEF Surjection
<1>3. IsFiniteSet(Shown \cup {0})
  <2> HIDE DEF f, Shown
  <2> QED  BY <1>1, <1>2, FS_Surjection, FS_AddElement
<1>4. Shown \cup {0} \in SUBSET Nat /\ Shown \cup {0} # {}  OBVIOUS
<1>5. /\ Max(Shown \cup {0}) \in Shown \cup {0}
      /\ \A y \in Shown \cup {0} : Max(Shown \cup {0}) >= y
  <2> HIDE DEF Shown
  <2> QED  BY <1>3, <1>4, MaxOfFinite
<1>6. PICK m \in Shown \cup {0} : \A y \in Shown \cup {0} : m >= y  BY <1>5
<1>7. m \in Nat  BY <1>4
<1>8. \A y \in {0, Corrupt} \cup Shown : m >= y  BY <1>4, <1>6, <1>7 DEF Corrupt
<1>9. \A y \in {0, Corrupt} \cup Shown : Max({0, Corrupt} \cup Shown) >= y
  BY <1>6, <1>8 DEF Max
<1> QED  BY <1>9 DEF HighestKnown

\* The next ticket is above the counter, or above the tickets in the directory
\* when the counter is corrupt.
LEMMA NextTicketAbove ==
    ASSUME num \in [Keys -> Nat], onDisk \subseteq Keys, counter \in Nat \cup {Corrupt},
           fallback \in [Procs -> Nat], NEW p \in Procs
    PROVE  /\ counter # Corrupt => NextTicket(p) > counter
           /\ counter = Corrupt => \A l \in onDisk : NextTicket(p) > num[l]
<1> DEFINE body == IF counter = Corrupt THEN HighestKnown(counter) ELSE counter
<1>1. body \in Nat  BY HighestKnownType
<1>0. fallback[p] \in Nat  OBVIOUS
<1>2. counter = Corrupt => \A l \in onDisk : body >= num[l]
  BY HighestKnownAbove
<1>3. counter # Corrupt => body = counter  OBVIOUS
<1>4. NextTicket(p) = Max({body, fallback[p]}) + 1  BY DEF NextTicket
<1> HIDE DEF body
<1>5. body \in Int /\ fallback[p] \in Int  BY <1>0, <1>1
<1>6. Max({body, fallback[p]}) \in Int /\ Max({body, fallback[p]}) >= body
  BY ONLY <1>5, MaxOfTwo
<1>7. NextTicket(p) \in Int /\ NextTicket(p) > body  BY <1>1, <1>4, <1>6
<1>8. ASSUME counter = Corrupt, NEW l \in onDisk PROVE NextTicket(p) > num[l]
  <2>1. num[l] \in Nat /\ body >= num[l]  BY <1>2, <1>8
  <2> QED  BY <1>1, <1>7, <2>1
<1>9. counter # Corrupt => NextTicket(p) > counter  BY <1>3, <1>7
<1> QED  BY <1>8, <1>9

\* The next ticket is a natural number above the process's last.
LEMMA NextTicketGrows ==
    ASSUME num \in [Keys -> Nat], onDisk \subseteq Keys, counter \in Nat \cup {Corrupt},
           fallback \in [Procs -> Nat], NEW p \in Procs
    PROVE  NextTicket(p) \in Nat /\ NextTicket(p) > fallback[p]
<1> DEFINE body == IF counter = Corrupt THEN HighestKnown(counter) ELSE counter
<1>1. body \in Nat  BY HighestKnownType
<1>2. fallback[p] \in Nat  OBVIOUS
<1>3. Max({body, fallback[p]}) \in Nat /\ Max({body, fallback[p]}) >= fallback[p]
  <2> HIDE DEF body
  <2> QED  BY <1>1, <1>2, MaxOfTwo
<1>4. NextTicket(p) = Max({body, fallback[p]}) + 1  BY DEF NextTicket
<1> HIDE DEF body
<1> QED  BY <1>2, <1>3, <1>4

-----------------------------------------------------------------------------
\* The inductive invariant.

\* A reservation of a process that is alive lies within its own last ticket.
Reserved == {"reserved", "turn", "slot", "opened", "held"}
TicketsCovered ==
    \A l \in Keys : pc[l] \in Reserved => state[Owner[l]] = "up" /\ num[l] <= fallback[Owner[l]]

\* A clean-up that is not through with the slots is about to try one of them.
SlotsToTry == \A p \in Procs : state[p] \in {"down", "slots"} => cleaned[p].slot \in Slots

\* A job that holds a slot has the lock on the file it opened, and the file it
\* opened bears the name of its slot unless it was torn away.
SlotsHeld ==
    \A k \in Keys :
        /\ pc[k] \in {"opened", "held"} => open[k] # NoFile
        /\ pc[k] = "held" => flock[open[k]] = k
        /\ ~torn /\ pc[k] \in {"opened", "held"} => file[idx[k]] = open[k]

IInv == TypeOK /\ TicketsCovered /\ SlotsToTry /\ SlotsHeld

\* A counter that can be read, that no failure by-passed or emptied and that was
\* not rebuilt while a ticket was missing, is not below any ticket that is in the
\* directory or will be written there again.
CounterAbove ==
    ~unseen /\ faults \cap {"counter", "empty"} = {} /\ counter # Corrupt =>
        \A l \in Waiting \cup onDisk : num[l] <= counter

-----------------------------------------------------------------------------
\* A failure that happens or not keeps the set of failures.
LEMMA FailsType ==
    ASSUME faults \subseteq Faults, NEW e, NEW happens, Fails(e, happens)
    PROVE  faults' \subseteq Faults
BY DEF Fails

\* Opening a slot gives a file, and changes no name that has one.
LEMMA OpenSlotType ==
    ASSUME TypeOK, NEW x \in Actors, NEW i \in Slots, OpenSlot(x, i)
    PROVE  /\ open' \in [Actors -> Inodes \cup {NoFile}]
           /\ file' \in [Slots -> Inodes \cup {NoFile}]
           /\ open'[x] = file'[i] /\ open'[x] \in Inodes
           /\ \A y \in Actors \ {x} : open'[y] = open[y]
           /\ \A n \in Slots : file[n] # NoFile => file'[n] = file[n]
<1> DEFINE f == IF file[i] = NoFile THEN NewFile ELSE file[i]
<1>1. f \in Inodes
  <2>1. CASE file[i] = NoFile
    <3>1. NewFile \in Inodes  BY DEF NewFile, OpenSlot
    <3> QED  BY <2>1, <3>1
  <2>2. CASE file[i] # NoFile  BY <2>2 DEF TypeOK
  <2> QED  BY <2>1, <2>2
<1>2. /\ file' = [file EXCEPT ![i] = f] /\ open' = [open EXCEPT ![x] = f]
      /\ file[i] # NoFile => f = file[i]
  BY DEF OpenSlot
<1> HIDE DEF f
<1> QED  BY <1>1, <1>2 DEF TypeOK

\* Issuing a ticket keeps the types.
LEMMA IssueType ==
    ASSUME TypeOK, NEW k \in Keys, NEW t \in Nat, NEW made \in BOOLEAN, Issue(k, t, made),
           counter' \in Nat \cup {Corrupt}, unseen' \in BOOLEAN, faults' \subseteq Faults
    PROVE  TypeOK'
<1>1. Owner[k] \in Procs  BY KeysAssumption
<1>2. /\ num' \in [Keys -> Nat] /\ fallback' \in [Procs -> Nat] /\ onDisk' \subseteq Keys
  BY <1>1 DEF Issue, TypeOK
<1>3. seqs' \in [Procs -> Nat] /\ seq' \in [Keys -> Nat]
  BY <1>1 DEF Issue, TypeOK
<1>4. pc' \in [Keys -> {"none", "reserved", "turn", "slot", "opened", "held", "done", "lost"}]
  BY DEF Issue, TypeOK
<1> QED  BY <1>2, <1>3, <1>4 DEF Issue, TypeOK, procVars, slotVars

\* The death of a process keeps the types of what it changes.
LEMMA DieType ==
    ASSUME TypeOK, NEW p \in Procs, Die(p),
           counter' \in Nat \cup {Corrupt}, faults' \subseteq Faults
    PROVE  TypeOK'
<1>1. state' \in [Procs -> {"down", "slots", "tickets", "unlink", "up"}]
  BY DEF Die, TypeOK
<1>2. Fresh \in [slot : 1..MaxConcurrent + 1, held : SUBSET (Slots \X Inodes), busy : BOOLEAN]
  BY LimitAssumption DEF Fresh
<1>3. cleaned' \in [Procs -> [slot : 1..MaxConcurrent + 1, held : SUBSET (Slots \X Inodes),
                              busy : BOOLEAN]]
  BY <1>2 DEF Die, TypeOK
<1>4. fallback' \in [Procs -> Nat] /\ seqs' \in [Procs -> Nat]
  BY DEF Die, TypeOK
<1>5. pc' \in [Keys -> {"none", "reserved", "turn", "slot", "opened", "held", "done", "lost"}]
  BY DEF Die, TypeOK
<1>6. flock' \in [Inodes -> Actors \cup {Nobody}] /\ open' \in [Actors -> Inodes \cup {NoFile}]
  BY DEF Die, TypeOK
<1>7. crashes' \in 0..MaxCrashes
  BY BoundsAssumption DEF Die, TypeOK
<1> QED  BY <1>1, <1>3, <1>4, <1>5, <1>6, <1>7 DEF Die, TypeOK

\* The steps of a job keep the types.
LEMMA TypeJob ==
    ASSUME TypeOK, NEW k \in Keys,
           \/ Reserve(k) \/ ReserveBlind(k) \/ Acquire(k) \/ RestoreTicket(k) \/ TakeTurn(k)
           \/ JobOpen(k) \/ JobLock(k) \/ Release(k) \/ GiveUp(k)
    PROVE  TypeOK'
<1> USE DEF procVars, tickVars, slotVars
<1>0. Owner[k] \in Procs /\ k \in Actors /\ 1 \in Slots
  BY KeysAssumption, LimitAssumption DEF Actors, Slots
<1>1. CASE Reserve(k)
  <2>1. NextTicket(Owner[k]) \in Nat  BY <1>0, NextTicketGrows DEF TypeOK
  <2>2. PICK made \in BOOLEAN : Fails("ticket", ~made) /\ Issue(k, NextTicket(Owner[k]), made)
    BY <1>1 DEF Reserve
  <2>3. faults' \subseteq Faults  BY <2>2, FailsType DEF TypeOK
  <2>4. counter' \in Nat \cup {Corrupt} /\ unseen' \in BOOLEAN  BY <1>1, <2>1 DEF Reserve
  <2> QED  BY <2>1, <2>2, <2>3, <2>4, IssueType
<1>2. CASE ReserveBlind(k)
  <2>1. fallback[Owner[k]] + 1 \in Nat  BY <1>0 DEF TypeOK
  <2>2. faults' \subseteq Faults  BY <1>2, FailsType DEF TypeOK, ReserveBlind
  <2>3. counter' \in Nat \cup {Corrupt} /\ unseen' \in BOOLEAN
    BY <1>2 DEF ReserveBlind, TypeOK
  <2> QED  BY <1>2, <2>1, <2>2, <2>3, IssueType DEF ReserveBlind
<1>3. CASE Acquire(k)
  BY <1>3 DEF Acquire, TypeOK
<1>4. CASE RestoreTicket(k)
  BY <1>4 DEF RestoreTicket, TypeOK
<1>5. CASE TakeTurn(k)
  BY <1>0, <1>5 DEF TakeTurn, TypeOK
<1>6. CASE JobOpen(k)
  <2>1. idx[k] \in Slots  BY DEF TypeOK
  <2>2. /\ open' \in [Actors -> Inodes \cup {NoFile}]
        /\ file' \in [Slots -> Inodes \cup {NoFile}]
    BY <1>0, <1>6, <2>1, OpenSlotType DEF JobOpen
  <2> QED  BY <1>6, <2>2 DEF JobOpen, TypeOK
<1>7. CASE JobLock(k)
  <2>1. flock' \in [Inodes -> Actors \cup {Nobody}] /\ open' \in [Actors -> Inodes \cup {NoFile}]
    BY <1>0, <1>7 DEF JobLock, TypeOK
  <2>2. idx' \in [Keys -> Slots]
    <3>1. idx[k] \in Slots  BY DEF TypeOK
    <3>2. SlotAfter(idx[k]) \in Slots  BY <3>1, LimitAssumption DEF SlotAfter, Slots
    <3>3. idx' = idx \/ idx' = [idx EXCEPT ![k] = SlotAfter(idx[k])]
      BY <1>7 DEF JobLock
    <3> QED  BY <3>2, <3>3 DEF TypeOK
  <2>3. pc' \in [Keys -> {"none", "reserved", "turn", "slot", "opened", "held", "done", "lost"}]
    BY <1>7 DEF JobLock, TypeOK
  <2> QED  BY <1>7, <2>1, <2>2, <2>3 DEF JobLock, TypeOK
<1>8. CASE Release(k)
  BY <1>0, <1>8 DEF Release, TypeOK
<1>9. CASE GiveUp(k)
  BY <1>9 DEF GiveUp, TypeOK
<1> QED  BY <1>1, <1>2, <1>3, <1>4, <1>5, <1>6, <1>7, <1>8, <1>9

\* The steps of a process keep the types.
LEMMA TypeProcess ==
    ASSUME TypeOK, SlotsToTry, NEW p \in Procs,
           \/ Crash(p) \/ CrashInCounter(p) \/ Start(p)
           \/ CleanOpen(p) \/ CleanLock(p) \/ CleanTickets(p) \/ CleanUnlink(p)
    PROVE  TypeOK'
<1> USE DEF procVars, tickVars, slotVars
<1>0. p \in Actors  BY DEF Actors
<1>1. CASE Crash(p)
  BY <1>1, DieType DEF Crash, TypeOK
<1>2. CASE CrashInCounter(p)
  <2>1. faults' \subseteq Faults  BY <1>2, FailsType DEF CrashInCounter, TypeOK
  <2> QED  BY <1>2, <2>1, DieType DEF CrashInCounter
<1>3. CASE Start(p)
  BY <1>3 DEF Start, TypeOK
<1>4. CASE CleanOpen(p)
  <2>1. cleaned[p].slot \in Slots  BY <1>4 DEF CleanOpen, SlotsToTry
  <2>2. /\ open' \in [Actors -> Inodes \cup {NoFile}]
        /\ file' \in [Slots -> Inodes \cup {NoFile}]
    BY <1>0, <1>4, <2>1, OpenSlotType DEF CleanOpen
  <2> QED  BY <1>4, <2>2 DEF CleanOpen, TypeOK
<1>5. CASE CleanLock(p)
  <2> DEFINE i == cleaned[p].slot
  <2>1. i \in Slots /\ open[p] \in Inodes
    BY <1>0, <1>5 DEF CleanLock, SlotsToTry, TypeOK
  <2>2. cleaned[p] \in [slot : 1..MaxConcurrent + 1, held : SUBSET (Slots \X Inodes), busy : BOOLEAN]
    BY DEF TypeOK
  <2>3. /\ [cleaned[p] EXCEPT !.slot = i + 1, !.held = @ \cup {<<i, open[p]>>}]
             \in [slot : 1..MaxConcurrent + 1, held : SUBSET (Slots \X Inodes), busy : BOOLEAN]
        /\ [cleaned[p] EXCEPT !.held = {}, !.busy = TRUE]
             \in [slot : 1..MaxConcurrent + 1, held : SUBSET (Slots \X Inodes), busy : BOOLEAN]
    <3>1. i + 1 \in 1..MaxConcurrent + 1  BY <2>1, LimitAssumption DEF Slots
    <3>2. cleaned[p].held \cup {<<i, open[p]>>} \in SUBSET (Slots \X Inodes)  BY <2>1, <2>2
    <3> HIDE DEF i
    <3> QED  BY <2>2, <3>1, <3>2
  <2>4. \/ cleaned' = [cleaned EXCEPT ![p] = [cleaned[p] EXCEPT !.slot = i + 1,
                                                !.held = @ \cup {<<i, open[p]>>}]]
        \/ cleaned' = [cleaned EXCEPT ![p] = [cleaned[p] EXCEPT !.held = {}, !.busy = TRUE]]
    BY <1>5 DEF CleanLock, TypeOK
  <2>5. cleaned' \in [Procs -> [slot : 1..MaxConcurrent + 1, held : SUBSET (Slots \X Inodes),
                                busy : BOOLEAN]]
    BY <2>3, <2>4 DEF TypeOK
  <2>6. /\ flock' \in [Inodes -> Actors \cup {Nobody}]
        /\ open' \in [Actors -> Inodes \cup {NoFile}]
        /\ state' \in [Procs -> {"down", "slots", "tickets", "unlink", "up"}]
    <3>1. open' = [open EXCEPT ![p] = NoFile]  BY <1>5 DEF CleanLock
    <3>2. \/ flock' = [flock EXCEPT ![open[p]] = p]
          \/ flock' = [f \in Inodes |-> IF flock[f] = p THEN Nobody ELSE flock[f]]
      BY <1>5 DEF CleanLock
    <3>3. \E st \in {"slots", "tickets"} : state' = [state EXCEPT ![p] = st]
      BY <1>5 DEF CleanLock
    <3>4. open' \in [Actors -> Inodes \cup {NoFile}]  BY <3>1 DEF TypeOK
    <3>5. flock' \in [Inodes -> Actors \cup {Nobody}]  BY <1>0, <3>2 DEF TypeOK
    <3> QED  BY <3>3, <3>4, <3>5 DEF TypeOK
  <2> QED  BY <1>5, <2>5, <2>6 DEF CleanLock, TypeOK
<1>6. CASE CleanTickets(p)
  BY <1>6 DEF CleanTickets, TypeOK
<1>7. CASE CleanUnlink(p)
  <2>1. PICK body \in {counter} \cup {0 : q \in {r \in Procs \ {p} : state[r] = "up"}} :
            fallback' = [fallback EXCEPT ![p] = HighestKnown(body)]
    BY <1>7 DEF CleanUnlink
  <2>2. body \in Nat \cup {Corrupt}  BY <2>1 DEF TypeOK
  <2>3. HighestKnown(body) \in Nat  BY <2>2, HighestKnownType DEF TypeOK
  <2>4. fallback' \in [Procs -> Nat]  BY <2>1, <2>3 DEF TypeOK
  <2>5. Fresh \in [slot : 1..MaxConcurrent + 1, held : SUBSET (Slots \X Inodes), busy : BOOLEAN]
    BY LimitAssumption DEF Fresh
  <2>6. cleaned' \in [Procs -> [slot : 1..MaxConcurrent + 1, held : SUBSET (Slots \X Inodes),
                                busy : BOOLEAN]]
    BY <1>7, <2>5 DEF CleanUnlink, TypeOK
  <2>7. file' \in [Slots -> Inodes \cup {NoFile}] /\ flock' \in [Inodes -> Actors \cup {Nobody}]
    BY <1>7 DEF CleanUnlink, TypeOK
  <2>8. torn' \in BOOLEAN /\ state' \in [Procs -> {"down", "slots", "tickets", "unlink", "up"}]
    BY <1>7 DEF CleanUnlink, TypeOK
  <2> QED  BY <1>7, <2>4, <2>6, <2>7, <2>8 DEF CleanUnlink, TypeOK
<1> QED  BY <1>1, <1>2, <1>3, <1>4, <1>5, <1>6, <1>7

-----------------------------------------------------------------------------
\* Tickets of a live process stay within its last one.

\* A new ticket becomes the last of its process, above all it gave before.
LEMMA IssueCovers ==
    ASSUME TypeOK, TicketsCovered, NEW k \in Keys, NEW t \in Nat, NEW made \in BOOLEAN,
           Issue(k, t, made), state[Owner[k]] = "up", fallback[Owner[k]] < t
    PROVE  TicketsCovered'
<1>1. Owner \in [Keys -> Procs]  BY KeysAssumption
<1>2. /\ num' = [num EXCEPT ![k] = t] /\ fallback' = [fallback EXCEPT ![Owner[k]] = t]
      /\ pc' = [pc EXCEPT ![k] = "reserved"] /\ state' = state
  BY DEF Issue, procVars
<1>3. SUFFICES ASSUME NEW l \in Keys, pc'[l] \in Reserved
               PROVE  state[Owner[l]] = "up" /\ num'[l] <= fallback'[Owner[l]]
  BY <1>2 DEF TicketsCovered
<1>4. CASE l = k
  BY <1>1, <1>2, <1>4 DEF TypeOK
<1>5. CASE l # k
  <2>1. num'[l] = num[l] /\ state[Owner[l]] = "up" /\ num[l] <= fallback[Owner[l]]
    BY <1>2, <1>3, <1>5 DEF TypeOK, TicketsCovered
  <2>2. num[l] \in Nat /\ fallback[Owner[l]] \in Nat  BY <1>1 DEF TypeOK
  <2>3. fallback'[Owner[l]] \in {t, fallback[Owner[l]]} /\ fallback'[Owner[l]] >= fallback[Owner[l]]
    BY <1>1, <1>2, <2>2 DEF TypeOK
  <2> QED  BY <2>1, <2>2, <2>3
<1> QED  BY <1>4, <1>5

\* A step of the model keeps the tickets covered: no clean-up lowers the last
\* ticket of a process while one of its jobs is on the way.
LEMMA CoverStep ==
    ASSUME TypeOK, TicketsCovered, Next
    PROVE  TicketsCovered'
<1> USE DEF procVars, tickVars, slotVars
<1>1. Owner \in [Keys -> Procs]  BY KeysAssumption
<1>2. ASSUME NEW k \in Keys, Reserve(k) \/ ReserveBlind(k) PROVE TicketsCovered'
  <2>1. CASE Reserve(k)
    <3>1. NextTicket(Owner[k]) \in Nat /\ NextTicket(Owner[k]) > fallback[Owner[k]]
      BY <1>1, NextTicketGrows DEF TypeOK
    <3>2. fallback[Owner[k]] < NextTicket(Owner[k])  BY <1>1, <3>1 DEF TypeOK
    <3>3. PICK made \in BOOLEAN : Issue(k, NextTicket(Owner[k]), made)
      BY <2>1 DEF Reserve
    <3> QED  BY <2>1, <3>1, <3>2, <3>3, IssueCovers DEF Reserve
  <2>2. CASE ReserveBlind(k)
    <3>1. fallback[Owner[k]] + 1 \in Nat /\ fallback[Owner[k]] < fallback[Owner[k]] + 1
      BY <1>1 DEF TypeOK
    <3> QED  BY <2>2, <3>1, IssueCovers DEF ReserveBlind
  <2> QED  BY <1>2, <2>1, <2>2
<1>3. ASSUME NEW k \in Keys, NEW to, pc' = [pc EXCEPT ![k] = to],
             to \in Reserved => pc[k] \in Reserved, UNCHANGED <<state, num, fallback>>
      PROVE  TicketsCovered'
  BY <1>3 DEF TypeOK, TicketsCovered
<1>4. ASSUME NEW k \in Keys, Acquire(k) \/ TakeTurn(k) \/ JobOpen(k) \/ Release(k) \/ GiveUp(k)
      PROVE  TicketsCovered'
  BY <1>3, <1>4 DEF Acquire, TakeTurn, JobOpen, Release, GiveUp, Reserved
<1>5. ASSUME NEW k \in Keys, JobLock(k) PROVE TicketsCovered'
  BY <1>3, <1>5 DEF JobLock, Reserved
<1>6. ASSUME UNCHANGED <<pc, state, num, fallback>> PROVE TicketsCovered'
  BY <1>6 DEF TicketsCovered
<1>7. ASSUME NEW k \in Keys, RestoreTicket(k) PROVE TicketsCovered'
  BY <1>6, <1>7 DEF RestoreTicket
<1>8. ASSUME NEW p \in Procs, Die(p) PROVE TicketsCovered'
  <2>1. \A l \in Keys : pc'[l] \in Reserved => pc[l] \in Reserved /\ Owner[l] # p
    BY <1>8 DEF Die, Reserved
  <2>2. \A q \in Procs \ {p} : state'[q] = state[q] /\ fallback'[q] = fallback[q]
    BY <1>8 DEF Die, TypeOK
  <2> QED  BY <1>1, <1>8, <2>1, <2>2 DEF TicketsCovered, Die
<1>9. ASSUME NEW p \in Procs, NEW st, state[p] # "up", state' = [state EXCEPT ![p] = st],
             UNCHANGED <<pc, num>>, \A q \in Procs \ {p} : fallback'[q] = fallback[q]
      PROVE  TicketsCovered'
  <2>1. \A l \in Keys : pc[l] \in Reserved => Owner[l] # p
    BY <1>9 DEF TicketsCovered
  <2> QED  BY <1>1, <1>9, <2>1 DEF TicketsCovered, TypeOK
<1>10. ASSUME NEW p \in Procs, Start(p) \/ CleanTickets(p) PROVE TicketsCovered'
  BY <1>9, <1>10 DEF Start, CleanTickets
<1>11. ASSUME NEW p \in Procs, CleanOpen(p) PROVE TicketsCovered'
  BY <1>6, <1>11 DEF CleanOpen
<1>12. ASSUME NEW p \in Procs, CleanLock(p) PROVE TicketsCovered'
  <2>1. PICK st \in {"slots", "tickets"} : state' = [state EXCEPT ![p] = st]
    BY <1>12 DEF CleanLock
  <2>2. state[p] # "up" /\ UNCHANGED <<pc, num>> /\ fallback' = fallback
    BY <1>12 DEF CleanLock
  <2> QED  BY <1>9, <2>1, <2>2
<1>13. ASSUME NEW p \in Procs, CleanUnlink(p) PROVE TicketsCovered'
  <2>1. \A q \in Procs \ {p} : fallback'[q] = fallback[q]
    BY <1>13 DEF CleanUnlink, TypeOK
  <2>2. state[p] # "up" /\ state' = [state EXCEPT ![p] = "up"] /\ UNCHANGED <<pc, num>>
    BY <1>13 DEF CleanUnlink
  <2> QED  BY <1>9, <2>1, <2>2
<1>14. CASE Garble  BY <1>6, <1>14 DEF Garble
<1> QED
  BY <1>2, <1>4, <1>5, <1>7, <1>8, <1>10, <1>11, <1>12, <1>13, <1>14
     DEF Next, Crash, CrashInCounter

\* A step of the model leaves every clean-up a slot to try.
LEMMA ToTryStep ==
    ASSUME TypeOK, SlotsToTry, Next
    PROVE  SlotsToTry'
<1> USE DEF procVars, tickVars, slotVars
<1>1. ASSUME UNCHANGED procVars PROVE SlotsToTry'
  BY <1>1 DEF SlotsToTry
<1>2. ASSUME NEW k \in Keys,
             \/ Reserve(k) \/ ReserveBlind(k) \/ Acquire(k) \/ RestoreTicket(k) \/ TakeTurn(k)
             \/ JobOpen(k) \/ JobLock(k) \/ Release(k) \/ GiveUp(k)
      PROVE  SlotsToTry'
  BY <1>1, <1>2 DEF Reserve, ReserveBlind, Issue, Acquire, RestoreTicket, TakeTurn, JobOpen,
                    JobLock, Release, GiveUp
<1>3. ASSUME NEW p \in Procs, Die(p) PROVE SlotsToTry'
  <2>1. Fresh.slot \in Slots  BY LimitAssumption DEF Fresh, Slots
  <2> QED  BY <1>3, <2>1 DEF Die, SlotsToTry, TypeOK
<1>4. ASSUME NEW p \in Procs, Start(p) \/ CleanOpen(p) \/ CleanTickets(p) PROVE SlotsToTry'
  BY <1>4 DEF Start, CleanOpen, CleanTickets, SlotsToTry, TypeOK
<1>5. ASSUME NEW p \in Procs, CleanUnlink(p) PROVE SlotsToTry'
  BY <1>5 DEF CleanUnlink, SlotsToTry, TypeOK
<1>6. ASSUME NEW p \in Procs, CleanLock(p) PROVE SlotsToTry'
  <2>1. \A q \in Procs \ {p} : state'[q] = state[q] /\ cleaned'[q] = cleaned[q]
    BY <1>6 DEF CleanLock, TypeOK
  <2>2. state[p] = "slots" /\ cleaned[p].slot \in Slots
    BY <1>6 DEF CleanLock, SlotsToTry
  <2>3. state'[p] = "slots" => cleaned[p].slot # MaxConcurrent /\ cleaned'[p].slot = cleaned[p].slot + 1
    BY <1>6, <2>2 DEF CleanLock, TypeOK
  <2>4. state'[p] \in {"slots", "tickets"}
    BY <1>6, <2>2 DEF CleanLock, TypeOK
  <2>5. state'[p] = "slots" => cleaned'[p].slot \in Slots
    BY <2>2, <2>3, LimitAssumption DEF Slots
  <2> QED  BY <2>1, <2>4, <2>5 DEF SlotsToTry
<1>7. CASE Garble  BY <1>1, <1>7 DEF Garble
<1> QED  BY <1>2, <1>3, <1>4, <1>5, <1>6, <1>7 DEF Next, Crash, CrashInCounter

-----------------------------------------------------------------------------
\* A job that holds a slot has the lock on the file that bears its name.

\* A job that is in a slot file: it has opened it, and maybe locked it.
InFile == {"opened", "held"}

\* A step keeps what a job has when the job stays where it was and neither its
\* file, the lock on it nor the name of its slot changes.
LEMMA KeptByOthers ==
    ASSUME SlotsHeld, NEW l \in Keys,
           pc'[l] = pc[l], idx'[l] = idx[l], open'[l] = open[l],
           pc[l] = "held" => flock'[open[l]] = l,
           ~torn' => ~torn,
           ~torn' /\ pc[l] \in InFile => file'[idx[l]] = file[idx[l]]
    PROVE  /\ pc'[l] \in InFile => open'[l] # NoFile
           /\ pc'[l] = "held" => flock'[open'[l]] = l
           /\ ~torn' /\ pc'[l] \in InFile => file'[idx'[l]] = open'[l]
BY DEF SlotsHeld, InFile

\* Opening a slot file disturbs no job that is in one.
LEMMA OpenKeeps ==
    ASSUME TypeOK, SlotsHeld, NEW x \in Actors, NEW i \in Slots, OpenSlot(x, i),
           NEW l \in Keys, l # x, pc' = pc \/ pc'[l] = pc[l], UNCHANGED <<idx, flock, torn>>
    PROVE  /\ pc'[l] \in InFile => open'[l] # NoFile
           /\ pc'[l] = "held" => flock'[open'[l]] = l
           /\ ~torn' /\ pc'[l] \in InFile => file'[idx'[l]] = open'[l]
<1>1. l \in Actors \ {x} /\ open'[l] = open[l]
  BY OpenSlotType DEF Actors
<1>2. ~torn /\ pc[l] \in InFile => file[idx[l]] # NoFile
  BY DEF SlotsHeld, InFile
<1>3. idx[l] \in Slots  BY DEF TypeOK
<1>4. ~torn /\ pc[l] \in InFile => file'[idx[l]] = file[idx[l]]
  BY <1>2, <1>3, OpenSlotType
<1>5. pc[l] = "held" => flock[open[l]] = l  BY DEF SlotsHeld
<1> QED  BY <1>1, <1>4, <1>5, KeptByOthers

\* The steps of a job.
LEMMA HeldJob ==
    ASSUME TypeOK, SlotsHeld, NEW k \in Keys,
           \/ Reserve(k) \/ ReserveBlind(k) \/ Acquire(k) \/ RestoreTicket(k) \/ TakeTurn(k)
           \/ JobOpen(k) \/ JobLock(k) \/ Release(k) \/ GiveUp(k)
    PROVE  SlotsHeld'
<1> USE DEF procVars, tickVars, slotVars
<1>0. k \in Actors /\ Nobody \notin Keys  BY ActorsAssumption DEF Actors, Nobody
<1> DEFINE Good(l) == /\ pc'[l] \in InFile => open'[l] # NoFile
                      /\ pc'[l] = "held" => flock'[open'[l]] = l
                      /\ ~torn' /\ pc'[l] \in InFile => file'[idx'[l]] = open'[l]
<1>1. SUFFICES ASSUME NEW l \in Keys PROVE Good(l)
  BY DEF SlotsHeld, InFile
<1>2. pc[l] = "held" => flock[open[l]] = l  BY DEF SlotsHeld
<1>3. ASSUME NEW to, to \notin InFile, pc' = [pc EXCEPT ![k] = to],
             UNCHANGED slotVars, \A n \in Keys \ {k} : idx'[n] = idx[n]
      PROVE  Good(l)
  <2>1. CASE l = k  BY <1>3, <2>1 DEF TypeOK, InFile
  <2>2. CASE l # k  BY <1>2, <1>3, <2>2, KeptByOthers DEF TypeOK
  <2> QED  BY <2>1, <2>2
<1>4. CASE Reserve(k) \/ ReserveBlind(k)
  BY <1>3, <1>4 DEF Reserve, ReserveBlind, Issue, InFile
<1>5. CASE Acquire(k) \/ GiveUp(k)
  BY <1>3, <1>5 DEF Acquire, GiveUp, InFile
<1>6. CASE TakeTurn(k)
  <2>1. \A n \in Keys \ {k} : idx'[n] = idx[n]  BY <1>6 DEF TakeTurn, TypeOK
  <2> QED  BY <1>3, <1>6, <2>1 DEF TakeTurn, InFile
<1>7. CASE RestoreTicket(k)
  BY <1>2, <1>7, KeptByOthers DEF RestoreTicket
<1>8. CASE JobOpen(k)
  <2>1. idx[k] \in Slots  BY DEF TypeOK
  <2>2. OpenSlot(k, idx[k]) /\ pc' = [pc EXCEPT ![k] = "opened"] /\ UNCHANGED <<idx, flock, torn>>
    BY <1>8 DEF JobOpen
  <2>3. CASE l = k
    <3>1. open'[k] = file'[idx[k]] /\ open'[k] \in Inodes
      BY <1>0, <2>1, <2>2, OpenSlotType
    <3>2. open'[k] # NoFile  BY <3>1 DEF Inodes, NoFile
    <3>3. pc'[k] = "opened"  BY <2>2 DEF TypeOK
    <3> QED  BY <2>2, <2>3, <3>1, <3>2, <3>3
  <2>4. CASE l # k
    <3>1. pc'[l] = pc[l]  BY <2>2, <2>4 DEF TypeOK
    <3> QED  BY <1>0, <2>1, <2>2, <2>4, <3>1, OpenKeeps
  <2> QED  BY <2>3, <2>4
<1>9. CASE JobLock(k)
  <2>1. open[k] # NoFile /\ (~torn => file[idx[k]] = open[k]) /\ open[k] \in Inodes
    BY <1>0, <1>9 DEF JobLock, SlotsHeld, TypeOK
  <2>2. file' = file /\ torn' = torn /\ pc[k] = "opened"  BY <1>9 DEF JobLock
  <2>3. CASE Lockable(k)
    <3>1. /\ flock' = [flock EXCEPT ![open[k]] = k] /\ pc' = [pc EXCEPT ![k] = "held"]
          /\ idx' = idx /\ open' = open
      BY <1>9, <2>3 DEF JobLock
    <3>2. CASE l = k
      BY <2>1, <2>2, <3>1, <3>2 DEF TypeOK
    <3>3. CASE l # k
      <4>1. pc[l] = "held" => open[l] # open[k]
        BY <1>0, <1>2, <2>3 DEF Lockable
      <4>2. pc[l] = "held" => flock'[open[l]] = l
        BY <1>2, <3>1, <4>1 DEF TypeOK
      <4>3. pc'[l] = pc[l]  BY <3>1, <3>3 DEF TypeOK
      <4> QED  BY <2>2, <3>1, <4>2, <4>3, KeptByOthers
    <3> QED  BY <3>2, <3>3
  <2>4. CASE ~Lockable(k)
    <3>1. /\ open' = [open EXCEPT ![k] = NoFile] /\ pc' = [pc EXCEPT ![k] = "slot"]
          /\ idx' = [idx EXCEPT ![k] = SlotAfter(idx[k])] /\ flock' = flock
      BY <1>9, <2>4 DEF JobLock
    <3>2. CASE l = k
      BY <3>1, <3>2 DEF TypeOK, InFile
    <3>3. CASE l # k
      <4>1. pc'[l] = pc[l] /\ idx'[l] = idx[l] /\ open'[l] = open[l]
        BY <3>1, <3>3 DEF TypeOK, Actors
      <4> QED  BY <1>2, <2>2, <3>1, <4>1, KeptByOthers
    <3> QED  BY <3>2, <3>3
  <2> QED  BY <2>3, <2>4
<1>10. CASE Release(k)
  <2>1. /\ flock' = [f \in Inodes |-> IF flock[f] = k THEN Nobody ELSE flock[f]]
        /\ open' = [open EXCEPT ![k] = NoFile] /\ pc' = [pc EXCEPT ![k] = "done"]
        /\ file' = file /\ torn' = torn /\ idx' = idx
    BY <1>10 DEF Release
  <2>2. CASE l = k
    BY <2>1, <2>2 DEF TypeOK, InFile
  <2>3. CASE l # k
    <3>1. pc'[l] = pc[l] /\ open'[l] = open[l]  BY <2>1, <2>3 DEF TypeOK, Actors
    <3>2. pc[l] = "held" => open[l] \in Inodes  BY DEF TypeOK, SlotsHeld, Actors
    <3>3. pc[l] = "held" => flock'[open[l]] = l  BY <1>2, <2>1, <2>3, <3>2
    <3> QED  BY <2>1, <3>1, <3>3, KeptByOthers
  <2> QED  BY <2>2, <2>3
<1> QED  BY <1>4, <1>5, <1>6, <1>7, <1>8, <1>9, <1>10

\* The steps of a process: a clean-up that unlinks a file which a job has open
\* says so, and otherwise no job loses its lock or its name.
LEMMA HeldProcess ==
    ASSUME TypeOK, SlotsHeld, NEW p \in Procs,
           \/ Crash(p) \/ CrashInCounter(p) \/ Start(p)
           \/ CleanOpen(p) \/ CleanLock(p) \/ CleanTickets(p) \/ CleanUnlink(p),
           SlotsToTry
    PROVE  SlotsHeld'
<1> USE DEF procVars, tickVars, slotVars
<1>0. p \in Actors /\ p \notin Keys /\ Nobody \notin Keys
  BY ActorsAssumption DEF Actors, Nobody
<1> DEFINE Good(l) == /\ pc'[l] \in InFile => open'[l] # NoFile
                      /\ pc'[l] = "held" => flock'[open'[l]] = l
                      /\ ~torn' /\ pc'[l] \in InFile => file'[idx'[l]] = open'[l]
<1>1. SUFFICES ASSUME NEW l \in Keys PROVE Good(l)
  BY DEF SlotsHeld, InFile
<1>2. pc[l] = "held" => flock[open[l]] = l /\ open[l] \in Inodes
  BY DEF SlotsHeld, TypeOK, Actors
<1>3. l \in Actors /\ l # p  BY <1>0 DEF Actors
<1>4. CASE Crash(p) \/ CrashInCounter(p)
  <2> DEFINE gone == {p} \cup {k \in Keys : Owner[k] = p}
  <2>1. Die(p)  BY <1>4 DEF Crash, CrashInCounter
  <2>2. /\ pc' = [k \in Keys |-> IF k \in gone /\ pc[k] \notin {"none", "done"} THEN "lost" ELSE pc[k]]
        /\ flock' = [f \in Inodes |-> IF flock[f] \in gone THEN Nobody ELSE flock[f]]
        /\ open' = [x \in Actors |-> IF x \in gone THEN NoFile ELSE open[x]]
        /\ file' = file /\ torn' = torn /\ idx' = idx
    BY <2>1 DEF Die
  <2>3. CASE l \in gone
    <3>1. pc'[l] \in {"none", "done", "lost"}  BY <2>2, <2>3
    <3> QED  BY <3>1 DEF InFile
  <2>4. CASE l \notin gone
    <3>1. pc'[l] = pc[l] /\ open'[l] = open[l]  BY <1>3, <2>2, <2>4
    <3>2. pc[l] = "held" => flock'[open[l]] = l  BY <1>2, <2>2, <2>4
    <3> HIDE DEF gone
    <3> QED  BY <2>2, <3>1, <3>2, KeptByOthers
  <2> QED  BY <2>3, <2>4
<1>5. CASE Start(p) \/ CleanTickets(p)
  BY <1>2, <1>5, KeptByOthers DEF Start, CleanTickets
<1>6. CASE CleanOpen(p)
  <2>1. cleaned[p].slot \in Slots  BY <1>6 DEF CleanOpen, SlotsToTry
  <2> QED  BY <1>0, <1>3, <1>6, <2>1, OpenKeeps DEF CleanOpen
<1>7. CASE CleanLock(p)
  <2>1. /\ open'[l] = open[l] /\ pc' = pc /\ idx' = idx /\ file' = file /\ torn' = torn
    BY <1>3, <1>7 DEF CleanLock, TypeOK
  <2>2. \/ flock[open[p]] = Nobody /\ flock' = [flock EXCEPT ![open[p]] = p]
        \/ flock' = [f \in Inodes |-> IF flock[f] = p THEN Nobody ELSE flock[f]]
    BY <1>7 DEF CleanLock, Lockable
  <2>3. pc[l] = "held" => flock'[open[l]] = l
    BY <1>0, <1>2, <1>3, <2>2 DEF TypeOK
  <2> QED  BY <2>1, <2>3, KeptByOthers
<1>8. CASE CleanUnlink(p)
  <2> DEFINE names == {s[1] : s \in cleaned[p].held}
             cut == {file[i] : i \in names} \ {NoFile}
  <2>1. /\ file' = [i \in Slots |-> IF i \in names THEN NoFile ELSE file[i]]
        /\ flock' = [f \in Inodes |-> IF flock[f] = p THEN Nobody ELSE flock[f]]
        /\ torn' = (torn \/ \E x \in Actors : open[x] \in cut)
        /\ pc' = pc /\ idx' = idx /\ open' = open
    BY <1>8 DEF CleanUnlink
  <2> HIDE DEF names
  <2>2. pc[l] = "held" => flock'[open[l]] = l  BY <1>2, <1>3, <2>1
  <2>3. ~torn' => ~torn /\ open[l] \notin cut  BY <1>3, <2>1
  <2>4. ASSUME ~torn', pc[l] \in InFile PROVE file'[idx[l]] = file[idx[l]]
    <3>1. file[idx[l]] = open[l] /\ open[l] # NoFile
      BY <2>3, <2>4 DEF SlotsHeld, InFile
    <3>2. idx[l] \in Slots  BY DEF TypeOK
    <3>3. idx[l] \notin names  BY <2>3, <2>4, <3>1
    <3> QED  BY <2>1, <3>2, <3>3
  <2> QED  BY <2>1, <2>2, <2>3, <2>4, KeptByOthers
<1> QED  BY <1>4, <1>5, <1>6, <1>7, <1>8

-----------------------------------------------------------------------------
\* Types, covered tickets and held slots are inductive: every step of every job
\* and process, with any crash and failure, keeps them.
THEOREM SlotDiscipline == Spec => []IInv
<1>1. Init => IInv
  <2> SUFFICES ASSUME Init PROVE IInv  OBVIOUS
  <2>1. TypeOK
    <3>1. Fresh \in [slot : 1..MaxConcurrent + 1, held : SUBSET (Slots \X Inodes), busy : BOOLEAN]
      BY LimitAssumption DEF Fresh
    <3>2. cleaned \in [Procs -> [slot : 1..MaxConcurrent + 1, held : SUBSET (Slots \X Inodes),
                                 busy : BOOLEAN]]
      BY <3>1 DEF Init
    <3>3. idx \in [Keys -> Slots]  BY LimitAssumption DEF Init, Slots
    <3>4. crashes \in 0..MaxCrashes  BY BoundsAssumption DEF Init
    <3> QED  BY <3>2, <3>3, <3>4 DEF Init, TypeOK
  <2>2. TicketsCovered /\ SlotsHeld
    BY DEF Init, TicketsCovered, SlotsHeld, Reserved
  <2>3. SlotsToTry
    BY LimitAssumption DEF Init, SlotsToTry, Fresh, Slots
  <2> QED  BY <2>1, <2>2, <2>3 DEF IInv
<1>2. IInv /\ [Next]_vars => IInv'
  <2> SUFFICES ASSUME IInv, [Next]_vars PROVE IInv'  OBVIOUS
  <2>1. CASE Next
    <3>1. TypeOK'
      <4>1. CASE Garble
        <5>1. faults' \subseteq Faults  BY <4>1, FailsType DEF Garble, IInv, TypeOK
        <5> QED  BY <4>1, <5>1 DEF Garble, IInv, TypeOK, procVars, slotVars
      <4> QED  BY <2>1, <4>1, TypeJob, TypeProcess DEF Next, IInv
    <3>2. TicketsCovered' /\ SlotsToTry'
      BY <2>1, CoverStep, ToTryStep DEF IInv
    <3>3. SlotsHeld'
      <4>1. CASE Garble
        BY <4>1 DEF Garble, IInv, SlotsHeld, slotVars
      <4> QED  BY <2>1, <4>1, HeldJob, HeldProcess DEF Next, IInv
    <3> QED  BY <3>1, <3>2, <3>3 DEF IInv
  <2>2. CASE UNCHANGED vars
    BY <2>2 DEF vars, IInv, TypeOK, TicketsCovered, SlotsToTry, SlotsHeld
  <2> QED  BY <2>1, <2>2
<1> QED  BY <1>1, <1>2, PTL DEF Spec

\* As many jobs hold a slot as have the lock on the file that bears its name: no
\* two on the same slot.
LEMMA HoldersFit ==
    ASSUME IInv, ~torn
    PROVE  Cardinality({k \in Keys : pc[k] = "held"}) <= MaxConcurrent
<1> DEFINE H == {k \in Keys : pc[k] = "held"}
           f == [k \in H |-> idx[k]]
<1>1. IsFiniteSet(H)  BY KeysAssumption, FS_Subset
<1>2. IsFiniteSet(Slots) /\ Cardinality(Slots) = MaxConcurrent
  <2>1. /\ IsFiniteSet(1..MaxConcurrent)
        /\ Cardinality(1..MaxConcurrent) = (IF 1 > MaxConcurrent THEN 0 ELSE MaxConcurrent - 1 + 1)
    BY LimitAssumption, FS_Interval
  <2> QED  BY <2>1, LimitAssumption DEF Slots
<1>3. \A k \in H : idx[k] \in Slots /\ flock[open[k]] = k /\ file[idx[k]] = open[k]
  BY DEF IInv, TypeOK, SlotsHeld
<1>4. \A k, l \in H : idx[k] = idx[l] => k = l  BY <1>3
<1>5. f \in Injection(H, Slots)
  BY <1>3, <1>4 DEF Injection, IsInjective
<1> HIDE DEF H, f
<1>6. Cardinality(H) <= Cardinality(Slots)  BY <1>1, <1>2, <1>5, FS_Injection
<1> QED  BY <1>2, <1>6 DEF H

\* The concurrency limit holds over all processes together, on well-formed
\* files, except after a clean-up tore an opened slot file away.
THEOREM SlotsWithinLimit == Spec => []SlotInv
<1>1. IInv => SlotInv
  BY HoldersFit DEF IInv, SlotInv, SlotBound
<1> QED  BY <1>1, SlotDiscipline, PTL

\* A process never gives a job a ticket that is not above those of its jobs on
\* the way: neither a lost or corrupt counter nor its own restart lets the order
\* of its queue and that of its tickets part.
THEOREM TicketsGrowAlways == Spec => TicketsGrow
<1> DEFINE Above == \A k, l \in Keys :
               Gets(k) /\ Owner[l] = Owner[k] /\ pc[l] \in {"reserved", "turn", "slot", "opened", "held"}
                  => num[l] < num'[k]
<1>1. IInv /\ [Next]_vars => [Above]_vars
  <2> SUFFICES ASSUME IInv, Next, NEW k \in Keys, NEW l \in Keys, Gets(k),
                      Owner[l] = Owner[k], pc[l] \in Reserved
               PROVE  num[l] < num'[k]
    BY DEF Reserved
  <2>0. /\ Owner[k] \in Procs /\ fallback[Owner[k]] \in Nat /\ num[l] \in Nat
        /\ num[l] <= fallback[Owner[k]]
    BY KeysAssumption DEF IInv, TypeOK, TicketsCovered
  <2>1. PICK n \in Keys : Reserve(n) \/ ReserveBlind(n)
    BY DEF Next, Gets, tickVars, Acquire, RestoreTicket, TakeTurn, JobOpen, JobLock, Release,
           GiveUp, Crash, CrashInCounter, Die, Start, CleanOpen, CleanLock, CleanTickets,
           CleanUnlink, Garble
  <2>2. PICK t : num' = [num EXCEPT ![n] = t] /\ \/ t = NextTicket(Owner[n])
                                                 \/ t = fallback[Owner[n]] + 1
    BY <2>1 DEF Reserve, ReserveBlind, Issue
  <2>3. n = k /\ num'[k] = t
    BY <2>2 DEF Gets, IInv, TypeOK
  <2>4. NextTicket(Owner[k]) \in Nat /\ NextTicket(Owner[k]) > fallback[Owner[k]]
    BY <2>0, NextTicketGrows DEF IInv, TypeOK
  <2> QED  BY <2>0, <2>2, <2>3, <2>4
<1>2. TicketsGrow <=> [][Above]_vars  BY DEF TicketsGrow
<1> HIDE DEF Above
<1> QED  BY <1>1, <1>2, SlotDiscipline, PTL DEF Spec

-----------------------------------------------------------------------------
\* Tickets of all processes.

\* A step that changes neither counter nor tickets, repairs nothing that was
\* lost and adds no job to those that wait leaves the counter above them.
LEMMA AboveKept ==
    ASSUME CounterAbove, counter' = counter, num' = num, unseen' = unseen, faults \subseteq faults',
           Waiting' \cup onDisk' \subseteq Waiting \cup onDisk
    PROVE  CounterAbove'
BY DEF CounterAbove

\* A reservation leaves the counter above every ticket.
LEMMA AboveReserve ==
    ASSUME TypeOK, CounterAbove, NEW k \in Keys, Reserve(k)
    PROVE  CounterAbove'
<1> DEFINE t == NextTicket(Owner[k])
<1>1. Owner[k] \in Procs  BY KeysAssumption
<1>2. /\ t \in Nat
      /\ counter # Corrupt => t > counter
      /\ counter = Corrupt => \A l \in onDisk : t > num[l]
  BY <1>1, NextTicketGrows, NextTicketAbove DEF TypeOK
<1>3. /\ counter' = t /\ faults \subseteq faults'
      /\ unseen' = (unseen \/ (counter = Corrupt /\ ~(Waiting \subseteq onDisk)))
      /\ num' = [num EXCEPT ![k] = t] /\ onDisk' \subseteq onDisk \cup {k}
      /\ pc' = [pc EXCEPT ![k] = "reserved"]
  BY DEF Reserve, Issue, Fails
<1> HIDE DEF t
<1>4. Waiting' \subseteq Waiting \cup {k}  BY <1>3 DEF Waiting, TypeOK
<1>5. SUFFICES ASSUME ~unseen', faults' \cap {"counter", "empty"} = {},
                      NEW l \in Waiting' \cup onDisk'
               PROVE  num'[l] <= t
  BY <1>3 DEF CounterAbove
<1>6. CASE l = k
  BY <1>2, <1>3, <1>6 DEF TypeOK
<1>7. CASE l # k
  <2>1. l \in Waiting \cup onDisk  BY <1>3, <1>4, <1>5, <1>7
  <2>2. l \in Keys /\ num'[l] = num[l] /\ num[l] \in Nat
    BY <1>3, <1>7, <2>1 DEF Waiting, TypeOK
  <2>3. CASE counter = Corrupt
    <3>1. l \in onDisk  BY <1>3, <1>5, <2>1, <2>3
    <3> QED  BY <1>2, <2>2, <2>3, <3>1
  <2>4. CASE counter # Corrupt
    <3>1. num[l] <= counter  BY <1>3, <1>5, <2>1, <2>4 DEF CounterAbove
    <3>2. counter \in Nat  BY <2>4 DEF TypeOK
    <3> QED  BY <1>2, <2>2, <2>4, <3>1, <3>2
  <2> QED  BY <2>3, <2>4
<1> QED  BY <1>6, <1>7

\* Every step leaves the counter above the tickets.
LEMMA AboveStep ==
    ASSUME TypeOK, CounterAbove, Next
    PROVE  CounterAbove'
<1> USE DEF procVars, tickVars, slotVars
<1>1. ASSUME NEW k \in Keys, ReserveBlind(k) PROVE CounterAbove'
  BY <1>1 DEF ReserveBlind, Fails, CounterAbove
<1>2. ASSUME NEW k \in Keys, NEW to, pc' = [pc EXCEPT ![k] = to],
             to = "turn" => pc[k] = "reserved", to # "reserved",
             counter' = counter, num' = num, unseen' = unseen, faults' = faults,
             onDisk' \subseteq onDisk
      PROVE  CounterAbove'
  <2>1. Waiting' \subseteq Waiting  BY <1>2 DEF Waiting, TypeOK
  <2> QED  BY <1>2, <2>1, AboveKept
<1>3. ASSUME NEW k \in Keys,
             Acquire(k) \/ TakeTurn(k) \/ JobOpen(k) \/ Release(k) \/ GiveUp(k)
      PROVE  CounterAbove'
  BY <1>2, <1>3 DEF Acquire, TakeTurn, JobOpen, Release, GiveUp
<1>4. ASSUME NEW k \in Keys, JobLock(k) PROVE CounterAbove'
  <2>1. PICK to \in {"held", "slot"} : pc' = [pc EXCEPT ![k] = to]
    BY <1>4 DEF JobLock
  <2> QED  BY <1>2, <1>4, <2>1 DEF JobLock
<1>5. ASSUME NEW k \in Keys, RestoreTicket(k) PROVE CounterAbove'
  <2>1. Waiting' = Waiting /\ k \in Waiting  BY <1>5 DEF RestoreTicket, Waiting
  <2> QED  BY <1>5, <2>1, AboveKept DEF RestoreTicket
<1>6. ASSUME NEW p \in Procs, Crash(p) PROVE CounterAbove'
  <2>1. Waiting' \subseteq Waiting  BY <1>6 DEF Crash, Die, Waiting
  <2> QED  BY <1>6, <2>1, AboveKept DEF Crash, Die
<1>7. ASSUME NEW p \in Procs, CrashInCounter(p) PROVE CounterAbove'
  BY <1>7 DEF CrashInCounter, Fails, CounterAbove
<1>8. ASSUME NEW p \in Procs,
             Start(p) \/ CleanOpen(p) \/ CleanLock(p) \/ CleanTickets(p) \/ CleanUnlink(p)
      PROVE  CounterAbove'
  <2>1. pc' = pc /\ onDisk' \subseteq onDisk
    BY <1>8 DEF Start, CleanOpen, CleanLock, CleanTickets, CleanUnlink
  <2>2. counter' = counter /\ num' = num /\ unseen' = unseen /\ faults' = faults
    BY <1>8 DEF Start, CleanOpen, CleanLock, CleanTickets, CleanUnlink
  <2>3. Waiting' = Waiting  BY <2>1 DEF Waiting
  <2> QED  BY <2>1, <2>2, <2>3, AboveKept
<1>9. CASE Garble
  BY <1>9 DEF Garble, CounterAbove
<1> QED
  BY <1>1, <1>3, <1>4, <1>5, <1>6, <1>7, <1>8, <1>9, AboveReserve DEF Next

\* In every reachable state the counter, where it can be trusted, is above the
\* tickets in the directory.
THEOREM CounterStaysAbove == Spec => []CounterAbove
<1>1. Init => CounterAbove
  BY DEF Init, CounterAbove, Waiting
<1>2. IInv /\ CounterAbove /\ [Next]_vars => CounterAbove'
  <2> SUFFICES ASSUME IInv, CounterAbove, [Next]_vars PROVE CounterAbove'  OBVIOUS
  <2>1. CASE Next  BY <2>1, AboveStep DEF IInv
  <2>2. CASE UNCHANGED vars  BY <2>2 DEF vars, CounterAbove, Waiting
  <2> QED  BY <2>1, <2>2
<1> QED  BY <1>1, <1>2, SlotDiscipline, PTL DEF Spec

\* A new ticket comes after every ticket in the directory, across processes and
\* restarts, as long as the counter was neither by-passed nor emptied nor
\* rebuilt while a ticket was missing.
THEOREM FifoAcrossAlways == Spec => FifoAcross
<1> DEFINE After == \A k \in Keys :
               Gets(k) /\ ~unseen /\ faults' \cap {"counter", "empty"} = {}
                  => \A l \in onDisk : num[l] < num'[k]
<1>1. IInv /\ CounterAbove /\ [Next]_vars => [After]_vars
  <2> SUFFICES ASSUME IInv, CounterAbove, Next, NEW k \in Keys, Gets(k), ~unseen,
                      faults' \cap {"counter", "empty"} = {}, NEW l \in onDisk
               PROVE  num[l] < num'[k]
    OBVIOUS
  <2>1. PICK n \in Keys : Reserve(n) \/ ReserveBlind(n)
    BY DEF Next, Gets, tickVars, Acquire, RestoreTicket, TakeTurn, JobOpen, JobLock, Release,
           GiveUp, Crash, CrashInCounter, Die, Start, CleanOpen, CleanLock, CleanTickets,
           CleanUnlink, Garble
  <2>2. Reserve(n)  BY <2>1 DEF ReserveBlind, Fails
  <2>3. num' = [num EXCEPT ![n] = NextTicket(Owner[n])] /\ faults \subseteq faults'
    BY <2>2 DEF Reserve, Issue, Fails
  <2>4. n = k /\ num'[k] = NextTicket(Owner[k])
    BY <2>3 DEF Gets, IInv, TypeOK
  <2>5. Owner[k] \in Procs /\ num[l] \in Nat  BY KeysAssumption DEF IInv, TypeOK
  <2>6. /\ NextTicket(Owner[k]) \in Nat
        /\ counter # Corrupt => NextTicket(Owner[k]) > counter
        /\ counter = Corrupt => NextTicket(Owner[k]) > num[l]
    BY <2>5, NextTicketGrows, NextTicketAbove DEF IInv, TypeOK
  <2>7. CASE counter = Corrupt  BY <2>4, <2>5, <2>6, <2>7
  <2>8. CASE counter # Corrupt
    <3>1. num[l] <= counter /\ counter \in Nat
      BY <2>3, <2>8 DEF CounterAbove, IInv, TypeOK
    <3> QED  BY <2>4, <2>5, <2>6, <2>8, <3>1
  <2> QED  BY <2>7, <2>8
<1>2. FifoAcross <=> [][After]_vars  BY DEF FifoAcross
<1> HIDE DEF After
<1> QED  BY <1>1, <1>2, SlotDiscipline, CounterStaysAbove, PTL DEF Spec
=============================================================================
