------------------------- MODULE RepinLedgerProofs -------------------------
(***************************************************************************)
(* Theorems about RepinLedger for any number of tabs, sweeps, sources,     *)
(* instances and faults: one pending row for the output, and the ids of    *)
(* one RomM instance never pushed to another.                              *)
(***************************************************************************)
EXTENDS RepinLedger, FiniteSetTheorems, TLAPS

Versions == {"none", "old", "partial"} \cup Clients
States   == {"pending", "settling", "stale", "done", "abandoned"}
Row  == [src : {Source[c] : c \in Clients}, from : 1..MaxInst, pre : Versions,
         sha : Versions, state : States]
Seen == [gen : 0..MaxInst, from : 0..MaxInst, pre : Versions, row : Nat]
Places == InRequest \cup {"idle", "ready", "refused", "end"}
At   == {"none", "probe", "absent", "locked", "hash", "store", "find", "claim",
         "push", "close", "release"}

\* TypeOK with the domains of the functions, and a pass that is at a row
\* exactly while it has the lock.
Types ==
    /\ rows \in Seq(Row) /\ file \in Versions
    /\ job \in [Clients -> {"none", "queued", "running", "over"}]
    /\ pc \in [Clients -> Places]
    /\ saw \in [Clients -> Seen] /\ \A c \in Clients : saw[c].row \in Ids \cup {0}
    /\ inst \in 1..MaxInst /\ owed \in BOOLEAN
    /\ lock \in {"free", "pass", "retire", "clear"}
    /\ pass \in [at : At, row : Nat, sha : Versions]
    /\ IF lock = "pass" THEN pass.at # "none" /\ pass.row \in Ids
       ELSE pass.at = "none" /\ pass.row = 0
    /\ cursor \in Ids \cup {0} /\ faults \in 0..MaxFaults

\* What a client is going to record: a tab has read its ids no earlier than the
\* generation it will compare, a sweep keeps the identity from changing.
PlanOf(c, at, x) ==
    /\ x.gen <= inst /\ x.from <= inst
    /\ at \in {"begun", "matched", "looked"} => x.gen >= 1
    /\ at \in {"matched", "looked"} => x.from >= x.gen
    /\ at \in {"looked at", "queued"} => c \in Sweeps /\ x.from = inst /\ ~owed
    /\ at = "cancels" => x.row # 0
Plans == \A c \in Clients : PlanOf(c, pc[c], saw[c])

\* No two rows are pending.
AtMostOne == \A q, r \in Ids : Pending(q) /\ Pending(r) => q = r

\* Rows that can still be pushed, and the one that is about to be.
RowsOwn ==
    /\ \A r \in Ids : Outstanding(r) => rows[r].from = inst \/ owed
    /\ pass.at = "push" => rows[pass.row].from = inst \/ owed

\* A clean-up runs while it is owed, beside no sweep, and clears the marker over
\* rows that are retired.
CleanUp ==
    /\ lock \in {"retire", "clear"} => owed /\ ~Sweeping
    /\ lock = "clear" => \A r \in Ids : ~Outstanding(r)

\* Whatever was pushed is of a row that is still there.
PushedOwn == \A p \in pushed : p.row \in Ids /\ (rows[p.row].from = p.to \/ p.owed)

IInv == Types /\ Plans /\ AtMostOne /\ RowsOwn /\ CleanUp /\ PushedOwn

-----------------------------------------------------------------------------
\* The operators.

\* A set of naturals that is not empty has its minimum.
LEMMA MinIn ==
    ASSUME NEW S \in SUBSET Nat, S # {}
    PROVE  Min(S) \in S
<1> DEFINE R == OpToRel(<, Nat)
<1>1. IsWellFoundedOn(R, Nat)  BY NatLessThanWellFounded
<1>2. \A x, y \in Nat : <<x, y>> \in R <=> x < y  BY DEF OpToRel
<1> HIDE DEF R
<1>3. PICK x \in S : \A y \in S : ~ (<<y, x>> \in R)  BY <1>1, WFMin
<1>4. ASSUME NEW y \in S PROVE x <= y
  <2>1. x \in Nat /\ y \in Nat /\ ~ (y < x)  BY <1>2, <1>3
  <2> QED  BY <2>1
<1> QED  BY <1>4 DEF Min

\* Rows stay rows when one is replaced.
LEMMA RowSet ==
    ASSUME rows \in Seq(Row), NEW r \in Ids, NEW x \in Row, rows' = [rows EXCEPT ![r] = x]
    PROVE  rows' \in Seq(Row) /\ Ids' = Ids
<1>1. Ids = 1..Len(rows)  BY DEF Ids
<1>2. \A q \in Ids : rows'[q] \in Row  BY <1>1
<1>3. rows' \in Seq(Row) /\ Len(rows') = Len(rows)  BY <1>1, <1>2
<1> QED  BY <1>1, <1>3 DEF Ids

\* A change of one row's state.
LEMMA StateSet ==
    ASSUME rows \in Seq(Row), NEW r \in Ids, NEW s \in States, SetState(r, s)
    PROVE  /\ rows' \in Seq(Row) /\ Ids' = Ids
           /\ \A q \in Ids : /\ rows'[q].from = rows[q].from
                             /\ rows'[q].state = IF q = r THEN s ELSE rows[q].state
<1>1. Ids = 1..Len(rows)  BY DEF Ids
<1>2. \A q \in Ids : rows[q] \in Row  BY <1>1
<1>3. \A q \in Ids : rows'[q] = IF q = r THEN [rows[r] EXCEPT !.state = s] ELSE rows[q]
  BY <1>1 DEF SetState
<1>4. \A q \in Ids : rows'[q] \in Row  BY <1>2, <1>3 DEF Row, States
<1>5. rows' \in Seq(Row) /\ Len(rows') = Len(rows)  BY <1>1, <1>4 DEF SetState
<1>6. Ids' = Ids  BY <1>1, <1>5 DEF Ids
<1> QED  BY <1>2, <1>3, <1>5, <1>6 DEF Row

\* A row that is recorded is the only one that is pending.
LEMMA RowRecorded ==
    ASSUME rows \in Seq(Row), NEW c \in Clients, saw[c] \in Seen, saw[c].from # 0, Record(c)
    PROVE  /\ rows' \in Seq(Row) /\ Ids' = Ids \cup {Len(rows) + 1} /\ Ids = 1..Len(rows)
           /\ \A q \in Ids : /\ rows'[q].from = rows[q].from
                             /\ rows'[q].state # "pending"
                             /\ rows'[q].state \in {rows[q].state, "abandoned"}
           /\ rows'[Len(rows) + 1].from = saw[c].from
<1> DEFINE old == Superseded(rows)
           new == [src |-> Source[c], from |-> saw[c].from, pre |-> saw[c].pre,
                   sha |-> "none", state |-> "pending"]
<1>1. Ids = 1..Len(rows)  BY DEF Ids
<1>2. old \in Seq(Row) /\ Len(old) = Len(rows)
      /\ \A q \in Ids : /\ old[q].from = rows[q].from
                        /\ old[q].state # "pending"
                        /\ old[q].state \in {rows[q].state, "abandoned"}
  <2>1. \A q \in Ids : rows[q] \in Row  BY <1>1
  <2>2. \A q \in Ids : old[q] = IF rows[q].state = "pending" THEN [rows[q] EXCEPT !.state = "abandoned"] ELSE rows[q]
    BY DEF Superseded, Ids
  <2>3. \A q \in Ids : old[q] \in Row  BY <2>1, <2>2 DEF Row, States
  <2>4. old \in Seq(Row) /\ Len(old) = Len(rows)  BY <1>1, <2>3 DEF Superseded, Ids
  <2> HIDE DEF old
  <2> QED  BY <2>1, <2>2, <2>4 DEF Row
<1>3. new \in Row  BY DEF Row, Seen, Versions, States
<1>4. rows' = Append(old, new)  BY DEF Record
<1> HIDE DEF old
<1>5. rows' \in Seq(Row) /\ Len(rows') = Len(rows) + 1  BY <1>2, <1>3, <1>4
<1>6. \A q \in Ids : rows'[q] = old[q]  BY <1>1, <1>2, <1>3, <1>4
<1>7. rows'[Len(rows) + 1] = new  BY <1>2, <1>3, <1>4
<1> QED  BY <1>1, <1>2, <1>5, <1>6, <1>7 DEF Ids

\* Retirement leaves no row to settle.
LEMMA RowsRetired ==
    ASSUME rows \in Seq(Row), rows' = Retired(rows)
    PROVE  /\ rows' \in Seq(Row) /\ Ids' = Ids
           /\ \A q \in Ids : rows'[q].from = rows[q].from /\ ~Outstanding(q)'
<1>1. Ids = 1..Len(rows)  BY DEF Ids
<1>2. \A q \in Ids : rows[q] \in Row  BY <1>1
<1>3. \A q \in Ids : rows'[q] = IF Outstanding(q) THEN [rows[q] EXCEPT !.state = "abandoned"] ELSE rows[q]
  BY DEF Retired, Ids, Outstanding
<1>4. \A q \in Ids : rows'[q] \in Row  BY <1>2, <1>3 DEF Row, States
<1>5. rows' \in Seq(Row) /\ Len(rows') = Len(rows)  BY <1>1, <1>4 DEF Retired, Ids
<1>6. Ids' = Ids  BY <1>1, <1>5 DEF Ids
<1> QED  BY <1>2, <1>3, <1>5, <1>6 DEF Row, Outstanding

-----------------------------------------------------------------------------
\* Steps that record no row and hand none back.

\* Rows keep their instance; none becomes pending or can be settled anew.
Fading ==
    /\ rows' \in Seq(Row) /\ Ids' = Ids
    /\ \A q \in Ids : /\ rows'[q].from = rows[q].from
                      /\ Outstanding(q)' => Outstanding(q)
                      /\ Pending(q)' => Pending(q)

LEMMA FadesAs ==
    ASSUME rows \in Seq(Row), NEW r \in Ids, NEW s \in States \ {"pending"},
           s \in {"settling", "stale"} => Outstanding(r),
           SetState(r, s) \/ UNCHANGED rows
    PROVE  Fading
<1>1. CASE SetState(r, s)
  <2>1. /\ rows' \in Seq(Row) /\ Ids' = Ids
        /\ \A q \in Ids : /\ rows'[q].from = rows[q].from
                          /\ rows'[q].state = IF q = r THEN s ELSE rows[q].state
    BY <1>1, StateSet
  <2> QED  BY <2>1 DEF Fading, Outstanding, Pending, States
<1>2. CASE UNCHANGED rows
  BY <1>2 DEF Fading, Ids, Outstanding, Pending
<1> QED  BY <1>1, <1>2

LEMMA FadesNot ==
    ASSUME rows \in Seq(Row), UNCHANGED rows
    PROVE  Fading
BY DEF Fading, Ids, Outstanding, Pending

LEMMA Followed ==
    ASSUME IInv, Fading, UNCHANGED <<inst, owed, pushed>>,
           pass'.at = "push" => \/ pass'.row \in Ids /\ Outstanding(pass'.row)
                               \/ UNCHANGED pass
    PROVE  AtMostOne' /\ RowsOwn' /\ PushedOwn'
<1>1. AtMostOne'  BY DEF IInv, AtMostOne, Fading
<1>2. RowsOwn'
  <2>1. pass.at = "push" => pass.row \in Ids  BY DEF IInv, Types
  <2> QED  BY <2>1 DEF IInv, RowsOwn, Fading
<1>3. PushedOwn'  BY DEF IInv, PushedOwn, Fading
<1> QED  BY <1>1, <1>2, <1>3

-----------------------------------------------------------------------------
\* Jobs and clients.

LEMMA JobKeeps ==
    ASSUME IInv, NEW c \in Clients, Job(c)
    PROVE  IInv'
<1>1. /\ UNCHANGED <<rows, clientVars, inst, owed, lock, passVars, rommVars, faults>>
      /\ \E s \in {"running", "over"} : job' = [job EXCEPT ![c] = s]
      /\ file' \in Versions
  BY DEF IInv, Types, Job, JobStarts, JobEnds, Versions
<1>2. Types'  BY <1>1 DEF IInv, Types, clientVars, passVars, Ids
<1>3. Fading  BY <1>1, FadesNot DEF IInv, Types
<1>4. Plans' /\ CleanUp'
  BY <1>1, <1>3 DEF IInv, Plans, PlanOf, CleanUp, clientVars, Sweeping, Fading
<1> QED  BY <1>1, <1>2, <1>3, <1>4, Followed DEF IInv, passVars, rommVars

\* A client moves on and keeps what it has read in order.
LEMMA Moved ==
    ASSUME IInv, NEW c \in Clients, NEW to \in Places, NEW x \in Seen,
           pc' = [pc EXCEPT ![c] = to], saw' = [saw EXCEPT ![c] = x],
           x.row \in Ids' \cup {0}, Ids \subseteq Ids', PlanOf(c, to, x), UNCHANGED <<inst, owed>>
    PROVE  /\ pc' \in [Clients -> Places] /\ saw' \in [Clients -> Seen]
           /\ \A d \in Clients : saw'[d].row \in Ids' \cup {0}
           /\ Plans'
           /\ (to \in {"looked at", "queued"} => pc[c] = "looked at") => (Sweeping' => Sweeping)
<1>1. pc \in [Clients -> Places] /\ saw \in [Clients -> Seen]  BY DEF IInv, Types
<1>2. \A d \in Clients : /\ pc'[d] = IF d = c THEN to ELSE pc[d]
                         /\ saw'[d] = IF d = c THEN x ELSE saw[d]
  BY <1>1
<1>3. pc' \in [Clients -> Places] /\ saw' \in [Clients -> Seen]  BY <1>1
<1>4. \A d \in Clients : saw'[d].row \in Ids' \cup {0}  BY <1>2 DEF IInv, Types
<1>5. Plans'  BY <1>2 DEF IInv, Plans, PlanOf
<1>6. ASSUME to \in {"looked at", "queued"} => pc[c] = "looked at", Sweeping' PROVE Sweeping
  <2>1. PICK d \in Sweeps : pc'[d] \in {"looked at", "queued"}  BY <1>6 DEF Sweeping
  <2>2. d \in Clients  BY DEF Clients
  <2> QED  BY <1>2, <1>6, <2>1, <2>2 DEF Sweeping
<1> QED  BY <1>3, <1>4, <1>5, <1>6

\* A step of a client that fades rows at most.
LEMMA ClientKeeps ==
    ASSUME IInv, NEW c \in Clients, NEW to \in Places, NEW x \in Seen,
           pc' = [pc EXCEPT ![c] = to], saw' = [saw EXCEPT ![c] = x], x.row = saw[c].row,
           PlanOf(c, to, x), Fading, UNCHANGED <<file, inst, owed, lock, passVars, rommVars, faults>>,
           job' \in [Clients -> {"none", "queued", "running", "over"}],
           to \in {"looked at", "queued"} => pc[c] = "looked at" \/ lock \in {"free", "pass"}
    PROVE  IInv'
<1>1. /\ pc' \in [Clients -> Places] /\ saw' \in [Clients -> Seen]
      /\ \A d \in Clients : saw'[d].row \in Ids' \cup {0}
      /\ Plans'
      /\ (to \in {"looked at", "queued"} => pc[c] = "looked at") => (Sweeping' => Sweeping)
  <2>1. Ids \subseteq Ids' /\ x.row \in Ids' \cup {0}  BY DEF IInv, Types, Fading
  <2> QED  BY <2>1, Moved
<1>2. Types'  BY <1>1 DEF IInv, Types, Fading, passVars
<1>3. CleanUp'  BY <1>1 DEF IInv, CleanUp, Fading
<1> QED  BY <1>1, <1>2, <1>3, Followed DEF IInv, passVars, rommVars

\* A tab.
LEMMA TabKeeps ==
    ASSUME IInv, NEW c \in Clients,
           PlanBegins(c) \/ PlanMatches(c) \/ PlanLooks(c) \/ CancelAsks(c) \/ CancelRetires(c)
    PROVE  IInv'
<1>1. /\ UNCHANGED <<file, job, inst, owed, lock, passVars, rommVars, faults>>
      /\ job \in [Clients -> {"none", "queued", "running", "over"}]
  BY DEF IInv, Types, diskVars, PlanBegins, PlanMatches, PlanLooks, CancelAsks, CancelRetires
<1>2. /\ pc \in [Clients -> Places] /\ saw \in [Clients -> Seen] /\ saw[c] \in Seen /\ file \in Versions
      /\ inst \in 0..MaxInst /\ inst \in Nat /\ inst >= 1 /\ saw[c].gen \in Nat /\ saw[c].from \in Nat
      /\ PlanOf(c, pc[c], saw[c]) /\ rows \in Seq(Row)
  BY RepinLedgerAssumption DEF IInv, Types, Plans, Seen
<1>3. CASE PlanBegins(c)
  <2> DEFINE x == [saw[c] EXCEPT !.gen = inst]
  <2>1. x \in Seen /\ x.row = saw[c].row /\ PlanOf(c, "begun", x)
    <3>1. x \in Seen  BY <1>2 DEF Seen
    <3>2. x.row = saw[c].row /\ x.from = saw[c].from /\ x.gen = inst  BY <1>2 DEF Seen
    <3> HIDE DEF x
    <3>3. x.gen <= inst /\ x.gen >= 1  BY <1>2, <3>2
    <3>4. x.from <= inst  BY <1>2, <3>2 DEF PlanOf
    <3> QED  BY <3>1, <3>2, <3>3, <3>4 DEF PlanOf
  <2>2. pc' = [pc EXCEPT ![c] = "begun"] /\ saw' = [saw EXCEPT ![c] = x] /\ UNCHANGED rows
    BY <1>2, <1>3 DEF PlanBegins
  <2> QED  BY <1>1, <1>2, <2>1, <2>2, FadesNot, ClientKeeps DEF Places, InRequest
<1>4. CASE PlanMatches(c)
  <2> DEFINE x == [saw[c] EXCEPT !.from = inst]
  <2>1. PICK to \in {"matched", "ready"} : pc' = [pc EXCEPT ![c] = to]  BY <1>4 DEF PlanMatches
  <2>2. saw' = [saw EXCEPT ![c] = x] /\ UNCHANGED rows /\ pc[c] = "begun"
    BY <1>2, <1>4 DEF PlanMatches
  <2>3. x \in Seen /\ x.row = saw[c].row /\ PlanOf(c, to, x)
    <3>1. x \in Seen  BY <1>2 DEF Seen
    <3>2. x.row = saw[c].row /\ x.gen = saw[c].gen /\ x.from = inst  BY <1>2 DEF Seen
    <3> HIDE DEF x
    <3>3. x.gen <= inst /\ x.gen >= 1  BY <1>2, <2>2, <3>2 DEF PlanOf
    <3>4. x.from <= inst /\ x.from >= x.gen  BY <1>2, <3>2, <3>3
    <3> QED  BY <2>1, <3>1, <3>2, <3>3, <3>4 DEF PlanOf
  <2> QED  BY <1>1, <1>2, <2>1, <2>2, <2>3, FadesNot, ClientKeeps DEF Places, InRequest
<1>5. CASE PlanLooks(c)
  <2> DEFINE x == [saw[c] EXCEPT !.pre = file]
  <2>1. /\ pc' = [pc EXCEPT ![c] = "looked"] /\ saw' = [saw EXCEPT ![c] = x] /\ UNCHANGED rows
        /\ pc[c] = "matched"
    BY <1>2, <1>5 DEF PlanLooks
  <2>2. x \in Seen /\ x.row = saw[c].row /\ PlanOf(c, "looked", x)  BY <1>2, <2>1 DEF Seen, PlanOf
  <2> QED  BY <1>1, <1>2, <2>1, <2>2, FadesNot, ClientKeeps DEF Places, InRequest
<1>6. CASE CancelAsks(c) \/ CancelRetires(c)
  <2>1. PICK to \in {"cancels", "end"} :
           pc' = [pc EXCEPT ![c] = to] /\ (to = "cancels" => saw[c].row # 0)
    BY <1>6 DEF CancelAsks, CancelRetires
  <2>2. saw' = [saw EXCEPT ![c] = saw[c]]  BY <1>2, <1>6 DEF CancelAsks, CancelRetires
  <2>3. PlanOf(c, to, saw[c])  BY <1>2, <2>1 DEF PlanOf
  <2>4. Fading
    <3>1. CASE CancelAsks(c)  BY <1>2, <3>1, FadesNot DEF CancelAsks
    <3>2. CASE CancelRetires(c)
      <4>1. saw[c].row \in Ids  BY <1>2, <3>2 DEF IInv, Types, PlanOf, CancelRetires
      <4>2. SetState(saw[c].row, "abandoned") \/ UNCHANGED rows  BY <3>2 DEF CancelRetires
      <4> QED  BY <1>2, <4>1, <4>2, FadesAs DEF States
    <3> QED  BY <1>6, <3>1, <3>2
  <2> QED  BY <1>1, <1>2, <2>1, <2>2, <2>3, <2>4, ClientKeeps DEF Places, InRequest
<1> QED  BY <1>3, <1>4, <1>5, <1>6

\* Submissions, and a sweep that starts while no identity change is under way.
LEMMA SubmitKeeps ==
    ASSUME IInv, NEW c \in Clients, TabSubmits(c) \/ SweepSubmits(c) \/ SweepLooks(c)
    PROVE  IInv'
<1>1. /\ UNCHANGED <<rows, file, inst, owed, lock, passVars, rommVars, faults>>
      /\ UNCHANGED job \/ job' = [job EXCEPT ![c] = "queued"]
  BY DEF diskVars, TabSubmits, SweepSubmits, SweepLooks, Submit
<1>2. /\ saw \in [Clients -> Seen] /\ saw[c] \in Seen /\ file \in Versions
      /\ inst \in 0..MaxInst /\ inst \in Nat /\ saw[c].gen \in Nat
      /\ PlanOf(c, pc[c], saw[c]) /\ rows \in Seq(Row)
      /\ job \in [Clients -> {"none", "queued", "running", "over"}]
  BY RepinLedgerAssumption DEF IInv, Types, Plans, Seen
<1>0. job' \in [Clients -> {"none", "queued", "running", "over"}]  BY <1>1, <1>2
<1>3. CASE TabSubmits(c) \/ SweepSubmits(c)
  <2>1. PICK to \in {"refused", "end", "queued"} :
           pc' = [pc EXCEPT ![c] = to] /\ (to = "queued" => pc[c] = "looked at")
    BY <1>3 DEF TabSubmits, SweepSubmits, Submit
  <2>2. saw' = [saw EXCEPT ![c] = saw[c]]  BY <1>2, <1>3 DEF TabSubmits, SweepSubmits
  <2>3. PlanOf(c, to, saw[c])  BY <1>2, <2>1 DEF PlanOf
  <2> QED  BY <1>0, <1>1, <1>2, <2>1, <2>2, <2>3, FadesNot, ClientKeeps DEF Places, InRequest
<1>4. CASE SweepLooks(c)
  <2> DEFINE x == [saw[c] EXCEPT !.from = inst, !.pre = file]
  <2>1. /\ pc' = [pc EXCEPT ![c] = "looked at"] /\ saw' = [saw EXCEPT ![c] = x]
        /\ c \in Sweeps /\ ~owed /\ lock \in {"free", "pass"}
    BY <1>2, <1>4 DEF SweepLooks
  <2>2. x \in Seen /\ x.row = saw[c].row /\ PlanOf(c, "looked at", x)
    <3>1. x \in Seen  BY <1>2 DEF Seen
    <3>2. x.row = saw[c].row /\ x.gen = saw[c].gen /\ x.from = inst  BY <1>2 DEF Seen
    <3> HIDE DEF x
    <3>3. x.gen <= inst  BY <1>2, <3>2 DEF PlanOf
    <3>4. x.from <= inst  BY <1>2, <3>2
    <3> QED  BY <2>1, <3>1, <3>2, <3>3, <3>4 DEF PlanOf
  <2> QED  BY <1>0, <1>1, <1>2, <2>1, <2>2, FadesNot, ClientKeeps DEF Places, InRequest
<1> QED  BY <1>3, <1>4

\* A row is recorded of the instance that is configured.
LEMMA RecordKeeps ==
    ASSUME IInv, NEW c \in Clients, PlanRecords(c) \/ SweepRecords(c)
    PROVE  IInv'
<1>1. /\ saw \in [Clients -> Seen] /\ saw[c] \in Seen /\ rows \in Seq(Row) /\ Len(rows) \in Nat
      /\ inst \in Nat /\ inst # 0 /\ saw[c].gen \in Nat /\ saw[c].from \in Nat
      /\ PlanOf(c, pc[c], saw[c]) /\ job \in [Clients -> {"none", "queued", "running", "over"}]
  BY DEF IInv, Types, Plans, Seen
<1>2. CASE PlanRecords(c) /\ ~SameIdentity(c)
  <2>1. /\ UNCHANGED <<rows, file, job, inst, owed, lock, passVars, rommVars, faults>>
        /\ pc' = [pc EXCEPT ![c] = "end"] /\ saw' = [saw EXCEPT ![c] = saw[c]]
    BY <1>1, <1>2 DEF PlanRecords, diskVars
  <2>2. PlanOf(c, "end", saw[c])  BY <1>1 DEF PlanOf
  <2> QED  BY <1>1, <2>1, <2>2, FadesNot, ClientKeeps DEF Places, InRequest
<1>3. CASE \/ PlanRecords(c) /\ SameIdentity(c)
           \/ SweepRecords(c)
  <2>1. /\ Record(c) /\ UNCHANGED <<file, job, inst, owed, lock, passVars, rommVars, faults>>
        /\ \E to \in {"ready", "end"} : pc' = [pc EXCEPT ![c] = to]
        /\ UNCHANGED saw \/ saw' = [saw EXCEPT ![c].row = Len(rows) + 1]
    BY <1>3 DEF PlanRecords, SweepRecords, diskVars
  <2>2. saw[c].from = inst /\ ~owed /\ lock \notin {"retire", "clear"}
    <3>1. CASE PlanRecords(c) /\ SameIdentity(c)
      BY <1>1, <3>1 DEF PlanRecords, SameIdentity, PlanOf
    <3>2. CASE SweepRecords(c)
      BY <1>1, <3>2 DEF IInv, CleanUp, SweepRecords, PlanOf
    <3> QED  BY <1>3, <3>1, <3>2
  <2>3. /\ rows' \in Seq(Row) /\ Ids' = Ids \cup {Len(rows) + 1} /\ Ids = 1..Len(rows)
        /\ \A q \in Ids : /\ rows'[q].from = rows[q].from
                          /\ rows'[q].state # "pending"
                          /\ rows'[q].state \in {rows[q].state, "abandoned"}
        /\ rows'[Len(rows) + 1].from = saw[c].from
    BY <1>1, <2>1, <2>2, RowRecorded
  <2>4. PICK to \in {"ready", "end"}, x \in Seen :
           /\ pc' = [pc EXCEPT ![c] = to] /\ saw' = [saw EXCEPT ![c] = x]
           /\ x.row \in {saw[c].row, Len(rows) + 1} /\ x.gen = saw[c].gen /\ x.from = saw[c].from
    <3>1. CASE UNCHANGED saw
      <4>1. saw' = [saw EXCEPT ![c] = saw[c]]  BY <1>1, <3>1
      <4> QED  BY <1>1, <2>1, <4>1
    <3>2. CASE saw' = [saw EXCEPT ![c].row = Len(rows) + 1]
      <4> DEFINE x == [saw[c] EXCEPT !.row = Len(rows) + 1]
      <4>1. saw' = [saw EXCEPT ![c] = x]  BY <1>1, <3>2
      <4>2. Len(rows) + 1 \in Nat  BY <1>1
      <4>3. x.row = Len(rows) + 1 /\ x.gen = saw[c].gen /\ x.from = saw[c].from  BY <1>1 DEF Seen
      <4>4. x \in Seen  BY <1>1, <4>2 DEF Seen
      <4> QED  BY <2>1, <4>1, <4>3, <4>4
    <3> QED  BY <2>1, <3>1, <3>2
  <2>5. /\ pc' \in [Clients -> Places] /\ saw' \in [Clients -> Seen]
        /\ \A d \in Clients : saw'[d].row \in Ids' \cup {0}
        /\ Plans'
    <3>1. PlanOf(c, to, x)  BY <1>1, <2>4 DEF PlanOf
    <3>2. x.row \in Ids' \cup {0} /\ Ids \subseteq Ids'  BY <2>3, <2>4 DEF IInv, Types
    <3> QED  BY <2>1, <2>4, <3>1, <3>2, Moved DEF Places, InRequest
  <2>6. Types'  BY <2>1, <2>3, <2>5 DEF IInv, Types, passVars
  <2>7. CleanUp'  BY <2>1, <2>2 DEF CleanUp
  <2>8. AtMostOne'  BY <2>3 DEF AtMostOne, Pending
  <2>9. RowsOwn'
    <3>1. pass.at = "push" => pass.row \in Ids  BY DEF IInv, Types
    <3> QED  BY <2>1, <2>2, <2>3, <3>1 DEF IInv, RowsOwn, Outstanding, passVars
  <2>10. PushedOwn'  BY <2>1, <2>3 DEF IInv, PushedOwn, rommVars
  <2> QED  BY <2>5, <2>6, <2>7, <2>8, <2>9, <2>10 DEF IInv
<1> QED  BY <1>2, <1>3
-----------------------------------------------------------------------------
\* Settle passes.

\* A pass that leaves a row is at another one, or over.
LEMMA Left ==
    ASSUME rows \in Seq(Row), pass.row \in Ids, cursor \in Ids \cup {0}, lock = "pass", Leave
    PROVE  /\ pass' \in [at : At, row : Nat, sha : Versions]
           /\ IF lock' = "pass" THEN pass'.at = "probe" /\ pass'.row \in Ids
              ELSE lock' = "free" /\ pass'.at = "none" /\ pass'.row = 0
           /\ cursor' \in Ids \cup {0}
<1>1. Ids = 1..Len(rows) /\ \A q \in Ids : rows[q] \in Row  BY DEF Ids
<1>2. CASE Stop
  BY <1>1, <1>2 DEF Stop, Nowhere, At, Versions
<1>3. CASE After(pass.row) # {} /\ Examine(Min(After(pass.row))) /\ UNCHANGED <<lock, cursor>>
  <2>1. After(pass.row) \in SUBSET Nat /\ After(pass.row) \subseteq Ids
    BY <1>1 DEF After, Listed
  <2>2. Min(After(pass.row)) \in Ids  BY <1>3, <2>1, MinIn
  <2>3. rows[Min(After(pass.row))].sha \in Versions  BY <1>1, <2>2 DEF Row
  <2> QED  BY <1>1, <1>3, <2>2, <2>3 DEF Examine, At
<1> QED  BY <1>2, <1>3 DEF Leave

\* What follows when a pass fades rows at most.
LEMMA PassKeeps ==
    ASSUME IInv, lock \in {"free", "pass"}, Fading,
           UNCHANGED <<diskVars, clientVars, inst, owed, pushed>>,
           pass' \in [at : At, row : Nat, sha : Versions],
           IF lock' = "pass" THEN pass'.at # "none" /\ pass'.row \in Ids
           ELSE lock' = "free" /\ pass'.at = "none" /\ pass'.row = 0,
           cursor' \in Ids \cup {0}, faults' \in 0..MaxFaults,
           pass'.at = "push" => Outstanding(pass'.row)
    PROVE  IInv'
<1>1. Types'  BY DEF IInv, Types, Fading, diskVars, clientVars
<1>2. Plans'  BY DEF IInv, Plans, PlanOf, clientVars
<1>3. CleanUp'  BY DEF CleanUp
<1>4. AtMostOne' /\ RowsOwn' /\ PushedOwn'
  BY Followed
<1> QED  BY <1>1, <1>2, <1>3, <1>4 DEF IInv

\* While a pass is at a row it has the lock.
LEMMA AtRow ==
    ASSUME IInv, pass.at # "none"
    PROVE  /\ lock = "pass" /\ pass.row \in Ids /\ rows \in Seq(Row) /\ cursor \in Ids \cup {0}
           /\ pass \in [at : At, row : Nat, sha : Versions] /\ faults \in 0..MaxFaults
           /\ rows[pass.row] \in Row /\ file \in Versions /\ inst \in 1..MaxInst /\ owed \in BOOLEAN
BY DEF IInv, Types, Ids

LEMMA Faulted ==
    ASSUME faults \in 0..MaxFaults, Fault
    PROVE  faults' \in 0..MaxFaults
BY RepinLedgerAssumption DEF Fault

LEMMA StartsKeeps ==
    ASSUME IInv, PassStarts
    PROVE  IInv'
<1> DEFINE S == IF After(cursor) # {} THEN After(cursor) ELSE Listed
<1>1. rows \in Seq(Row) /\ Ids = 1..Len(rows) /\ \A q \in Ids : rows[q] \in Row
  BY DEF IInv, Types, Ids
<1>2. S \in SUBSET Nat /\ S # {} /\ S \subseteq Ids  BY <1>1 DEF PassStarts, After, Listed
<1>3. Min(S) \in Ids /\ Min(S) \in Nat  BY <1>1, <1>2, MinIn
<1>4. pass' = [at |-> "probe", row |-> Min(S), sha |-> rows[Min(S)].sha]
  BY DEF PassStarts, Examine
<1> HIDE DEF S
<1>5. pass' \in [at : At, row : Nat, sha : Versions] /\ pass'.row \in Ids /\ pass'.at = "probe"
  BY <1>1, <1>3, <1>4 DEF At, Row
<1>6. lock = "free" /\ lock' = "pass" /\ UNCHANGED <<rows, diskVars, clientVars, inst, owed, cursor, rommVars, faults>>
  BY DEF PassStarts
<1>7. cursor' \in Ids \cup {0} /\ faults' \in 0..MaxFaults  BY <1>6 DEF IInv, Types
<1>8. Fading  BY <1>1, <1>6, FadesNot
<1> QED  BY <1>5, <1>6, <1>7, <1>8, PassKeeps DEF rommVars
\* The steps of a pass that leave the rows alone.
LEMMA WalkKeeps ==
    ASSUME IInv, ProbeOutput \/ Absent \/ CheckLock \/ HashOutput \/ FindMatch
    PROVE  IInv'
<1>1. pass.at \in {"probe", "absent", "locked", "hash", "find"}
      /\ UNCHANGED <<rows, diskVars, clientVars, inst, owed, rommVars>>
  BY DEF ProbeOutput, Absent, CheckLock, HashOutput, FindMatch
<1>2. /\ lock = "pass" /\ pass.row \in Ids /\ rows \in Seq(Row) /\ cursor \in Ids \cup {0}
      /\ pass \in [at : At, row : Nat, sha : Versions] /\ faults \in 0..MaxFaults /\ file \in Versions
  BY <1>1, AtRow
<1>3. \/ Leave
      \/ \E to \in {"locked", "absent", "find", "hash", "claim"} : Advance(to)
      \/ pass' = [pass EXCEPT !.at = "store", !.sha = file] /\ UNCHANGED <<lock, cursor>>
  BY DEF ProbeOutput, Absent, CheckLock, HashOutput, FindMatch, Leave
<1>4. faults' \in 0..MaxFaults
  BY <1>2, Faulted DEF ProbeOutput, Absent, CheckLock, HashOutput, FindMatch
<1>5. /\ pass' \in [at : At, row : Nat, sha : Versions]
      /\ IF lock' = "pass" THEN pass'.at \notin {"none", "push"} /\ pass'.row \in Ids
         ELSE lock' = "free" /\ pass'.at = "none" /\ pass'.row = 0
      /\ cursor' \in Ids \cup {0}
  <2>1. CASE Leave  BY <1>2, <2>1, Left
  <2>2. CASE \E to \in {"locked", "absent", "find", "hash", "claim"} : Advance(to)
    BY <1>2, <2>2 DEF Advance, At
  <2>3. CASE pass' = [pass EXCEPT !.at = "store", !.sha = file] /\ UNCHANGED <<lock, cursor>>
    BY <1>2, <2>3 DEF At
  <2> QED  BY <1>3, <2>1, <2>2, <2>3
<1>6. Fading  BY <1>1, <1>2, FadesNot
<1> QED  BY <1>1, <1>2, <1>4, <1>5, <1>6, PassKeeps DEF rommVars

\* The digest is stored with a row that is still pending.
LEMMA StoreKeeps ==
    ASSUME IInv, StoreSha
    PROVE  IInv'
<1>1. /\ lock = "pass" /\ pass.row \in Ids /\ rows \in Seq(Row) /\ cursor \in Ids \cup {0}
      /\ pass \in [at : At, row : Nat, sha : Versions] /\ faults \in 0..MaxFaults
      /\ Ids = 1..Len(rows) /\ \A q \in Ids : rows[q] \in Row
  BY AtRow DEF StoreSha, Ids
<1>2. ASSUME Pending(pass.row) PROVE Fading
  <2>1. rows' = [rows EXCEPT ![pass.row].sha = pass.sha]  BY <1>2 DEF StoreSha
  <2>2. \A q \in Ids : rows'[q] = IF q = pass.row THEN [rows[q] EXCEPT !.sha = pass.sha] ELSE rows[q]
    BY <1>1, <2>1
  <2>3. pass.sha \in Versions  BY <1>1
  <2>5. rows' \in Seq(Row) /\ Ids' = Ids
    <3>1. [rows[pass.row] EXCEPT !.sha = pass.sha] \in Row  BY <1>1, <2>3 DEF Row
    <3>2. rows' = [rows EXCEPT ![pass.row] = [rows[pass.row] EXCEPT !.sha = pass.sha]]
      BY <1>1, <2>1
    <3> QED  BY <1>1, <3>1, <3>2, RowSet
  <2>7. \A q \in Ids : rows'[q].from = rows[q].from /\ rows'[q].state = rows[q].state
    BY <1>1, <2>2 DEF Row
  <2> QED  BY <2>5, <2>7 DEF Fading, Outstanding, Pending
<1>3. ASSUME ~Pending(pass.row) PROVE Fading
  BY <1>1, <1>3, FadesNot DEF StoreSha
<1>4. Fading => IInv'
  BY <1>1, PassKeeps DEF StoreSha, Advance, At, rommVars
<1> QED  BY <1>2, <1>3, <1>4

\* The steps of a pass that end with a row or take it up.
LEMMA CloseKeeps ==
    ASSUME IInv, GiveUp \/ Claim \/ Settle
    PROVE  IInv'
<1>1. pass.at \in {"absent", "find", "claim", "close"}
      /\ UNCHANGED <<diskVars, clientVars, inst, owed, rommVars, faults>>
  BY DEF GiveUp, Hopeless, Claim, Settle
<1>2. /\ lock = "pass" /\ pass.row \in Ids /\ rows \in Seq(Row) /\ cursor \in Ids \cup {0}
      /\ pass \in [at : At, row : Nat, sha : Versions] /\ faults \in 0..MaxFaults
      /\ rows[pass.row] \in Row
  BY <1>1, AtRow
<1>3. CASE Claim /\ MayClaim(pass.row)
  <2>1. SetState(pass.row, "settling") /\ Advance("push") /\ Outstanding(pass.row)
    BY <1>3 DEF Claim, MayClaim, Outstanding, Pending
  <2>2. Fading  BY <1>2, <2>1, FadesAs DEF States
  <2>3. Outstanding(pass.row)' /\ pass'.row = pass.row
    <3>1. rows'[pass.row].state = "settling"  BY <1>2, <2>1, StateSet DEF States
    <3>2. pass'.row = pass.row  BY <1>2, <2>1 DEF Advance
    <3> QED  BY <3>1, <3>2 DEF Outstanding
  <2>4. pass' \in [at : At, row : Nat, sha : Versions] /\ pass'.at = "push" /\ UNCHANGED <<lock, cursor>>
    BY <1>2, <2>1 DEF Advance, At
  <2> QED  BY <1>1, <1>2, <2>1, <2>2, <2>3, <2>4, PassKeeps DEF rommVars
<1>4. CASE GiveUp \/ Settle \/ (Claim /\ ~MayClaim(pass.row))
  <2>1. Leave /\ \E s \in {"abandoned", "done"} : SetState(pass.row, s) \/ UNCHANGED rows
    BY <1>4 DEF GiveUp, Settle, Claim
  <2>2. Fading  BY <1>2, <2>1, FadesAs DEF States
  <2>3. /\ pass' \in [at : At, row : Nat, sha : Versions]
        /\ IF lock' = "pass" THEN pass'.at = "probe" /\ pass'.row \in Ids
           ELSE lock' = "free" /\ pass'.at = "none" /\ pass'.row = 0
        /\ cursor' \in Ids \cup {0}
    BY <1>2, <2>1, Left
  <2> QED  BY <1>1, <1>2, <2>2, <2>3, PassKeeps DEF rommVars
<1> QED  BY <1>3, <1>4

\* What is pushed goes where its ids were read, unless a clean-up is owed.
LEMMA PushKeeps ==
    ASSUME IInv, Push
    PROVE  IInv'
<1>1. /\ lock = "pass" /\ pass.row \in Ids /\ rows \in Seq(Row) /\ cursor \in Ids \cup {0}
      /\ pass \in [at : At, row : Nat, sha : Versions] /\ faults \in 0..MaxFaults
      /\ pass.at = "push" /\ UNCHANGED <<rows, diskVars, clientVars, inst, owed, lock, cursor>>
      /\ \E to \in {"close", "release"} : pass' = [pass EXCEPT !.at = to]
  BY AtRow DEF Push, Advance
<1>2. faults' \in 0..MaxFaults  BY <1>1, Faulted DEF Push
<1>3. pass' \in [at : At, row : Nat, sha : Versions] /\ pass'.row = pass.row /\ pass'.at \in {"close", "release"}
  BY <1>1 DEF At
<1>4. Types'  BY <1>1, <1>2, <1>3 DEF IInv, Types, Ids, diskVars, clientVars
<1>5. Plans'  BY <1>1 DEF IInv, Plans, PlanOf, clientVars
<1>6. AtMostOne'  BY <1>1 DEF IInv, AtMostOne, Ids, Pending
<1>7. RowsOwn'  BY <1>1, <1>3 DEF IInv, RowsOwn, Ids, Outstanding
<1>8. CleanUp'  BY <1>1 DEF CleanUp
<1>9. PushedOwn'
  <2>1. rows[pass.row].from = inst \/ owed  BY <1>1 DEF IInv, RowsOwn
  <2>2. \A p \in pushed' : \/ p \in pushed
                          \/ p = [row |-> pass.row, version |-> pass.sha, to |-> inst, owed |-> owed]
    BY DEF Push
  <2> QED  BY <1>1, <2>1, <2>2 DEF IInv, PushedOwn, Ids
<1> QED  BY <1>4, <1>5, <1>6, <1>7, <1>8, <1>9 DEF IInv

\* A row is handed back only when none is pending.
LEMMA ReleaseKeeps ==
    ASSUME IInv, Release
    PROVE  IInv'
<1>1. /\ lock = "pass" /\ pass.row \in Ids /\ rows \in Seq(Row) /\ cursor \in Ids \cup {0}
      /\ faults \in 0..MaxFaults /\ Stop
      /\ UNCHANGED <<diskVars, clientVars, inst, owed, rommVars, faults>>
  BY AtRow DEF Release
<1>2. CASE UNCHANGED rows \/ SetState(pass.row, "abandoned")
  <2>1. Fading  BY <1>1, <1>2, FadesAs DEF States
  <2>2. Leave  BY <1>1 DEF Leave
  <2>3. /\ pass' \in [at : At, row : Nat, sha : Versions]
        /\ IF lock' = "pass" THEN pass'.at = "probe" /\ pass'.row \in Ids
           ELSE lock' = "free" /\ pass'.at = "none" /\ pass'.row = 0
        /\ cursor' \in Ids \cup {0}
    BY <1>1, <2>2, Left
  <2> QED  BY <1>1, <2>1, <2>3, PassKeeps DEF rommVars
<1>3. CASE ~NewerPending(pass.row) /\ SetState(pass.row, "pending") /\ rows[pass.row].state = "settling"
  <2>1. /\ rows' \in Seq(Row) /\ Ids' = Ids
        /\ \A q \in Ids : /\ rows'[q].from = rows[q].from
                          /\ rows'[q].state = IF q = pass.row THEN "pending" ELSE rows[q].state
    BY <1>1, <1>3, StateSet DEF States
  <2>2. pass' = Nowhere /\ lock' = "free" /\ cursor' \in Ids \cup {0}  BY <1>1 DEF Stop
  <2>3. Types'
    BY <1>1, <2>1, <2>2 DEF IInv, Types, diskVars, clientVars, Nowhere, At, Versions
  <2>4. Plans'  BY <1>1 DEF IInv, Plans, PlanOf, clientVars
  <2>5. AtMostOne'  BY <1>3, <2>1 DEF AtMostOne, Pending, NewerPending
  <2>6. RowsOwn'  BY <1>1, <1>3, <2>1, <2>2 DEF IInv, RowsOwn, Outstanding, Nowhere
  <2>7. CleanUp'  BY <2>2 DEF CleanUp
  <2>8. PushedOwn'  BY <1>1, <2>1 DEF IInv, PushedOwn, rommVars
  <2> QED  BY <2>3, <2>4, <2>5, <2>6, <2>7, <2>8 DEF IInv
<1> QED  BY <1>2, <1>3 DEF Release, ReleasedTo

-----------------------------------------------------------------------------
\* The rest of the system.

LEMMA AgesKeeps ==
    ASSUME IInv, NEW r \in Ids, ClaimAges(r)
    PROVE  IInv'
<1>1. /\ SetState(r, "stale") /\ Outstanding(r)
      /\ UNCHANGED <<diskVars, clientVars, inst, owed, lock, passVars, rommVars, faults>>
  BY DEF ClaimAges, Outstanding
<1>2. Fading  BY <1>1, FadesAs DEF IInv, Types, States
<1>3. Types'  BY <1>1, <1>2 DEF IInv, Types, Fading, diskVars, clientVars, passVars
<1>4. Plans'  BY <1>1 DEF IInv, Plans, PlanOf, clientVars
<1>5. CleanUp'  BY <1>1, <1>2 DEF IInv, CleanUp, Sweeping, Fading, clientVars
<1> QED  BY <1>1, <1>2, <1>3, <1>4, <1>5, Followed DEF IInv, passVars, rommVars

\* Another instance is saved together with the marker.
LEMMA SaveKeeps ==
    ASSUME IInv, SaveIdentity
    PROVE  IInv'
<1>1. /\ lock = "free" /\ ~Sweeping /\ inst < MaxInst /\ inst' = inst + 1 /\ owed' = TRUE /\ lock' = "retire"
      /\ UNCHANGED <<rows, diskVars, clientVars, passVars, pushed, faults>>
  BY DEF SaveIdentity
<1>2. inst' \in 1..MaxInst  BY <1>1, RepinLedgerAssumption DEF IInv, Types
<1>3. Types'  BY <1>1, <1>2 DEF IInv, Types, Ids, diskVars, clientVars, passVars
<1>4. Plans'
  <2> SUFFICES ASSUME NEW c \in Clients PROVE PlanOf(c, pc[c], saw[c])'
    BY DEF Plans
  <2>1. PlanOf(c, pc[c], saw[c])  BY DEF IInv, Plans
  <2>2. inst \in Nat /\ saw[c].gen \in Nat /\ saw[c].from \in Nat  BY DEF IInv, Types, Seen
  <2>3. pc[c] \notin {"looked at", "queued"}
    BY <1>1, <2>1 DEF Sweeping, PlanOf
  <2>4. saw[c].gen <= inst /\ saw[c].from <= inst  BY <2>1 DEF PlanOf
  <2>5. saw[c].gen <= inst' /\ saw[c].from <= inst'  BY <1>1, <2>2, <2>4
  <2> QED  BY <1>1, <2>1, <2>3, <2>5 DEF PlanOf, clientVars
<1>5. AtMostOne'  BY <1>1 DEF IInv, AtMostOne, Ids, Pending
<1>6. RowsOwn' /\ CleanUp'  BY <1>1 DEF RowsOwn, CleanUp, Sweeping, clientVars
<1>7. PushedOwn'  BY <1>1 DEF IInv, PushedOwn, Ids
<1> QED  BY <1>3, <1>4, <1>5, <1>6, <1>7 DEF IInv

\* The clean-up, whose marker goes only over rows that are retired.
LEMMA CleanUpKeeps ==
    ASSUME IInv, RetireRows \/ ClearOwed \/ RetryCleanup
    PROVE  IInv'
<1>1. /\ lock \in {"free", "retire", "clear"} /\ lock' \in {"free", "retire", "clear"}
      /\ UNCHANGED <<diskVars, clientVars, inst, passVars, rommVars>> /\ pass.at = "none"
  BY DEF IInv, Types, RetireRows, ClearOwed, RetryCleanup
<1>2. Fading /\ (rows' # rows \/ lock' = "clear" => \A q \in Ids : ~Outstanding(q)')
  <2>1. CASE rows' = Retired(rows)
    BY <2>1, RowsRetired DEF IInv, Types, Fading, Pending, Outstanding
  <2>2. CASE UNCHANGED rows /\ lock' # "clear"  BY <2>2, FadesNot DEF IInv, Types
  <2> QED  BY <2>1, <2>2 DEF RetireRows, ClearOwed, RetryCleanup
<1>3. faults' \in 0..MaxFaults /\ owed' \in BOOLEAN
  BY Faulted DEF IInv, Types, RetireRows, ClearOwed, RetryCleanup
<1>4. Types'  BY <1>1, <1>2, <1>3 DEF IInv, Types, Fading, diskVars, clientVars, passVars
<1>5. UNCHANGED owed \/ (owed' = FALSE /\ lock = "clear" /\ lock' = "free" /\ UNCHANGED rows)
  BY DEF RetireRows, ClearOwed, RetryCleanup
<1>6. Plans'
  <2>1. owed' => owed  BY <1>5 DEF IInv, Types
  <2> QED  BY <1>1, <2>1 DEF IInv, Plans, PlanOf, clientVars
<1>7. AtMostOne' /\ PushedOwn'  BY <1>1, <1>2 DEF IInv, AtMostOne, PushedOwn, Fading, rommVars
<1>8. RowsOwn'
  <2>1. pass'.at = "none"  BY <1>1 DEF passVars
  <2>2. CASE UNCHANGED owed  BY <1>1, <1>2, <2>1, <2>2 DEF IInv, RowsOwn, Fading
  <2>3. CASE lock = "clear"  BY <1>2, <2>1, <2>3 DEF IInv, CleanUp, RowsOwn, Fading
  <2> QED  BY <1>5, <2>2, <2>3
<1>9. CleanUp'
  <2>1. lock' \in {"retire", "clear"} => owed' /\ ~Sweeping
    BY DEF IInv, CleanUp, RetireRows, ClearOwed, RetryCleanup
  <2> QED  BY <1>1, <1>2, <2>1 DEF CleanUp, Fading, Sweeping, clientVars
<1> QED  BY <1>4, <1>6, <1>7, <1>8, <1>9 DEF IInv

\* A crash ends the requests and the pass; what is owed is done next.
LEMMA CrashKeeps ==
    ASSUME IInv, Crash
    PROVE  IInv'
<1>1. /\ UNCHANGED <<rows, file, saw, inst, owed, cursor, rommVars>>
      /\ lock' = (IF owed THEN "retire" ELSE "free") /\ pass' = Nowhere
      /\ pc' = [c \in Clients |-> IF pc[c] \in InRequest THEN "end" ELSE pc[c]]
      /\ job' = [c \in Clients |-> IF c \in Active THEN "over" ELSE job[c]]
  BY DEF Crash
<1>2. faults' \in 0..MaxFaults  BY Faulted DEF IInv, Types, Crash
<1>3. pc' \in [Clients -> Places] /\ job' \in [Clients -> {"none", "queued", "running", "over"}]
  BY <1>1 DEF IInv, Types, Places
<1>4. Fading  BY <1>1, FadesNot DEF IInv, Types
<1>5. Types'  BY <1>1, <1>2, <1>3, <1>4 DEF IInv, Types, Fading, Nowhere, At, Versions
<1>6. \A c \in Clients : pc'[c] \notin InRequest  BY <1>1 DEF InRequest
<1>7. Plans'
  <2>1. \A c \in Clients : saw[c].gen <= inst /\ saw[c].from <= inst  BY DEF IInv, Plans, PlanOf
  <2> QED  BY <1>1, <1>6, <2>1 DEF Plans, PlanOf, InRequest
<1>8. CleanUp'
  <2>1. \A c \in Sweeps : pc'[c] \notin {"looked at", "queued"}  BY <1>6 DEF InRequest, Clients
  <2> QED  BY <1>1, <2>1 DEF CleanUp, Sweeping
<1> QED  BY <1>1, <1>4, <1>5, <1>7, <1>8, Followed DEF IInv, rommVars, Nowhere

LEMMA ScanKeeps ==
    ASSUME IInv, Scan \/ UNCHANGED vars
    PROVE  IInv'
<1>1. UNCHANGED <<rows, diskVars, clientVars, inst, owed, lock, passVars, pushed, faults>>
  BY DEF Scan, vars, diskVars, clientVars, passVars
<1>2. Fading  BY <1>1, FadesNot DEF IInv, Types
<1>3. Types'  BY <1>1, <1>2 DEF IInv, Types, Fading, diskVars, clientVars, passVars
<1>4. Plans'  BY <1>1 DEF IInv, Plans, PlanOf, clientVars
<1>5. CleanUp'  BY <1>1, <1>2 DEF IInv, CleanUp, Sweeping, Fading, clientVars
<1> QED  BY <1>1, <1>2, <1>3, <1>4, <1>5, Followed DEF IInv, passVars

-----------------------------------------------------------------------------
\* The theorems.

LEMMA Initial == Init => IInv
<1> SUFFICES ASSUME Init PROVE IInv  OBVIOUS
<1>1. rows = <<>> /\ rows \in Seq(Row) /\ Ids = {}  BY DEF Init, Ids
<1>2. saw = [c \in Clients |-> [gen |-> 0, from |-> 0, pre |-> "none", row |-> 0]]  BY DEF Init
<1>3. saw \in [Clients -> Seen] /\ \A c \in Clients : saw[c].row = 0 /\ saw[c].gen = 0 /\ saw[c].from = 0
  BY <1>2, RepinLedgerAssumption DEF Seen, Versions
<1>4. pc = [c \in Clients |-> "idle"]  BY DEF Init
<1>5. Types
  <2>1. pc \in [Clients -> Places] /\ job \in [Clients -> {"none", "queued", "running", "over"}]
    BY <1>4 DEF Init, Places
  <2>2. pass = Nowhere /\ pass \in [at : At, row : Nat, sha : Versions]
        /\ pass.at = "none" /\ pass.row = 0 /\ lock = "free" /\ cursor = 0
    BY DEF Init, Nowhere, At, Versions
  <2>3. /\ file \in Versions /\ inst \in 1..MaxInst /\ owed \in BOOLEAN /\ faults \in 0..MaxFaults
    <3>1. MaxInst \in Nat /\ MaxInst >= 1 /\ MaxFaults \in Nat
      BY RepinLedgerAssumption
    <3>2. inst = 1 /\ faults = 0 /\ file = "old" /\ owed = FALSE  BY DEF Init
    <3>3. inst \in 1..MaxInst /\ faults \in 0..MaxFaults  BY <3>1, <3>2
    <3> QED  BY <3>2, <3>3 DEF Versions
  <2> QED  BY <1>1, <1>3, <2>1, <2>2, <2>3 DEF Types
<1>6. Plans  BY <1>3, <1>4 DEF Init, Plans, PlanOf
<1>7. AtMostOne /\ RowsOwn /\ CleanUp /\ PushedOwn
  BY <1>1 DEF Init, AtMostOne, RowsOwn, CleanUp, PushedOwn, Nowhere
<1> QED  BY <1>5, <1>6, <1>7 DEF IInv

LEMMA Inductive == Spec => []IInv
<1>1. IInv /\ [Next]_vars => IInv'
  <2> SUFFICES ASSUME IInv, [Next]_vars PROVE IInv'  OBVIOUS
  <2>1. ASSUME NEW c \in Clients, Job(c) \/ Client(c) PROVE IInv'
    BY <2>1, JobKeeps, TabKeeps, SubmitKeeps, RecordKeeps DEF Client
  <2>2. ASSUME NEW r \in Ids, ClaimAges(r) PROVE IInv'  BY <2>2, AgesKeeps
  <2>3. CASE Passing
    BY <2>3, StartsKeeps, WalkKeeps, StoreKeeps, CloseKeeps, PushKeeps, ReleaseKeeps DEF Passing
  <2>4. CASE Identity  BY <2>4, SaveKeeps, CleanUpKeeps DEF Identity
  <2>5. CASE Crash  BY <2>5, CrashKeeps
  <2>6. CASE Scan \/ UNCHANGED vars  BY <2>6, ScanKeeps
  <2> QED  BY <2>1, <2>2, <2>3, <2>4, <2>5, <2>6 DEF Next
<1> QED  BY <1>1, Initial, PTL DEF Spec

\* The ledger is well formed and has at most one pending row for the output, over
\* any number of clients, re-plans, claims handed back and crashes.
THEOREM LedgerSound == Spec => []LedgerInv
<1>1. ASSUME IInv PROVE LedgerInv
  <2>1. rows \in Seq(Row) /\ \A r \in Ids : rows[r] \in Row  BY <1>1 DEF IInv, Types, Ids
  <2>2. TypeOK
    BY <1>1, <2>1 DEF IInv, Types, TypeOK, Row, States, Versions, Places, Seen
  <2>3. OnePending
    <3> DEFINE P == {r \in Ids : Pending(r)}
    <3>1. CASE P = {}  BY <3>1, FS_EmptySet DEF OnePending
    <3>2. CASE P # {}
      <4>1. PICK r \in P : TRUE  BY <3>2
      <4>2. P = {r}  BY <1>1, <4>1 DEF IInv, AtMostOne
      <4>3. Cardinality(P) = 1  BY <4>2, FS_Singleton
      <4> QED  BY <4>3 DEF OnePending
    <3> QED  BY <3>1, <3>2
  <2> QED  BY <2>2, <2>3 DEF LedgerInv
<1> QED  BY <1>1, Inductive, PTL

\* The ids of one RomM instance are not pushed to another but while a clean-up
\* is owed, however plans, sweeps, passes, changes and crashes interleave.
THEOREM InstanceKept == Spec => []RightInstance
<1>1. IInv => RightInstance  BY DEF IInv, PushedOwn, RightInstance
<1> QED  BY <1>1, Inductive, PTL
\* Only a claim takes a row up.
LEMMA OnlyClaims ==
    ASSUME IInv, [Next]_vars, ~Claim, NEW r \in Ids, rows'[r].state = "settling"
    PROVE  rows[r].state = "settling"
<1>1. rows \in Seq(Row) /\ \A c \in Clients : saw[c] \in Seen  BY DEF IInv, Types
<1>2. ASSUME UNCHANGED rows PROVE rows[r].state = "settling"  BY <1>2
<1>3. ASSUME NEW q \in Ids, NEW s \in States \ {"settling"}, SetState(q, s)
      PROVE  rows[r].state = "settling"
  BY <1>1, <1>3, StateSet
<1>4. ASSUME NEW c \in Clients, Job(c) \/ Client(c) PROVE rows[r].state = "settling"
  <2>1. CASE PlanRecords(c) \/ SweepRecords(c)
    <3>1. UNCHANGED rows \/ (Record(c) /\ saw[c].from # 0)
      <4>1. PlanOf(c, pc[c], saw[c]) /\ inst # 0  BY DEF IInv, Types, Plans
      <4>2. saw[c].from \in Nat /\ saw[c].gen \in Nat  BY <1>1 DEF Seen
      <4>3. CASE PlanRecords(c)
        BY <4>1, <4>2, <4>3 DEF PlanRecords, PlanOf
      <4>4. CASE SweepRecords(c)  BY <4>1, <4>4 DEF SweepRecords, PlanOf
      <4> QED  BY <2>1, <4>3, <4>4
    <3>2. CASE Record(c) /\ saw[c].from # 0
      <4>1. rows'[r].state \in {rows[r].state, "abandoned"}  BY <1>1, <3>2, RowRecorded
      <4> QED  BY <4>1
    <3> QED  BY <1>2, <3>1, <3>2
  <2>2. CASE CancelRetires(c)
    <3>1. saw[c].row \in Ids  BY <2>2 DEF IInv, Types, Plans, PlanOf, CancelRetires
    <3> QED  BY <1>2, <1>3, <2>2, <3>1 DEF CancelRetires, States
  <2> QED
    BY <1>2, <1>4, <2>1, <2>2
    DEF Job, Client, JobStarts, JobEnds, PlanBegins, PlanMatches, PlanLooks, TabSubmits, CancelAsks,
        SweepLooks, SweepSubmits
<1>5. ASSUME NEW q \in Ids, ClaimAges(q) PROVE rows[r].state = "settling"
  BY <1>3, <1>5 DEF ClaimAges, States
<1>6. CASE StoreSha
  <2>1. pass.row \in Ids  BY <1>6, AtRow DEF StoreSha
  <2>2. rows[r] \in Row /\ rows[pass.row] \in Row  BY <1>1, <2>1 DEF Ids
  <2>3. rows'[r] \in {rows[r], [rows[r] EXCEPT !.sha = pass.sha]}
    BY <1>1, <1>6, <2>1 DEF StoreSha, Ids
  <2> QED  BY <2>2, <2>3 DEF Row
<1>7. CASE GiveUp \/ Release \/ Settle
  <2>1. pass.row \in Ids  BY <1>7, AtRow DEF GiveUp, Hopeless, Release, Settle
  <2>2. UNCHANGED rows \/ \E s \in States \ {"settling"} : SetState(pass.row, s)
    BY <1>7 DEF GiveUp, Release, Settle, ReleasedTo, States
  <2> QED  BY <1>2, <1>3, <2>1, <2>2
<1>8. CASE RetireRows
  <2>1. CASE rows' = Retired(rows)
    <3>1. ~Outstanding(r)'  BY <1>1, <2>1, RowsRetired
    <3> QED  BY <3>1 DEF Outstanding
  <2> QED  BY <1>2, <1>8, <2>1 DEF RetireRows
<1> QED
  BY <1>2, <1>4, <1>5, <1>6, <1>7, <1>8
  DEF Next, Passing, Identity, PassStarts, ProbeOutput, Absent, CheckLock, HashOutput, FindMatch, Push,
      SaveIdentity, ClearOwed, RetryCleanup, Crash, Scan, vars

\* No row is taken up, at first or after a crash of its pass, while a newer plan
\* for the output is waiting: that there is one pending row makes it so for the
\* first time, the look at newer rows for a claim that has aged.
THEOREM NewerPlanFirst == Spec => NewerPlanWins
<1>1. ASSUME IInv, [Next]_vars
      PROVE  \A r \in Ids : rows[r].state # "settling" /\ rows'[r].state = "settling" => ~NewerPending(r)
  <2> SUFFICES ASSUME NEW r \in Ids, rows[r].state # "settling", rows'[r].state = "settling"
               PROVE  ~NewerPending(r)
    OBVIOUS
  <2>1. Claim  BY <1>1, OnlyClaims
  <2>2. pass.row \in Ids /\ rows \in Seq(Row)  BY <1>1, <2>1, AtRow DEF Claim
  <2>3. CASE ~MayClaim(pass.row)
    <3>1. SetState(pass.row, "abandoned") \/ UNCHANGED rows  BY <2>1, <2>3 DEF Claim
    <3> QED  BY <2>2, <3>1, StateSet DEF States
  <2>4. CASE MayClaim(pass.row)
    <3>1. SetState(pass.row, "settling")  BY <2>1, <2>4 DEF Claim
    <3>2. r = pass.row  BY <2>2, <3>1, StateSet DEF States
    <3> QED  BY <1>1, <2>4, <3>2 DEF MayClaim, NewerPending, IInv, AtMostOne
  <2> QED  BY <2>3, <2>4
<1> QED  BY <1>1, Inductive, PTL DEF Spec, NewerPlanWins
=============================================================================
