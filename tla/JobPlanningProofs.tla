------------------------- MODULE JobPlanningProofs -------------------------
(***************************************************************************)
(* Theorems about JobPlanning for any inputs, spellings, sidecars, batches *)
(* and number of jobs and requests: live jobs never share a file, a batch  *)
(* is queued whole and within the depth of the queue, two coroutines write *)
(* one file only after a job was deleted while it ran and under two        *)
(* spellings, and a finished primary is replaced only when that was asked. *)
(*                                                                         *)
(* And about ToolRun, which the jobs planned here are run by, for any      *)
(* tool, any number of runs and parts, and any volume: a converter that    *)
(* outlives its run is reported, a sweep that was given up on takes at     *)
(* most one file from the later runs, and nothing partial is left for a    *)
(* product, but for parts behind a gap which such a sweep has made.  The   *)
(* two components share no definition.                                     *)
(***************************************************************************)
EXTENDS JobPlanning, ToolRun, FiniteSetTheorems, WellFoundedInduction, TLAPS

\* Statuses and phases are what they are, and a coroutine works for a job that
\* is processing.
Working ==
    /\ status \in [Jobs -> {"none", "queued", "processing", "ended"}]
    /\ phase \in [Jobs -> {"idle", "clear", "convert", "written"}]
    /\ \A j \in Running : status[j] = "processing"

\* No two coroutines lock one spelling.
LocksApart == \A i, j \in Running : i # j => plan[i].dest # plan[j].dest

IInv == Working /\ ClaimsDisjoint /\ LocksApart

-----------------------------------------------------------------------------
\* The reservation.

\* Each new job has a specification of its own.
LEMMA OwnSpec ==
    ASSUME NEW specs, NEW ids \in FreshIds(specs), NEW j \in Range(ids)
    PROVE  /\ (CHOOSE i \in DOMAIN ids : ids[i] = j) \in specs
           /\ ids[CHOOSE i \in DOMAIN ids : ids[i] = j] = j
           /\ j \in Jobs /\ status[j] = "none"
<1>1. ids \in [specs -> {k \in Jobs : status[k] = "none"}]  BY DEF FreshIds
<1>2. \E i \in DOMAIN ids : ids[i] = j  BY DEF Range
<1> QED  BY <1>1, <1>2

\* Jobs are queued with files that no live job has, nor another of the request.
LEMMA CreateKeeps ==
    ASSUME IInv, NEW r \in Requests, CreateJobs(r)
    PROVE  IInv'
<1> DEFINE q == req[r]
<1>1. PICK ids \in FreshIds(Specs(q)) :
         /\ plan' = [j \in Jobs |-> IF j \in Range(ids)
                                    THEN q.plans[CHOOSE i \in DOMAIN ids : ids[i] = j] ELSE plan[j]]
         /\ status' = [j \in Jobs |-> IF j \in Range(ids) THEN "queued" ELSE status[j]]
  BY DEF CreateJobs
<1> DEFINE new == Range(ids)
           at(j) == CHOOSE i \in DOMAIN ids : ids[i] = j
<1>2. Unclaimed(q) /\ UNCHANGED <<phase, dropped>>  BY DEF CreateJobs
<1>3. plan' = [j \in Jobs |-> IF j \in new THEN q.plans[at(j)] ELSE plan[j]]
  BY <1>1
<1>4. status' = [j \in Jobs |-> IF j \in new THEN "queued" ELSE status[j]]
  BY <1>1
<1>5. ASSUME NEW j \in new
      PROVE  at(j) \in Specs(q) /\ ids[at(j)] = j /\ j \in Jobs /\ status[j] = "none"
  BY OwnSpec
<1> HIDE DEF q, new, at
<1>6. Working' /\ Running \cap new = {}
  BY <1>2, <1>4, <1>5 DEF IInv, Working, Running
<1>7. LocksApart'
  BY <1>2, <1>3, <1>6 DEF IInv, LocksApart, Running
<1>8. ClaimsDisjoint'
  <2>1. ASSUME NEW i \in Live', NEW j \in Live', i # j
        PROVE  FilesOf(plan'[i]) \cap FilesOf(plan'[j]) = {}
    <3>1. /\ i \in Jobs /\ j \in Jobs /\ (i \notin new => i \in Live) /\ (j \notin new => j \in Live)
      BY <1>2, <1>4, <2>1 DEF Live
    <3>2. CASE i \notin new /\ j \notin new
      BY <1>3, <2>1, <3>1, <3>2 DEF IInv, ClaimsDisjoint
    <3>3. CASE i \in new /\ j \notin new
      <4>1. FilesOf(plan[j]) \subseteq ActiveKeys  BY <3>1, <3>3 DEF ActiveKeys, ClaimedFiles
      <4>2. FilesOf(q.plans[at(i)]) \cap ActiveKeys = {}
        BY <1>2, <1>5, <3>3 DEF Unclaimed, ClaimedFiles
      <4> QED  BY <1>3, <3>1, <3>3, <4>1, <4>2
    <3>4. CASE i \notin new /\ j \in new
      <4>1. FilesOf(plan[i]) \subseteq ActiveKeys  BY <3>1, <3>4 DEF ActiveKeys, ClaimedFiles
      <4>2. FilesOf(q.plans[at(j)]) \cap ActiveKeys = {}
        BY <1>2, <1>5, <3>4 DEF Unclaimed, ClaimedFiles
      <4> QED  BY <1>3, <3>1, <3>4, <4>1, <4>2
    <3>5. CASE i \in new /\ j \in new
      <4>1. at(i) # at(j)  BY <1>5, <2>1, <3>5
      <4>2. FilesOf(q.plans[at(i)]) \cap FilesOf(q.plans[at(j)]) = {}
        BY <1>2, <1>5, <3>5, <4>1 DEF Unclaimed, ClaimedFiles
      <4> QED  BY <1>3, <3>1, <3>5, <4>2
    <3> QED  BY <3>2, <3>3, <3>4, <3>5
  <2> QED  BY <2>1 DEF ClaimsDisjoint, FilesOf, Targets
<1> QED  BY <1>6, <1>7, <1>8 DEF IInv


-----------------------------------------------------------------------------
\* Least and greatest places.

LEMMA Least ==
    ASSUME NEW T \in SUBSET Nat, T # {}
    PROVE  \E n \in T : \A m \in T : n <= m
<1>1. \E n \in T : \A m \in T : <<m, n>> \notin OpToRel(<, Nat)
  BY NatLessThanWellFounded, WFMin
<1>2. PICK n \in T : \A m \in T : <<m, n>> \notin OpToRel(<, Nat)  BY <1>1
<1>3. \A m \in T : ~(m < n)  BY <1>2 DEF OpToRel
<1> QED  BY <1>3

\* A finite family of naturals is bounded.
LEMMA Bounded ==
    ASSUME NEW n \in Nat, NEW f \in [1..n -> Nat]
    PROVE  \E b \in Nat : \A i \in 1..n : f[i] <= b
<1> DEFINE Fits(m) == \E b \in Nat : \A i \in 1..m : f[i] <= b
           Fails == {m \in 0..n : ~Fits(m)}
<1>1. Fits(0)
  <2>1. \A i \in 1..0 : f[i] <= 0  OBVIOUS
  <2> QED  BY <2>1
<1>2. ASSUME NEW m \in 1..n, Fits(m - 1) PROVE Fits(m)
  <2>1. PICK b \in Nat : \A i \in 1..(m - 1) : f[i] <= b  BY <1>2
  <2>2. f[m] \in Nat  OBVIOUS
  <2>3. \E c \in Nat : b <= c /\ f[m] <= c
    <3>1. CASE b <= f[m]  BY <2>2, <3>1
    <3>2. CASE f[m] <= b  BY <2>1, <3>2
    <3> QED  BY <2>1, <2>2, <3>1, <3>2
  <2>4. PICK c \in Nat : b <= c /\ f[m] <= c  BY <2>3
  <2>5. ASSUME NEW i \in 1..m PROVE f[i] <= c
    <3>1. f[i] \in Nat /\ (i = m \/ i \in 1..(m - 1))  OBVIOUS
    <3> QED  BY <2>1, <2>4, <3>1
  <2> QED  BY <2>4, <2>5
<1> HIDE DEF Fits
<1>3. SUFFICES ASSUME n \in Fails PROVE FALSE  BY DEF Fits
<1>4. PICK m \in Fails : \A k \in Fails : m <= k
  <2>1. Fails \in SUBSET Nat  OBVIOUS
  <2> QED  BY <1>3, <2>1, Least
<1> QED  BY <1>1, <1>2, <1>4

\* Of some of its places there is one of the highest value, the first of equals.
LEMMA FirstOfHighest ==
    ASSUME NEW n \in Nat, NEW f \in [1..n -> Nat], NEW K \in SUBSET (1..n), K # {}
    PROVE  \E k \in K : \A i \in K : f[i] < f[k] \/ (f[i] = f[k] /\ k <= i)
<1> DEFINE Above(b) == \A i \in K : f[i] <= b
           Bounds == {b \in Nat : Above(b)}
<1>1. \E b \in Nat : Above(b)
  <2>1. PICK b \in Nat : \A i \in 1..n : f[i] <= b  BY Bounded
  <2> QED  BY <2>1
<1>2. ASSUME NEW b \in Nat, Above(b), \A i \in K : f[i] # b
      PROVE  b > 0 /\ Above(b - 1)
  <2>1. \A i \in K : f[i] \in Nat /\ f[i] < b  BY <1>2
  <2>2. PICK i \in K : TRUE  OBVIOUS
  <2> QED  BY <2>1, <2>2
<1> HIDE DEF Above
<1>3. PICK top \in Nat : Above(top) /\ \A b \in Nat : Above(b) => top <= b
  <2>1. Bounds \in SUBSET Nat /\ Bounds # {}  BY <1>1
  <2>2. \E top \in Bounds : \A b \in Bounds : top <= b  BY <2>1, Least
  <2> QED  BY <2>2
<1> DEFINE Tops == {i \in K : f[i] = top}
<1>4. Tops # {}
  <2> SUFFICES ASSUME \A i \in K : f[i] # top PROVE FALSE  OBVIOUS
  <2>1. top > 0 /\ Above(top - 1)  BY <1>2, <1>3
  <2> QED  BY <1>3, <2>1
<1>5. PICK k \in Tops : \A i \in Tops : k <= i
  <2>1. K \subseteq Nat  OBVIOUS
  <2>2. Tops \subseteq K  OBVIOUS
  <2> HIDE DEF Tops
  <2> QED  BY <1>4, <2>1, <2>2, Least
<1>6. ASSUME NEW i \in K PROVE f[i] < f[k] \/ (f[i] = f[k] /\ k <= i)
  <2>1. f[i] <= top /\ f[i] \in Nat /\ f[k] = top  BY <1>3, <1>5 DEF Above
  <2>2. f[i] = top => k <= i  BY <1>5
  <2> QED  BY <1>3, <2>1, <2>2
<1> QED  BY <1>5, <1>6

-----------------------------------------------------------------------------
\* Types.

\* The destination of an input is a name, unless it is left out.
LEMMA ResolveType ==
    ASSUME NEW x \in Inputs, NEW act \in Actions
    PROVE  Resolve(x, act) \in Names \cup {Free}
<1>1. Derived[x] \in Names  BY NamesAssumption
<1>2. Unique(x, Derived[x]) \in Names \cup {Free}
  <2> DEFINE n == Derived[x]
             open == {i \in DOMAIN Renames[n] : ~Taken(x, Renames[n][i])}
  <2>1. Renames[n] \in Seq(Names)  BY <1>1, NamesAssumption
  <2>2. CASE open = {}  BY <2>2 DEF Unique
  <2>3. CASE open # {}
    <3>1. open \in SUBSET Nat /\ open \subseteq DOMAIN Renames[n]  BY <2>1
    <3>2. Unique(x, n) = Renames[n][CHOOSE i \in open : \A k \in open : i <= k]
      BY <2>3 DEF Unique
    <3> HIDE DEF open, n
    <3>3. PICK c \in DOMAIN Renames[n] : Unique(x, n) = Renames[n][c]
      <4>1. (CHOOSE i \in open : \A k \in open : i <= k) \in open  BY <2>3, <3>1, Least
      <4> QED  BY <3>1, <3>2, <4>1
    <3>4. Unique(x, n) \in Names  BY <2>1, <3>3
    <3> QED  BY <3>4 DEF n
  <2> QED  BY <2>2, <2>3
<1> QED  BY <1>1, <1>2 DEF Resolve, Actions

\* What is planned for a request is a plan.
LEMMA PlanType ==
    ASSUME NEW r \in Requests, NEW x \in Inputs, NEW act \in Actions, NEW auto \in BOOLEAN,
           Resolve(x, act) # Free
    PROVE  [input |-> x, base |-> Derived[x], dest |-> Resolve(x, act), act |-> act, of |-> r,
            allow |-> MayReplace(x, act, auto)] \in Plans
<1>1. Derived[x] \in Names /\ Resolve(x, act) \in Names
  BY NamesAssumption, ResolveType
<1>2. MayReplace(x, act, auto) \in BOOLEAN  BY Zenon DEF MayReplace
<1> QED  BY <1>1, <1>2 DEF Plans

ReqType == [pc : {"idle", "planning", "reserving", "done"}, todo : Seq(Inputs),
            plans : Seq(Plans), act : Actions, auto : BOOLEAN]

LEMMA IdleType == Idle \in ReqType /\ Over \in ReqType
<1>1. <<>> \in Seq(Inputs) /\ <<>> \in Seq(Plans)  OBVIOUS
<1> QED  BY <1>1 DEF Idle, Over, ReqType, Actions

LEMMA TypeInit == Init => TypeOK
<1> SUFFICES ASSUME Init PROVE TypeOK  OBVIOUS
<1>1. req \in [Requests -> ReqType]  BY IdleType DEF Init
<1>2. disk \in [Files -> {Free, "user", "late"} \cup Jobs]  BY DEF Init
<1> QED  BY <1>1, <1>2 DEF Init, TypeOK, ReqType

\* A request asks for a batch and goes on to plan it.
LEMMA AskType ==
    ASSUME TypeOK, NEW r \in Requests, NEW batch \in Batches, NEW w \in Policies, NEW auto \in BOOLEAN,
           req' = [req EXCEPT ![r] = Planning(batch, w[1], auto)],
           UNCHANGED <<disk, plan, status, phase, dropped, clobbered, world>>
    PROVE  TypeOK'
<1>1. batch \in Seq(Inputs) /\ w[1] \in Actions  BY NamesAssumption DEF Actions
<1>2. <<>> \in Seq(Plans)  OBVIOUS
<1>3. Planning(batch, w[1], auto) \in ReqType  BY <1>1, <1>2 DEF Planning, ReqType
<1>4. req' \in [Requests -> ReqType]  BY <1>3 DEF TypeOK, ReqType
<1> QED  BY <1>4 DEF TypeOK, ReqType

LEMMA RequestTypes ==
    ASSUME TypeOK, NEW r \in Requests, PlanJob(r) \/ Submit(r) \/ Refuse(r)
    PROVE  TypeOK'
<1> DEFINE q == req[r]
<1>1. q \in ReqType  BY DEF TypeOK, ReqType
<1>2. req' \in [Requests -> ReqType]
  <2>1. CASE PlanJob(r)
    <3> DEFINE x == Head(q.todo)
               d == Resolve(x, q.act)
               p == [input |-> x, base |-> Derived[x], dest |-> d, act |-> q.act, of |-> r,
                     allow |-> MayReplace(x, q.act, q.auto)]
               more == IF d = Free THEN q.plans ELSE Append(q.plans, p)
    <3>1. x \in Inputs /\ Tail(q.todo) \in Seq(Inputs)  BY <1>1, <2>1 DEF PlanJob, ReqType
    <3>2. d # Free => p \in Plans  BY <1>1, <3>1, PlanType DEF ReqType
    <3> HIDE DEF p, d
    <3>3. more \in Seq(Plans)  BY <1>1, <3>2 DEF ReqType
    <3>4. req' = [req EXCEPT ![r] = [q EXCEPT !.todo = Tail(q.todo), !.plans = more]]
      BY <2>1 DEF PlanJob, TypeOK, p, d
    <3> HIDE DEF more
    <3>5. [q EXCEPT !.todo = Tail(q.todo), !.plans = more] \in ReqType
      BY <1>1, <3>1, <3>3 DEF ReqType
    <3> QED  BY <3>4, <3>5 DEF TypeOK, ReqType
  <2>2. CASE Submit(r)
    <3>1. [q EXCEPT !.pc = "reserving"] \in ReqType  BY <1>1 DEF ReqType
    <3>2. req' = [req EXCEPT ![r] = Over] \/ req' = [req EXCEPT ![r] = [q EXCEPT !.pc = "reserving"]]
      BY <2>2 DEF Submit, TypeOK
    <3> QED  BY <3>1, <3>2, IdleType DEF TypeOK, ReqType
  <2>3. CASE Refuse(r)  BY <2>3, IdleType DEF Refuse, TypeOK, ReqType
  <2> QED  BY <2>1, <2>2, <2>3
<1>3. UNCHANGED <<disk, plan, status, phase, dropped, clobbered>>  BY DEF PlanJob, Submit, Refuse
<1> QED  BY <1>2, <1>3 DEF TypeOK, ReqType

LEMMA CreateTypes ==
    ASSUME TypeOK, NEW r \in Requests, CreateJobs(r)
    PROVE  TypeOK'
<1>1. PICK ids \in FreshIds(Specs(req[r])) :
         /\ plan' = [j \in Jobs |-> IF j \in Range(ids)
                                    THEN req[r].plans[CHOOSE i \in DOMAIN ids : ids[i] = j] ELSE plan[j]]
         /\ status' = [j \in Jobs |-> IF j \in Range(ids) THEN "queued" ELSE status[j]]
  BY DEF CreateJobs
<1>2. req[r] \in ReqType /\ [req[r] EXCEPT !.pc = "done"] \in ReqType  BY DEF TypeOK, ReqType
<1>3. req' \in [Requests -> ReqType]  BY <1>2 DEF CreateJobs, TypeOK, ReqType
<1>4. \A j \in Range(ids) : req[r].plans[CHOOSE i \in DOMAIN ids : ids[i] = j] \in Plans
  <2> TAKE j \in Range(ids)
  <2>1. (CHOOSE i \in DOMAIN ids : ids[i] = j) \in Specs(req[r])  BY OwnSpec
  <2>2. Specs(req[r]) \subseteq DOMAIN req[r].plans  BY DEF Specs
  <2> QED  BY <1>2, <2>1, <2>2 DEF ReqType
<1>5. plan' \in [Jobs -> Plans \cup {Free}] /\ \A j \in Jobs : status'[j] # "none" => plan'[j] \in Plans
  BY <1>1, <1>4 DEF TypeOK
<1> QED  BY <1>1, <1>3, <1>5 DEF TypeOK, ReqType, CreateJobs

LEMMA TypeStep == TypeOK /\ Working /\ [Next]_vars => TypeOK'
<1> SUFFICES ASSUME TypeOK, Working, [Next]_vars PROVE TypeOK'  OBVIOUS
<1>1. ASSUME NEW r \in Requests, NEW x \in Inputs, NEW w \in Policies, <<x>> \in Batches,
             AskOne(r, x, w[1])
      PROVE  TypeOK'
  BY <1>1, AskType DEF AskOne
<1>2. ASSUME NEW r \in Requests, NEW b \in Batches, NEW w \in Policies,
             AskBatch(r, b, w[1]) \/ AskSweep(r, b, w[1])
      PROVE  TypeOK'
  BY <1>2, AskType DEF AskBatch, AskSweep
<1>3. ASSUME NEW j \in Jobs, Start(j) \/ WithdrawJob(j) \/ DeleteRunning(j) PROVE TypeOK'
  BY <1>3 DEF TypeOK, Start, WithdrawJob, DeleteRunning, Running
<1>4. ASSUME NEW j \in Jobs, ClearExistingOutput(j) \/ Convert(j) \/ Finish(j) PROVE TypeOK'
  <2>1. plan[j] \in Plans
    BY <1>4 DEF Working, Running, TypeOK, ClearExistingOutput, Convert, Finish
  <2>2. FilesOf(plan[j]) \subseteq Files
    BY <2>1, NamesAssumption DEF FilesOf, Targets, Plans
  <2>3. {j} \X Finished(j, FilesOf(plan[j])) \subseteq Jobs \X Files  BY <2>2 DEF Finished
  <2>4. clobbered' \subseteq Jobs \X Files
    BY <1>4, <2>3 DEF TypeOK, ClearExistingOutput, Convert, Finish
  <2>5. disk' \in [Files -> {Free, "user", "late"} \cup Jobs]
    BY <1>4 DEF TypeOK, ClearExistingOutput, Convert, Finish
  <2>6. UNCHANGED <<req, plan, dropped>>
    BY <1>4 DEF ClearExistingOutput, Convert, Finish
  <2>7. /\ status' \in [Jobs -> {"none", "queued", "processing", "ended"}]
        /\ phase' \in [Jobs -> {"idle", "clear", "convert", "written"}]
        /\ \A k \in Jobs : status'[k] # "none" => plan[k] \in Plans
    BY <1>4, <2>1 DEF TypeOK, ClearExistingOutput, Convert, Finish
  <2> QED  BY <2>4, <2>5, <2>6, <2>7 DEF TypeOK
<1>5. ASSUME NEW f \in Files, Appear(f) \/ Vanish(f) PROVE TypeOK'
  BY <1>5 DEF TypeOK, Appear, Vanish
<1>6. CASE UNCHANGED vars  BY <1>6 DEF TypeOK, vars
<1> QED  BY <1>1, <1>2, <1>3, <1>4, <1>5, <1>6, RequestTypes, CreateTypes DEF Next

-----------------------------------------------------------------------------
\* What is queued of a request.

\* The jobs of request r, and those that answer for its plan p.
Mine(r) == {j \in Jobs : status[j] # "none" /\ plan[j].of = r}
AnswersFor(r, j, p) ==
    /\ Key(req[r], plan[j]) = Key(req[r], p)
    /\ req[r].auto \/ Priority[plan[j].input] >= Priority[p.input]
    /\ \A k \in Mine(r) \ {j} : Key(req[r], plan[k]) # Key(req[r], p)

\* What a plan of request r says.
PlannedFor(r, p) == p.of = r /\ (p.allow => p.act = "overwrite")

WholeOf(r) ==
    /\ \A i \in DOMAIN req[r].plans : PlannedFor(r, req[r].plans[i])
    /\ req[r].pc # "done" => Mine(r) = {}
    /\ Mine(r) # {} =>
          \A i \in DOMAIN req[r].plans : \E j \in Mine(r) : AnswersFor(r, j, req[r].plans[i])

Queued == IsFiniteSet(Live) /\ Depth <= MaxDepth

LEMMA PlanFacts ==
    ASSUME NEW q \in ReqType, NEW k \in DOMAIN q.plans
    PROVE  k \in Nat /\ q.plans[k] \in Plans /\ Priority[q.plans[k].input] \in Nat
<1>1. q.plans \in Seq(Plans)  BY DEF ReqType
<1> HIDE DEF ReqType
<1>2. k \in Nat /\ q.plans[k] \in Plans  BY <1>1
<1>3. q.plans[k].input \in Inputs  BY <1>2 DEF Plans
<1> QED  BY <1>2, <1>3, NamesAssumption

\* Every plan of a batch gives way to one that is queued and is no weaker.
LEMMA WinnerOf ==
    ASSUME NEW q \in ReqType, NEW i \in DOMAIN q.plans
    PROVE  \E k \in Specs(q) : /\ Key(q, q.plans[k]) = Key(q, q.plans[i])
                               /\ q.auto \/ Priority[q.plans[k].input] >= Priority[q.plans[i].input]
<1> DEFINE n == Len(q.plans)
           value == [k \in 1..n |-> IF q.auto THEN 0 ELSE Priority[q.plans[k].input]]
           K == {k \in 1..n : Key(q, q.plans[k]) = Key(q, q.plans[i])}
<1>1. /\ n \in Nat /\ DOMAIN q.plans = 1..n
      /\ \A k \in 1..n : Priority[q.plans[k].input] \in Nat
  <2>1. n \in Nat /\ DOMAIN q.plans = 1..n  BY DEF ReqType
  <2> HIDE DEF n
  <2> QED  BY <2>1, PlanFacts
<1>2. value \in [1..n -> Nat]  BY <1>1
<1>3. K \in SUBSET (1..n) /\ i \in K  BY <1>1
<1> HIDE DEF n, K
<1>4. PICK k \in K : \A l \in K : value[l] < value[k] \/ (value[l] = value[k] /\ k <= l)
  <2> HIDE DEF value
  <2> QED  BY <1>1, <1>2, <1>3, FirstOfHighest
<1>5. k \in 1..n /\ Key(q, q.plans[k]) = Key(q, q.plans[i])  BY <1>4 DEF K
<1>6. \A l \in 1..n \ {k} : Key(q, q.plans[l]) = Key(q, q.plans[k]) => ~Better(q, l, k)
  <2> SUFFICES ASSUME NEW l \in 1..n, l # k, Key(q, q.plans[l]) = Key(q, q.plans[k]) PROVE ~Better(q, l, k)
    OBVIOUS
  <2>1. value[l] < value[k] \/ (value[l] = value[k] /\ k <= l)  BY <1>4, <1>5 DEF K
  <2>2. /\ value[l] = IF q.auto THEN 0 ELSE Priority[q.plans[l].input]
        /\ value[k] = IF q.auto THEN 0 ELSE Priority[q.plans[k].input]
    BY <1>5
  <2> HIDE DEF value
  <2>3. q.auto \in BOOLEAN  BY DEF ReqType
  <2>4. CASE q.auto  BY <1>5, <2>1, <2>2, <2>4 DEF Better
  <2>5. CASE ~q.auto  BY <1>1, <1>5, <2>1, <2>2, <2>5 DEF Better
  <2> QED  BY <2>4, <2>5
<1>7. k \in Specs(q)  BY <1>1, <1>5, <1>6 DEF Specs
<1>8. q.auto \/ Priority[q.plans[k].input] >= Priority[q.plans[i].input]
  <2>1. value[i] < value[k] \/ value[i] = value[k]  BY <1>3, <1>4
  <2>2. ~q.auto => value[i] = Priority[q.plans[i].input] /\ value[k] = Priority[q.plans[k].input]
    BY <1>3, <1>5
  <2> HIDE DEF value
  <2> QED  BY <1>1, <1>3, <1>5, <2>1, <2>2
<1> QED  BY <1>5, <1>7, <1>8

\* No two of the plans that are queued come to one destination.
LEMMA OwnKey ==
    ASSUME NEW q \in ReqType, NEW k \in Specs(q), NEW l \in Specs(q), k # l
    PROVE  Key(q, q.plans[k]) # Key(q, q.plans[l])
<1>1. /\ k \in DOMAIN q.plans /\ l \in DOMAIN q.plans
      /\ Key(q, q.plans[k]) = Key(q, q.plans[l]) => ~Better(q, k, l) /\ ~Better(q, l, k)
  BY DEF Specs
<1>2. k \in Nat /\ l \in Nat
  BY <1>1, PlanFacts
<1>3. Priority[q.plans[k].input] \in Nat /\ Priority[q.plans[l].input] \in Nat
  BY <1>1, PlanFacts
<1>4. Better(q, k, l) \/ Better(q, l, k)  BY <1>2, <1>3 DEF Better
<1> QED  BY <1>1, <1>4

\* As many jobs are queued as there are specifications.
LEMMA NewJobs ==
    ASSUME NEW specs, IsFiniteSet(specs), NEW ids \in FreshIds(specs)
    PROVE  IsFiniteSet(Range(ids)) /\ Cardinality(Range(ids)) <= Cardinality(specs)
<1>1. DOMAIN ids = specs /\ ids \in Surjection(specs, Range(ids))
  BY DEF FreshIds, Surjection, Range
<1> QED  BY <1>1, FS_Surjection

LEMMA CreateQueues ==
    ASSUME TypeOK, IInv, Queued, \A s \in Requests : WholeOf(s), NEW r \in Requests, CreateJobs(r)
    PROVE  Queued' /\ \A s \in Requests : WholeOf(s)'
<1>0. PICK q : q = req[r]  OBVIOUS
<1>1. PICK ids \in FreshIds(Specs(q)) :
         /\ plan' = [j \in Jobs |-> IF j \in Range(ids)
                                    THEN q.plans[CHOOSE i \in DOMAIN ids : ids[i] = j] ELSE plan[j]]
         /\ status' = [j \in Jobs |-> IF j \in Range(ids) THEN "queued" ELSE status[j]]
  BY <1>0 DEF CreateJobs
<1> DEFINE new == Range(ids)
           at(j) == CHOOSE i \in DOMAIN ids : ids[i] = j
<1>2. ASSUME NEW j \in new
      PROVE  at(j) \in Specs(q) /\ ids[at(j)] = j /\ j \in Jobs /\ status[j] = "none"
  BY OwnSpec
<1>3. ASSUME NEW j \in Jobs
      PROVE  /\ j \in new => plan'[j] = q.plans[at(j)] /\ status'[j] = "queued"
             /\ j \notin new => plan'[j] = plan[j] /\ status'[j] = status[j]
  BY <1>1
<1>4. q \in ReqType  BY <1>0 DEF TypeOK, ReqType
<1>5. Specs(q) \subseteq DOMAIN q.plans /\ IsFiniteSet(Specs(q)) /\ Cardinality(Specs(q)) \in Nat
  <2>1. Specs(q) \subseteq DOMAIN q.plans  BY DEF Specs
  <2>2. DOMAIN q.plans = 1..Len(q.plans) /\ Len(q.plans) \in Nat  BY <1>4 DEF ReqType
  <2>3. IsFiniteSet(1..Len(q.plans))  BY <2>2, FS_Interval
  <2>4. IsFiniteSet(Specs(q))  BY <2>1, <2>2, <2>3, FS_Subset
  <2> QED  BY <2>1, <2>4, FS_CardinalityType
<1>6. IsFiniteSet(new) /\ Cardinality(new) \in Nat /\ Cardinality(new) <= Cardinality(Specs(q))
  <2> QED  BY <1>5, NewJobs, FS_CardinalityType
<1>7. \A i \in Specs(q) : ids[i] \in new /\ (\A j \in new : ids[i] = j => at(j) = i)
  BY DEF FreshIds, Range, IsInjective
<1>8. req' = [req EXCEPT ![r].pc = "done"] /\ q.pc = "reserving" /\ dropped' = dropped
      /\ Depth + Cardinality(Specs(q)) <= MaxDepth
  BY <1>0 DEF CreateJobs, RoomFor
<1> HIDE DEF new, at
<1>9. Queued'
  <2>1. Live' \subseteq Live \cup new  BY <1>3, <1>8 DEF Live
  <2>2. /\ IsFiniteSet(Live \cup new) /\ Cardinality(Live) \in Nat
        /\ Cardinality(Live \cup new) <= Cardinality(Live) + Cardinality(new)
    <3>1. IsFiniteSet(Live)  BY DEF Queued
    <3>2. IsFiniteSet(Live \cap new) /\ Cardinality(Live \cap new) \in Nat
      BY <3>1, FS_Subset, FS_CardinalityType
    <3>3. /\ IsFiniteSet(Live \cup new)
          /\ Cardinality(Live \cup new) = Cardinality(Live) + Cardinality(new) - Cardinality(Live \cap new)
      BY <1>6, <3>1, FS_Union
    <3>4. Cardinality(Live) \in Nat  BY <3>1, FS_CardinalityType
    <3> QED  BY <1>6, <3>2, <3>3, <3>4
  <2>3. IsFiniteSet(Live') /\ Cardinality(Live') <= Cardinality(Live \cup new) /\ Cardinality(Live') \in Nat
    BY <2>1, <2>2, FS_Subset, FS_CardinalityType
  <2>4. Cardinality(Live \cup new) \in Nat  BY <2>2, FS_CardinalityType
  <2> QED  BY <1>5, <1>6, <1>8, <2>2, <2>3, <2>4, BoundsAssumption DEF Queued, Depth
<1>10. WholeOf(r) /\ Mine(r) = {}  BY <1>0, <1>8 DEF WholeOf
<1>11. \A s \in Requests : Mine(s)' = IF s = r THEN new ELSE Mine(s)
  <2>1. \A j \in new : plan'[j].of = r /\ status'[j] # "none" /\ j \in Jobs
    BY <1>0, <1>2, <1>3, <1>5, <1>10 DEF WholeOf, PlannedFor
  <2>2. \A j \in Jobs \ new : plan'[j] = plan[j] /\ status'[j] = status[j]  BY <1>3
  <2>3. \A j \in new : \A s \in Requests : j \notin Mine(s)  BY <1>2 DEF Mine
  <2> QED  BY <1>10, <2>1, <2>2, <2>3 DEF Mine
<1>12. ASSUME NEW s \in Requests, s # r PROVE WholeOf(s)'
  <2>1. Mine(s)' = Mine(s) /\ req'[s] = req[s]  BY <1>8, <1>11, <1>12 DEF TypeOK
  <2>2. \A j \in Mine(s) : plan'[j] = plan[j]
    <3>1. \A j \in Mine(s) : j \in Jobs /\ j \notin new  BY <1>2 DEF Mine
    <3> QED  BY <1>3, <3>1
  <2>3. WholeOf(s)  OBVIOUS
  <2> QED  BY <2>1, <2>2, <2>3 DEF WholeOf, AnswersFor, Key, PlannedFor
<1>13. WholeOf(r)'
  <2>1. Mine(r)' = new  BY <1>11
  <2>2. req'[r] = [q EXCEPT !.pc = "done"] /\ req'[r].plans = q.plans /\ req'[r].auto = q.auto
        /\ req'[r].pc = "done"
    BY <1>0, <1>4, <1>8 DEF TypeOK, ReqType
  <2>3. ASSUME NEW i \in DOMAIN q.plans
        PROVE  \E j \in new : AnswersFor(r, j, q.plans[i])'
    <3>1. PICK w \in Specs(q) : /\ Key(q, q.plans[w]) = Key(q, q.plans[i])
                                /\ q.auto \/ Priority[q.plans[w].input] >= Priority[q.plans[i].input]
      BY <1>4, WinnerOf
    <3>2. ids[w] \in new /\ at(ids[w]) = w  BY <1>7
    <3>3. plan'[ids[w]] = q.plans[w]  BY <1>2, <1>3, <3>2
    <3>4. \A k \in new \ {ids[w]} : plan'[k] = q.plans[at(k)] /\ at(k) \in Specs(q) /\ at(k) # w
      BY <1>2, <1>3
    <3>5. \A k \in new \ {ids[w]} : Key(q, plan'[k]) # Key(q, q.plans[i])
      BY <1>4, <3>1, <3>4, OwnKey
    <3> QED  BY <2>1, <2>2, <3>1, <3>2, <3>3, <3>5 DEF AnswersFor, Key
  <2>4. \A i \in DOMAIN q.plans : PlannedFor(r, q.plans[i])  BY <1>0, <1>10 DEF WholeOf
  <2> QED  BY <2>1, <2>2, <2>3, <2>4 DEF WholeOf, PlannedFor
<1> QED  BY <1>9, <1>12, <1>13

\* No other step queues a job, or changes the plan of one.
LEMMA NoNewJobs ==
    ASSUME Working, [Next]_vars, ~\E r \in Requests : CreateJobs(r)
    PROVE  /\ UNCHANGED plan /\ Live' \subseteq Live
           /\ \A j \in Jobs : status'[j] = "none" <=> status[j] = "none"
<1>1. ASSUME NEW r \in Requests, NEW x, NEW act, AskOne(r, x, act) PROVE UNCHANGED <<plan, status, dropped>>
  BY <1>1 DEF AskOne
<1>2. ASSUME NEW r \in Requests, NEW b, NEW act, AskBatch(r, b, act) \/ AskSweep(r, b, act)
      PROVE  UNCHANGED <<plan, status, dropped>>
  BY <1>2 DEF AskBatch, AskSweep
<1>3. ASSUME NEW r \in Requests, PlanJob(r) \/ Submit(r) \/ Refuse(r) PROVE UNCHANGED <<plan, status, dropped>>
  BY <1>3 DEF PlanJob, Submit, Refuse
<1>4. ASSUME NEW f \in Files, Appear(f) \/ Vanish(f) PROVE UNCHANGED <<plan, status, dropped>>
  BY <1>4 DEF Appear, Vanish
<1>5. ASSUME NEW j \in Jobs, Start(j) \/ ClearExistingOutput(j) \/ Convert(j) \/ Finish(j)
                             \/ WithdrawJob(j) \/ DeleteRunning(j)
      PROVE  /\ UNCHANGED plan /\ dropped \subseteq dropped'
             /\ \/ UNCHANGED status
                \/ /\ status[j] \in {"queued", "processing"}
                   /\ \E s \in {"processing", "ended"} : status' = [status EXCEPT ![j] = s]
  BY <1>5 DEF Start, ClearExistingOutput, Convert, Finish, WithdrawJob, DeleteRunning, Working, Running
<1>6. CASE UNCHANGED <<plan, status, dropped>>  BY <1>6 DEF Live
<1>7. ASSUME NEW j \in Jobs, /\ UNCHANGED plan /\ dropped \subseteq dropped'
             /\ \/ UNCHANGED status
                \/ /\ status[j] \in {"queued", "processing"}
                   /\ \E s \in {"processing", "ended"} : status' = [status EXCEPT ![j] = s]
      PROVE  /\ Live' \subseteq Live
             /\ \A k \in Jobs : status'[k] = "none" <=> status[k] = "none"
  BY <1>7 DEF Live, Working
<1>8. CASE UNCHANGED vars  BY <1>6, <1>8 DEF vars
<1> QED  BY <1>1, <1>2, <1>3, <1>4, <1>5, <1>6, <1>7, <1>8 DEF Next

\* Nor do the jobs of a request change, or its plans once it is done.
LEMMA OthersQueue ==
    ASSUME TypeOK, Working, Queued, \A s \in Requests : WholeOf(s),
           [Next]_vars, ~\E r \in Requests : CreateJobs(r)
    PROVE  Queued' /\ \A s \in Requests : WholeOf(s)'
<1>1. /\ UNCHANGED plan /\ Live' \subseteq Live
      /\ \A j \in Jobs : status'[j] = "none" <=> status[j] = "none"
  BY NoNewJobs
<1>2. Queued'
  <2>1. /\ IsFiniteSet(Live') /\ Cardinality(Live') <= Cardinality(Live)
        /\ Cardinality(Live') \in Nat /\ Cardinality(Live) \in Nat
    BY <1>1, FS_Subset, FS_CardinalityType DEF Queued
  <2> QED  BY <2>1, BoundsAssumption DEF Queued, Depth
<1>3. \A s \in Requests : Mine(s)' = Mine(s)  BY <1>1 DEF Mine
<1>4. ASSUME NEW s \in Requests, req'[s] = req[s] PROVE WholeOf(s)'
  <2>1. WholeOf(s)  OBVIOUS
  <2> QED  BY <1>1, <1>3, <1>4, <2>1 DEF WholeOf, AnswersFor, Key, PlannedFor
<1>5. ASSUME NEW r \in Requests, req[r].pc # "done",
             \A i \in DOMAIN req'[r].plans : PlannedFor(r, req'[r].plans[i])
      PROVE  WholeOf(r)'
  <2>1. Mine(r)' = {}  BY <1>3, <1>5 DEF WholeOf
  <2> QED  BY <1>5, <2>1 DEF WholeOf, PlannedFor
<1>6. ASSUME NEW r \in Requests, NEW batch, NEW act, NEW auto, req[r].pc = "idle",
             req' = [req EXCEPT ![r] = Planning(batch, act, auto)]
      PROVE  \A s \in Requests : WholeOf(s)'
  <2>1. req'[r].plans = <<>> /\ \A s \in Requests \ {r} : req'[s] = req[s]
    BY <1>6 DEF Planning, TypeOK
  <2> QED  BY <1>4, <1>5, <1>6, <2>1
<1>7. ASSUME NEW r \in Requests, PlanJob(r) PROVE \A s \in Requests : WholeOf(s)'
  <2> DEFINE q == req[r]
             x == Head(q.todo)
             p == [input |-> x, base |-> Derived[x], dest |-> Resolve(x, q.act), act |-> q.act,
                   of |-> r, allow |-> MayReplace(x, q.act, q.auto)]
  <2>1. q \in ReqType /\ WholeOf(r)  BY DEF TypeOK, ReqType
  <2>2. PlannedFor(r, p)  BY DEF PlannedFor, MayReplace
  <2>3. \A s \in Requests \ {r} : req'[s] = req[s]  BY <1>7 DEF PlanJob, TypeOK
  <2>4. req'[r].plans \in {q.plans, Append(q.plans, p)} /\ q.pc = "planning"
    BY <1>7, <2>1 DEF PlanJob, TypeOK, ReqType
  <2>5. \A i \in DOMAIN q.plans : PlannedFor(r, q.plans[i])  BY <2>1 DEF WholeOf
  <2> HIDE DEF p
  <2>6. \A i \in DOMAIN Append(q.plans, p) : PlannedFor(r, Append(q.plans, p)[i])
    <3>1. q.plans \in Seq(Plans)  BY <2>1 DEF ReqType
    <3> HIDE DEF q
    <3> QED  BY <2>2, <2>5, <3>1
  <2> QED  BY <1>4, <1>5, <2>3, <2>4, <2>5, <2>6
<1>8. ASSUME NEW r \in Requests, Submit(r) \/ Refuse(r) PROVE \A s \in Requests : WholeOf(s)'
  <2>1. \A s \in Requests \ {r} : req'[s] = req[s]  BY <1>8 DEF Submit, Refuse, TypeOK
  <2>2. req'[r].plans \in {<<>>, req[r].plans} /\ req[r].pc # "done"
    BY <1>8 DEF Submit, Refuse, TypeOK, Over, Idle
  <2>3. \A i \in DOMAIN req[r].plans : PlannedFor(r, req[r].plans[i])  BY DEF WholeOf
  <2> QED  BY <1>4, <1>5, <2>1, <2>2, <2>3
<1>9. UNCHANGED req => \A s \in Requests : WholeOf(s)'  BY <1>4
<1>10. \A s \in Requests : WholeOf(s)'
  <2>1. ASSUME NEW r \in Requests, NEW x, NEW act, AskOne(r, x, act) PROVE \A s \in Requests : WholeOf(s)'
    BY <1>6, <2>1 DEF AskOne
  <2>2. ASSUME NEW r \in Requests, NEW b, NEW act, AskBatch(r, b, act) \/ AskSweep(r, b, act)
        PROVE  \A s \in Requests : WholeOf(s)'
    BY <1>6, <2>2 DEF AskBatch, AskSweep
  <2>3. ASSUME NEW f \in Files, Appear(f) \/ Vanish(f) PROVE UNCHANGED req
    BY <2>3 DEF Appear, Vanish
  <2>4. ASSUME NEW j \in Jobs, Start(j) \/ ClearExistingOutput(j) \/ Convert(j) \/ Finish(j)
                               \/ WithdrawJob(j) \/ DeleteRunning(j)
        PROVE  UNCHANGED req
    BY <2>4 DEF Start, ClearExistingOutput, Convert, Finish, WithdrawJob, DeleteRunning
  <2>5. CASE UNCHANGED vars  BY <1>9, <2>5 DEF vars
  <2> QED  BY <1>7, <1>8, <1>9, <2>1, <2>2, <2>3, <2>4, <2>5 DEF Next
<1> QED  BY <1>2, <1>10

-----------------------------------------------------------------------------
\* The rest of the system.

\* Claims only shrink while no job is created.
LEMMA ClaimsKept ==
    ASSUME ClaimsDisjoint, UNCHANGED plan, Live' \subseteq Live
    PROVE  ClaimsDisjoint'
BY DEF ClaimsDisjoint, FilesOf, Targets

\* A job starts under a spelling that no coroutine has locked.
LEMMA StartKeeps ==
    ASSUME IInv, NEW j \in Jobs, Start(j)
    PROVE  IInv'
<1>1. CASE MayLock(j)
  <2>1. /\ phase' = [phase EXCEPT ![j] = "clear"] /\ status' = [status EXCEPT ![j] = "processing"]
        /\ UNCHANGED <<plan, dropped>> /\ status[j] = "queued"
    BY <1>1 DEF Start
  <2>2. Working' /\ Running' = Running \cup {j}
    BY <2>1 DEF IInv, Working, Running
  <2>3. \A k \in Running : plan[k].dest # plan[j].dest  BY <1>1 DEF MayLock, Locked
  <2>4. LocksApart'  BY <2>1, <2>2, <2>3 DEF IInv, LocksApart
  <2>5. Live' \subseteq Live  BY <2>1 DEF IInv, Working, Live
  <2> QED  BY <2>1, <2>2, <2>4, <2>5, ClaimsKept DEF IInv
<1>2. CASE ~MayLock(j)
  <2>1. status' = [status EXCEPT ![j] = "ended"] /\ UNCHANGED <<plan, phase, dropped>> /\ status[j] = "queued"
    BY <1>2 DEF Start
  <2>2. Working'  BY <2>1 DEF IInv, Working, Running
  <2>3. LocksApart'  BY <2>1 DEF IInv, LocksApart, Running
  <2>4. Live' \subseteq Live  BY <2>1 DEF IInv, Working, Live
  <2> QED  BY <2>1, <2>2, <2>3, <2>4, ClaimsKept DEF IInv
<1> QED  BY <1>1, <1>2

LEMMA RunKeeps ==
    ASSUME IInv, NEW j \in Jobs,
           ClearExistingOutput(j) \/ Convert(j) \/ Finish(j) \/ WithdrawJob(j) \/ DeleteRunning(j)
    PROVE  IInv'
<1>1. /\ UNCHANGED plan /\ dropped \subseteq dropped'
      /\ \/ UNCHANGED <<status, phase>>
         \/ UNCHANGED status /\ phase[j] # "idle" /\ \E p \in {"convert", "written"} : phase' = [phase EXCEPT ![j] = p]
         \/ phase' = [phase EXCEPT ![j] = "idle"] /\ status' = [status EXCEPT ![j] = "ended"]
         \/ UNCHANGED phase /\ status[j] = "queued" /\ status' = [status EXCEPT ![j] = "ended"]
  BY DEF ClearExistingOutput, Convert, Finish, WithdrawJob, DeleteRunning
<1>2. Working' /\ Running' \subseteq Running  BY <1>1 DEF IInv, Working, Running
<1>3. LocksApart'  BY <1>1, <1>2 DEF IInv, LocksApart
<1>4. Live' \subseteq Live  BY <1>1 DEF IInv, Working, Live
<1> QED  BY <1>1, <1>2, <1>3, <1>4, ClaimsKept DEF IInv

\* Requests that plan, and other programs, leave the jobs alone.
LEMMA OthersKeep ==
    ASSUME IInv, UNCHANGED <<plan, status, phase, dropped>>
    PROVE  IInv'
<1>1. Working' /\ LocksApart' /\ Live' = Live
  BY DEF IInv, Working, LocksApart, Running, Live
<1> QED  BY <1>1, ClaimsKept DEF IInv

-----------------------------------------------------------------------------
\* What is replaced.

\* A job may replace what is there only when its request said so.
AllowRight == \A j \in Jobs : status[j] # "none" /\ plan[j].allow => plan[j].act = "overwrite"

\* While a job that was not asked to overwrite is at work, nothing finished is at
\* its destination: there is nothing, what came meanwhile, or what it wrote itself
\* or one that was deleted did.
Guarded(j) ==
    j \in Running \ dropped /\ plan[j].act # "overwrite"
      => disk[Real[plan[j].dest]] \in {Free, "late", j} \cup dropped

ReplacedRight ==
    /\ \A e \in clobbered : status[e[1]] # "none"
    /\ PrimaryAgreed

LEMMA AllowStep ==
    ASSUME TypeOK, Working, AllowRight, \A s \in Requests : WholeOf(s), [Next]_vars
    PROVE  AllowRight'
<1>1. ASSUME NEW r \in Requests, CreateJobs(r) PROVE AllowRight'
  <2>1. PICK ids \in FreshIds(Specs(req[r])) :
           /\ plan' = [j \in Jobs |-> IF j \in Range(ids)
                                      THEN req[r].plans[CHOOSE i \in DOMAIN ids : ids[i] = j] ELSE plan[j]]
           /\ status' = [j \in Jobs |-> IF j \in Range(ids) THEN "queued" ELSE status[j]]
    BY <1>1 DEF CreateJobs
  <2>2. ASSUME NEW j \in Range(ids)
        PROVE  PlannedFor(r, req[r].plans[CHOOSE i \in DOMAIN ids : ids[i] = j])
    <3>1. (CHOOSE i \in DOMAIN ids : ids[i] = j) \in Specs(req[r])  BY OwnSpec
    <3> QED  BY <3>1 DEF Specs, WholeOf
  <2>3. ASSUME NEW j \in Jobs, status'[j] # "none", plan'[j].allow PROVE plan'[j].act = "overwrite"
    <3>1. CASE j \in Range(ids)
      <4>1. PlannedFor(r, plan'[j])  BY <2>1, <2>2, <3>1
      <4> QED  BY <2>3, <4>1 DEF PlannedFor
    <3>2. CASE j \notin Range(ids)  BY <2>1, <2>3, <3>2 DEF AllowRight
    <3> QED  BY <3>1, <3>2
  <2> QED  BY <2>3 DEF AllowRight
<1>2. CASE ~\E r \in Requests : CreateJobs(r)
  <2>1. UNCHANGED plan /\ \A j \in Jobs : status'[j] = "none" <=> status[j] = "none"
    BY <1>2, NoNewJobs
  <2> QED  BY <2>1 DEF AllowRight
<1> QED  BY <1>1, <1>2

\* The destination of a job that has been created is one of its files.
LEMMA OwnFile ==
    ASSUME TypeOK, NEW j \in Jobs, status[j] # "none"
    PROVE  Real[plan[j].dest] \in FilesOf(plan[j]) /\ Real[plan[j].dest] \in Files
BY NamesAssumption DEF TypeOK, FilesOf, Targets, Plans

\* The jobs at work keep their plans.
LEMMA PlansStay ==
    ASSUME TypeOK, Working, [Next]_vars, NEW j \in Jobs, status[j] # "none"
    PROVE  plan'[j] = plan[j] /\ status'[j] # "none"
<1>1. ASSUME NEW r \in Requests, CreateJobs(r) PROVE plan'[j] = plan[j] /\ status'[j] # "none"
  <2>1. PICK ids \in FreshIds(Specs(req[r])) :
           /\ plan' = [k \in Jobs |-> IF k \in Range(ids)
                                      THEN req[r].plans[CHOOSE i \in DOMAIN ids : ids[i] = k] ELSE plan[k]]
           /\ status' = [k \in Jobs |-> IF k \in Range(ids) THEN "queued" ELSE status[k]]
    BY <1>1 DEF CreateJobs
  <2>2. j \notin Range(ids)  BY OwnSpec
  <2> QED  BY <2>1, <2>2
<1> QED  BY <1>1, NoNewJobs

\* A step that puts nothing finished on the disk, and starts no job.
LEMMA StaysGuarded ==
    ASSUME TypeOK, Working, [Next]_vars, \A j \in Jobs : Guarded(j),
           Running' \subseteq Running, dropped \subseteq dropped',
           \A j \in Running \ dropped : \A f \in FilesOf(plan[j]) \cap Files :
              disk'[f] \in {disk[f], Free, "late", j} \cup dropped
    PROVE  \A j \in Jobs : Guarded(j)'
<1> SUFFICES ASSUME NEW j \in Jobs, j \in Running' \ dropped', plan'[j].act # "overwrite"
             PROVE  disk'[Real[plan'[j].dest]] \in {Free, "late", j} \cup dropped'
  BY DEF Guarded
<1>1. j \in Running \ dropped /\ status[j] # "none"  BY DEF Working
<1>2. plan'[j] = plan[j]  BY <1>1, PlansStay
<1>3. disk[Real[plan[j].dest]] \in {Free, "late", j} \cup dropped  BY <1>1, <1>2 DEF Guarded
<1>4. Real[plan[j].dest] \in FilesOf(plan[j]) \cap Files  BY <1>1, OwnFile
<1> QED  BY <1>1, <1>2, <1>3, <1>4

\* The record of what was replaced stays right when nothing is added to it.
LEMMA StaysRight ==
    ASSUME TypeOK, Working, [Next]_vars, ReplacedRight, clobbered' = clobbered, dropped \subseteq dropped'
    PROVE  ReplacedRight'
<1> SUFFICES ASSUME NEW e \in clobbered
             PROVE  /\ status'[e[1]] # "none"
                    /\ e[2] = Real[plan'[e[1]].dest] /\ e[1] \notin dropped'
                         => plan'[e[1]].act = "overwrite"
  BY DEF ReplacedRight, PrimaryAgreed
<1>1. e[1] \in Jobs /\ status[e[1]] # "none"  BY DEF TypeOK, ReplacedRight
<1>2. plan'[e[1]] = plan[e[1]] /\ status'[e[1]] # "none"  BY <1>1, PlansStay
<1> QED  BY <1>2 DEF ReplacedRight, PrimaryAgreed

\* A job that clears or writes: it was asked to overwrite, or nothing finished is
\* at its destination.
LEMMA WriteRight ==
    ASSUME TypeOK, Working, [Next]_vars, ReplacedRight, NEW j \in Running, Guarded(j),
           clobbered' = clobbered \cup ({j} \X Finished(j, FilesOf(plan[j]))), dropped' = dropped
    PROVE  ReplacedRight'
<1> SUFFICES ASSUME NEW e \in clobbered'
             PROVE  /\ status'[e[1]] # "none"
                    /\ e[2] = Real[plan'[e[1]].dest] /\ e[1] \notin dropped
                         => plan'[e[1]].act = "overwrite"
  BY DEF ReplacedRight, PrimaryAgreed
<1>1. e[1] \in Jobs /\ status[e[1]] # "none"
  <2>1. j \in Jobs /\ status[j] # "none"  BY DEF Working, Running
  <2>2. e[1] = j \/ e \in clobbered  OBVIOUS
  <2> QED  BY <2>1, <2>2 DEF TypeOK, ReplacedRight
<1>2. plan'[e[1]] = plan[e[1]] /\ status'[e[1]] # "none"  BY <1>1, PlansStay
<1>3. CASE e \in clobbered  BY <1>2, <1>3 DEF ReplacedRight, PrimaryAgreed
<1>4. CASE e \notin clobbered
  <2>1. e[1] = j /\ e[2] \in Finished(j, FilesOf(plan[j]))  BY <1>4
  <2>2. SUFFICES ASSUME e[2] = Real[plan[j].dest], j \notin dropped, plan[j].act # "overwrite"
                 PROVE  FALSE
    BY <1>2, <2>1
  <2>3. disk[e[2]] \in {Free, "late", j} \cup dropped  BY <2>2 DEF Guarded
  <2>4. disk[e[2]] = "user" \/ disk[e[2]] \in Jobs \ (Running \cup dropped \cup {j})
    BY <2>1 DEF Finished
  <2>5. j \in Jobs /\ dropped \subseteq Jobs  BY DEF Running, TypeOK
  <2>6. /\ Free \notin Jobs /\ "user" \notin Jobs /\ "late" \notin Jobs
        /\ Free # "user" /\ "late" # "user"
    BY TagsAssumption
  <2> QED  BY <2>3, <2>4, <2>5, <2>6
<1> QED  BY <1>3, <1>4

LEMMA GuardStep ==
    ASSUME TypeOK, Working, SeparateWriters, AllowRight, [Next]_vars,
           \A j \in Jobs : Guarded(j), ReplacedRight
    PROVE  (\A j \in Jobs : Guarded(j)') /\ ReplacedRight'
<1>1. CASE UNCHANGED <<disk, phase, dropped, clobbered>>
  <2>1. Running' = Running  BY <1>1 DEF Running
  <2>2. \A j \in Jobs : Guarded(j)'  BY <1>1, <2>1, StaysGuarded
  <2> QED  BY <1>1, <2>2, StaysRight
<1>2. ASSUME NEW j \in Jobs, Start(j) PROVE (\A k \in Jobs : Guarded(k)') /\ ReplacedRight'
  <2>1. CASE ~MayLock(j)  BY <1>1, <1>2, <2>1 DEF Start
  <2>2. CASE MayLock(j)
    <3>1. /\ status[j] = "queued" /\ phase' = [phase EXCEPT ![j] = "clear"]
          /\ UNCHANGED <<disk, plan, dropped, clobbered>>
      BY <1>2, <2>2 DEF Start
    <3>2. ASSUME NEW k \in Jobs \ {j} PROVE Guarded(k)'
      <4>1. k \in Running' <=> k \in Running  BY <3>1 DEF Running, Working
      <4>2. Guarded(k)  OBVIOUS
      <4> QED  BY <3>1, <4>1, <4>2 DEF Guarded
    <3>3. plan[j].act # "overwrite" => disk[Real[plan[j].dest]] = Free
      BY <2>2, <3>1 DEF MayLock, Exists, AllowRight
    <3>4. Guarded(j)'  BY <3>1, <3>3 DEF Guarded
    <3> QED  BY <3>1, <3>2, <3>4, StaysRight
  <2> QED  BY <2>1, <2>2
<1>3. ASSUME NEW j \in Jobs, ClearExistingOutput(j) PROVE (\A k \in Jobs : Guarded(k)') /\ ReplacedRight'
  <2>1. /\ j \in Running /\ Running' = Running /\ dropped' = dropped
    BY <1>3 DEF ClearExistingOutput, Running, TypeOK
  <2>2. \A f \in Files : disk'[f] \in {disk[f], Free}  BY <1>3 DEF ClearExistingOutput
  <2>3. \A k \in Jobs : Guarded(k)'  BY <2>1, <2>2, StaysGuarded
  <2>4. Guarded(j)  OBVIOUS
  <2>5. ReplacedRight'  BY <1>3, <2>1, <2>4, WriteRight, StaysRight DEF ClearExistingOutput
  <2> QED  BY <2>3, <2>5
<1>4. ASSUME NEW j \in Jobs, Convert(j) PROVE (\A k \in Jobs : Guarded(k)') /\ ReplacedRight'
  <2>1. /\ j \in Running /\ Running' = Running /\ dropped' = dropped
    BY <1>4 DEF Convert, Running, TypeOK
  <2>2. \A f \in Files : disk'[f] = IF f \in FilesOf(plan[j]) THEN j ELSE disk[f]
    BY <1>4 DEF Convert
  <2>3. \A k \in Running \ dropped : \A f \in FilesOf(plan[k]) : f \in FilesOf(plan[j]) => j \in {k} \cup dropped
    BY <2>1 DEF SeparateWriters
  <2>4. \A k \in Jobs : Guarded(k)'  BY <2>1, <2>2, <2>3, StaysGuarded
  <2>5. Guarded(j)  OBVIOUS
  <2>6. ReplacedRight'  BY <1>4, <2>1, <2>5, WriteRight DEF Convert
  <2> QED  BY <2>4, <2>6
<1>5. ASSUME NEW j \in Jobs, Finish(j) PROVE (\A k \in Jobs : Guarded(k)') /\ ReplacedRight'
  <2>1. Running' \subseteq Running /\ UNCHANGED <<dropped, clobbered>>
    BY <1>5 DEF Finish, Running, TypeOK
  <2>2. \A f \in Files : disk'[f] \in {disk[f], Free}  BY <1>5 DEF Finish
  <2>3. \A k \in Jobs : Guarded(k)'  BY <2>1, <2>2, StaysGuarded
  <2> QED  BY <2>1, <2>3, StaysRight
<1>6. ASSUME NEW j \in Jobs, DeleteRunning(j) PROVE (\A k \in Jobs : Guarded(k)') /\ ReplacedRight'
  <2>1. Running' = Running /\ dropped \subseteq dropped' /\ UNCHANGED <<disk, clobbered>>
    BY <1>6 DEF DeleteRunning, Running
  <2>2. \A k \in Jobs : Guarded(k)'  BY <2>1, StaysGuarded
  <2> QED  BY <2>1, <2>2, StaysRight
<1>7. ASSUME NEW f \in Files, Appear(f) \/ Vanish(f) PROVE (\A k \in Jobs : Guarded(k)') /\ ReplacedRight'
  <2>1. Running' = Running /\ UNCHANGED <<dropped, clobbered>>
    BY <1>7 DEF Appear, Vanish, Running
  <2>2. \A k \in Running : \A g \in FilesOf(plan[k]) \cap Files : disk'[g] \in {disk[g], Free, "late"}
    BY <1>7 DEF Appear, Vanish, TypeOK
  <2>3. \A k \in Jobs : Guarded(k)'  BY <2>1, <2>2, StaysGuarded
  <2> QED  BY <2>1, <2>3, StaysRight
<1>8. ASSUME NEW r \in Requests, PlanJob(r) \/ Submit(r) \/ CreateJobs(r) \/ Refuse(r)
      PROVE  UNCHANGED <<disk, phase, dropped, clobbered>>
  BY <1>8 DEF PlanJob, Submit, CreateJobs, Refuse
<1>9. ASSUME NEW r \in Requests, NEW b, NEW act, AskOne(r, b, act) \/ AskBatch(r, b, act) \/ AskSweep(r, b, act)
      PROVE  UNCHANGED <<disk, phase, dropped, clobbered>>
  BY <1>9 DEF AskOne, AskBatch, AskSweep
<1>10. ASSUME NEW j \in Jobs, WithdrawJob(j) PROVE UNCHANGED <<disk, phase, dropped, clobbered>>
  BY <1>10 DEF WithdrawJob
<1>11. CASE UNCHANGED vars  BY <1>1, <1>11 DEF vars
<1> QED  BY <1>1, <1>2, <1>3, <1>4, <1>5, <1>6, <1>7, <1>8, <1>9, <1>10, <1>11 DEF Next

LEMMA Inductive == Spec => []IInv
<1>1. Init => IInv
  BY DEF Init, IInv, Working, ClaimsDisjoint, LocksApart, Running, Live
<1>2. IInv /\ [Next]_vars => IInv'
  <2> SUFFICES ASSUME IInv, [Next]_vars PROVE IInv'  OBVIOUS
  <2>1. ASSUME NEW r \in Requests, NEW x, NEW act, AskOne(r, x, act) PROVE IInv'
    BY <2>1, OthersKeep DEF AskOne
  <2>2. ASSUME NEW r \in Requests, NEW b, NEW act, AskBatch(r, b, act) \/ AskSweep(r, b, act) PROVE IInv'
    BY <2>2, OthersKeep DEF AskBatch, AskSweep
  <2>3. ASSUME NEW r \in Requests, PlanJob(r) \/ Submit(r) \/ Refuse(r) PROVE IInv'
    BY <2>3, OthersKeep DEF PlanJob, Submit, Refuse
  <2>4. ASSUME NEW f \in Files, Appear(f) \/ Vanish(f) PROVE IInv'
    BY <2>4, OthersKeep DEF Appear, Vanish
  <2>5. CASE UNCHANGED vars
    BY <2>5, OthersKeep DEF vars
  <2> QED
    BY <2>1, <2>2, <2>3, <2>4, <2>5, CreateKeeps, StartKeeps, RunKeeps DEF Next
<1> QED  BY <1>1, <1>2, PTL DEF Spec

\* Types, and what is let in, with the claims.
LetInInv == TypeOK /\ Queued /\ \A r \in Requests : WholeOf(r)

LEMMA LetInInductive == Spec => []LetInInv
<1>1. Init => LetInInv
  <2> SUFFICES ASSUME Init PROVE Queued /\ \A r \in Requests : WholeOf(r)
    BY TypeInit DEF LetInInv
  <2>1. Live = {} /\ \A r \in Requests : Mine(r) = {}  BY DEF Init, Live, Mine
  <2>2. \A r \in Requests : req[r].plans = <<>>  BY DEF Init, Idle
  <2>3. Queued  BY <2>1, FS_EmptySet, BoundsAssumption DEF Queued, Depth
  <2> QED  BY <2>1, <2>2, <2>3 DEF WholeOf
<1>2. LetInInv /\ IInv /\ [Next]_vars => LetInInv'
  <2> SUFFICES ASSUME LetInInv, IInv, [Next]_vars PROVE LetInInv'  OBVIOUS
  <2>1. TypeOK'  BY TypeStep DEF LetInInv, IInv
  <2>2. Queued' /\ \A r \in Requests : WholeOf(r)'  BY CreateQueues, OthersQueue DEF LetInInv, IInv
  <2> QED  BY <2>1, <2>2 DEF LetInInv
<1> QED  BY <1>1, <1>2, Inductive, PTL DEF Spec

\* And what is replaced.
ReplaceInv == AllowRight /\ (\A j \in Jobs : Guarded(j)) /\ ReplacedRight

\* Two coroutines that write one file: one of the jobs was deleted while it ran.
LEMMA Apart == IInv => SeparateWriters
<1> SUFFICES ASSUME IInv PROVE SeparateWriters  OBVIOUS
<1>1. Running \ dropped \subseteq Live  BY DEF IInv, Working, Running, Live
<1> QED  BY <1>1 DEF IInv, ClaimsDisjoint, LocksApart, SeparateWriters

LEMMA ReplaceInductive == Spec => []ReplaceInv
<1>1. Init => ReplaceInv
  BY DEF Init, ReplaceInv, AllowRight, Guarded, ReplacedRight, PrimaryAgreed, Running
<1>2. ReplaceInv /\ LetInInv /\ IInv /\ [Next]_vars => ReplaceInv'
  <2> SUFFICES ASSUME ReplaceInv, LetInInv, IInv, [Next]_vars PROVE ReplaceInv'  OBVIOUS
  <2>1. TypeOK /\ Working /\ \A r \in Requests : WholeOf(r)  BY DEF LetInInv, IInv
  <2>2. AllowRight'  BY <2>1, AllowStep DEF ReplaceInv
  <2>3. (\A j \in Jobs : Guarded(j)') /\ ReplacedRight'  BY <2>1, Apart, GuardStep DEF ReplaceInv
  <2> QED  BY <2>2, <2>3 DEF ReplaceInv
<1> QED  BY <1>1, <1>2, Inductive, LetInInductive, PTL DEF Spec

-----------------------------------------------------------------------------
\* The theorems.

\* No two live jobs write the same file, whatever was planned against whatever
\* disk before the destinations were reserved, and every plan is well formed.
THEOREM ClaimsApart == Spec => []ClaimsInv
<1>1. IInv /\ LetInInv => ClaimsInv  BY DEF IInv, LetInInv, ClaimsInv
<1> QED  BY <1>1, Inductive, LetInInductive, PTL

\* Two coroutines that write one file: one of the jobs was deleted while it ran,
\* and they spell the file in two ways.
THEOREM WritersApart == Spec => []SeparateWriters
BY Apart, Inductive, PTL

\* The queue never holds more than its depth, and of a request either nothing or
\* one job for each destination, from its strongest input: however many requests
\* were planned against the same free places.
THEOREM QueuedWhole == Spec => []LetIn
<1>1. ASSUME LetInInv PROVE LetIn
  <2>1. DepthBound  BY <1>1 DEF LetInInv, Queued, DepthBound
  <2>2. ASSUME NEW r \in Requests, Mine(r) # {}, NEW i \in DOMAIN req[r].plans
        PROVE  \E j \in Mine(r) : AnswersFor(r, j, req[r].plans[i])
    BY <1>1, <2>2 DEF LetInInv, WholeOf
  <2>3. RequestWhole  BY <2>2 DEF RequestWhole, Mine, AnswersFor
  <2> QED  BY <2>1, <2>3 DEF LetIn
<1> QED  BY <1>1, LetInInductive, PTL

\* A finished file at the destination of a job that was not deleted is replaced
\* only when its request asked to overwrite: not one that came after the plan was
\* made, nor the result of another job that was done in between.
THEOREM PrimarySpared == Spec => []PrimaryAgreed
<1>1. ReplaceInv => PrimaryAgreed  BY DEF ReplaceInv, ReplacedRight
<1> QED  BY <1>1, ReplaceInductive, PTL

-----------------------------------------------------------------------------
\* The inductive invariant of ToolRun.

\* Where a run stands before its child, with it, and after its report.
Early == {"idle", "clear", "mkdir", "prepare"}
Under == {"reading", "stalled", "exit", "term", "kill"}
Late  == {"publish", "sweep", "tree", "ended"}

\* A run has its child and its report where it should: a child that is still
\* there after the report is on the list of the abandoned and reported as such,
\* and a run is complete only when its child ended well.
Reported(r) ==
    /\ pc[r] \in Early => child[r] = "none" /\ r \notin abandoned /\ r \notin tracked
    /\ pc[r] \in Under => child[r] # "none" /\ r \notin abandoned
    /\ pc[r] = "verdict" => child[r] # "none" /\ (r \in abandoned \/ Exited(r))
    /\ pc[r] = "publish" => outcome[r] = "complete"
    /\ pc[r] \in Late <=> outcome[r] # "none"
    /\ pc[r] \in Late => r \notin tracked
    /\ pc[r] \in Late /\ child[r] \in {"running", "dying"} => outcome[r] = "abandoned" /\ r \in abandoned
    /\ outcome[r] = "complete" => child[r] = "ok"

\* A run begins when those before it are over, and what is on the disk is a
\* converter's, or was published.
InTurn == \A r, q \in Runs : q < r /\ pc[r] # "idle" => pc[q] = "ended"
FilesWritten ==
    \A p \in Parts : file[p] # Absent => p \in Written /\ child[file[p]] # "none"
Published ==
    Has("private") => \A r \in Runs :
        file[Base] = r => outcome[r] = "complete" /\ pc[r] \in {"tree", "ended"}

\* A sweep that its run left behind was given up or has returned; one that took
\* a later file was given up, has taken only this one, and takes no more.
LeftBehind(s) == sweep[s].at \in {"none", "returned"} \/ sweep[s].given
SweepRight(s) ==
    /\ sweep[s].at # "unlink" => sweep[s].next = NoPath
    /\ sweep[s].lost # {} => /\ sweep[s].given /\ sweep[s].next = NoPath
                             /\ \E p \in Parts : \A x \in sweep[s].lost : x[1] = p
BeforeRight(r) ==
    /\ pc[r] = "idle" => sweep[<<r, "before">>].at = "none"
    /\ pc[r] \notin {"idle", "clear"} => LeftBehind(<<r, "before">>)
    /\ pc[r] \notin {"idle", "clear", "ended"} => sweep[<<r, "before">>].at \in {"none", "returned"}
AfterRight(r) ==
    /\ sweep[<<r, "after">>].at # "none" => pc[r] \in {"sweep", "tree", "ended"}
    /\ pc[r] \in {"tree", "ended"} => LeftBehind(<<r, "after">>)

\* Until its sweep has listed them the numbered parts of a run follow one another,
\* but for those that the sweeps of earlier runs took while it was under way.
Kept(r, q) == file[q] # Absent \/ \E s \in Sweepers : s[1] < r /\ <<q, r>> \in sweep[s].lost
Gapless(r) ==
    /\ child[r] = "none" => begun[r] = 0
    /\ pc[r] # "ended" /\ sweep[<<r, "after">>].at \in {"none", "list"} =>
          /\ \A q \in 1..begun[r] : Kept(r, q)
          /\ \A p \in Parts : file[p] = r => \A q \in 1..p : Kept(r, q)

\* The sweep of a run that failed has before it all that the run has written, but
\* what is behind a gap.
SweepsAll(r) ==
    LET s == sweep[<<r, "after">>] IN
    outcome[r] \in {"failed", "cancelled"} /\ ~s.given =>
        \A p \in Parts : file[p] = r =>
            \/ BeyondGap(r, p)
            \/ s.at # "returned" /\ (s.at = "unlink" => p \in s.todo \cup {s.next})

RunIInv ==
    /\ ToolTypeOK
    /\ \A r \in Runs : Reported(r)
    /\ InTurn /\ FilesWritten /\ Published
    /\ \A s \in Sweepers : SweepRight(s)
    /\ \A r \in Runs : BeforeRight(r) /\ AfterRight(r) /\ Gapless(r) /\ SweepsAll(r)

\* What the names stand for.
SortsRight ==
    /\ Base \in Parts /\ Base \in Written /\ Written \subseteq Parts /\ Found \subseteq Parts
    /\ NoPath \notin Parts /\ Absent = 0 /\ Absent \notin Runs /\ Runs \subseteq Nat \ {0}
    /\ \A r \in Runs : <<r, "before">> \in Sweepers /\ <<r, "after">> \in Sweepers
    /\ \A s \in Sweepers : s[1] \in Runs /\ (s = <<s[1], "before">> \/ s = <<s[1], "after">>)
LEMMA SweeperIs == ASSUME NEW s \in Sweepers
    PROVE  s[1] \in Runs /\ (s = <<s[1], "before">> \/ s = <<s[1], "after">>)
  BY DEF Sweepers
LEMMA RunIs == ASSUME N \in Nat PROVE Absent = 0 /\ Absent \notin Runs /\ Runs \subseteq Nat \ {0}
  BY DEF Absent, Runs
LEMMA PartsAre ==
    ASSUME NEW e \in Nat
    PROVE  0 \in 0..e /\ -1 \notin 0..e /\ \A p \in 0..e : p \in Nat /\ \A q \in 1..p : q \in 0..e
  OBVIOUS
LEMMA Sorts == SortsRight
<1>1. Base \in Parts /\ Base \in Written /\ Written \subseteq Parts /\ Found \subseteq Parts /\ NoPath \notin Parts
  <2>1. Base \in Parts /\ NoPath \notin Parts
    <3>1. Extra \in Nat
      BY ToolRunAssumption
    <3> QED
      BY <3>1, PartsAre DEF Parts, Base, NoPath
  <2>2. Base \in Written /\ Written \subseteq Parts
    BY <2>1 DEF Written
  <2> QED
    BY <2>1, <2>2 DEF Found
<1>2. \A r \in Runs : <<r, "before">> \in Sweepers /\ <<r, "after">> \in Sweepers
  BY DEF Sweepers
<1>3. N \in Nat
  BY ToolRunAssumption
<1> QED
  BY <1>1, <1>2, <1>3, SweeperIs, RunIs DEF SortsRight

\* The parts below one are parts.
LEMMA PartsBelow ==
    ASSUME NEW p \in Parts
    PROVE  p \in Nat /\ \A q \in 1..p : q \in Parts
<1>1. Extra \in Nat
  BY ToolRunAssumption
<1> QED
  BY <1>1, PartsAre DEF Parts

\* The types of the runs, and those of the sweeps.
RunTypes ==
    /\ pc \in [Runs -> Phases]
    /\ child \in [Runs -> {"none", "running", "dying", "ok", "bad"}]
    /\ outcome \in [Runs -> {"none", "failed", "abandoned", "cancelled", "complete"}]
LEMMA Types == ASSUME ToolTypeOK PROVE RunTypes /\ sweep \in [Sweepers -> SweepStates]
  BY DEF ToolTypeOK, RunTypes

\* What a step makes of the sweep s, all the others being as they were.
Now(s, a, t, n, g, l) ==
    /\ \A z \in Sweepers \ {s} : sweep'[z] = sweep[z]
    /\ sweep'[s].at = a /\ sweep'[s].todo = t /\ sweep'[s].next = n
    /\ sweep'[s].given = g /\ sweep'[s].lost = l
LEMMA NowAt ==
    ASSUME sweep \in [Sweepers -> SweepStates], NEW s \in Sweepers, NEW to,
           sweep' = [sweep EXCEPT ![s].at = to]
    PROVE  Now(s, to, sweep[s].todo, sweep[s].next, sweep[s].given, sweep[s].lost)
  BY DEF Now, SweepStates
LEMMA NowGiven ==
    ASSUME sweep \in [Sweepers -> SweepStates], NEW s \in Sweepers,
           sweep' = [sweep EXCEPT ![s].given = TRUE]
    PROVE  Now(s, sweep[s].at, sweep[s].todo, sweep[s].next, TRUE, sweep[s].lost)
  BY DEF Now, SweepStates
LEMMA NowTodo ==
    ASSUME sweep \in [Sweepers -> SweepStates], NEW s \in Sweepers, NEW to, NEW X,
           sweep' = [sweep EXCEPT ![s].at = to, ![s].todo = X]
    PROVE  Now(s, to, X, sweep[s].next, sweep[s].given, sweep[s].lost)
  BY DEF Now, SweepStates
LEMMA NowTakes ==
    ASSUME sweep \in [Sweepers -> SweepStates], NEW s \in Sweepers, NEW p,
           sweep' = [sweep EXCEPT ![s].next = p, ![s].todo = sweep[s].todo \ {p}]
    PROVE  Now(s, sweep[s].at, sweep[s].todo \ {p}, p, sweep[s].given, sweep[s].lost)
  BY DEF Now, SweepStates
LEMMA NowUnlinks ==
    ASSUME sweep \in [Sweepers -> SweepStates], NEW s \in Sweepers, NEW L,
           sweep' = [sweep EXCEPT ![s].next = NoPath, ![s].lost = L]
    PROVE  Now(s, sweep[s].at, sweep[s].todo, NoPath, sweep[s].given, L)
  BY DEF Now, SweepStates
\* What a sweeping thread does changes neither whose turn it is nor what was given up.
Sweeps(s) ==
    /\ sweep[s].at \in {"list", "unlink"} /\ sweep'[s].at \in {sweep[s].at, "unlink", "returned"}
    /\ sweep'[s].given = sweep[s].given
    /\ \A z \in Sweepers \ {s} : sweep'[z] = sweep[z]
    /\ UNCHANGED <<tool, pc, child, outcome, tracked, abandoned>>

\* A sweeping thread leaves it to its run whether it is left behind.
LEMMA SweepsBehind ==
    ASSUME SortsRight, NEW s \in Sweepers, Sweeps(s),
           \A q \in Runs : BeforeRight(q) /\ AfterRight(q)
    PROVE  \A q \in Runs : BeforeRight(q)' /\ AfterRight(q)'
<1> SUFFICES ASSUME NEW q \in Runs PROVE BeforeRight(q)' /\ AfterRight(q)'
  OBVIOUS
<1>1. <<q, "before">> \in Sweepers /\ <<q, "after">> \in Sweepers /\ BeforeRight(q) /\ AfterRight(q)
  BY DEF SortsRight
<1>2. BeforeRight(q)'
  BY <1>1 DEF Sweeps, BeforeRight, LeftBehind
<1>3. AfterRight(q)'
  BY <1>1 DEF Sweeps, AfterRight, LeftBehind
<1> QED
  BY <1>2, <1>3
LEMMA ListsSweeps == ASSUME sweep \in [Sweepers -> SweepStates], NEW s \in Sweepers, SweepLists(s) PROVE Sweeps(s)
<1>1. CASE sweep' = [sweep EXCEPT ![s].at = "returned"]
  BY <1>1, NowAt DEF SweepLists, Sweeps, Now, runVars, pidVars, diskVars
<1>2. CASE sweep' = [sweep EXCEPT ![s].at = "unlink", ![s].todo = Found]
  BY <1>2, NowTodo DEF SweepLists, Sweeps, Now, runVars, pidVars, diskVars
<1> QED
  BY <1>1, <1>2 DEF SweepLists
LEMMA NextSweeps == ASSUME sweep \in [Sweepers -> SweepStates], NEW s \in Sweepers, SweepNext(s) PROVE Sweeps(s)
<1>1. CASE sweep' = [sweep EXCEPT ![s].at = "returned", ![s].todo = {}]
  BY <1>1, NowTodo DEF SweepNext, Sweeps, Now, runVars, pidVars, diskVars
<1>2. CASE \E p \in sweep[s].todo : sweep' = [sweep EXCEPT ![s].next = p, ![s].todo = sweep[s].todo \ {p}]
  <2>1. PICK p \in sweep[s].todo : sweep' = [sweep EXCEPT ![s].next = p, ![s].todo = sweep[s].todo \ {p}]
    BY <1>2
  <2>2. Now(s, sweep[s].at, sweep[s].todo \ {p}, p, sweep[s].given, sweep[s].lost)
    BY <2>1, NowTakes
  <2> QED
    BY <2>2 DEF SweepNext, Sweeps, Now, runVars, pidVars, diskVars
<1> QED
  BY <1>1, <1>2 DEF SweepNext
LEMMA UnlinksSweeps ==
    ASSUME sweep \in [Sweepers -> SweepStates], NEW s \in Sweepers, SweepRight(s), SweepUnlinks(s)
    PROVE  Sweeps(s)
<1>1. PICK L : sweep' = [sweep EXCEPT ![s].next = NoPath, ![s].lost = L]
  BY DEF SweepUnlinks
<1>2. Now(s, sweep[s].at, sweep[s].todo, NoPath, sweep[s].given, L)
  BY <1>1, NowUnlinks
<1> QED
  BY <1>2 DEF SweepRight, SweepUnlinks, Sweeps, Now, runVars, pidVars

\* A run that has no child yet goes on, or has failed.
EarlyMove(r) ==
    /\ pc[r] \in Early /\ (pc[r] = "idle" => \A q \in 1..(r - 1) : pc[q] = "ended")
    /\ \/ \E to \in Early \ {"idle"} : pc' = [pc EXCEPT ![r] = to] /\ outcome' = outcome
       \/ \E to \in {"sweep", "tree", "ended"} :
             pc' = [pc EXCEPT ![r] = to] /\ outcome' = [outcome EXCEPT ![r] = "failed"]
    /\ UNCHANGED <<tool, file, begun, work, child, tracked, abandoned>>
LEMMA BeginMoves == ASSUME RunTypes, NEW r \in Runs, Reported(r), Begin(r) PROVE EarlyMove(r)
<1>1. CASE Has("clears")
  BY <1>1 DEF RunTypes, Reported, Late, Early, Begin, StartSweep, Goto, EarlyMove, pidVars,
     diskVars
<1>2. CASE ~Has("clears") /\ Has("private")
  BY <1>2 DEF Early, Begin, Goto, EarlyMove, pidVars, diskVars
<1>3. CASE ~Has("clears") /\ ~Has("private")
  BY <1>3 DEF Early, Begin, Prepare, AfterFailure, LastPhase, EndsAs, Goto, EarlyMove,
     pidVars, diskVars
<1> QED
  BY <1>1, <1>2, <1>3
LEMMA ClearedMoves == ASSUME NEW r \in Runs, Cleared(r) PROVE EarlyMove(r)
  BY DEF Early, Cleared, Prepare, AfterFailure, LastPhase, EndsAs, Goto, EarlyMove,
     pidVars, diskVars
LEMMA MakeWorkDirMoves == ASSUME NEW r \in Runs, MakeWorkDir(r) PROVE EarlyMove(r)
  BY DEF Early, MakeWorkDir, Prepare, AfterFailure, LastPhase, EndsAs, Goto, EarlyMove,
     pidVars, diskVars
LEMMA PrepareExpiresMoves == ASSUME NEW r \in Runs, PrepareExpires(r) PROVE EarlyMove(r)
  BY DEF Early, PrepareExpires, AfterFailure, LastPhase, EndsAs, Goto, EarlyMove,
     pidVars, diskVars

\* A run that was reported goes on to its end.
LateMove(r) ==
    /\ pc[r] \in {"publish", "sweep", "tree"}
    /\ \E to \in {"sweep", "tree", "ended"} :
          /\ pc' = [pc EXCEPT ![r] = to]
          /\ \/ outcome' = outcome
             \/ outcome' = [outcome EXCEPT ![r] = "failed"] /\ pc[r] = "publish"
    /\ UNCHANGED <<tool, child, tracked, abandoned>>
LEMMA PublishMoves == ASSUME NEW r \in Runs, Publish(r) PROVE LateMove(r)
<1>1. CASE Has("private") /\ r \notin work
  BY <1>1 DEF Publish, AfterFailure, LastPhase, EndsAs, Goto, LateMove, pidVars
<1>2. CASE ~(Has("private") /\ r \notin work)
  BY <1>2 DEF Publish, AfterFailure, LastPhase, EndsAs, Goto, LateMove, pidVars
<1> QED
  BY <1>1, <1>2
LEMMA SweepStartsMoves == ASSUME NEW r \in Runs, SweepStarts(r) PROVE LateMove(r)
  BY DEF SweepStarts, StartSweep, LastPhase, Goto, LateMove, pidVars, diskVars
LEMMA SweepEndsMoves == ASSUME NEW r \in Runs, SweepEnds(r) PROVE LateMove(r)
  BY DEF SweepEnds, LastPhase, Goto, LateMove, pidVars, diskVars
LEMMA RemoveTreeMoves == ASSUME NEW r \in Runs, RemoveTree(r) PROVE LateMove(r)
  BY DEF RemoveTree, Goto, LateMove, pidVars


\* One silence more is within the bound.
LEMMA OneMoreHang == ASSUME NEW m \in Nat, NEW h \in 0..m, h < m PROVE h + 1 \in 0..m
  OBVIOUS

\* A sweep moves from one of these states to another.
LEMMA SweepAt ==
    ASSUME sweep \in [Sweepers -> SweepStates], NEW s \in Sweepers,
           NEW to \in {"none", "list", "unlink", "returned"},
           sweep' = [sweep EXCEPT ![s].at = to]
    PROVE  sweep' \in [Sweepers -> SweepStates]
<1>1. [sweep[s] EXCEPT !.at = to] \in SweepStates
  BY DEF SweepStates
<1> QED
  BY <1>1
LEMMA SweepGiven ==
    ASSUME sweep \in [Sweepers -> SweepStates], NEW s \in Sweepers,
           sweep' = [sweep EXCEPT ![s].given = TRUE]
    PROVE  sweep' \in [Sweepers -> SweepStates]
<1>1. [sweep[s] EXCEPT !.given = TRUE] \in SweepStates
  BY DEF SweepStates
<1> QED
  BY <1>1

LEMMA SweepLosesOne ==
    ASSUME sweep \in [Sweepers -> SweepStates], NEW s \in Sweepers, NEW L \in SUBSET (Parts \X Runs),
           sweep' = [sweep EXCEPT ![s].next = NoPath, ![s].lost = L]
    PROVE  sweep' \in [Sweepers -> SweepStates]
<1>1. [sweep[s] EXCEPT !.next = NoPath, !.lost = L] \in SweepStates
  BY DEF SweepStates
<1>2. sweep' = [sweep EXCEPT ![s] = [sweep[s] EXCEPT !.next = NoPath, !.lost = L]]
  OBVIOUS
<1> QED
  BY <1>1, <1>2
LEMMA SweepTodo ==
    ASSUME sweep \in [Sweepers -> SweepStates], NEW s \in Sweepers, NEW X \in SUBSET Parts,
           NEW to \in {"unlink", "returned"},
           sweep' = [sweep EXCEPT ![s].at = to, ![s].todo = X]
    PROVE  sweep' \in [Sweepers -> SweepStates]
<1>1. [sweep[s] EXCEPT !.at = to, !.todo = X] \in SweepStates
  BY DEF SweepStates
<1>2. sweep' = [sweep EXCEPT ![s] = [sweep[s] EXCEPT !.at = to, !.todo = X]]
  OBVIOUS
<1> QED
  BY <1>1, <1>2
LEMMA SweepTakes ==
    ASSUME sweep \in [Sweepers -> SweepStates], NEW s \in Sweepers, NEW p \in sweep[s].todo,
           sweep' = [sweep EXCEPT ![s].next = p, ![s].todo = @ \ {p}]
    PROVE  sweep' \in [Sweepers -> SweepStates]
<1>1. [sweep[s] EXCEPT !.next = p, !.todo = @ \ {p}] \in SweepStates
  BY DEF SweepStates
<1>2. sweep' = [sweep EXCEPT ![s] = [sweep[s] EXCEPT !.next = p, !.todo = @ \ {p}]]
  OBVIOUS
<1> QED
  BY <1>1, <1>2
\* A new probe is a run's.
LEMMA OneMoreProbe ==
    ASSUME ToolTypeOK, NEW r \in Runs, NEW k \in Samples \cup {"makedirs"},
           probes' = probes \cup {<<r, k>>}
    PROVE  probes' \subseteq Runs \X (Samples \cup {"makedirs"})
  BY DEF ToolTypeOK
\* Whatever becomes of the first probe of a run.
PreparedWell ==
    /\ pc' \in [Runs -> Phases]
    /\ outcome' \in [Runs -> {"none", "failed", "abandoned", "cancelled", "complete"}]
    /\ probes' \subseteq Runs \X (Samples \cup {"makedirs"})
LEMMA Prepared == ASSUME ToolTypeOK, NEW r \in Runs, Prepare(r) PROVE PreparedWell
<1>1. probes' = probes \cup {<<r, "makedirs">>} \/ probes' = probes
  BY DEF Prepare
<1>2. probes' \subseteq Runs \X (Samples \cup {"makedirs"})
  BY <1>1, OneMoreProbe DEF ToolTypeOK
<1> QED
  BY <1>2 DEF PreparedWell, Prepare, Goto, EndsAs, AfterFailure, LastPhase, ToolTypeOK,
     Phases
\* A write changes one path, or the work directory of its run.
LEMMA Wrote == ASSUME ToolTypeOK, SortsRight, NEW r \in Runs, NEW p \in Parts, WritesFor(r, p)
    PROVE  file' \in [Parts -> Runs \cup {Absent}] /\ work' \subseteq Runs
  BY DEF ToolTypeOK, SortsRight, WritesFor
\* Every step keeps the types.
LEMMA ToolTypeStep ==
    ASSUME ToolTypeOK, ToolNext
    PROVE  ToolTypeOK'
<1>1. ASSUME NEW r \in Runs, Begin(r) PROVE ToolTypeOK'
  <2>1. CASE Has("clears")
    <3>1. sweep' \in [Sweepers -> SweepStates]
      BY <1>1, <2>1, Sorts, SweepAt DEF Begin, StartSweep, ToolTypeOK, SortsRight
    <3> QED
      BY <1>1, <2>1, <3>1, ToolTypeOK DEF Begin, Goto, StartSweep, runVars, pidVars,
         diskVars, ToolTypeOK, Phases
  <2>2. CASE ~Has("clears") /\ Has("private")
    BY <1>1, <2>2, ToolTypeOK DEF Begin, Goto, runVars, pidVars, diskVars, ToolTypeOK,
       Phases
  <2>3. CASE ~Has("clears") /\ ~Has("private")
    BY <1>1, <2>3, ToolTypeOK, Prepared DEF Begin, PreparedWell, pidVars, diskVars, ToolTypeOK
  <2> QED
    BY <2>1, <2>2, <2>3
<1>2. ASSUME NEW r \in Runs, Cleared(r) PROVE ToolTypeOK'
  <2>1. sweep' \in [Sweepers -> SweepStates]
    BY <1>2, Sorts, SweepGiven DEF Cleared, ToolTypeOK, SortsRight
  <2>2. PreparedWell
    BY <1>2, Prepared, ToolTypeOK DEF Cleared, PreparedWell, Goto, EndsAs, ToolTypeOK, Phases
  <2> QED
    BY <1>2, <2>1, <2>2, ToolTypeOK DEF Cleared, PreparedWell, pidVars, diskVars, ToolTypeOK
<1>3. ASSUME NEW r \in Runs, MakeWorkDir(r) PROVE ToolTypeOK'
  BY <1>3, Prepared, ToolTypeOK DEF MakeWorkDir, PreparedWell, pidVars, diskVars, ToolTypeOK
<1>4. ASSUME NEW r \in Runs, Spawn(r) PROVE ToolTypeOK'
  BY <1>4 DEF Spawn, Goto, diskVars, ToolTypeOK, Phases
<1>5. ASSUME NEW r \in Runs, PrepareExpires(r) PROVE ToolTypeOK'
  BY <1>5 DEF PrepareExpires, Goto, EndsAs, AfterFailure, LastPhase, pidVars,
     diskVars, ToolTypeOK, Phases
<1>6. ASSUME NEW r \in Runs, EndOfOutput(r) PROVE ToolTypeOK'
  BY <1>6 DEF EndOfOutput, Goto, pidVars, diskVars, ToolTypeOK, Phases
<1>7. ASSUME NEW r \in Runs, Stall(r) PROVE ToolTypeOK'
  BY <1>7 DEF Stall, Goto, pidVars, diskVars, ToolTypeOK, Phases
<1>8. ASSUME NEW r \in Runs, StallKills(r) PROVE ToolTypeOK'
  BY <1>8 DEF StallKills, Goto, Killed, Exited, pidVars, diskVars, ToolTypeOK, Phases
<1>9. ASSUME NEW r \in Runs, Reaped(r) PROVE ToolTypeOK'
  BY <1>9 DEF Reaped, Goto, Exited, pidVars, diskVars, ToolTypeOK, Phases
<1>10. ASSUME NEW r \in Runs, AskToStop(r) PROVE ToolTypeOK'
  BY <1>10 DEF AskToStop, Goto, Exited, pidVars, diskVars, ToolTypeOK, Phases
<1>11. ASSUME NEW r \in Runs, Kill(r) PROVE ToolTypeOK'
  BY <1>11 DEF Kill, Goto, Killed, Exited, pidVars, diskVars, ToolTypeOK, Phases
<1>12. ASSUME NEW r \in Runs, Abandon(r) PROVE ToolTypeOK'
  BY <1>12 DEF Abandon, Goto, GivesUp, NoteChild, Exited, diskVars, ToolTypeOK, Phases
<1>13. ASSUME NEW r \in Runs, Verdict(r) PROVE ToolTypeOK'
  BY <1>13 DEF Verdict, Goto, EndsAs, Report, AfterFailure, LastPhase, diskVars,
     ToolTypeOK, Phases
<1>14. ASSUME NEW r \in Runs, Publish(r) PROVE ToolTypeOK'
  BY <1>14 DEF Publish, Goto, EndsAs, AfterFailure, LastPhase, pidVars, ToolTypeOK,
     Phases
<1>15. ASSUME NEW r \in Runs, SweepStarts(r) PROVE ToolTypeOK'
  <2>1. sweep' \in [Sweepers -> SweepStates]
    BY <1>15, Sorts, SweepAt DEF SweepStarts, StartSweep, ToolTypeOK, SortsRight
  <2> QED
    BY <1>15, <2>1, ToolTypeOK DEF SweepStarts, StartSweep, Goto, LastPhase, pidVars,
       diskVars, ToolTypeOK, Phases
<1>16. ASSUME NEW r \in Runs, SweepEnds(r) PROVE ToolTypeOK'
  <2>1. sweep' \in [Sweepers -> SweepStates]
    BY <1>16, Sorts, SweepGiven DEF SweepEnds, ToolTypeOK, SortsRight
  <2> QED
    BY <1>16, <2>1, ToolTypeOK DEF SweepEnds, Goto, LastPhase, pidVars, diskVars, ToolTypeOK,
       Phases
<1>17. ASSUME NEW r \in Runs, RemoveTree(r) PROVE ToolTypeOK'
  BY <1>17 DEF RemoveTree, Goto, pidVars, ToolTypeOK, Phases
<1>18. ASSUME NEW r \in Runs, Cancel(r) PROVE ToolTypeOK'
  BY <1>18 DEF Cancel, runVars, pidVars, diskVars, ToolTypeOK, Phases
<1>19. ASSUME NEW r \in Runs, WatcherActs(r) PROVE ToolTypeOK'
  BY <1>19 DEF WatcherActs, Awaited, Exited, pidVars, diskVars, ToolTypeOK, Phases
<1>20. ASSUME NEW r \in Runs, WatcherKills(r) PROVE ToolTypeOK'
  BY <1>20 DEF WatcherKills, Killed, runVars, pidVars, diskVars, ToolTypeOK, Phases
<1>21. ASSUME NEW r \in Runs, AbandonedGone(r) PROVE ToolTypeOK'
  BY <1>21 DEF AbandonedGone, Exited, runVars, diskVars, ToolTypeOK, Phases
<1>22. ASSUME NEW r \in Runs, Writes(r) PROVE ToolTypeOK'
  <2>1. PICK p \in Parts : WritesFor(r, p) /\ begun' = [begun EXCEPT ![r] = p]
    BY <1>22 DEF Writes
  <2>2. file' \in [Parts -> Runs \cup {Absent}] /\ work' \subseteq Runs
    BY <2>1, ToolTypeOK, Sorts, Wrote
  <2>3. begun' \in [Runs -> Parts]
    BY <2>1, ToolTypeOK DEF ToolTypeOK
  <2> QED
    BY <1>22, <2>2, <2>3, ToolTypeOK DEF Writes, runVars, pidVars, ToolTypeOK
<1>23. ASSUME NEW r \in Runs, Exits(r) PROVE ToolTypeOK'
  <2>1. begun' \in [Runs -> Parts]
    BY <1>23, ToolTypeOK, Sorts DEF Exits, ToolTypeOK, SortsRight, Base
  <2> QED
    BY <1>23, <2>1 DEF Exits, runVars, pidVars, ToolTypeOK
<1>24. ASSUME NEW r \in Runs, Dies(r) PROVE ToolTypeOK'
  <2>1. file' \in [Parts -> Runs \cup {Absent}] /\ work' \subseteq Runs
    BY <1>24, ToolTypeOK, Sorts, Wrote DEF Dies, ToolTypeOK
  <2>2. begun' \in [Runs -> Parts]
    BY <1>24, ToolTypeOK, Sorts DEF Dies, ToolTypeOK, SortsRight, Base
  <2> QED
    BY <1>24, <2>1, <2>2, ToolTypeOK DEF Dies, runVars, pidVars, ToolTypeOK
<1>25. ASSUME NEW r \in Runs, NEW k \in Samples, Measure(r, k) PROVE ToolTypeOK'
  BY <1>25, ToolTypeOK, OneMoreProbe DEF Measure, runVars, pidVars, diskVars, ToolTypeOK
<1>26. ASSUME NEW x \in probes, ProbeReturns(x) PROVE ToolTypeOK'
  BY <1>26 DEF ProbeReturns, runVars, pidVars, diskVars, ToolTypeOK, Phases
<1>27. ASSUME NEW s \in Sweepers, SweepLists(s) PROVE ToolTypeOK'
  <2>1. sweep' \in [Sweepers -> SweepStates]
    BY <1>27, Sorts, SweepAt, SweepTodo DEF SweepLists, ToolTypeOK, SortsRight
  <2> QED
    BY <1>27, <2>1 DEF SweepLists, runVars, pidVars, diskVars, ToolTypeOK
<1>28. ASSUME NEW s \in Sweepers, SweepNext(s) PROVE ToolTypeOK'
  <2>1. sweep' \in [Sweepers -> SweepStates]
    BY <1>28, SweepTodo, SweepTakes DEF SweepNext, ToolTypeOK
  <2> QED
    BY <1>28, <2>1 DEF SweepNext, runVars, pidVars, diskVars, ToolTypeOK
<1>29. ASSUME NEW s \in Sweepers, SweepUnlinks(s) PROVE ToolTypeOK'
  <2> DEFINE p == sweep[s].next
  <2>1. p \in Parts /\ sweep[s].lost \subseteq Parts \X Runs
    BY <1>29, ToolTypeOK DEF SweepUnlinks, ToolTypeOK, SweepStates
  <2>2. sweep' \in [Sweepers -> SweepStates]
    <3>0. TakenWith(s, p) \subseteq Parts \X Runs
      BY <2>1 DEF TakenWith
    <3>1. PICK L \in SUBSET (Parts \X Runs) : sweep' = [sweep EXCEPT ![s].next = NoPath, ![s].lost = L]
      BY <1>29, <2>1, <3>0 DEF SweepUnlinks
    <3> QED
      BY <3>1, SweepLosesOne DEF ToolTypeOK
  <2>3. file' \in [Parts -> Runs \cup {Absent}]
    BY <1>29, <2>1, ToolTypeOK DEF SweepUnlinks, ToolTypeOK
  <2> QED
    BY <1>29, <2>2, <2>3 DEF SweepUnlinks, runVars, pidVars, ToolTypeOK
<1>30. ASSUME StopAnswering PROVE ToolTypeOK'
  <2>1. MaxHangs \in Nat /\ hangs \in 0..MaxHangs
    BY ToolRunAssumption, ToolTypeOK DEF ToolTypeOK
  <2>2. hangs < MaxHangs /\ hangs' = hangs + 1
    BY <1>30 DEF StopAnswering
  <2>3. hangs' \in 0..MaxHangs
    BY <2>1, <2>2, OneMoreHang
  <2> QED
    BY <1>30, <2>3, ToolTypeOK DEF StopAnswering, runVars, pidVars, ToolTypeOK
<1>31. ASSUME AnswerAgain PROVE ToolTypeOK'
  BY <1>31 DEF AnswerAgain, runVars, pidVars, ToolTypeOK, Phases
<1> QED
  BY <1>1, <1>2, <1>3, <1>4, <1>5, <1>6, <1>7, <1>8, <1>9, <1>10, <1>11, <1>12, <1>13, <1>14,
     <1>15, <1>16, <1>17, <1>18, <1>19, <1>20, <1>21, <1>22, <1>23, <1>24, <1>25, <1>26, <1>27,
     <1>28, <1>29, <1>30, <1>31 DEF ToolNext, Step

\* A run without a child keeps what is reported right.
LEMMA ReportedEarly ==
    ASSUME RunTypes, NEW r \in Runs, EarlyMove(r), \A q \in Runs : Reported(q)
    PROVE  \A q \in Runs : Reported(q)'
<1>1. CASE \E to \in Early \ {"idle"} : pc' = [pc EXCEPT ![r] = to] /\ outcome' = outcome
  <2>1. PICK to \in Early \ {"idle"} : pc' = [pc EXCEPT ![r] = to]
    BY <1>1
  <2> QED
    BY <1>1, <2>1 DEF EarlyMove, RunTypes, Early, Under, Late, Reported, Exited
<1>2. CASE \E to \in {"sweep", "tree", "ended"} :
             pc' = [pc EXCEPT ![r] = to] /\ outcome' = [outcome EXCEPT ![r] = "failed"]
  <2>1. PICK to \in {"sweep", "tree", "ended"} : pc' = [pc EXCEPT ![r] = to]
    BY <1>2
  <2> QED
    BY <1>2, <2>1 DEF EarlyMove, RunTypes, Early, Under, Late, Reported, Exited
<1> QED
  BY <1>1, <1>2 DEF EarlyMove
\* So does a run that was reported.
LEMMA ReportedLate ==
    ASSUME RunTypes, NEW r \in Runs, LateMove(r), \A q \in Runs : Reported(q)
    PROVE  \A q \in Runs : Reported(q)'
<1>1. PICK to \in {"sweep", "tree", "ended"} :
        /\ pc' = [pc EXCEPT ![r] = to]
        /\ \/ outcome' = outcome
           \/ outcome' = [outcome EXCEPT ![r] = "failed"] /\ pc[r] = "publish"
  BY DEF LateMove
<1>2. CASE outcome' = outcome
  BY <1>1, <1>2 DEF LateMove, RunTypes, Early, Under, Late, Reported, Exited
<1>3. CASE outcome' = [outcome EXCEPT ![r] = "failed"] /\ pc[r] = "publish"
  BY <1>1, <1>3 DEF LateMove, RunTypes, Early, Under, Late, Reported, Exited
<1> QED
  BY <1>1, <1>2, <1>3
\* Every step keeps the children and the reports together.
LEMMA ReportedStep ==
    ASSUME ToolTypeOK, \A q \in Runs : Reported(q), ToolNext
    PROVE  \A q \in Runs : Reported(q)'
<1>0. RunTypes /\ sweep \in [Sweepers -> SweepStates] /\ SortsRight
  BY Types, Sorts
<1>r. \A q \in Runs : Reported(q)
  OBVIOUS
<1>1. ASSUME NEW r \in Runs, Begin(r) PROVE \A q \in Runs : Reported(q)'
  BY <1>0, \A q \in Runs : Reported(q), <1>1, BeginMoves, <1>r, ReportedEarly
<1>2. ASSUME NEW r \in Runs, Cleared(r) PROVE \A q \in Runs : Reported(q)'
  BY <1>0, \A q \in Runs : Reported(q), <1>2, ClearedMoves, ReportedEarly
<1>3. ASSUME NEW r \in Runs, MakeWorkDir(r) PROVE \A q \in Runs : Reported(q)'
  BY <1>0, \A q \in Runs : Reported(q), <1>3, MakeWorkDirMoves, ReportedEarly
<1>4. ASSUME NEW r \in Runs, Spawn(r) PROVE \A q \in Runs : Reported(q)'
  BY <1>0, \A q \in Runs : Reported(q), <1>4 DEF Spawn, Goto, diskVars, RunTypes, Phases,
     Reported, Early, Under, Late, Exited
<1>5. ASSUME NEW r \in Runs, PrepareExpires(r) PROVE \A q \in Runs : Reported(q)'
  BY <1>0, \A q \in Runs : Reported(q), <1>5, PrepareExpiresMoves, ReportedEarly
<1>6. ASSUME NEW r \in Runs, EndOfOutput(r) PROVE \A q \in Runs : Reported(q)'
  BY <1>0, \A q \in Runs : Reported(q), <1>6 DEF EndOfOutput, Goto, pidVars, diskVars,
     RunTypes, Phases, Reported, Early, Under, Late, Exited
<1>7. ASSUME NEW r \in Runs, Stall(r) PROVE \A q \in Runs : Reported(q)'
  BY <1>0, \A q \in Runs : Reported(q), <1>7 DEF Stall, Goto, pidVars, diskVars,
     RunTypes, Phases, Reported, Early, Under, Late, Exited
<1>8. ASSUME NEW r \in Runs, StallKills(r) PROVE \A q \in Runs : Reported(q)'
  BY <1>0, \A q \in Runs : Reported(q), <1>8 DEF StallKills, Goto, Killed, Exited,
     pidVars, diskVars, RunTypes, Phases, Reported, Early, Under, Late
<1>9. ASSUME NEW r \in Runs, Reaped(r) PROVE \A q \in Runs : Reported(q)'
  BY <1>0, \A q \in Runs : Reported(q), <1>9 DEF Reaped, Goto, Exited, pidVars,
     diskVars, RunTypes, Phases, Reported, Early, Under, Late
<1>10. ASSUME NEW r \in Runs, AskToStop(r) PROVE \A q \in Runs : Reported(q)'
  BY <1>0, \A q \in Runs : Reported(q), <1>10 DEF AskToStop, Goto, Exited, pidVars,
     diskVars, RunTypes, Phases, Reported, Early, Under, Late
<1>11. ASSUME NEW r \in Runs, Kill(r) PROVE \A q \in Runs : Reported(q)'
  BY <1>0, \A q \in Runs : Reported(q), <1>11 DEF Kill, Goto, Killed, Exited, pidVars,
     diskVars, RunTypes, Phases, Reported, Early, Under, Late
<1>12. ASSUME NEW r \in Runs, Abandon(r) PROVE \A q \in Runs : Reported(q)'
  BY <1>0, \A q \in Runs : Reported(q), <1>12 DEF Abandon, Goto, GivesUp, NoteChild,
     Exited, diskVars, RunTypes, Phases, Reported, Early, Under, Late
<1>13. ASSUME NEW r \in Runs, Verdict(r) PROVE \A q \in Runs : Reported(q)'
  <2>1. pc[r] = "verdict" /\ outcome' = [outcome EXCEPT ![r] = Report(r)] /\ tracked' = tracked \ {r}
        /\ child' = child /\ abandoned' = abandoned
    BY <1>13 DEF Verdict, EndsAs
  <2>2. PICK to \in {"publish", "sweep", "tree", "ended"} :
           pc' = [pc EXCEPT ![r] = to] /\ (to = "publish" => Report(r) = "complete")
    BY <1>13, <2>1, <1>0 DEF Verdict, Goto, AfterFailure, LastPhase, RunTypes
  <2>3. PICK how \in {"abandoned", "failed", "cancelled", "complete"} :
           how = Report(r) /\ (how = "complete" => child[r] = "ok") /\ (r \in abandoned => how = "abandoned")
    BY DEF Report
  <2>4. outcome' = [outcome EXCEPT ![r] = how] /\ (to = "publish" => how = "complete")
    BY <2>1, <2>2, <2>3
  <2>5. ASSUME NEW q \in Runs, q # r PROVE Reported(q)'
    BY <2>1, <2>2, <2>4, <2>5, <1>0 DEF RunTypes, Reported, Exited
  <2>6. Reported(r)'
    BY <2>1, <2>2, <2>3, <2>4, <1>0 DEF RunTypes, Reported, Early, Under, Late, Exited
  <2> QED
    BY <2>5, <2>6
<1>14. ASSUME NEW r \in Runs, Publish(r) PROVE \A q \in Runs : Reported(q)'
  BY <1>0, \A q \in Runs : Reported(q), <1>14, PublishMoves, ReportedLate
<1>15. ASSUME NEW r \in Runs, SweepStarts(r) PROVE \A q \in Runs : Reported(q)'
  BY <1>0, \A q \in Runs : Reported(q), <1>15, SweepStartsMoves, ReportedLate
<1>16. ASSUME NEW r \in Runs, SweepEnds(r) PROVE \A q \in Runs : Reported(q)'
  BY <1>0, \A q \in Runs : Reported(q), <1>16, SweepEndsMoves, ReportedLate
<1>17. ASSUME NEW r \in Runs, RemoveTree(r) PROVE \A q \in Runs : Reported(q)'
  BY <1>0, \A q \in Runs : Reported(q), <1>17, RemoveTreeMoves, ReportedLate
<1>18. ASSUME NEW r \in Runs, Cancel(r) PROVE \A q \in Runs : Reported(q)'
  BY <1>0, \A q \in Runs : Reported(q), <1>18 DEF Cancel, runVars, pidVars, diskVars,
     RunTypes, Phases, Reported, Early, Under, Late, Exited
<1>19. ASSUME NEW r \in Runs, WatcherActs(r) PROVE \A q \in Runs : Reported(q)'
  BY <1>0, \A q \in Runs : Reported(q), <1>19 DEF WatcherActs, Awaited, Exited, pidVars,
     diskVars, RunTypes, Phases, Reported, Early, Under, Late
<1>20. ASSUME NEW r \in Runs, WatcherKills(r) PROVE \A q \in Runs : Reported(q)'
  BY <1>0, \A q \in Runs : Reported(q), <1>20 DEF WatcherKills, Killed, runVars, pidVars,
     diskVars, RunTypes, Phases, Reported, Early, Under, Late, Exited
<1>21. ASSUME NEW r \in Runs, AbandonedGone(r) PROVE \A q \in Runs : Reported(q)'
  BY <1>0, \A q \in Runs : Reported(q), <1>21 DEF AbandonedGone, Exited, runVars,
     diskVars, RunTypes, Phases, Reported, Early, Under, Late
<1>22. ASSUME NEW r \in Runs, Writes(r) PROVE \A q \in Runs : Reported(q)'
  BY <1>0, \A q \in Runs : Reported(q), <1>22 DEF Writes, WritesFor, runVars, pidVars,
     RunTypes, Phases, Reported, Early, Under, Late, Exited
<1>23. ASSUME NEW r \in Runs, Exits(r) PROVE \A q \in Runs : Reported(q)'
  <2>1. PICK how \in {"ok", "bad"} : child' = [child EXCEPT ![r] = how]
    BY <1>23 DEF Exits
  <2> QED
    BY <1>23, <2>1, <1>0, \A q \in Runs : Reported(q) DEF Exits, runVars, pidVars,
       diskVars, RunTypes, Phases, Reported, Early, Under, Late, Exited
<1>24. ASSUME NEW r \in Runs, Dies(r) PROVE \A q \in Runs : Reported(q)'
  BY <1>0, \A q \in Runs : Reported(q), <1>24 DEF Dies, WritesFor, runVars, pidVars,
     RunTypes, Phases, Reported, Early, Under, Late, Exited
<1>25. ASSUME NEW r \in Runs, NEW k \in Samples, Measure(r, k) PROVE \A q \in Runs : Reported(q)'
  BY <1>0, \A q \in Runs : Reported(q), <1>25 DEF Measure, runVars, pidVars, diskVars,
     RunTypes, Phases, Reported, Early, Under, Late, Exited
<1>26. ASSUME NEW x \in probes, ProbeReturns(x) PROVE \A q \in Runs : Reported(q)'
  BY <1>0, \A q \in Runs : Reported(q), <1>26 DEF ProbeReturns, runVars, pidVars,
     diskVars, RunTypes, Phases, Reported, Early, Under, Late, Exited
<1>27. ASSUME NEW s \in Sweepers, SweepLists(s) PROVE \A q \in Runs : Reported(q)'
  BY <1>0, \A q \in Runs : Reported(q), <1>27 DEF SweepLists, Found, runVars, pidVars,
     diskVars, RunTypes, Phases, Reported, Early, Under, Late, Exited
<1>28. ASSUME NEW s \in Sweepers, SweepNext(s) PROVE \A q \in Runs : Reported(q)'
  BY <1>0, \A q \in Runs : Reported(q), <1>28 DEF SweepNext, StopsHere, runVars, pidVars,
     diskVars, RunTypes, Phases, Reported, Early, Under, Late, Exited
<1>29. ASSUME NEW s \in Sweepers, SweepUnlinks(s) PROVE \A q \in Runs : Reported(q)'
  BY <1>0, \A q \in Runs : Reported(q), <1>29 DEF SweepUnlinks, runVars, pidVars, RunTypes,
     Phases, Reported, Early, Under, Late, Exited
<1>30. ASSUME StopAnswering PROVE \A q \in Runs : Reported(q)'
  BY <1>0, \A q \in Runs : Reported(q), <1>30 DEF StopAnswering, runVars, pidVars,
     RunTypes, Phases, Reported, Early, Under, Late, Exited
<1>31. ASSUME AnswerAgain PROVE \A q \in Runs : Reported(q)'
  BY <1>0, \A q \in Runs : Reported(q), <1>31 DEF AnswerAgain, runVars, pidVars, RunTypes,
     Phases, Reported, Early, Under, Late, Exited
<1> QED
  BY <1>1, <1>2, <1>3, <1>4, <1>5, <1>6, <1>7, <1>8, <1>9, <1>10, <1>11, <1>12, <1>13, <1>14,
     <1>15, <1>16, <1>17, <1>18, <1>19, <1>20, <1>21, <1>22, <1>23, <1>24, <1>25, <1>26, <1>27,
     <1>28, <1>29, <1>30, <1>31 DEF ToolNext, Step

\* A run begins in its turn.
LEMMA InTurnEarly ==
    ASSUME RunTypes, NEW r \in Runs, EarlyMove(r), InTurn
    PROVE  InTurn'
<1>1. CASE \E to \in Early \ {"idle"} : pc' = [pc EXCEPT ![r] = to] /\ outcome' = outcome
  <2>1. PICK to \in Early \ {"idle"} : pc' = [pc EXCEPT ![r] = to]
    BY <1>1
  <2> QED
    BY <1>1, <2>1 DEF EarlyMove, RunTypes, Early, Under, Late, InTurn, Runs, Phases
<1>2. CASE \E to \in {"sweep", "tree", "ended"} :
             pc' = [pc EXCEPT ![r] = to] /\ outcome' = [outcome EXCEPT ![r] = "failed"]
  <2>1. PICK to \in {"sweep", "tree", "ended"} : pc' = [pc EXCEPT ![r] = to]
    BY <1>2
  <2> QED
    BY <1>2, <2>1 DEF EarlyMove, RunTypes, Early, Under, Late, InTurn, Runs, Phases
<1> QED
  BY <1>1, <1>2 DEF EarlyMove
\* A run ends in its turn.
LEMMA InTurnLate ==
    ASSUME RunTypes, NEW r \in Runs, LateMove(r), InTurn
    PROVE  InTurn'
<1>1. PICK to \in {"sweep", "tree", "ended"} :
        /\ pc' = [pc EXCEPT ![r] = to]
        /\ \/ outcome' = outcome
           \/ outcome' = [outcome EXCEPT ![r] = "failed"] /\ pc[r] = "publish"
  BY DEF LateMove
<1>2. CASE outcome' = outcome
  BY <1>1, <1>2 DEF LateMove, RunTypes, Early, Under, Late, InTurn, Runs, Phases
<1>3. CASE outcome' = [outcome EXCEPT ![r] = "failed"] /\ pc[r] = "publish"
  BY <1>1, <1>3 DEF LateMove, RunTypes, Early, Under, Late, InTurn, Runs, Phases
<1> QED
  BY <1>1, <1>2, <1>3
\* Every step keeps the runs in turn.
LEMMA InTurnStep ==
    ASSUME ToolTypeOK, InTurn, \A q \in Runs : Reported(q), ToolNext
    PROVE  InTurn'
<1>0. RunTypes /\ sweep \in [Sweepers -> SweepStates] /\ SortsRight
  BY Types, Sorts
<1>r. \A q \in Runs : Reported(q)
  OBVIOUS
<1>1. ASSUME NEW r \in Runs, Begin(r) PROVE InTurn'
  BY <1>0, InTurn, <1>1, BeginMoves, <1>r, InTurnEarly
<1>2. ASSUME NEW r \in Runs, Cleared(r) PROVE InTurn'
  BY <1>0, InTurn, <1>2, ClearedMoves, InTurnEarly
<1>3. ASSUME NEW r \in Runs, MakeWorkDir(r) PROVE InTurn'
  BY <1>0, InTurn, <1>3, MakeWorkDirMoves, InTurnEarly
<1>4. ASSUME NEW r \in Runs, Spawn(r) PROVE InTurn'
  BY <1>0, InTurn, <1>4 DEF Spawn, Goto, diskVars, RunTypes, InTurn, Runs, Phases
<1>5. ASSUME NEW r \in Runs, PrepareExpires(r) PROVE InTurn'
  BY <1>0, InTurn, <1>5, PrepareExpiresMoves, InTurnEarly
<1>6. ASSUME NEW r \in Runs, EndOfOutput(r) PROVE InTurn'
  BY <1>0, InTurn, <1>6 DEF EndOfOutput, Goto, pidVars, diskVars, RunTypes, InTurn, Runs,
     Phases
<1>7. ASSUME NEW r \in Runs, Stall(r) PROVE InTurn'
  BY <1>0, InTurn, <1>7 DEF Stall, Goto, pidVars, diskVars, RunTypes, InTurn, Runs,
     Phases
<1>8. ASSUME NEW r \in Runs, StallKills(r) PROVE InTurn'
  BY <1>0, InTurn, <1>8 DEF StallKills, Goto, Killed, Exited, pidVars, diskVars,
     RunTypes, InTurn, Runs, Phases
<1>9. ASSUME NEW r \in Runs, Reaped(r) PROVE InTurn'
  BY <1>0, InTurn, <1>9 DEF Reaped, Goto, Exited, pidVars, diskVars, RunTypes, InTurn,
     Runs, Phases
<1>10. ASSUME NEW r \in Runs, AskToStop(r) PROVE InTurn'
  BY <1>0, InTurn, <1>10 DEF AskToStop, Goto, Exited, pidVars, diskVars, RunTypes,
     InTurn, Runs, Phases
<1>11. ASSUME NEW r \in Runs, Kill(r) PROVE InTurn'
  BY <1>0, InTurn, <1>11 DEF Kill, Goto, Killed, Exited, pidVars, diskVars, RunTypes,
     InTurn, Runs, Phases
<1>12. ASSUME NEW r \in Runs, Abandon(r) PROVE InTurn'
  BY <1>0, InTurn, <1>12 DEF Abandon, Goto, GivesUp, NoteChild, Exited, diskVars,
     RunTypes, InTurn, Runs, Phases
<1>13. ASSUME NEW r \in Runs, Verdict(r) PROVE InTurn'
  BY <1>0, InTurn, <1>13 DEF Verdict, Goto, EndsAs, Report, AfterFailure, LastPhase,
     diskVars, RunTypes, InTurn, Runs, Phases
<1>14. ASSUME NEW r \in Runs, Publish(r) PROVE InTurn'
  BY <1>0, InTurn, <1>14, PublishMoves, InTurnLate
<1>15. ASSUME NEW r \in Runs, SweepStarts(r) PROVE InTurn'
  BY <1>0, InTurn, <1>15, SweepStartsMoves, InTurnLate
<1>16. ASSUME NEW r \in Runs, SweepEnds(r) PROVE InTurn'
  BY <1>0, InTurn, <1>16, SweepEndsMoves, InTurnLate
<1>17. ASSUME NEW r \in Runs, RemoveTree(r) PROVE InTurn'
  BY <1>0, InTurn, <1>17, RemoveTreeMoves, InTurnLate
<1>18. ASSUME NEW r \in Runs, Cancel(r) PROVE InTurn'
  BY <1>0, InTurn, <1>18 DEF Cancel, runVars, pidVars, diskVars, RunTypes, InTurn, Runs,
     Phases
<1>19. ASSUME NEW r \in Runs, WatcherActs(r) PROVE InTurn'
  BY <1>0, InTurn, <1>19 DEF WatcherActs, Awaited, Exited, pidVars, diskVars, RunTypes,
     InTurn, Runs, Phases
<1>20. ASSUME NEW r \in Runs, WatcherKills(r) PROVE InTurn'
  BY <1>0, InTurn, <1>20 DEF WatcherKills, Killed, runVars, pidVars, diskVars, RunTypes,
     InTurn, Runs, Phases
<1>21. ASSUME NEW r \in Runs, AbandonedGone(r) PROVE InTurn'
  BY <1>0, InTurn, <1>21 DEF AbandonedGone, Exited, runVars, diskVars, RunTypes, InTurn,
     Runs, Phases
<1>22. ASSUME NEW r \in Runs, Writes(r) PROVE InTurn'
  BY <1>0, InTurn, <1>22 DEF Writes, WritesFor, runVars, pidVars, RunTypes, InTurn, Runs,
     Phases
<1>23. ASSUME NEW r \in Runs, Exits(r) PROVE InTurn'
  BY <1>0, InTurn, <1>23 DEF Exits, runVars, pidVars, diskVars, RunTypes, InTurn, Runs,
     Phases
<1>24. ASSUME NEW r \in Runs, Dies(r) PROVE InTurn'
  BY <1>0, InTurn, <1>24 DEF Dies, WritesFor, runVars, pidVars, RunTypes, InTurn, Runs,
     Phases
<1>25. ASSUME NEW r \in Runs, NEW k \in Samples, Measure(r, k) PROVE InTurn'
  BY <1>0, InTurn, <1>25 DEF Measure, runVars, pidVars, diskVars, RunTypes, InTurn, Runs,
     Phases
<1>26. ASSUME NEW x \in probes, ProbeReturns(x) PROVE InTurn'
  BY <1>0, InTurn, <1>26 DEF ProbeReturns, runVars, pidVars, diskVars, RunTypes, InTurn,
     Runs, Phases
<1>27. ASSUME NEW s \in Sweepers, SweepLists(s) PROVE InTurn'
  BY <1>0, InTurn, <1>27 DEF SweepLists, Found, runVars, pidVars, diskVars, RunTypes,
     InTurn, Runs, Phases
<1>28. ASSUME NEW s \in Sweepers, SweepNext(s) PROVE InTurn'
  BY <1>0, InTurn, <1>28 DEF SweepNext, StopsHere, runVars, pidVars, diskVars, RunTypes,
     InTurn, Runs, Phases
<1>29. ASSUME NEW s \in Sweepers, SweepUnlinks(s) PROVE InTurn'
  BY <1>0, InTurn, <1>29 DEF SweepUnlinks, runVars, pidVars, RunTypes, InTurn, Runs,
     Phases
<1>30. ASSUME StopAnswering PROVE InTurn'
  BY <1>0, InTurn, <1>30 DEF StopAnswering, runVars, pidVars, RunTypes, InTurn, Runs,
     Phases
<1>31. ASSUME AnswerAgain PROVE InTurn'
  BY <1>0, InTurn, <1>31 DEF AnswerAgain, runVars, pidVars, RunTypes, InTurn, Runs, Phases
<1> QED
  BY <1>1, <1>2, <1>3, <1>4, <1>5, <1>6, <1>7, <1>8, <1>9, <1>10, <1>11, <1>12, <1>13, <1>14,
     <1>15, <1>16, <1>17, <1>18, <1>19, <1>20, <1>21, <1>22, <1>23, <1>24, <1>25, <1>26, <1>27,
     <1>28, <1>29, <1>30, <1>31 DEF ToolNext, Step

\* Every file is a converter's after every step.
LEMMA FilesStep ==
    ASSUME ToolTypeOK, FilesWritten, \A q \in Runs : Reported(q), ToolNext
    PROVE  FilesWritten'
<1>0. RunTypes /\ sweep \in [Sweepers -> SweepStates] /\ SortsRight
  BY Types, Sorts
<1>f. file \in [Parts -> Runs \cup {Absent}]
  BY DEF ToolTypeOK
<1>r. \A q \in Runs : Reported(q)
  OBVIOUS
<1>1. ASSUME NEW r \in Runs, Begin(r) PROVE FilesWritten'
  BY <1>0, <1>f, FilesWritten, <1>1 DEF Begin, Goto, Prepare, StartSweep, EndsAs,
     AfterFailure, LastPhase, runVars, pidVars, diskVars, RunTypes, FilesWritten,
     SortsRight, Written, Has
<1>2. ASSUME NEW r \in Runs, Cleared(r) PROVE FilesWritten'
  BY <1>0, <1>f, FilesWritten, <1>2 DEF Cleared, Goto, Prepare, EndsAs, AfterFailure,
     LastPhase, pidVars, diskVars, RunTypes, FilesWritten, SortsRight, Written, Has
<1>3. ASSUME NEW r \in Runs, MakeWorkDir(r) PROVE FilesWritten'
  BY <1>0, <1>f, FilesWritten, <1>3 DEF MakeWorkDir, Goto, Prepare, EndsAs, AfterFailure,
     LastPhase, pidVars, diskVars, RunTypes, FilesWritten, SortsRight, Written, Has
<1>4. ASSUME NEW r \in Runs, Spawn(r) PROVE FilesWritten'
  BY <1>0, <1>f, FilesWritten, <1>4 DEF Spawn, Goto, diskVars, RunTypes, FilesWritten,
     SortsRight, Written, Has
<1>5. ASSUME NEW r \in Runs, PrepareExpires(r) PROVE FilesWritten'
  BY <1>0, <1>f, FilesWritten, <1>5 DEF PrepareExpires, Goto, EndsAs, AfterFailure,
     LastPhase, pidVars, diskVars, RunTypes, FilesWritten, SortsRight, Written, Has
<1>6. ASSUME NEW r \in Runs, EndOfOutput(r) PROVE FilesWritten'
  BY <1>0, <1>f, FilesWritten, <1>6 DEF EndOfOutput, Goto, pidVars, diskVars, RunTypes,
     FilesWritten, SortsRight, Written, Has
<1>7. ASSUME NEW r \in Runs, Stall(r) PROVE FilesWritten'
  BY <1>0, <1>f, FilesWritten, <1>7 DEF Stall, Goto, pidVars, diskVars, RunTypes,
     FilesWritten, SortsRight, Written, Has
<1>8. ASSUME NEW r \in Runs, StallKills(r) PROVE FilesWritten'
  BY <1>0, <1>f, FilesWritten, <1>8 DEF StallKills, Killed, diskVars, RunTypes, FilesWritten,
     Written, Has
<1>9. ASSUME NEW r \in Runs, Reaped(r) PROVE FilesWritten'
  BY <1>0, <1>f, FilesWritten, <1>9 DEF Reaped, Goto, Exited, pidVars, diskVars,
     RunTypes, FilesWritten, SortsRight, Written, Has
<1>10. ASSUME NEW r \in Runs, AskToStop(r) PROVE FilesWritten'
  BY <1>0, <1>f, FilesWritten, <1>10 DEF AskToStop, Goto, Exited, pidVars, diskVars,
     RunTypes, FilesWritten, SortsRight, Written, Has
<1>11. ASSUME NEW r \in Runs, Kill(r) PROVE FilesWritten'
  BY <1>0, <1>f, FilesWritten, <1>11 DEF Kill, Goto, Killed, Exited, pidVars, diskVars,
     RunTypes, FilesWritten, SortsRight, Written, Has
<1>12. ASSUME NEW r \in Runs, Abandon(r) PROVE FilesWritten'
  BY <1>0, <1>f, FilesWritten, <1>12 DEF Abandon, Goto, GivesUp, NoteChild, Exited,
     diskVars, RunTypes, FilesWritten, SortsRight, Written, Has
<1>13. ASSUME NEW r \in Runs, Verdict(r) PROVE FilesWritten'
  BY <1>0, <1>f, FilesWritten, <1>13 DEF Verdict, Goto, EndsAs, Report, AfterFailure,
     LastPhase, diskVars, RunTypes, FilesWritten, SortsRight, Written, Has
<1>14. ASSUME NEW r \in Runs, Publish(r) PROVE FilesWritten'
  <2>1. child[r] # "none"
    BY <1>14, <1>r DEF Publish, Reported
  <2>2. file' = file \/ file' = [file EXCEPT ![Base] = r]
    BY <1>14 DEF Publish
  <2>3. CASE file' = file
    BY <2>3, <1>14, FilesWritten DEF Publish, FilesWritten, Written, Has
  <2>4. CASE file' = [file EXCEPT ![Base] = r]
    BY <2>1, <2>4, <1>14, <1>0, <1>f, FilesWritten DEF Publish, SortsRight, FilesWritten,
       Written, Has
  <2> QED
    BY <2>2, <2>3, <2>4
<1>15. ASSUME NEW r \in Runs, SweepStarts(r) PROVE FilesWritten'
  BY <1>0, <1>f, FilesWritten, <1>15 DEF SweepStarts, Goto, StartSweep, LastPhase,
     pidVars, diskVars, RunTypes, FilesWritten, SortsRight, Written, Has
<1>16. ASSUME NEW r \in Runs, SweepEnds(r) PROVE FilesWritten'
  BY <1>0, <1>f, FilesWritten, <1>16 DEF SweepEnds, Goto, LastPhase, pidVars, diskVars,
     RunTypes, FilesWritten, SortsRight, Written, Has
<1>17. ASSUME NEW r \in Runs, RemoveTree(r) PROVE FilesWritten'
  BY <1>0, <1>f, FilesWritten, <1>17 DEF RemoveTree, Goto, pidVars, RunTypes, FilesWritten,
     SortsRight, Written, Has
<1>18. ASSUME NEW r \in Runs, Cancel(r) PROVE FilesWritten'
  BY <1>0, <1>f, FilesWritten, <1>18 DEF Cancel, runVars, pidVars, diskVars, RunTypes,
     FilesWritten, SortsRight, Written, Has
<1>19. ASSUME NEW r \in Runs, WatcherActs(r) PROVE FilesWritten'
  BY <1>0, <1>f, FilesWritten, <1>19 DEF WatcherActs, Awaited, Exited, pidVars, diskVars,
     RunTypes, FilesWritten, SortsRight, Written, Has
<1>20. ASSUME NEW r \in Runs, WatcherKills(r) PROVE FilesWritten'
  BY <1>0, <1>f, FilesWritten, <1>20 DEF WatcherKills, Killed, runVars, pidVars,
     diskVars, RunTypes, FilesWritten, SortsRight, Written, Has
<1>21. ASSUME NEW r \in Runs, AbandonedGone(r) PROVE FilesWritten'
  BY <1>0, <1>f, FilesWritten, <1>21 DEF AbandonedGone, Exited, runVars, diskVars,
     RunTypes, FilesWritten, SortsRight, Written, Has
<1>22. ASSUME NEW r \in Runs, Writes(r) PROVE FilesWritten'
  <2>1. file' = file \/ \E p \in Written : file' = [file EXCEPT ![p] = r]
    BY <1>22 DEF Writes, WritesFor
  <2>2. child[r] # "none" /\ child'[r] # "none" /\ (\A q \in Runs : child[q] # "none" => child'[q] # "none") /\ tool' = tool
    BY <1>22, <1>0 DEF Writes, RunTypes
  <2>3. CASE file' = file
    BY <2>2, <2>3, <1>f, FilesWritten DEF SortsRight, FilesWritten, Written, Has
  <2>4. CASE \E p \in Written : file' = [file EXCEPT ![p] = r]
    <3>1. PICK p \in Written : file' = [file EXCEPT ![p] = r]
      BY <2>4
    <3> QED
      BY <2>2, <3>1, <1>f, FilesWritten DEF FilesWritten, Written, Has
  <2> QED
    BY <2>1, <2>3, <2>4
<1>23. ASSUME NEW r \in Runs, Exits(r) PROVE FilesWritten'
  <2>1. PICK how \in {"ok", "bad"} : child' = [child EXCEPT ![r] = how]
    BY <1>23 DEF Exits
  <2> QED
    BY <1>0, <1>f, FilesWritten, <1>23, <2>1 DEF Exits, diskVars, RunTypes, FilesWritten,
       Written, Has
<1>24. ASSUME NEW r \in Runs, Dies(r) PROVE FilesWritten'
  <2>1. file' = file \/ \E p \in Written : file' = [file EXCEPT ![p] = r]
    BY <1>24 DEF Dies, WritesFor
  <2>2. child[r] # "none" /\ child'[r] # "none" /\ (\A q \in Runs : child[q] # "none" => child'[q] # "none") /\ tool' = tool
    BY <1>24, <1>0 DEF Dies, RunTypes
  <2>3. CASE file' = file
    BY <2>2, <2>3, <1>f, FilesWritten DEF SortsRight, FilesWritten, Written, Has
  <2>4. CASE \E p \in Written : file' = [file EXCEPT ![p] = r]
    <3>1. PICK p \in Written : file' = [file EXCEPT ![p] = r]
      BY <2>4
    <3> QED
      BY <2>2, <3>1, <1>f, FilesWritten DEF FilesWritten, Written, Has
  <2> QED
    BY <2>1, <2>3, <2>4
<1>25. ASSUME NEW r \in Runs, NEW k \in Samples, Measure(r, k) PROVE FilesWritten'
  BY <1>0, <1>f, FilesWritten, <1>25 DEF Measure, runVars, pidVars, diskVars, RunTypes,
     FilesWritten, SortsRight, Written, Has
<1>26. ASSUME NEW x \in probes, ProbeReturns(x) PROVE FilesWritten'
  BY <1>0, <1>f, FilesWritten, <1>26 DEF ProbeReturns, runVars, pidVars, diskVars,
     RunTypes, FilesWritten, SortsRight, Written, Has
<1>27. ASSUME NEW s \in Sweepers, SweepLists(s) PROVE FilesWritten'
  BY <1>0, <1>f, FilesWritten, <1>27 DEF SweepLists, Found, runVars, pidVars, diskVars,
     RunTypes, FilesWritten, SortsRight, Written, Has
<1>28. ASSUME NEW s \in Sweepers, SweepNext(s) PROVE FilesWritten'
  BY <1>0, <1>f, FilesWritten, <1>28 DEF SweepNext, StopsHere, runVars, pidVars,
     diskVars, RunTypes, FilesWritten, SortsRight, Written, Has
<1>29. ASSUME NEW s \in Sweepers, SweepUnlinks(s) PROVE FilesWritten'
  BY <1>0, <1>f, FilesWritten, <1>29 DEF SweepUnlinks, runVars, pidVars, RunTypes,
     FilesWritten, SortsRight, Written, Has
<1>30. ASSUME StopAnswering PROVE FilesWritten'
  BY <1>0, <1>f, FilesWritten, <1>30 DEF StopAnswering, runVars, pidVars, RunTypes,
     FilesWritten, SortsRight, Written, Has
<1>31. ASSUME AnswerAgain PROVE FilesWritten'
  BY <1>0, <1>f, FilesWritten, <1>31 DEF AnswerAgain, runVars, pidVars, RunTypes,
     FilesWritten, SortsRight, Written, Has
<1> QED
  BY <1>1, <1>2, <1>3, <1>4, <1>5, <1>6, <1>7, <1>8, <1>9, <1>10, <1>11, <1>12, <1>13, <1>14,
     <1>15, <1>16, <1>17, <1>18, <1>19, <1>20, <1>21, <1>22, <1>23, <1>24, <1>25, <1>26, <1>27,
     <1>28, <1>29, <1>30, <1>31 DEF ToolNext, Step

\* A run without a child has published nothing.
LEMMA PublishedEarly ==
    ASSUME RunTypes, NEW r \in Runs, EarlyMove(r), Published
    PROVE  Published'
<1>1. CASE \E to \in Early \ {"idle"} : pc' = [pc EXCEPT ![r] = to] /\ outcome' = outcome
  <2>1. PICK to \in Early \ {"idle"} : pc' = [pc EXCEPT ![r] = to]
    BY <1>1
  <2> QED
    BY <1>1, <2>1 DEF EarlyMove, RunTypes, Early, Under, Late, Published, Has
<1>2. CASE \E to \in {"sweep", "tree", "ended"} :
             pc' = [pc EXCEPT ![r] = to] /\ outcome' = [outcome EXCEPT ![r] = "failed"]
  <2>1. PICK to \in {"sweep", "tree", "ended"} : pc' = [pc EXCEPT ![r] = to]
    BY <1>2
  <2> QED
    BY <1>2, <2>1 DEF EarlyMove, RunTypes, Early, Under, Late, Published, Has
<1> QED
  BY <1>1, <1>2 DEF EarlyMove
\* What is published stays a complete run's.
LEMMA PublishedStep ==
    ASSUME ToolTypeOK, Published, \A q \in Runs : Reported(q), ToolNext
    PROVE  Published'
<1>0. RunTypes /\ sweep \in [Sweepers -> SweepStates] /\ SortsRight
  BY Types, Sorts
<1>f. file \in [Parts -> Runs \cup {Absent}]
  BY DEF ToolTypeOK
<1>r. \A q \in Runs : Reported(q)
  OBVIOUS
<1>1. ASSUME NEW r \in Runs, Begin(r) PROVE Published'
  BY <1>0, Published, <1>1, BeginMoves, <1>r, PublishedEarly
<1>2. ASSUME NEW r \in Runs, Cleared(r) PROVE Published'
  BY <1>0, Published, <1>2, ClearedMoves, PublishedEarly
<1>3. ASSUME NEW r \in Runs, MakeWorkDir(r) PROVE Published'
  BY <1>0, Published, <1>3, MakeWorkDirMoves, PublishedEarly
<1>4. ASSUME NEW r \in Runs, Spawn(r) PROVE Published'
  BY <1>0, Published, <1>4 DEF Spawn, Goto, diskVars, RunTypes, Published, SortsRight, Has
<1>5. ASSUME NEW r \in Runs, PrepareExpires(r) PROVE Published'
  BY <1>0, Published, <1>5, PrepareExpiresMoves, PublishedEarly
<1>6. ASSUME NEW r \in Runs, EndOfOutput(r) PROVE Published'
  BY <1>0, Published, <1>6 DEF EndOfOutput, Goto, pidVars, diskVars, RunTypes, Published,
     SortsRight, Has
<1>7. ASSUME NEW r \in Runs, Stall(r) PROVE Published'
  BY <1>0, Published, <1>7 DEF Stall, Goto, pidVars, diskVars, RunTypes, Published,
     SortsRight, Has
<1>8. ASSUME NEW r \in Runs, StallKills(r) PROVE Published'
  BY <1>0, Published, <1>8 DEF StallKills, Goto, Killed, Exited, pidVars, diskVars,
     RunTypes, Published, SortsRight, Has
<1>9. ASSUME NEW r \in Runs, Reaped(r) PROVE Published'
  BY <1>0, Published, <1>9 DEF Reaped, Goto, Exited, pidVars, diskVars, RunTypes,
     Published, SortsRight, Has
<1>10. ASSUME NEW r \in Runs, AskToStop(r) PROVE Published'
  BY <1>0, Published, <1>10 DEF AskToStop, Goto, Exited, pidVars, diskVars, RunTypes,
     Published, SortsRight, Has
<1>11. ASSUME NEW r \in Runs, Kill(r) PROVE Published'
  BY <1>0, Published, <1>11 DEF Kill, Goto, Killed, Exited, pidVars, diskVars,
     RunTypes, Published, SortsRight, Has
<1>12. ASSUME NEW r \in Runs, Abandon(r) PROVE Published'
  BY <1>0, Published, <1>12 DEF Abandon, Goto, GivesUp, NoteChild, Exited, diskVars,
     RunTypes, Published, SortsRight, Has
<1>13. ASSUME NEW r \in Runs, Verdict(r) PROVE Published'
  BY <1>0, Published, <1>13 DEF Verdict, Goto, EndsAs, Report, AfterFailure, LastPhase,
     diskVars, RunTypes, Published, SortsRight, Has
<1>14. ASSUME NEW r \in Runs, Publish(r) PROVE Published'
  <2>1. PICK to \in {"sweep", "tree", "ended"} : pc' = [pc EXCEPT ![r] = to]
    BY <1>14, PublishMoves DEF LateMove
  <2>2. CASE ~Has("private")
    BY <1>14, <2>2 DEF Publish, Published, Has
  <2>3. CASE Has("private") /\ r \in work
    <3>1. file' = [file EXCEPT ![Base] = r] /\ outcome' = outcome /\ pc' = [pc EXCEPT ![r] = "tree"]
      BY <1>14, <2>3 DEF Publish, Goto
    <3>2. outcome[r] = "complete"
      BY <1>14, <1>r DEF Publish, Reported
    <3>3. file'[Base] = r
      BY <3>1, <1>0, <1>f DEF SortsRight
    <3> QED
      BY <1>0, <3>1, <3>2, <3>3 DEF Published, RunTypes
  <2>4. CASE Has("private") /\ r \notin work
    BY <1>14, <2>1, <2>4, <1>0, Published DEF Publish, EndsAs, Published, Has, RunTypes
  <2> QED
    BY <2>2, <2>3, <2>4
<1>15. ASSUME NEW r \in Runs, SweepStarts(r) PROVE Published'
  <2>1. PICK to \in {"sweep", "tree", "ended"} : pc' = [pc EXCEPT ![r] = to]
    BY <1>15, SweepStartsMoves DEF LateMove
  <2> QED
    BY <1>15, <2>1, <1>0, Published DEF SweepStarts, diskVars, Published, Has, RunTypes
<1>16. ASSUME NEW r \in Runs, SweepEnds(r) PROVE Published'
  BY <1>0, Published, <1>16 DEF SweepEnds, Goto, LastPhase, pidVars, diskVars, RunTypes,
     Published, SortsRight, Has
<1>17. ASSUME NEW r \in Runs, RemoveTree(r) PROVE Published'
  BY <1>0, Published, <1>17 DEF RemoveTree, Goto, pidVars, RunTypes, Published, SortsRight,
     Has
<1>18. ASSUME NEW r \in Runs, Cancel(r) PROVE Published'
  BY <1>0, Published, <1>18 DEF Cancel, runVars, pidVars, diskVars, RunTypes, Published,
     SortsRight, Has
<1>19. ASSUME NEW r \in Runs, WatcherActs(r) PROVE Published'
  BY <1>0, Published, <1>19 DEF WatcherActs, Awaited, Exited, pidVars, diskVars,
     RunTypes, Published, SortsRight, Has
<1>20. ASSUME NEW r \in Runs, WatcherKills(r) PROVE Published'
  BY <1>0, Published, <1>20 DEF WatcherKills, Killed, runVars, pidVars, diskVars,
     RunTypes, Published, SortsRight, Has
<1>21. ASSUME NEW r \in Runs, AbandonedGone(r) PROVE Published'
  BY <1>0, Published, <1>21 DEF AbandonedGone, Exited, runVars, diskVars, RunTypes,
     Published, SortsRight, Has
<1>22. ASSUME NEW r \in Runs, Writes(r) PROVE Published'
  BY <1>0, Published, <1>22 DEF Writes, WritesFor, runVars, pidVars, RunTypes, Published,
     SortsRight, Has
<1>23. ASSUME NEW r \in Runs, Exits(r) PROVE Published'
  BY <1>0, Published, <1>23 DEF Exits, runVars, pidVars, diskVars, RunTypes, Published,
     SortsRight, Has
<1>24. ASSUME NEW r \in Runs, Dies(r) PROVE Published'
  BY <1>0, Published, <1>24 DEF Dies, WritesFor, runVars, pidVars, RunTypes, Published,
     SortsRight, Has
<1>25. ASSUME NEW r \in Runs, NEW k \in Samples, Measure(r, k) PROVE Published'
  BY <1>0, Published, <1>25 DEF Measure, runVars, pidVars, diskVars, RunTypes, Published,
     SortsRight, Has
<1>26. ASSUME NEW x \in probes, ProbeReturns(x) PROVE Published'
  BY <1>0, Published, <1>26 DEF ProbeReturns, runVars, pidVars, diskVars, RunTypes,
     Published, SortsRight, Has
<1>27. ASSUME NEW s \in Sweepers, SweepLists(s) PROVE Published'
  BY <1>0, Published, <1>27 DEF SweepLists, Found, runVars, pidVars, diskVars, RunTypes,
     Published, SortsRight, Has
<1>28. ASSUME NEW s \in Sweepers, SweepNext(s) PROVE Published'
  BY <1>0, Published, <1>28 DEF SweepNext, StopsHere, runVars, pidVars, diskVars,
     RunTypes, Published, SortsRight, Has
<1>29. ASSUME NEW s \in Sweepers, SweepUnlinks(s) PROVE Published'
  <2>1. file'[Base] = file[Base] \/ file'[Base] = Absent
    BY <1>29, <1>0, <1>f DEF SweepUnlinks, SortsRight
  <2> QED
    BY <1>29, <2>1, <1>0, Published DEF SweepUnlinks, runVars, SortsRight, Published, Has
<1>30. ASSUME StopAnswering PROVE Published'
  BY <1>0, Published, <1>30 DEF StopAnswering, runVars, pidVars, RunTypes, Published,
     SortsRight, Has
<1>31. ASSUME AnswerAgain PROVE Published'
  BY <1>0, Published, <1>31 DEF AnswerAgain, runVars, pidVars, RunTypes, Published,
     SortsRight, Has
<1> QED
  BY <1>1, <1>2, <1>3, <1>4, <1>5, <1>6, <1>7, <1>8, <1>9, <1>10, <1>11, <1>12, <1>13, <1>14,
     <1>15, <1>16, <1>17, <1>18, <1>19, <1>20, <1>21, <1>22, <1>23, <1>24, <1>25, <1>26, <1>27,
     <1>28, <1>29, <1>30, <1>31 DEF ToolNext, Step

\* The sweeps stay right when one of them changes as it may.
LEMMA SweepsNow ==
    ASSUME NEW s \in Sweepers, NEW a, NEW t, NEW n, NEW g, NEW l, Now(s, a, t, n, g, l),
           \A z \in Sweepers : SweepRight(z),
           a # "unlink" => n = NoPath,
           l # {} => g /\ n = NoPath /\ \E p \in Parts : \A x \in l : x[1] = p
    PROVE  \A z \in Sweepers : SweepRight(z)'
<1>1. SweepRight(s)'
  BY DEF Now, SweepRight
<1>2. ASSUME NEW z \in Sweepers \ {s} PROVE SweepRight(z)'
  BY <1>2 DEF Now, SweepRight
<1> QED
  BY <1>1, <1>2
\* Every step keeps the sweeps right.
LEMMA SweepsStep ==
    ASSUME ToolTypeOK, InTurn, FilesWritten, \A q \in Runs : Reported(q),
           \A z \in Sweepers : SweepRight(z),
           \A q \in Runs : BeforeRight(q), \A q \in Runs : AfterRight(q), ToolNext
    PROVE  \A z \in Sweepers : SweepRight(z)'
<1>0. RunTypes /\ sweep \in [Sweepers -> SweepStates] /\ SortsRight
  BY Types, Sorts
<1>f. file \in [Parts -> Runs \cup {Absent}]
  BY DEF ToolTypeOK
<1>1. ASSUME NEW r \in Runs, Begin(r) PROVE \A z \in Sweepers : SweepRight(z)'
  <2>1. sweep' = sweep \/ sweep' = [sweep EXCEPT ![<<r, "before">>].at = "list"]
    BY <1>1 DEF Begin, StartSweep
  <2>2. sweep[<<r, "before">>].at = "none"
    BY <1>1, \A q \in Runs : BeforeRight(q) DEF Begin, BeforeRight
  <2>3. CASE sweep' = sweep
    BY <2>3 DEF SweepRight
  <2>4. CASE sweep' = [sweep EXCEPT ![<<r, "before">>].at = "list"]
    <3>1. <<r, "before">> \in Sweepers
      BY <1>0 DEF SortsRight
    <3>2. SweepRight(<<r, "before">>)
      BY <3>1
    <3>3. Now(<<r, "before">>, "list", sweep[<<r, "before">>].todo, sweep[<<r, "before">>].next,
              sweep[<<r, "before">>].given, sweep[<<r, "before">>].lost)
      BY <1>0, <2>4, <3>1, NowAt
    <3> DEFINE b == <<r, "before">>
    <3>4. sweep[b].next = NoPath /\ (sweep[b].lost # {} => sweep[b].given /\ \E p \in Parts : \A x \in sweep[b].lost : x[1] = p)
      BY <2>2, <3>2 DEF SweepRight
    <3> QED
      BY <3>1, <3>3, <3>4, SweepsNow
  <2> QED
    BY <2>1, <2>3, <2>4
<1>2. ASSUME NEW r \in Runs, Cleared(r) PROVE \A z \in Sweepers : SweepRight(z)'
  <2>1. <<r, "before">> \in Sweepers
    BY <1>0 DEF SortsRight
  <2>2. SweepRight(<<r, "before">>)
    BY <2>1
  <2>3. CASE sweep' = sweep
    BY <2>3 DEF SweepRight
  <2>4. CASE sweep' = [sweep EXCEPT ![<<r, "before">>].given = TRUE]
    <3> DEFINE s == <<r, "before">>
    <3>1. Now(s, sweep[s].at, sweep[s].todo, sweep[s].next, TRUE, sweep[s].lost)
      BY <1>0, <2>1, <2>4, NowGiven
    <3>2. /\ sweep[s].at # "unlink" => sweep[s].next = NoPath
          /\ sweep[s].lost # {} => sweep[s].next = NoPath /\ \E p \in Parts : \A x \in sweep[s].lost : x[1] = p
      BY <2>2 DEF SweepRight
    <3> HIDE DEF s
    <3> QED
      BY <2>1, <3>1, <3>2, SweepsNow DEF s
  <2> QED
    BY <1>2, <2>3, <2>4 DEF Cleared
<1>3. ASSUME NEW r \in Runs, MakeWorkDir(r) PROVE \A z \in Sweepers : SweepRight(z)'
  BY <1>0, \A z \in Sweepers : SweepRight(z), <1>3 DEF MakeWorkDir, Goto, Prepare,
     EndsAs, AfterFailure, LastPhase, pidVars, diskVars, SweepRight
<1>4. ASSUME NEW r \in Runs, Spawn(r) PROVE \A z \in Sweepers : SweepRight(z)'
  BY <1>0, \A z \in Sweepers : SweepRight(z), <1>4 DEF Spawn, Goto, diskVars, SweepRight
<1>5. ASSUME NEW r \in Runs, PrepareExpires(r) PROVE \A z \in Sweepers : SweepRight(z)'
  BY <1>0, \A z \in Sweepers : SweepRight(z), <1>5 DEF PrepareExpires, Goto, EndsAs,
     AfterFailure, LastPhase, pidVars, diskVars, SweepRight
<1>6. ASSUME NEW r \in Runs, EndOfOutput(r) PROVE \A z \in Sweepers : SweepRight(z)'
  BY <1>0, \A z \in Sweepers : SweepRight(z), <1>6 DEF EndOfOutput, Goto, pidVars,
     diskVars, SweepRight
<1>7. ASSUME NEW r \in Runs, Stall(r) PROVE \A z \in Sweepers : SweepRight(z)'
  BY <1>0, \A z \in Sweepers : SweepRight(z), <1>7 DEF Stall, Goto, pidVars, diskVars,
     SweepRight
<1>8. ASSUME NEW r \in Runs, StallKills(r) PROVE \A z \in Sweepers : SweepRight(z)'
  BY <1>0, \A z \in Sweepers : SweepRight(z), <1>8 DEF StallKills, Goto, Killed, Exited,
     pidVars, diskVars, SweepRight
<1>9. ASSUME NEW r \in Runs, Reaped(r) PROVE \A z \in Sweepers : SweepRight(z)'
  BY <1>0, \A z \in Sweepers : SweepRight(z), <1>9 DEF Reaped, Goto, Exited, pidVars,
     diskVars, SweepRight
<1>10. ASSUME NEW r \in Runs, AskToStop(r) PROVE \A z \in Sweepers : SweepRight(z)'
  BY <1>0, \A z \in Sweepers : SweepRight(z), <1>10 DEF AskToStop, Goto, Exited, pidVars,
     diskVars, SweepRight
<1>11. ASSUME NEW r \in Runs, Kill(r) PROVE \A z \in Sweepers : SweepRight(z)'
  BY <1>0, \A z \in Sweepers : SweepRight(z), <1>11 DEF Kill, Goto, Killed, Exited,
     pidVars, diskVars, SweepRight
<1>12. ASSUME NEW r \in Runs, Abandon(r) PROVE \A z \in Sweepers : SweepRight(z)'
  BY <1>0, \A z \in Sweepers : SweepRight(z), <1>12 DEF Abandon, Goto, GivesUp,
     NoteChild, Exited, diskVars, SweepRight
<1>13. ASSUME NEW r \in Runs, Verdict(r) PROVE \A z \in Sweepers : SweepRight(z)'
  BY <1>0, \A z \in Sweepers : SweepRight(z), <1>13 DEF Verdict, Goto, EndsAs, Report,
     AfterFailure, LastPhase, diskVars, SweepRight
<1>14. ASSUME NEW r \in Runs, Publish(r) PROVE \A z \in Sweepers : SweepRight(z)'
  BY <1>0, \A z \in Sweepers : SweepRight(z), <1>14 DEF Publish, Goto, EndsAs,
     AfterFailure, LastPhase, pidVars, SweepRight
<1>15. ASSUME NEW r \in Runs, SweepStarts(r) PROVE \A z \in Sweepers : SweepRight(z)'
  <2>1. <<r, "after">> \in Sweepers
    BY <1>0 DEF SortsRight
  <2>2. SweepRight(<<r, "after">>)
    BY <2>1
  <2>3. CASE sweep' = sweep
    BY <2>3 DEF SweepRight
  <2>4. CASE sweep' = [sweep EXCEPT ![<<r, "after">>].at = "list"]
    <3> DEFINE s == <<r, "after">>
    <3>1. Now(s, "list", sweep[s].todo, sweep[s].next, sweep[s].given, sweep[s].lost)
      BY <1>0, <2>1, <2>4, NowAt
    <3>2. sweep[s].next = NoPath /\ (sweep[s].lost # {} => sweep[s].given /\ \E p \in Parts : \A x \in sweep[s].lost : x[1] = p)
      BY <1>15, <2>2 DEF SweepRight, SweepStarts
    <3> QED
      BY <2>1, <3>1, <3>2, SweepsNow
  <2> QED
    BY <1>15, <2>3, <2>4 DEF SweepStarts, StartSweep
<1>16. ASSUME NEW r \in Runs, SweepEnds(r) PROVE \A z \in Sweepers : SweepRight(z)'
  <2>1. <<r, "after">> \in Sweepers
    BY <1>0 DEF SortsRight
  <2>2. SweepRight(<<r, "after">>)
    BY <2>1
  <2>3. CASE sweep' = sweep
    BY <2>3 DEF SweepRight
  <2>4. CASE sweep' = [sweep EXCEPT ![<<r, "after">>].given = TRUE]
    <3> DEFINE s == <<r, "after">>
    <3>1. Now(s, sweep[s].at, sweep[s].todo, sweep[s].next, TRUE, sweep[s].lost)
      BY <1>0, <2>1, <2>4, NowGiven
    <3>2. /\ sweep[s].at # "unlink" => sweep[s].next = NoPath
          /\ sweep[s].lost # {} => sweep[s].next = NoPath /\ \E p \in Parts : \A x \in sweep[s].lost : x[1] = p
      BY <2>2 DEF SweepRight
    <3> HIDE DEF s
    <3> QED
      BY <2>1, <3>1, <3>2, SweepsNow DEF s
  <2> QED
    BY <1>16, <2>3, <2>4 DEF SweepEnds
<1>17. ASSUME NEW r \in Runs, RemoveTree(r) PROVE \A z \in Sweepers : SweepRight(z)'
  BY <1>0, \A z \in Sweepers : SweepRight(z), <1>17 DEF RemoveTree, Goto, pidVars,
     SweepRight
<1>18. ASSUME NEW r \in Runs, Cancel(r) PROVE \A z \in Sweepers : SweepRight(z)'
  BY <1>0, \A z \in Sweepers : SweepRight(z), <1>18 DEF Cancel, runVars, pidVars,
     diskVars, SweepRight
<1>19. ASSUME NEW r \in Runs, WatcherActs(r) PROVE \A z \in Sweepers : SweepRight(z)'
  BY <1>0, \A z \in Sweepers : SweepRight(z), <1>19 DEF WatcherActs, Awaited, Exited,
     pidVars, diskVars, SweepRight
<1>20. ASSUME NEW r \in Runs, WatcherKills(r) PROVE \A z \in Sweepers : SweepRight(z)'
  BY <1>0, \A z \in Sweepers : SweepRight(z), <1>20 DEF WatcherKills, Killed, runVars,
     pidVars, diskVars, SweepRight
<1>21. ASSUME NEW r \in Runs, AbandonedGone(r) PROVE \A z \in Sweepers : SweepRight(z)'
  BY <1>0, \A z \in Sweepers : SweepRight(z), <1>21 DEF AbandonedGone, Exited, runVars,
     diskVars, SweepRight
<1>22. ASSUME NEW r \in Runs, Writes(r) PROVE \A z \in Sweepers : SweepRight(z)'
  BY <1>0, \A z \in Sweepers : SweepRight(z), <1>22 DEF Writes, WritesFor, runVars,
     pidVars, SweepRight
<1>23. ASSUME NEW r \in Runs, Exits(r) PROVE \A z \in Sweepers : SweepRight(z)'
  BY <1>0, \A z \in Sweepers : SweepRight(z), <1>23 DEF Exits, runVars, pidVars,
     diskVars, SweepRight
<1>24. ASSUME NEW r \in Runs, Dies(r) PROVE \A z \in Sweepers : SweepRight(z)'
  BY <1>0, \A z \in Sweepers : SweepRight(z), <1>24 DEF Dies, WritesFor, runVars,
     pidVars, SweepRight
<1>25. ASSUME NEW r \in Runs, NEW k \in Samples, Measure(r, k) PROVE \A z \in Sweepers : SweepRight(z)'
  BY <1>0, \A z \in Sweepers : SweepRight(z), <1>25 DEF Measure, runVars, pidVars,
     diskVars, SweepRight
<1>26. ASSUME NEW x \in probes, ProbeReturns(x) PROVE \A z \in Sweepers : SweepRight(z)'
  BY <1>0, \A z \in Sweepers : SweepRight(z), <1>26 DEF ProbeReturns, runVars, pidVars,
     diskVars, SweepRight
<1>27. ASSUME NEW s \in Sweepers, SweepLists(s) PROVE \A z \in Sweepers : SweepRight(z)'
  <2>1. SweepRight(s) /\ sweep[s].at = "list"
    BY <1>27 DEF SweepLists
  <2>2. CASE sweep' = [sweep EXCEPT ![s].at = "returned"]
    <3>1. Now(s, "returned", sweep[s].todo, sweep[s].next, sweep[s].given, sweep[s].lost)
      BY <1>0, <2>2, NowAt
    <3>2. sweep[s].next = NoPath /\ (sweep[s].lost # {} => sweep[s].given /\ \E p \in Parts : \A x \in sweep[s].lost : x[1] = p)
      BY <2>1 DEF SweepRight
    <3> QED
      BY <3>1, <3>2, SweepsNow
  <2>3. CASE sweep' = [sweep EXCEPT ![s].at = "unlink", ![s].todo = Found]
    BY <1>0, <2>1, <2>3, NowTodo, SweepsNow DEF SweepRight
  <2> QED
    BY <1>27, <2>2, <2>3 DEF SweepLists
<1>28. ASSUME NEW s \in Sweepers, SweepNext(s) PROVE \A z \in Sweepers : SweepRight(z)'
  <2>1. SweepRight(s) /\ sweep[s].at = "unlink" /\ sweep[s].next = NoPath
    BY <1>28 DEF SweepNext
  <2>2. CASE sweep' = [sweep EXCEPT ![s].at = "returned", ![s].todo = {}]
    BY <1>0, <2>1, <2>2, NowTodo, SweepsNow DEF SweepRight
  <2>3. CASE ~StopsHere(s) /\ \E p \in sweep[s].todo : sweep' = [sweep EXCEPT ![s].next = p, ![s].todo = sweep[s].todo \ {p}]
    <3>1. PICK p \in sweep[s].todo : sweep' = [sweep EXCEPT ![s].next = p, ![s].todo = sweep[s].todo \ {p}]
      BY <2>3
    <3>2. Now(s, sweep[s].at, sweep[s].todo \ {p}, p, sweep[s].given, sweep[s].lost)
      BY <1>0, <3>1, NowTakes
    <3>3. sweep[s].lost = {}
      BY <2>1, <2>3 DEF SweepRight, StopsHere
    <3>4. Now(s, "unlink", sweep[s].todo \ {p}, p, sweep[s].given, {})
      BY <2>1, <3>2, <3>3
    <3> QED
      BY <3>4, SweepsNow
  <2>4. \/ sweep' = [sweep EXCEPT ![s].at = "returned", ![s].todo = {}]
        \/ ~StopsHere(s) /\ \E p \in sweep[s].todo : sweep' = [sweep EXCEPT ![s].next = p, ![s].todo = sweep[s].todo \ {p}]
    BY <1>28 DEF SweepNext
  <2> QED
    BY <2>2, <2>3, <2>4
<1>29. ASSUME NEW s \in Sweepers, SweepUnlinks(s) PROVE \A z \in Sweepers : SweepRight(z)'
  <2> DEFINE p == sweep[s].next
  <2>1. SweepRight(s) /\ p # NoPath /\ p \in Parts /\ sweep[s].at = "unlink"
    BY <1>29, <1>0 DEF SweepUnlinks, SweepStates, SweepRight
  <2>2. sweep[s].lost = {}
    BY <2>1 DEF SweepRight
  <2>3. Now(s, "unlink", sweep[s].todo, NoPath, sweep[s].given, TakenWith(s, p))
    <3>1. sweep' = [sweep EXCEPT ![s].next = NoPath, ![s].lost = TakenWith(s, p)]
      BY <1>29, <2>2 DEF SweepUnlinks
    <3> QED
      BY <3>1, <1>0, <2>1, NowUnlinks
  <2>4. \A x \in TakenWith(s, p) : x[1] = p
    BY DEF TakenWith
  <2>5. CASE TakenWith(s, p) = {}
    BY <2>3, <2>5, SweepsNow
  <2>6. CASE TakenWith(s, p) # {}
    <3>1. PICK r \in Runs : /\ r > s[1] /\ file[p] # Absent
                            /\ r = file[p] \/ pc[r] \notin {"idle", "ended"}
      BY <2>6 DEF TakenWith
    <3>2. s[1] \in Runs /\ (s = <<s[1], "before">> \/ s = <<s[1], "after">>)
      BY <1>0 DEF SortsRight
    <3>3. pc[r] # "idle"
      BY <2>1, <3>1, FilesWritten, \A q \in Runs : Reported(q) DEF FilesWritten, Reported, Early
    <3>4. s[1] < r
      <4>1. Runs \subseteq Nat
        BY <1>0 DEF SortsRight
      <4> QED
        BY <3>1, <3>2, <4>1
    <3>5. pc[s[1]] = "ended"
      BY <3>2, <3>3, <3>4, InTurn DEF InTurn
    <3>6. LeftBehind(s)
      <4>1. LeftBehind(<<s[1], "before">>) /\ LeftBehind(<<s[1], "after">>)
        BY <3>2, <3>5, \A q \in Runs : BeforeRight(q), \A q \in Runs : AfterRight(q)
           DEF BeforeRight, AfterRight
      <4> QED
        BY <3>2, <4>1
    <3>7. sweep[s].given
      BY <3>6, <2>1 DEF LeftBehind
    <3> QED
      BY <3>7, <2>1, <2>3, <2>4, SweepsNow
  <2> QED
    BY <2>5, <2>6
<1>30. ASSUME StopAnswering PROVE \A z \in Sweepers : SweepRight(z)'
  BY <1>0, \A z \in Sweepers : SweepRight(z), <1>30 DEF StopAnswering, runVars, pidVars,
     SweepRight
<1>31. ASSUME AnswerAgain PROVE \A z \in Sweepers : SweepRight(z)'
  BY <1>0, \A z \in Sweepers : SweepRight(z), <1>31 DEF AnswerAgain, runVars, pidVars,
     SweepRight
<1> QED
  BY <1>1, <1>2, <1>3, <1>4, <1>5, <1>6, <1>7, <1>8, <1>9, <1>10, <1>11, <1>12, <1>13, <1>14,
     <1>15, <1>16, <1>17, <1>18, <1>19, <1>20, <1>21, <1>22, <1>23, <1>24, <1>25, <1>26, <1>27,
     <1>28, <1>29, <1>30, <1>31 DEF ToolNext, Step

\* The sweeps before a run are left behind in time.
LEMMA BeforeStep ==
    ASSUME ToolTypeOK, \A q \in Runs : Reported(q),
           \A q \in Runs : BeforeRight(q), \A q \in Runs : AfterRight(q),
           \A z \in Sweepers : SweepRight(z), ToolNext
    PROVE  \A q \in Runs : BeforeRight(q)'
<1>0. RunTypes /\ sweep \in [Sweepers -> SweepStates] /\ SortsRight
  BY Types, Sorts
<1>r. \A q \in Runs : Reported(q)
  OBVIOUS
<1>1. ASSUME NEW r \in Runs, Begin(r) PROVE \A q \in Runs : BeforeRight(q)'
  <2>1. PICK to \in {"clear", "mkdir", "prepare", "sweep", "tree", "ended"} : pc' = [pc EXCEPT ![r] = to]
    BY <1>1, <1>0, BeginMoves, <1>r DEF EarlyMove, Early
  <2>2. sweep[<<r, "before">>].at = "none" /\ pc[r] = "idle"
    BY <1>1 DEF Begin, BeforeRight
  <2>3. sweep' = sweep \/ (to = "clear" /\ sweep' = [sweep EXCEPT ![<<r, "before">>].at = "list"])
    BY <1>1, <2>1, <1>0 DEF Begin, StartSweep, Goto, RunTypes
  <2>4. CASE sweep' = sweep
    BY <2>1, <2>2, <2>4, <1>0 DEF BeforeRight, LeftBehind, RunTypes
  <2>5. CASE to = "clear" /\ sweep' = [sweep EXCEPT ![<<r, "before">>].at = "list"]
    <3> DEFINE s == <<r, "before">>
    <3>1. Now(s, "list", sweep[s].todo, sweep[s].next, sweep[s].given, sweep[s].lost)
      BY <1>0, <2>5, NowAt DEF SortsRight
    <3>2. BeforeRight(r)'
      BY <2>1, <2>5, <1>0 DEF BeforeRight, RunTypes
    <3>3. ASSUME NEW q \in Runs, q # r PROVE BeforeRight(q)'
      <4>1. <<q, "before">> \in Sweepers \ {s}
        BY <1>0, <3>3 DEF SortsRight
      <4>2. sweep'[<<q, "before">>] = sweep[<<q, "before">>] /\ pc'[q] = pc[q]
        BY <4>1, <3>1, <3>3, <2>1, <1>0 DEF Now, RunTypes
      <4> QED
        BY <4>2 DEF BeforeRight, LeftBehind
    <3> QED
      BY <3>2, <3>3
  <2> QED
    BY <2>3, <2>4, <2>5
<1>2. ASSUME NEW r \in Runs, Cleared(r) PROVE \A q \in Runs : BeforeRight(q)'
  <2>1. PICK to \in {"clear", "mkdir", "prepare", "sweep", "tree", "ended"} : pc' = [pc EXCEPT ![r] = to]
    BY <1>2, ClearedMoves DEF EarlyMove, Early
  <2>2. pc[r] = "clear"
    BY <1>2 DEF Cleared
  <2>3. CASE sweep[<<r, "before">>].at = "returned" /\ sweep' = sweep
    BY <2>1, <2>2, <2>3, <1>0 DEF BeforeRight, LeftBehind, RunTypes
  <2>4. CASE /\ sweep' = [sweep EXCEPT ![<<r, "before">>].given = TRUE]
             /\ pc' = [pc EXCEPT ![r] = "ended"]
    <3> DEFINE s == <<r, "before">>
    <3>1. Now(s, sweep[s].at, sweep[s].todo, sweep[s].next, TRUE, sweep[s].lost)
      BY <1>0, <2>4, NowGiven DEF SortsRight
    <3>2. BeforeRight(r)'
      <4>1. pc'[r] = "ended" /\ sweep'[s].given
        BY <2>4, <3>1, <1>0 DEF RunTypes, Now
      <4> QED
        BY <4>1 DEF BeforeRight, LeftBehind
    <3>3. ASSUME NEW q \in Runs, q # r PROVE BeforeRight(q)'
      <4>1. <<q, "before">> \in Sweepers \ {s}
        BY <1>0, <3>3 DEF SortsRight
      <4>2. sweep'[<<q, "before">>] = sweep[<<q, "before">>] /\ pc'[q] = pc[q]
        BY <4>1, <3>1, <3>3, <2>1, <1>0 DEF Now, RunTypes
      <4> QED
        BY <4>2 DEF BeforeRight, LeftBehind
    <3> QED
      BY <3>2, <3>3
  <2> QED
    BY <1>2, <2>3, <2>4 DEF Cleared, Goto
<1>3. ASSUME NEW r \in Runs, MakeWorkDir(r) PROVE \A q \in Runs : BeforeRight(q)'
  <2>1. PICK to \in {"clear", "mkdir", "prepare", "sweep", "tree", "ended"} : pc' = [pc EXCEPT ![r] = to]
    BY <1>3, MakeWorkDirMoves DEF EarlyMove, Early
  <2> QED
    BY <1>3, <2>1, <1>0 DEF MakeWorkDir, BeforeRight, LeftBehind, RunTypes
<1>4. ASSUME NEW r \in Runs, Spawn(r) PROVE \A q \in Runs : BeforeRight(q)'
  BY <1>0, \A q \in Runs : BeforeRight(q), <1>4 DEF Spawn, Goto, diskVars, BeforeRight,
     LeftBehind, RunTypes
<1>5. ASSUME NEW r \in Runs, PrepareExpires(r) PROVE \A q \in Runs : BeforeRight(q)'
  BY <1>0, \A q \in Runs : BeforeRight(q), <1>5 DEF PrepareExpires, Goto, EndsAs,
     AfterFailure, LastPhase, pidVars, diskVars, BeforeRight, LeftBehind, RunTypes
<1>6. ASSUME NEW r \in Runs, EndOfOutput(r) PROVE \A q \in Runs : BeforeRight(q)'
  BY <1>0, \A q \in Runs : BeforeRight(q), <1>6 DEF EndOfOutput, Goto, pidVars, diskVars,
     BeforeRight, LeftBehind, RunTypes
<1>7. ASSUME NEW r \in Runs, Stall(r) PROVE \A q \in Runs : BeforeRight(q)'
  BY <1>0, \A q \in Runs : BeforeRight(q), <1>7 DEF Stall, Goto, pidVars, diskVars,
     BeforeRight, LeftBehind, RunTypes
<1>8. ASSUME NEW r \in Runs, StallKills(r) PROVE \A q \in Runs : BeforeRight(q)'
  BY <1>0, \A q \in Runs : BeforeRight(q), <1>8 DEF StallKills, Goto, Killed, Exited,
     pidVars, diskVars, BeforeRight, LeftBehind, RunTypes
<1>9. ASSUME NEW r \in Runs, Reaped(r) PROVE \A q \in Runs : BeforeRight(q)'
  BY <1>0, \A q \in Runs : BeforeRight(q), <1>9 DEF Reaped, Goto, Exited, pidVars,
     diskVars, BeforeRight, LeftBehind, RunTypes
<1>10. ASSUME NEW r \in Runs, AskToStop(r) PROVE \A q \in Runs : BeforeRight(q)'
  BY <1>0, \A q \in Runs : BeforeRight(q), <1>10 DEF AskToStop, Goto, Exited, pidVars,
     diskVars, BeforeRight, LeftBehind, RunTypes
<1>11. ASSUME NEW r \in Runs, Kill(r) PROVE \A q \in Runs : BeforeRight(q)'
  BY <1>0, \A q \in Runs : BeforeRight(q), <1>11 DEF Kill, Goto, Killed, Exited,
     pidVars, diskVars, BeforeRight, LeftBehind, RunTypes
<1>12. ASSUME NEW r \in Runs, Abandon(r) PROVE \A q \in Runs : BeforeRight(q)'
  BY <1>0, \A q \in Runs : BeforeRight(q), <1>12 DEF Abandon, Goto, GivesUp, NoteChild,
     Exited, diskVars, BeforeRight, LeftBehind, RunTypes
<1>13. ASSUME NEW r \in Runs, Verdict(r) PROVE \A q \in Runs : BeforeRight(q)'
  BY <1>0, \A q \in Runs : BeforeRight(q), <1>13 DEF Verdict, Goto, EndsAs, Report,
     AfterFailure, LastPhase, diskVars, BeforeRight, LeftBehind, RunTypes
<1>14. ASSUME NEW r \in Runs, Publish(r) PROVE \A q \in Runs : BeforeRight(q)'
  <2>1. PICK to \in {"sweep", "tree", "ended"} : pc' = [pc EXCEPT ![r] = to]
    BY <1>14, PublishMoves DEF LateMove
  <2> QED
    BY <1>14, <2>1, <1>0 DEF Publish, BeforeRight, LeftBehind, RunTypes
<1>15. ASSUME NEW r \in Runs, SweepStarts(r) PROVE \A q \in Runs : BeforeRight(q)'
  <2>1. PICK to \in {"sweep", "tree", "ended"} : pc' = [pc EXCEPT ![r] = to]
    BY <1>15, SweepStartsMoves DEF LateMove
  <2>2. ASSUME NEW q \in Runs PROVE sweep'[<<q, "before">>] = sweep[<<q, "before">>]
    <3>1. <<q, "before">> \in Sweepers /\ <<r, "after">> \in Sweepers /\ <<q, "before">> # <<r, "after">>
      BY <1>0 DEF SortsRight
    <3>2. sweep' = sweep \/ sweep' = [sweep EXCEPT ![<<r, "after">>].at = "list"]
      BY <1>15 DEF SweepStarts, StartSweep
    <3> QED
      BY <3>1, <3>2, <1>0
  <2> QED
    BY <1>15, <2>1, <2>2, <1>0 DEF SweepStarts, BeforeRight, LeftBehind, RunTypes
<1>16. ASSUME NEW r \in Runs, SweepEnds(r) PROVE \A q \in Runs : BeforeRight(q)'
  <2>1. PICK to \in {"sweep", "tree", "ended"} : pc' = [pc EXCEPT ![r] = to]
    BY <1>16, SweepEndsMoves DEF LateMove
  <2>2. ASSUME NEW q \in Runs PROVE sweep'[<<q, "before">>] = sweep[<<q, "before">>]
    <3>1. <<q, "before">> \in Sweepers /\ <<r, "after">> \in Sweepers /\ <<q, "before">> # <<r, "after">>
      BY <1>0 DEF SortsRight
    <3>2. sweep' = sweep \/ sweep' = [sweep EXCEPT ![<<r, "after">>].given = TRUE]
      BY <1>16 DEF SweepEnds
    <3> QED
      BY <3>1, <3>2, <1>0
  <2> QED
    BY <1>16, <2>1, <2>2, <1>0 DEF SweepEnds, BeforeRight, LeftBehind, RunTypes
<1>17. ASSUME NEW r \in Runs, RemoveTree(r) PROVE \A q \in Runs : BeforeRight(q)'
  BY <1>0, \A q \in Runs : BeforeRight(q), <1>17 DEF RemoveTree, Goto, pidVars,
     BeforeRight, LeftBehind, RunTypes
<1>18. ASSUME NEW r \in Runs, Cancel(r) PROVE \A q \in Runs : BeforeRight(q)'
  BY <1>0, \A q \in Runs : BeforeRight(q), <1>18 DEF Cancel, runVars, pidVars, diskVars,
     BeforeRight, LeftBehind, RunTypes
<1>19. ASSUME NEW r \in Runs, WatcherActs(r) PROVE \A q \in Runs : BeforeRight(q)'
  BY <1>0, \A q \in Runs : BeforeRight(q), <1>19 DEF WatcherActs, Awaited, Exited,
     pidVars, diskVars, BeforeRight, LeftBehind, RunTypes
<1>20. ASSUME NEW r \in Runs, WatcherKills(r) PROVE \A q \in Runs : BeforeRight(q)'
  BY <1>0, \A q \in Runs : BeforeRight(q), <1>20 DEF WatcherKills, Killed, runVars,
     pidVars, diskVars, BeforeRight, LeftBehind, RunTypes
<1>21. ASSUME NEW r \in Runs, AbandonedGone(r) PROVE \A q \in Runs : BeforeRight(q)'
  BY <1>0, \A q \in Runs : BeforeRight(q), <1>21 DEF AbandonedGone, Exited, runVars,
     diskVars, BeforeRight, LeftBehind, RunTypes
<1>22. ASSUME NEW r \in Runs, Writes(r) PROVE \A q \in Runs : BeforeRight(q)'
  BY <1>0, \A q \in Runs : BeforeRight(q), <1>22 DEF Writes, WritesFor, runVars, pidVars,
     BeforeRight, LeftBehind, RunTypes
<1>23. ASSUME NEW r \in Runs, Exits(r) PROVE \A q \in Runs : BeforeRight(q)'
  BY <1>0, \A q \in Runs : BeforeRight(q), <1>23 DEF Exits, runVars, pidVars, diskVars,
     BeforeRight, LeftBehind, RunTypes
<1>24. ASSUME NEW r \in Runs, Dies(r) PROVE \A q \in Runs : BeforeRight(q)'
  BY <1>0, \A q \in Runs : BeforeRight(q), <1>24 DEF Dies, WritesFor, runVars, pidVars,
     BeforeRight, LeftBehind, RunTypes
<1>25. ASSUME NEW r \in Runs, NEW k \in Samples, Measure(r, k) PROVE \A q \in Runs : BeforeRight(q)'
  BY <1>0, \A q \in Runs : BeforeRight(q), <1>25 DEF Measure, runVars, pidVars, diskVars,
     BeforeRight, LeftBehind, RunTypes
<1>26. ASSUME NEW x \in probes, ProbeReturns(x) PROVE \A q \in Runs : BeforeRight(q)'
  BY <1>0, \A q \in Runs : BeforeRight(q), <1>26 DEF ProbeReturns, runVars, pidVars,
     diskVars, BeforeRight, LeftBehind, RunTypes
<1>27. ASSUME NEW s \in Sweepers, SweepLists(s) PROVE \A q \in Runs : BeforeRight(q)'
  <2>1. Sweeps(s)
    BY <1>0, <1>27, ListsSweeps
  <2> QED
    BY <1>0, <2>1, SweepsBehind
<1>28. ASSUME NEW s \in Sweepers, SweepNext(s) PROVE \A q \in Runs : BeforeRight(q)'
  <2>1. Sweeps(s)
    BY <1>0, <1>28, NextSweeps
  <2> QED
    BY <1>0, <2>1, SweepsBehind
<1>29. ASSUME NEW s \in Sweepers, SweepUnlinks(s) PROVE \A q \in Runs : BeforeRight(q)'
  <2>1. Sweeps(s)
    BY <1>0, <1>29, UnlinksSweeps
  <2> QED
    BY <1>0, <2>1, SweepsBehind
<1>30. ASSUME StopAnswering PROVE \A q \in Runs : BeforeRight(q)'
  BY <1>0, \A q \in Runs : BeforeRight(q), <1>30 DEF StopAnswering, runVars, pidVars,
     BeforeRight, LeftBehind, RunTypes
<1>31. ASSUME AnswerAgain PROVE \A q \in Runs : BeforeRight(q)'
  BY <1>0, \A q \in Runs : BeforeRight(q), <1>31 DEF AnswerAgain, runVars, pidVars,
     BeforeRight, LeftBehind, RunTypes
<1> QED
  BY <1>1, <1>2, <1>3, <1>4, <1>5, <1>6, <1>7, <1>8, <1>9, <1>10, <1>11, <1>12, <1>13, <1>14,
     <1>15, <1>16, <1>17, <1>18, <1>19, <1>20, <1>21, <1>22, <1>23, <1>24, <1>25, <1>26, <1>27,
     <1>28, <1>29, <1>30, <1>31 DEF ToolNext, Step

\* A run that is not at its sweep yet, nor past it, has none.
LEMMA AfterEarly ==
    ASSUME RunTypes, NEW r \in Runs, pc[r] \notin {"sweep", "tree", "ended"},
           \E to : pc' = [pc EXCEPT ![r] = to],
           \A q \in Runs : sweep'[<<q, "after">>] = sweep[<<q, "after">>], \A q \in Runs : AfterRight(q)
    PROVE  \A q \in Runs : AfterRight(q)'
<1>1. sweep'[<<r, "after">>].at = "none"
  BY DEF AfterRight
<1>2. AfterRight(r)'
  BY <1>1 DEF AfterRight, LeftBehind
<1>3. ASSUME NEW q \in Runs, q # r PROVE AfterRight(q)'
  <2>1. pc'[q] = pc[q]
    BY <1>3 DEF RunTypes
  <2> QED
    BY <2>1 DEF AfterRight, LeftBehind
<1> QED
  BY <1>2, <1>3
\* The sweeps after a run are left behind in time.
LEMMA AfterStep ==
    ASSUME ToolTypeOK, \A q \in Runs : Reported(q),
           \A q \in Runs : BeforeRight(q), \A q \in Runs : AfterRight(q),
           \A z \in Sweepers : SweepRight(z), ToolNext
    PROVE  \A q \in Runs : AfterRight(q)'
<1>0. RunTypes /\ sweep \in [Sweepers -> SweepStates] /\ SortsRight
  BY Types, Sorts
<1>r. \A q \in Runs : Reported(q)
  OBVIOUS
<1>1. ASSUME NEW r \in Runs, Begin(r) PROVE \A q \in Runs : AfterRight(q)'
  <2>1. PICK to \in {"clear", "mkdir", "prepare", "sweep", "tree", "ended"} : pc' = [pc EXCEPT ![r] = to] /\ pc[r] \in Early
    BY <1>1, <1>0, <1>r, BeginMoves DEF EarlyMove, Early
  <2>2. ASSUME NEW q \in Runs PROVE sweep'[<<q, "after">>] = sweep[<<q, "after">>]
    <3>1. <<q, "after">> \in Sweepers /\ <<r, "before">> \in Sweepers /\ <<q, "after">> # <<r, "before">>
      BY <1>0 DEF SortsRight
    <3>2. sweep' = sweep \/ sweep' = [sweep EXCEPT ![<<r, "before">>].at = "list"]
      BY <1>1 DEF Begin, StartSweep
    <3> QED
      BY <3>1, <3>2, <1>0
  <2> QED
    BY <1>0, <2>1, <2>2, AfterEarly DEF Early
<1>2. ASSUME NEW r \in Runs, Cleared(r) PROVE \A q \in Runs : AfterRight(q)'
  <2>1. PICK to \in {"clear", "mkdir", "prepare", "sweep", "tree", "ended"} : pc' = [pc EXCEPT ![r] = to] /\ pc[r] \in Early
    BY <1>2, <1>0, <1>r, ClearedMoves DEF EarlyMove, Early
  <2>2. ASSUME NEW q \in Runs PROVE sweep'[<<q, "after">>] = sweep[<<q, "after">>]
    <3>1. <<q, "after">> \in Sweepers /\ <<r, "before">> \in Sweepers /\ <<q, "after">> # <<r, "before">>
      BY <1>0 DEF SortsRight
    <3>2. sweep' = sweep \/ sweep' = [sweep EXCEPT ![<<r, "before">>].given = TRUE]
      BY <1>2 DEF Cleared
    <3> QED
      BY <3>1, <3>2, <1>0
  <2> QED
    BY <1>0, <2>1, <2>2, AfterEarly DEF Early
<1>3. ASSUME NEW r \in Runs, MakeWorkDir(r) PROVE \A q \in Runs : AfterRight(q)'
  <2>1. PICK to \in {"clear", "mkdir", "prepare", "sweep", "tree", "ended"} : pc' = [pc EXCEPT ![r] = to] /\ pc[r] \in Early
    BY <1>3, <1>0, <1>r, MakeWorkDirMoves DEF EarlyMove, Early
  <2>2. sweep' = sweep
    BY <1>3 DEF MakeWorkDir
  <2> QED
    BY <1>0, <2>1, <2>2, AfterEarly DEF Early
<1>4. ASSUME NEW r \in Runs, Spawn(r) PROVE \A q \in Runs : AfterRight(q)'
  BY <1>0, \A q \in Runs : AfterRight(q), <1>4 DEF Spawn, Goto, diskVars, AfterRight,
     LeftBehind, RunTypes, Phases
<1>5. ASSUME NEW r \in Runs, PrepareExpires(r) PROVE \A q \in Runs : AfterRight(q)'
  <2>1. PICK to \in {"clear", "mkdir", "prepare", "sweep", "tree", "ended"} : pc' = [pc EXCEPT ![r] = to] /\ pc[r] \in Early
    BY <1>5, <1>0, <1>r, PrepareExpiresMoves DEF EarlyMove, Early
  <2>2. sweep' = sweep
    BY <1>5 DEF PrepareExpires
  <2> QED
    BY <1>0, <2>1, <2>2, AfterEarly DEF Early
<1>6. ASSUME NEW r \in Runs, EndOfOutput(r) PROVE \A q \in Runs : AfterRight(q)'
  BY <1>0, \A q \in Runs : AfterRight(q), <1>6 DEF EndOfOutput, Goto, pidVars, diskVars,
     AfterRight, LeftBehind, RunTypes, Phases
<1>7. ASSUME NEW r \in Runs, Stall(r) PROVE \A q \in Runs : AfterRight(q)'
  BY <1>0, \A q \in Runs : AfterRight(q), <1>7 DEF Stall, Goto, pidVars, diskVars,
     AfterRight, LeftBehind, RunTypes, Phases
<1>8. ASSUME NEW r \in Runs, StallKills(r) PROVE \A q \in Runs : AfterRight(q)'
  BY <1>0, \A q \in Runs : AfterRight(q), <1>8 DEF StallKills, Goto, Killed, Exited,
     pidVars, diskVars, AfterRight, LeftBehind, RunTypes, Phases
<1>9. ASSUME NEW r \in Runs, Reaped(r) PROVE \A q \in Runs : AfterRight(q)'
  <2>1. pc' = [pc EXCEPT ![r] = "verdict"] /\ pc[r] \notin {"sweep", "tree", "ended"} /\ sweep' = sweep
    BY <1>9 DEF Reaped, Goto
  <2> QED
    BY <1>0, <2>1, AfterEarly
<1>10. ASSUME NEW r \in Runs, AskToStop(r) PROVE \A q \in Runs : AfterRight(q)'
  BY <1>0, \A q \in Runs : AfterRight(q), <1>10 DEF AskToStop, Goto, Exited, pidVars,
     diskVars, AfterRight, LeftBehind, RunTypes, Phases
<1>11. ASSUME NEW r \in Runs, Kill(r) PROVE \A q \in Runs : AfterRight(q)'
  BY <1>0, \A q \in Runs : AfterRight(q), <1>11 DEF Kill, Goto, Killed, Exited,
     pidVars, diskVars, AfterRight, LeftBehind, RunTypes, Phases
<1>12. ASSUME NEW r \in Runs, Abandon(r) PROVE \A q \in Runs : AfterRight(q)'
  BY <1>0, \A q \in Runs : AfterRight(q), <1>12 DEF Abandon, Goto, GivesUp, NoteChild,
     Exited, diskVars, AfterRight, LeftBehind, RunTypes, Phases
<1>13. ASSUME NEW r \in Runs, Verdict(r) PROVE \A q \in Runs : AfterRight(q)'
  <2>1. \E to : pc' = [pc EXCEPT ![r] = to]
    BY <1>13 DEF Verdict, Goto
  <2>2. pc[r] \notin {"sweep", "tree", "ended"} /\ sweep' = sweep
    BY <1>13 DEF Verdict
  <2> QED
    BY <1>0, <2>1, <2>2, AfterEarly
<1>14. ASSUME NEW r \in Runs, Publish(r) PROVE \A q \in Runs : AfterRight(q)'
  <2>1. \E to : pc' = [pc EXCEPT ![r] = to]
    BY <1>14 DEF Publish, Goto
  <2>2. pc[r] \notin {"sweep", "tree", "ended"} /\ sweep' = sweep
    BY <1>14 DEF Publish
  <2> QED
    BY <1>0, <2>1, <2>2, AfterEarly
<1>15. ASSUME NEW r \in Runs, SweepStarts(r) PROVE \A q \in Runs : AfterRight(q)'
  <2> DEFINE s == <<r, "after">>
  <2>1. PICK to \in {"sweep", "tree", "ended"} : pc' = [pc EXCEPT ![r] = to]
    BY <1>15, SweepStartsMoves DEF LateMove
  <2>2. s \in Sweepers /\ pc[r] = "sweep"
    BY <1>15, <1>0 DEF SortsRight, SweepStarts
  <2>3. CASE sweep' = sweep /\ sweep[s].at = "none"
    BY <2>1, <2>2, <2>3, <1>0 DEF AfterRight, LeftBehind, RunTypes
  <2>4. CASE sweep' = [sweep EXCEPT ![s].at = "list"] /\ pc' = [pc EXCEPT ![r] = "sweep"]
    <3>1. Now(s, "list", sweep[s].todo, sweep[s].next, sweep[s].given, sweep[s].lost)
      BY <1>0, <2>2, <2>4, NowAt
    <3>2. AfterRight(r)'
      BY <3>1, <2>1, <2>2, <2>4, <1>0 DEF Now, AfterRight, LeftBehind, RunTypes
    <3>3. ASSUME NEW q \in Runs, q # r PROVE AfterRight(q)'
      <4>1. <<q, "after">> \in Sweepers \ {s}
        BY <1>0, <3>3 DEF SortsRight
      <4>2. sweep'[<<q, "after">>] = sweep[<<q, "after">>] /\ pc'[q] = pc[q]
        BY <4>1, <3>1, <3>3, <2>1, <1>0 DEF Now, RunTypes
      <4> QED
        BY <4>2 DEF AfterRight, LeftBehind
    <3> QED
      BY <3>2, <3>3
  <2> QED
    BY <1>15, <2>1, <2>2, <2>3, <2>4, <1>0 DEF SweepStarts, StartSweep, Goto, RunTypes
<1>16. ASSUME NEW r \in Runs, SweepEnds(r) PROVE \A q \in Runs : AfterRight(q)'
  <2> DEFINE s == <<r, "after">>
  <2>1. PICK to \in {"sweep", "tree", "ended"} : pc' = [pc EXCEPT ![r] = to]
    BY <1>16, SweepEndsMoves DEF LateMove
  <2>2. s \in Sweepers /\ pc[r] = "sweep"
    BY <1>16, <1>0 DEF SortsRight, SweepEnds
  <2>3. CASE sweep' = sweep /\ sweep[s].at = "returned"
    BY <2>1, <2>2, <2>3, <1>0 DEF AfterRight, LeftBehind, RunTypes
  <2>4. CASE sweep' = [sweep EXCEPT ![s].given = TRUE]
    <3>1. Now(s, sweep[s].at, sweep[s].todo, sweep[s].next, TRUE, sweep[s].lost)
      BY <1>0, <2>2, <2>4, NowGiven
    <3>2. AfterRight(r)'
      BY <3>1, <2>1, <2>2, <2>4, <1>0 DEF Now, AfterRight, LeftBehind, RunTypes
    <3>3. ASSUME NEW q \in Runs, q # r PROVE AfterRight(q)'
      <4>1. <<q, "after">> \in Sweepers \ {s}
        BY <1>0, <3>3 DEF SortsRight
      <4>2. sweep'[<<q, "after">>] = sweep[<<q, "after">>] /\ pc'[q] = pc[q]
        BY <4>1, <3>1, <3>3, <2>1, <1>0 DEF Now, RunTypes
      <4> QED
        BY <4>2 DEF AfterRight, LeftBehind
    <3> QED
      BY <3>2, <3>3
  <2> QED
    BY <1>16, <2>1, <2>2, <2>3, <2>4, <1>0 DEF SweepEnds
<1>17. ASSUME NEW r \in Runs, RemoveTree(r) PROVE \A q \in Runs : AfterRight(q)'
  <2>1. sweep' = sweep /\ pc[r] = "tree" /\ pc' = [pc EXCEPT ![r] = "ended"]
    BY <1>17 DEF RemoveTree, Goto
  <2>2. AfterRight(r) /\ AfterRight(r)'
    BY <2>1, <1>0 DEF AfterRight, LeftBehind, RunTypes
  <2>3. ASSUME NEW q \in Runs, q # r PROVE AfterRight(q)'
    <3>1. pc'[q] = pc[q]
      BY <2>1, <2>3, <1>0 DEF RunTypes
    <3> QED
      BY <3>1, <2>1 DEF AfterRight, LeftBehind
  <2> QED
    BY <2>2, <2>3
<1>18. ASSUME NEW r \in Runs, Cancel(r) PROVE \A q \in Runs : AfterRight(q)'
  BY <1>0, \A q \in Runs : AfterRight(q), <1>18 DEF Cancel, runVars, pidVars, diskVars,
     AfterRight, LeftBehind, RunTypes, Phases
<1>19. ASSUME NEW r \in Runs, WatcherActs(r) PROVE \A q \in Runs : AfterRight(q)'
  BY <1>0, \A q \in Runs : AfterRight(q), <1>19 DEF WatcherActs, Awaited, Exited,
     pidVars, diskVars, AfterRight, LeftBehind, RunTypes, Phases
<1>20. ASSUME NEW r \in Runs, WatcherKills(r) PROVE \A q \in Runs : AfterRight(q)'
  BY <1>0, \A q \in Runs : AfterRight(q), <1>20 DEF WatcherKills, Killed, runVars,
     pidVars, diskVars, AfterRight, LeftBehind, RunTypes, Phases
<1>21. ASSUME NEW r \in Runs, AbandonedGone(r) PROVE \A q \in Runs : AfterRight(q)'
  BY <1>0, \A q \in Runs : AfterRight(q), <1>21 DEF AbandonedGone, Exited, runVars,
     diskVars, AfterRight, LeftBehind, RunTypes, Phases
<1>22. ASSUME NEW r \in Runs, Writes(r) PROVE \A q \in Runs : AfterRight(q)'
  BY <1>0, \A q \in Runs : AfterRight(q), <1>22 DEF Writes, WritesFor, runVars, pidVars,
     AfterRight, LeftBehind, RunTypes, Phases
<1>23. ASSUME NEW r \in Runs, Exits(r) PROVE \A q \in Runs : AfterRight(q)'
  BY <1>0, \A q \in Runs : AfterRight(q), <1>23 DEF Exits, runVars, pidVars, diskVars,
     AfterRight, LeftBehind, RunTypes, Phases
<1>24. ASSUME NEW r \in Runs, Dies(r) PROVE \A q \in Runs : AfterRight(q)'
  BY <1>0, \A q \in Runs : AfterRight(q), <1>24 DEF Dies, WritesFor, runVars, pidVars,
     AfterRight, LeftBehind, RunTypes, Phases
<1>25. ASSUME NEW r \in Runs, NEW k \in Samples, Measure(r, k) PROVE \A q \in Runs : AfterRight(q)'
  BY <1>0, \A q \in Runs : AfterRight(q), <1>25 DEF Measure, runVars, pidVars, diskVars,
     AfterRight, LeftBehind, RunTypes, Phases
<1>26. ASSUME NEW x \in probes, ProbeReturns(x) PROVE \A q \in Runs : AfterRight(q)'
  BY <1>0, \A q \in Runs : AfterRight(q), <1>26 DEF ProbeReturns, runVars, pidVars,
     diskVars, AfterRight, LeftBehind, RunTypes, Phases
<1>27. ASSUME NEW s \in Sweepers, SweepLists(s) PROVE \A q \in Runs : AfterRight(q)'
  <2>1. Sweeps(s)
    BY <1>0, <1>27, ListsSweeps
  <2> QED
    BY <1>0, <2>1, SweepsBehind
<1>28. ASSUME NEW s \in Sweepers, SweepNext(s) PROVE \A q \in Runs : AfterRight(q)'
  <2>1. Sweeps(s)
    BY <1>0, <1>28, NextSweeps
  <2> QED
    BY <1>0, <2>1, SweepsBehind
<1>29. ASSUME NEW s \in Sweepers, SweepUnlinks(s) PROVE \A q \in Runs : AfterRight(q)'
  <2>1. Sweeps(s)
    BY <1>0, <1>29, UnlinksSweeps
  <2> QED
    BY <1>0, <2>1, SweepsBehind
<1>30. ASSUME StopAnswering PROVE \A q \in Runs : AfterRight(q)'
  BY <1>0, \A q \in Runs : AfterRight(q), <1>30 DEF StopAnswering, runVars, pidVars,
     AfterRight, LeftBehind, RunTypes, Phases
<1>31. ASSUME AnswerAgain PROVE \A q \in Runs : AfterRight(q)'
  BY <1>0, \A q \in Runs : AfterRight(q), <1>31 DEF AnswerAgain, runVars, pidVars,
     AfterRight, LeftBehind, RunTypes, Phases
<1> QED
  BY <1>1, <1>2, <1>3, <1>4, <1>5, <1>6, <1>7, <1>8, <1>9, <1>10, <1>11, <1>12, <1>13, <1>14,
     <1>15, <1>16, <1>17, <1>18, <1>19, <1>20, <1>21, <1>22, <1>23, <1>24, <1>25, <1>26, <1>27,
     <1>28, <1>29, <1>30, <1>31 DEF ToolNext, Step

\* What a sweep has taken from later runs is remembered.
LostKept == \A s \in Sweepers : sweep[s].lost \subseteq sweep'[s].lost
LEMMA NowKeeps ==
    ASSUME NEW s \in Sweepers, NEW a, NEW t, NEW n, NEW g, NEW l, Now(s, a, t, n, g, l),
           sweep[s].lost \subseteq l
    PROVE  LostKept
  BY DEF Now, LostKept
LEMMA LostStep == ASSUME ToolTypeOK, ToolNext PROVE LostKept
<1>0. sweep \in [Sweepers -> SweepStates] /\ SortsRight
  BY Types, Sorts
<1>e. sweep' = sweep => LostKept
  BY DEF LostKept
<1>1. ASSUME NEW r \in Runs, Begin(r) PROVE LostKept
  <2>1. sweep' = sweep \/ sweep' = [sweep EXCEPT ![<<r, "before">>].at = "list"]
    BY <1>1 DEF Begin, StartSweep
  <2> QED
    BY <2>1, <1>0, <1>e, NowAt, NowKeeps DEF SortsRight
<1>2. ASSUME NEW r \in Runs, Cleared(r) PROVE LostKept
  <2>1. sweep' = sweep \/ sweep' = [sweep EXCEPT ![<<r, "before">>].given = TRUE]
    BY <1>2 DEF Cleared
  <2> QED
    BY <2>1, <1>0, <1>e, NowGiven, NowKeeps DEF SortsRight
<1>3. ASSUME NEW r \in Runs, MakeWorkDir(r) PROVE LostKept
  BY <1>e, <1>3 DEF MakeWorkDir
<1>4. ASSUME NEW r \in Runs, Spawn(r) PROVE LostKept
  BY <1>e, <1>4 DEF Spawn
<1>5. ASSUME NEW r \in Runs, PrepareExpires(r) PROVE LostKept
  BY <1>e, <1>5 DEF PrepareExpires
<1>6. ASSUME NEW r \in Runs, EndOfOutput(r) PROVE LostKept
  BY <1>e, <1>6 DEF EndOfOutput
<1>7. ASSUME NEW r \in Runs, Stall(r) PROVE LostKept
  BY <1>e, <1>7 DEF Stall
<1>8. ASSUME NEW r \in Runs, StallKills(r) PROVE LostKept
  BY <1>e, <1>8 DEF StallKills
<1>9. ASSUME NEW r \in Runs, Reaped(r) PROVE LostKept
  BY <1>e, <1>9 DEF Reaped
<1>10. ASSUME NEW r \in Runs, AskToStop(r) PROVE LostKept
  BY <1>e, <1>10 DEF AskToStop
<1>11. ASSUME NEW r \in Runs, Kill(r) PROVE LostKept
  BY <1>e, <1>11 DEF Kill
<1>12. ASSUME NEW r \in Runs, Abandon(r) PROVE LostKept
  BY <1>e, <1>12 DEF Abandon
<1>13. ASSUME NEW r \in Runs, Verdict(r) PROVE LostKept
  BY <1>e, <1>13 DEF Verdict
<1>14. ASSUME NEW r \in Runs, Publish(r) PROVE LostKept
  BY <1>e, <1>14 DEF Publish
<1>15. ASSUME NEW r \in Runs, SweepStarts(r) PROVE LostKept
  <2>1. sweep' = sweep \/ sweep' = [sweep EXCEPT ![<<r, "after">>].at = "list"]
    BY <1>15 DEF SweepStarts, StartSweep
  <2> QED
    BY <2>1, <1>0, <1>e, NowAt, NowKeeps DEF SortsRight
<1>16. ASSUME NEW r \in Runs, SweepEnds(r) PROVE LostKept
  <2>1. sweep' = sweep \/ sweep' = [sweep EXCEPT ![<<r, "after">>].given = TRUE]
    BY <1>16 DEF SweepEnds
  <2> QED
    BY <2>1, <1>0, <1>e, NowGiven, NowKeeps DEF SortsRight
<1>17. ASSUME NEW r \in Runs, RemoveTree(r) PROVE LostKept
  BY <1>e, <1>17 DEF RemoveTree
<1>18. ASSUME NEW r \in Runs, Cancel(r) PROVE LostKept
  BY <1>e, <1>18 DEF Cancel
<1>19. ASSUME NEW r \in Runs, WatcherActs(r) PROVE LostKept
  BY <1>e, <1>19 DEF WatcherActs
<1>20. ASSUME NEW r \in Runs, WatcherKills(r) PROVE LostKept
  BY <1>e, <1>20 DEF WatcherKills
<1>21. ASSUME NEW r \in Runs, AbandonedGone(r) PROVE LostKept
  BY <1>e, <1>21 DEF AbandonedGone
<1>22. ASSUME NEW r \in Runs, Writes(r) PROVE LostKept
  BY <1>e, <1>22 DEF Writes
<1>23. ASSUME NEW r \in Runs, Exits(r) PROVE LostKept
  BY <1>e, <1>23 DEF Exits
<1>24. ASSUME NEW r \in Runs, Dies(r) PROVE LostKept
  BY <1>e, <1>24 DEF Dies
<1>25. ASSUME NEW r \in Runs, NEW k \in Samples, Measure(r, k) PROVE LostKept
  BY <1>e, <1>25 DEF Measure
<1>26. ASSUME NEW x \in probes, ProbeReturns(x) PROVE LostKept
  BY <1>e, <1>26 DEF ProbeReturns
<1>27. ASSUME NEW s \in Sweepers, SweepLists(s) PROVE LostKept
  <2>1. \/ sweep' = [sweep EXCEPT ![s].at = "returned"]
        \/ sweep' = [sweep EXCEPT ![s].at = "unlink", ![s].todo = Found]
    BY <1>27 DEF SweepLists
  <2> QED
    BY <2>1, <1>0, NowAt, NowTodo, NowKeeps
<1>28. ASSUME NEW s \in Sweepers, SweepNext(s) PROVE LostKept
  <2>1. CASE sweep' = [sweep EXCEPT ![s].at = "returned", ![s].todo = {}]
    BY <2>1, <1>0, NowTodo, NowKeeps
  <2>2. CASE \E p \in sweep[s].todo : sweep' = [sweep EXCEPT ![s].next = p, ![s].todo = sweep[s].todo \ {p}]
    BY <2>2, <1>0, NowTakes, NowKeeps
  <2> QED
    BY <1>28, <2>1, <2>2 DEF SweepNext
<1>29. ASSUME NEW s \in Sweepers, SweepUnlinks(s) PROVE LostKept
  <2>1. PICK L : sweep' = [sweep EXCEPT ![s].next = NoPath, ![s].lost = L] /\ sweep[s].lost \subseteq L
    BY <1>29 DEF SweepUnlinks
  <2> QED
    BY <2>1, <1>0, NowUnlinks, NowKeeps
<1>30. ASSUME StopAnswering PROVE LostKept
  BY <1>e, <1>30 DEF StopAnswering
<1>31. ASSUME AnswerAgain PROVE LostKept
  BY <1>e, <1>31 DEF AnswerAgain
<1> QED
  BY <1>1, <1>2, <1>3, <1>4, <1>5, <1>6, <1>7, <1>8, <1>9, <1>10, <1>11, <1>12, <1>13, <1>14,
     <1>15, <1>16, <1>17, <1>18, <1>19, <1>20, <1>21, <1>22, <1>23, <1>24, <1>25, <1>26, <1>27,
     <1>28, <1>29, <1>30, <1>31 DEF ToolNext, Step

\* A part that was there, or taken, still is.
LEMMA KeptStays ==
    ASSUME LostKept, NEW r, NEW q, file'[q] = Absent => file[q] = Absent, Kept(r, q)
    PROVE  Kept(r, q)'
  BY DEF Kept, LostKept
\* A gap stays one.
LEMMA GapStays == ASSUME LostKept, NEW r, NEW p, BeyondGap(r, p) PROVE BeyondGap(r, p)'
  BY DEF BeyondGap, LostKept

\* A step that writes and removes nothing, starts no sweep over, and neither takes
\* a converter away nor brings a run back.
Quiet ==
    /\ file' = file /\ begun' = begun
    /\ \A q \in Runs : child'[q] = "none" => child[q] = "none"
    /\ \A q \in Runs : pc[q] = "ended" => pc'[q] = "ended"
    /\ \A q \in Runs : sweep'[<<q, "after">>].at \in {"none", "list"}
                        => sweep[<<q, "after">>].at \in {"none", "list"}
\* What keeps the parts of a run together.
LEMMA GaplessSame ==
    ASSUME ToolTypeOK, LostKept, NEW r \in Runs, Gapless(r),
           child'[r] = "none" => child[r] = "none",
           pc[r] = "ended" => pc'[r] = "ended",
           sweep'[<<r, "after">>].at \in {"none", "list"} => sweep[<<r, "after">>].at \in {"none", "list"},
           begun'[r] = begun[r] \/ begun'[r] = 0,
           \A p \in Parts : file'[p] = r => file[p] = r,
           \A q \in Parts : Kept(r, q) => Kept(r, q)'
    PROVE  Gapless(r)'
<1>1. begun[r] \in Parts
  BY DEF ToolTypeOK
<1>2. (child[r] = "none" => begun[r] = 0)'
  BY DEF Gapless
<1>3. ASSUME (pc[r] # "ended" /\ sweep[<<r, "after">>].at \in {"none", "list"})'
      PROVE  (/\ \A q \in 1..begun[r] : Kept(r, q)
              /\ \A p \in Parts : file[p] = r => \A q \in 1..p : Kept(r, q))'
  <2>1. /\ \A q \in 1..begun[r] : Kept(r, q)
        /\ \A p \in Parts : file[p] = r => \A q \in 1..p : Kept(r, q)
    BY <1>3 DEF Gapless
  <2>2. \A q \in 1..begun'[r] : Kept(r, q)'
    <3>1. \A q \in 1..begun'[r] : q \in 1..begun[r]
      OBVIOUS
    <3> QED
      BY <2>1, <3>1, <1>1, PartsBelow
  <2>3. \A p \in Parts : file'[p] = r => \A q \in 1..p : Kept(r, q)'
    BY <2>1, PartsBelow
  <2> QED
    BY <2>2, <2>3
<1> QED
  BY <1>2, <1>3 DEF Gapless
LEMMA GaplessQuiet ==
    ASSUME ToolTypeOK, LostKept, Quiet, \A q \in Runs : Gapless(q)
    PROVE  \A q \in Runs : Gapless(q)'
<1> SUFFICES ASSUME NEW r \in Runs PROVE Gapless(r)'
  OBVIOUS
<1>1. \A q \in Parts : Kept(r, q) => Kept(r, q)'
  BY KeptStays DEF Quiet
<1> QED
  BY <1>1, GaplessSame DEF Quiet
\* A converter goes on with its part, or to the next.
LEMMA GaplessWrites ==
    ASSUME ToolTypeOK, SortsRight, LostKept, \A q \in Runs : Gapless(q),
           NEW r \in Runs, child[r] # "none", child'[r] # "none", pc' = pc, sweep' = sweep,
           \A q \in Runs \ {r} : child'[q] = child[q] /\ begun'[q] = begun[q],
           NEW p \in Parts, WritesFor(r, p), begun'[r] = p \/ begun'[r] = 0
    PROVE  \A q \in Runs : Gapless(q)'
<1>1. CASE Has("private")
  <2>1. file' = file /\ p = 0
    BY <1>1 DEF WritesFor, Base
  <2>2. ASSUME NEW q \in Runs, q # r PROVE Gapless(q)'
    <3>1. \A x \in Parts : Kept(q, x) => Kept(q, x)'
      BY <2>1, KeptStays
    <3> QED
      BY <2>1, <2>2, <3>1, GaplessSame
  <2>3. Gapless(r)'
    <3>1. \A x \in Parts : Kept(r, x) => Kept(r, x)'
      BY <2>1, KeptStays
    <3> QED
      BY <2>1, <3>1, GaplessSame
  <2> QED
    BY <2>2, <2>3
<1>2. CASE ~Has("private")
  <2>0. file \in [Parts -> Runs \cup {Absent}] /\ begun[r] \in Parts
    BY DEF ToolTypeOK
  <2>1. p \in {begun[r], begun[r] + 1} /\ file' = [file EXCEPT ![p] = r]
    BY <1>2 DEF WritesFor
  <2>2. (\A x \in Parts \ {p} : file'[x] = file[x]) /\ file'[p] = r /\ r # Absent
    BY <2>0, <2>1 DEF SortsRight
  <2>3. \A q \in Runs, x \in Parts : Kept(q, x) => Kept(q, x)'
    BY <2>2, KeptStays
  <2>4. ASSUME NEW q \in Runs, q # r PROVE Gapless(q)'
    <3>1. \A x \in Parts : file'[x] = q => file[x] = q
      BY <2>2, <2>4
    <3> QED
      BY <2>3, <2>4, <3>1, GaplessSame
  <2>5. Gapless(r)'
    <3>1. ASSUME pc[r] # "ended" /\ sweep[<<r, "after">>].at \in {"none", "list"}
          PROVE  /\ \A q \in 1..p : Kept(r, q)'
                 /\ \A x \in Parts : file'[x] = r => \A q \in 1..x : Kept(r, q)'
      <4>1. /\ \A q \in 1..begun[r] : Kept(r, q)
            /\ \A x \in Parts : file[x] = r => \A q \in 1..x : Kept(r, q)
        BY <3>1 DEF Gapless
      <4>2. Kept(r, p)'
        BY <2>2 DEF Kept
      <4>3. ASSUME NEW q \in 1..p PROVE Kept(r, q)'
        <5>1. q \in Parts /\ (q \in 1..begun[r] \/ q = p)
          BY <2>0, <2>1, PartsBelow
        <5> QED
          BY <4>1, <4>2, <5>1, <2>3
      <4>4. ASSUME NEW x \in Parts, file'[x] = r, NEW q \in 1..x PROVE Kept(r, q)'
        <5>1. CASE x = p
          BY <4>3, <5>1
        <5>2. CASE x # p
          BY <5>2, <2>2, <2>3, <4>1, <4>4, PartsBelow
        <5> QED
          BY <5>1, <5>2
      <4> QED
        BY <4>3, <4>4
    <3>2. ASSUME pc'[r] # "ended" /\ sweep'[<<r, "after">>].at \in {"none", "list"}
          PROVE  /\ \A q \in 1..begun'[r] : Kept(r, q)'
                 /\ \A x \in Parts : file'[x] = r => \A q \in 1..x : Kept(r, q)'
      <4>1. \A q \in 1..begun'[r] : q \in 1..p
        OBVIOUS
      <4> QED
        BY <3>1, <3>2, <4>1
    <3> QED
      BY <3>2 DEF Gapless
  <2> QED
    BY <2>4, <2>5
<1> QED
  BY <1>1, <1>2
\* A step up to the child, and one of a run that was reported, are quiet.
LEMMA EarlyQuiet ==
    ASSUME RunTypes, NEW r \in Runs, EarlyMove(r),
           \A q \in Runs : sweep'[<<q, "after">>] = sweep[<<q, "after">>]
    PROVE  Quiet
<1>1. PICK to : pc' = [pc EXCEPT ![r] = to]
  BY DEF EarlyMove
<1> QED
  BY <1>1 DEF EarlyMove, Quiet, RunTypes, Early
\* Every step keeps the parts of the runs together.
LEMMA GaplessStep ==
    ASSUME ToolTypeOK, InTurn, FilesWritten, \A q \in Runs : Reported(q),
           \A q \in Runs : BeforeRight(q), \A q \in Runs : AfterRight(q),
           \A z \in Sweepers : SweepRight(z), \A q \in Runs : Gapless(q), ToolNext
    PROVE  \A q \in Runs : Gapless(q)'
<1>0. RunTypes /\ sweep \in [Sweepers -> SweepStates] /\ SortsRight /\ LostKept
  BY Types, Sorts, LostStep
<1>q. Quiet => \A q \in Runs : Gapless(q)'
  BY <1>0, GaplessQuiet
<1>r. \A q \in Runs : Reported(q)
  OBVIOUS
<1>1. ASSUME NEW r \in Runs, Begin(r) PROVE \A q \in Runs : Gapless(q)'
  <2>1. ASSUME NEW q \in Runs PROVE sweep'[<<q, "after">>] = sweep[<<q, "after">>]
    <3>1. <<q, "after">> \in Sweepers /\ <<r, "before">> \in Sweepers /\ <<q, "after">> # <<r, "before">>
      BY <1>0 DEF SortsRight
    <3>2. sweep' = sweep \/ sweep' = [sweep EXCEPT ![<<r, "before">>].at = "list"]
      BY <1>1 DEF Begin, StartSweep
    <3> QED
      BY <3>1, <3>2, <1>0
  <2> QED
    BY <1>1, <2>1, <1>0, <1>r, <1>q, BeginMoves, EarlyQuiet
<1>2. ASSUME NEW r \in Runs, Cleared(r) PROVE \A q \in Runs : Gapless(q)'
  <2>1. ASSUME NEW q \in Runs PROVE sweep'[<<q, "after">>] = sweep[<<q, "after">>]
    <3>1. <<q, "after">> \in Sweepers /\ <<r, "before">> \in Sweepers /\ <<q, "after">> # <<r, "before">>
      BY <1>0 DEF SortsRight
    <3>2. sweep' = sweep \/ sweep' = [sweep EXCEPT ![<<r, "before">>].given = TRUE]
      BY <1>2 DEF Cleared
    <3> QED
      BY <3>1, <3>2, <1>0
  <2> QED
    BY <1>2, <2>1, <1>0, <1>r, <1>q, ClearedMoves, EarlyQuiet
<1>3. ASSUME NEW r \in Runs, MakeWorkDir(r) PROVE \A q \in Runs : Gapless(q)'
  <2>1. sweep' = sweep
    BY <1>3 DEF MakeWorkDir
  <2> QED
    BY <1>3, <2>1, <1>0, <1>q, MakeWorkDirMoves, EarlyQuiet
<1>4. ASSUME NEW r \in Runs, Spawn(r) PROVE \A q \in Runs : Gapless(q)'
  <2>1. Quiet
    BY <1>4, <1>0 DEF Spawn, Goto, Quiet, RunTypes, runVars, diskVars
  <2> QED
    BY <2>1, <1>q
<1>5. ASSUME NEW r \in Runs, PrepareExpires(r) PROVE \A q \in Runs : Gapless(q)'
  <2>1. sweep' = sweep
    BY <1>5 DEF PrepareExpires
  <2> QED
    BY <1>5, <2>1, <1>0, <1>q, PrepareExpiresMoves, EarlyQuiet
<1>6. ASSUME NEW r \in Runs, EndOfOutput(r) PROVE \A q \in Runs : Gapless(q)'
  <2>1. Quiet
    BY <1>6, <1>0 DEF EndOfOutput, Goto, Quiet, RunTypes, runVars, diskVars
  <2> QED
    BY <2>1, <1>q
<1>7. ASSUME NEW r \in Runs, Stall(r) PROVE \A q \in Runs : Gapless(q)'
  <2>1. Quiet
    BY <1>7, <1>0 DEF Stall, Goto, Quiet, RunTypes, runVars, diskVars
  <2> QED
    BY <2>1, <1>q
<1>8. ASSUME NEW r \in Runs, StallKills(r) PROVE \A q \in Runs : Gapless(q)'
  <2>1. Quiet
    BY <1>8, <1>0 DEF StallKills, Goto, Killed, Quiet, RunTypes, runVars, diskVars
  <2> QED
    BY <2>1, <1>q
<1>9. ASSUME NEW r \in Runs, Reaped(r) PROVE \A q \in Runs : Gapless(q)'
  <2>1. Quiet
    BY <1>9, <1>0 DEF Reaped, Goto, Quiet, RunTypes, runVars, diskVars
  <2> QED
    BY <2>1, <1>q
<1>10. ASSUME NEW r \in Runs, AskToStop(r) PROVE \A q \in Runs : Gapless(q)'
  <2>1. Quiet
    BY <1>10, <1>0 DEF AskToStop, Goto, Quiet, RunTypes, runVars, diskVars
  <2> QED
    BY <2>1, <1>q
<1>11. ASSUME NEW r \in Runs, Kill(r) PROVE \A q \in Runs : Gapless(q)'
  <2>1. Quiet
    BY <1>11, <1>0 DEF Kill, Goto, Killed, Quiet, RunTypes, runVars, diskVars
  <2> QED
    BY <2>1, <1>q
<1>12. ASSUME NEW r \in Runs, Abandon(r) PROVE \A q \in Runs : Gapless(q)'
  <2>1. Quiet
    BY <1>12, <1>0 DEF Abandon, Goto, GivesUp, Quiet, RunTypes, runVars, diskVars
  <2> QED
    BY <2>1, <1>q
<1>13. ASSUME NEW r \in Runs, Verdict(r) PROVE \A q \in Runs : Gapless(q)'
  <2>1. PICK to : pc' = [pc EXCEPT ![r] = to]
    BY <1>13 DEF Verdict, Goto
  <2>2. Quiet
    BY <1>13, <2>1, <1>0 DEF Verdict, Quiet, RunTypes, diskVars
  <2> QED
    BY <2>2, <1>q
<1>14. ASSUME NEW r \in Runs, Publish(r) PROVE \A q \in Runs : Gapless(q)'
  <2>1. PICK to : pc' = [pc EXCEPT ![r] = to]
    BY <1>14 DEF Publish, Goto
  <2>2. begun' = begun /\ child' = child /\ sweep' = sweep /\ pc[r] = "publish"
        /\ (file' = file \/ file' = [file EXCEPT ![Base] = r])
    BY <1>14 DEF Publish
  <2>3. CASE file' = file
    BY <2>1, <2>2, <2>3, <1>0, <1>q DEF Quiet, RunTypes
  <2>4. CASE file' = [file EXCEPT ![Base] = r]
    <3>0. \A q \in Runs : pc[q] = "ended" => pc'[q] = "ended"
      BY <2>1, <2>2, <1>0 DEF RunTypes
    <3>1. file \in [Parts -> Runs \cup {Absent}] /\ Base \in Parts /\ r # Absent
      BY <1>0 DEF ToolTypeOK, SortsRight
    <3>2. \A q \in Runs, x \in Parts : Kept(q, x) => Kept(q, x)'
      BY <2>4, <3>1, <1>0, KeptStays
    <3>3. ASSUME NEW q \in Runs, q # r PROVE Gapless(q)'
      <4>1. \A x \in Parts : file'[x] = q => file[x] = q
        BY <2>4, <3>1, <3>3
      <4> QED
        BY <2>2, <3>0, <3>2, <3>3, <4>1, <1>0, GaplessSame
    <3>4. Gapless(r)'
      <4>1. /\ child[r] = "none" => begun[r] = 0
            /\ sweep[<<r, "after">>].at \in {"none", "list"} =>
                  /\ \A x \in 1..begun[r] : Kept(r, x)
                  /\ \A p \in Parts : file[p] = r => \A x \in 1..p : Kept(r, x)
        BY <2>2 DEF Gapless
      <4>2. begun[r] \in Parts
        BY DEF ToolTypeOK
      <4>3. \A p \in Parts : file'[p] = r => file[p] = r \/ p = 0
        BY <2>4, <3>1 DEF Base
      <4>4. sweep[<<r, "after">>].at \in {"none", "list"} =>
                  /\ \A x \in 1..begun[r] : Kept(r, x)'
                  /\ \A p \in Parts : file'[p] = r => \A x \in 1..p : Kept(r, x)'
        BY <3>2, <4>1, <4>2, <4>3, PartsBelow
      <4> QED
        BY <2>2, <4>1, <4>4 DEF Gapless
    <3> QED
      BY <3>3, <3>4
  <2> QED
    BY <2>2, <2>3, <2>4
<1>15. ASSUME NEW r \in Runs, SweepStarts(r) PROVE \A q \in Runs : Gapless(q)'
  <2> DEFINE s == <<r, "after">>
  <2>1. PICK to \in {"sweep", "tree", "ended"} : pc' = [pc EXCEPT ![r] = to]
    BY <1>15, SweepStartsMoves DEF LateMove
  <2>2. s \in Sweepers /\ sweep[s].at = "none" /\ pc[r] = "sweep" /\ child' = child /\ file' = file /\ begun' = begun
    BY <1>15, <1>0 DEF SortsRight, SweepStarts, diskVars
  <2>3. \A q \in Runs : sweep'[<<q, "after">>].at \in {"none", "list"} => sweep[<<q, "after">>].at \in {"none", "list"}
    <3>1. CASE sweep' = sweep
      BY <3>1
    <3>2. CASE sweep' = [sweep EXCEPT ![s].at = "list"]
      <4>1. Now(s, "list", sweep[s].todo, sweep[s].next, sweep[s].given, sweep[s].lost)
        BY <3>2, <2>2, <1>0, NowAt
      <4> QED
        BY <4>1, <2>2, <1>0 DEF Now, SortsRight
    <3> QED
      BY <1>15, <3>1, <3>2 DEF SweepStarts, StartSweep
  <2> QED
    BY <2>1, <2>2, <2>3, <1>0, <1>q DEF Quiet, RunTypes
<1>16. ASSUME NEW r \in Runs, SweepEnds(r) PROVE \A q \in Runs : Gapless(q)'
  <2> DEFINE s == <<r, "after">>
  <2>1. PICK to \in {"sweep", "tree", "ended"} : pc' = [pc EXCEPT ![r] = to]
    BY <1>16, SweepEndsMoves DEF LateMove
  <2>2. s \in Sweepers /\ pc[r] = "sweep" /\ child' = child /\ file' = file /\ begun' = begun
    BY <1>16, <1>0 DEF SortsRight, SweepEnds, diskVars
  <2>3. \A q \in Runs : sweep'[<<q, "after">>].at \in {"none", "list"} => sweep[<<q, "after">>].at \in {"none", "list"}
    <3>1. CASE sweep' = sweep
      BY <3>1
    <3>2. CASE sweep' = [sweep EXCEPT ![s].given = TRUE]
      <4>1. Now(s, sweep[s].at, sweep[s].todo, sweep[s].next, TRUE, sweep[s].lost)
        BY <3>2, <2>2, <1>0, NowGiven
      <4> QED
        BY <4>1, <2>2, <1>0 DEF Now, SortsRight
    <3> QED
      BY <1>16, <3>1, <3>2 DEF SweepEnds
  <2> QED
    BY <2>1, <2>2, <2>3, <1>0, <1>q DEF Quiet, RunTypes
<1>17. ASSUME NEW r \in Runs, RemoveTree(r) PROVE \A q \in Runs : Gapless(q)'
  <2>1. Quiet
    BY <1>17, <1>0 DEF RemoveTree, Goto, Quiet, RunTypes, runVars, diskVars
  <2> QED
    BY <2>1, <1>q
<1>18. ASSUME NEW r \in Runs, Cancel(r) PROVE \A q \in Runs : Gapless(q)'
  <2>1. Quiet
    BY <1>18, <1>0 DEF Cancel, Quiet, RunTypes, runVars, diskVars
  <2> QED
    BY <2>1, <1>q
<1>19. ASSUME NEW r \in Runs, WatcherActs(r) PROVE \A q \in Runs : Gapless(q)'
  <2>1. Quiet
    BY <1>19, <1>0 DEF WatcherActs, Quiet, RunTypes, runVars, diskVars
  <2> QED
    BY <2>1, <1>q
<1>20. ASSUME NEW r \in Runs, WatcherKills(r) PROVE \A q \in Runs : Gapless(q)'
  <2>1. Quiet
    BY <1>20, <1>0 DEF WatcherKills, Killed, Quiet, RunTypes, runVars, diskVars
  <2> QED
    BY <2>1, <1>q
<1>21. ASSUME NEW r \in Runs, AbandonedGone(r) PROVE \A q \in Runs : Gapless(q)'
  <2>1. Quiet
    BY <1>21, <1>0 DEF AbandonedGone, Quiet, RunTypes, runVars, diskVars
  <2> QED
    BY <2>1, <1>q
<1>22. ASSUME NEW r \in Runs, Writes(r) PROVE \A q \in Runs : Gapless(q)'
  <2>1. PICK p \in Parts : WritesFor(r, p) /\ begun' = [begun EXCEPT ![r] = p]
    BY <1>22 DEF Writes
  <2>2. begun'[r] = p /\ \A q \in Runs \ {r} : begun'[q] = begun[q]
    BY <2>1 DEF ToolTypeOK
  <2>3. child[r] = "running" /\ child' = child /\ pc' = pc /\ sweep' = sweep
    BY <1>22 DEF Writes, runVars
  <2> QED
    BY <2>1, <2>2, <2>3, <1>0, GaplessWrites
<1>23. ASSUME NEW r \in Runs, Exits(r) PROVE \A q \in Runs : Gapless(q)'
  <2>1. begun'[r] = 0 /\ \A q \in Runs \ {r} : begun'[q] = begun[q]
    BY <1>23 DEF Exits, ToolTypeOK
  <2>2. child'[r] # "none" /\ \A q \in Runs \ {r} : child'[q] = child[q]
    BY <1>23, <1>0 DEF Exits, RunTypes
  <2>3. file' = file /\ pc' = pc /\ sweep' = sweep
    BY <1>23 DEF Exits, runVars
  <2> SUFFICES ASSUME NEW q \in Runs PROVE Gapless(q)'
    OBVIOUS
  <2>4. \A x \in Parts : Kept(q, x) => Kept(q, x)'
    BY <2>3, <1>0, KeptStays
  <2>5. (child'[q] = "none" => child[q] = "none") /\ (begun'[q] = begun[q] \/ begun'[q] = 0)
    BY <2>1, <2>2
  <2> QED
    BY <2>3, <2>4, <2>5, <1>0, GaplessSame
<1>24. ASSUME NEW r \in Runs, Dies(r) PROVE \A q \in Runs : Gapless(q)'
  <2>1. begun'[r] = 0 /\ \A q \in Runs \ {r} : begun'[q] = begun[q]
    BY <1>24 DEF Dies, ToolTypeOK
  <2>2. child[r] # "none" /\ child'[r] # "none" /\ \A q \in Runs \ {r} : child'[q] = child[q]
    BY <1>24, <1>0 DEF Dies, RunTypes
  <2>3. pc' = pc /\ sweep' = sweep /\ (file' = file \/ \E p \in Parts : WritesFor(r, p))
    BY <1>24 DEF Dies, runVars
  <2>4. CASE file' = file
    <3> SUFFICES ASSUME NEW q \in Runs PROVE Gapless(q)'
      OBVIOUS
    <3>1. \A x \in Parts : Kept(q, x) => Kept(q, x)'
      BY <2>4, <1>0, KeptStays
    <3>2. (child'[q] = "none" => child[q] = "none") /\ (begun'[q] = begun[q] \/ begun'[q] = 0)
      BY <2>1, <2>2
    <3> QED
      BY <2>3, <2>4, <3>1, <3>2, <1>0, GaplessSame
  <2>5. CASE \E p \in Parts : WritesFor(r, p)
    BY <2>1, <2>2, <2>3, <2>5, <1>0, GaplessWrites
  <2> QED
    BY <2>3, <2>4, <2>5
<1>25. ASSUME NEW r \in Runs, NEW k \in Samples, Measure(r, k) PROVE \A q \in Runs : Gapless(q)'
  <2>1. Quiet
    BY <1>25, <1>0 DEF Measure, Quiet, RunTypes, runVars, diskVars
  <2> QED
    BY <2>1, <1>q
<1>26. ASSUME NEW x \in probes, ProbeReturns(x) PROVE \A q \in Runs : Gapless(q)'
  <2>1. Quiet
    BY <1>26, <1>0 DEF ProbeReturns, Quiet, RunTypes, runVars, diskVars
  <2> QED
    BY <2>1, <1>q
<1>27. ASSUME NEW s \in Sweepers, SweepLists(s) PROVE \A q \in Runs : Gapless(q)'
  <2>1. Sweeps(s) /\ file' = file /\ begun' = begun
    BY <1>27, <1>0, ListsSweeps DEF SweepLists, diskVars
  <2>2. \A q \in Runs : sweep'[<<q, "after">>].at \in {"none", "list"} => sweep[<<q, "after">>].at \in {"none", "list"}
    BY <2>1, <1>0 DEF Sweeps, SortsRight
  <2> QED
    BY <2>1, <2>2, <1>q DEF Sweeps, Quiet
<1>28. ASSUME NEW s \in Sweepers, SweepNext(s) PROVE \A q \in Runs : Gapless(q)'
  <2>1. Sweeps(s) /\ file' = file /\ begun' = begun
    BY <1>28, <1>0, NextSweeps DEF SweepNext, diskVars
  <2>2. \A q \in Runs : sweep'[<<q, "after">>].at \in {"none", "list"} => sweep[<<q, "after">>].at \in {"none", "list"}
    BY <2>1, <1>0 DEF Sweeps, SortsRight
  <2> QED
    BY <2>1, <2>2, <1>q DEF Sweeps, Quiet
<1>29. ASSUME NEW s \in Sweepers, SweepUnlinks(s) PROVE \A q \in Runs : Gapless(q)'
  <2> DEFINE p == sweep[s].next
  <2>0. file \in [Parts -> Runs \cup {Absent}] /\ p \in Parts /\ p # NoPath
    BY <1>29, <1>0 DEF SweepUnlinks, SweepStates, ToolTypeOK
  <2>1. Sweeps(s) /\ begun' = begun
    BY <1>29, <1>0, UnlinksSweeps DEF SweepUnlinks
  <2>2. sweep[s].at = "unlink" /\ SweepRight(s)
    BY <2>0 DEF SweepRight
  <2>3. file' = [file EXCEPT ![p] = Absent] /\ sweep' = [sweep EXCEPT ![s].next = NoPath, ![s].lost = @ \cup TakenWith(s, p)]
    BY <1>29 DEF SweepUnlinks
  <2>4. TakenWith(s, p) \subseteq sweep'[s].lost
    <3>1. PICK L : sweep' = [sweep EXCEPT ![s].next = NoPath, ![s].lost = L] /\ TakenWith(s, p) \subseteq L
      BY <2>3
    <3> QED
      BY <3>1, <1>0, NowUnlinks DEF Now
  <2>5. s[1] \in Runs /\ (s = <<s[1], "before">> \/ s = <<s[1], "after">>)
    BY <1>0 DEF SortsRight
  <2>6. \A x \in Parts : file'[x] = (IF x = p THEN Absent ELSE file[x])
    BY <2>0, <2>3
  <2>9. ASSUME NEW q \in Runs PROVE Gapless(q)'
    <3>1. (\A x \in Parts : file'[x] = q => file[x] = q) /\ begun'[q] = begun[q] /\ child'[q] = child[q] /\ pc'[q] = pc[q]
      BY <2>1, <2>6, <1>0 DEF Sweeps, SortsRight
    <3>2. sweep'[<<q, "after">>].at \in {"none", "list"} => sweep[<<q, "after">>].at \in {"none", "list"}
      BY <2>1, <1>0 DEF Sweeps, SortsRight
    <3>3. CASE pc[q] = "ended" \/ sweep[<<q, "after">>].at \notin {"none", "list"}
      BY <3>1, <3>2, <3>3 DEF Gapless
    <3>4. CASE child[q] = "none"
      <4>1. begun[q] = 0 /\ \A x \in Parts : file[x] # q
        BY <3>4, <1>0 DEF Gapless, FilesWritten, SortsRight
      <4> QED
        BY <3>1, <4>1 DEF Gapless
    <3>5. CASE pc[q] # "ended" /\ sweep[<<q, "after">>].at \in {"none", "list"} /\ child[q] # "none"
      <4>1. pc[q] \notin {"idle", "ended"} /\ pc[q] \notin Early
        BY <3>5 DEF Reported, Early
      <4>2. s[1] < q
        <5>1. s[1] # q
          <6>1. s # <<q, "after">>
            BY <2>2, <3>5
          <6>2. sweep[<<q, "before">>].at # "unlink"
            BY <4>1 DEF BeforeRight, Early
          <6> QED
            BY <2>2, <2>5, <6>1, <6>2
        <5>2. ~(q < s[1])
          <6>1. SUFFICES ASSUME q < s[1] PROVE FALSE
            OBVIOUS
          <6>2. pc[s[1]] = "idle"
            BY <6>1, <2>5, <4>1, InTurn DEF InTurn
          <6>3. sweep[<<s[1], "before">>].at = "none"
            BY <6>2, <2>5 DEF BeforeRight
          <6>4. sweep[<<s[1], "after">>].at = "none"
            BY <6>2, <2>5 DEF AfterRight
          <6> QED
            BY <2>2, <2>5, <6>3, <6>4
        <5>3. Runs \subseteq Nat
          BY <1>0 DEF SortsRight
        <5> QED
          BY <5>1, <5>2, <5>3, <2>5
      <4>3. \A x \in Parts : Kept(q, x) => Kept(q, x)'
        <5> SUFFICES ASSUME NEW x \in Parts, Kept(q, x) PROVE Kept(q, x)'
          OBVIOUS
        <5>1. CASE x = p /\ file[x] # Absent
          <6>1. q > s[1]
            BY <4>2, <2>5, <1>0 DEF SortsRight
          <6>2. <<p, q>> \in TakenWith(s, p)
            BY <5>1, <6>1, <4>1 DEF TakenWith
          <6> QED
            BY <5>1, <6>2, <2>4, <4>2 DEF Kept
        <5>2. CASE ~(x = p /\ file[x] # Absent)
          BY <5>2, <2>6, <1>0, KeptStays
        <5> QED
          BY <5>1, <5>2
      <4> QED
        BY <3>1, <3>2, <4>3, <1>0, GaplessSame
    <3> QED
      BY <3>3, <3>4, <3>5
  <2> QED
    BY <2>9
<1>30. ASSUME StopAnswering PROVE \A q \in Runs : Gapless(q)'
  <2>1. Quiet
    BY <1>30, <1>0 DEF StopAnswering, Quiet, RunTypes, runVars, diskVars
  <2> QED
    BY <2>1, <1>q
<1>31. ASSUME AnswerAgain PROVE \A q \in Runs : Gapless(q)'
  <2>1. Quiet
    BY <1>31, <1>0 DEF AnswerAgain, Quiet, RunTypes, runVars, diskVars
  <2> QED
    BY <2>1, <1>q
<1> QED
  BY <1>1, <1>2, <1>3, <1>4, <1>5, <1>6, <1>7, <1>8, <1>9, <1>10, <1>11, <1>12, <1>13, <1>14,
     <1>15, <1>16, <1>17, <1>18, <1>19, <1>20, <1>21, <1>22, <1>23, <1>24, <1>25, <1>26, <1>27,
     <1>28, <1>29, <1>30, <1>31 DEF ToolNext, Step

\* The sweep of a run is as it was, and no file of it is new.
LEMMA SweepsAllSame ==
    ASSUME LostKept, NEW q \in Runs, SweepsAll(q),
           outcome'[q] = outcome[q] \/ outcome'[q] \notin {"failed", "cancelled"},
           sweep'[<<q, "after">>] = sweep[<<q, "after">>],
           \A p \in Parts : file'[p] = q => file[p] = q
    PROVE  SweepsAll(q)'
<1>1. \A p \in Parts : BeyondGap(q, p) => BeyondGap(q, p)'
  BY GapStays
<1> QED
  BY <1>1 DEF SweepsAll
\* A run without a child leaves nothing to sweep.
LEMMA SweepsAllEarly ==
    ASSUME SortsRight, LostKept, RunTypes, NEW r \in Runs, EarlyMove(r), FilesWritten,
           \A q \in Runs : Reported(q), \A q \in Runs : SweepsAll(q),
           \A q \in Runs : sweep'[<<q, "after">>] = sweep[<<q, "after">>]
    PROVE  \A q \in Runs : SweepsAll(q)'
<1>1. \A p \in Parts : file'[p] # r
  BY DEF EarlyMove, SortsRight, Reported, FilesWritten
<1>2. SweepsAll(r)'
  BY <1>1 DEF SweepsAll
<1>3. ASSUME NEW q \in Runs, q # r PROVE SweepsAll(q)'
  <2>1. outcome'[q] = outcome[q] /\ file' = file
    BY <1>3 DEF EarlyMove, RunTypes
  <2> QED
    BY <2>1, SweepsAllSame
<1> QED
  BY <1>2, <1>3
\* A sweep takes a path, and so does not return with one left.
LEMMA Taking ==
    ASSUME sweep \in [Sweepers -> SweepStates], NEW s \in Sweepers, ~sweep[s].given, SweepNext(s),
           sweep' = [sweep EXCEPT ![s].at = "returned", ![s].todo = {}]
    PROVE  sweep[s].todo = {}
<1>1. Now(s, "returned", {}, sweep[s].next, sweep[s].given, sweep[s].lost)
  BY NowTodo
<1>2. CASE \E p \in sweep[s].todo : sweep' = [sweep EXCEPT ![s].next = p, ![s].todo = sweep[s].todo \ {p}]
  <2>1. PICK p \in sweep[s].todo : sweep' = [sweep EXCEPT ![s].next = p, ![s].todo = sweep[s].todo \ {p}]
    BY <1>2
  <2>2. Now(s, sweep[s].at, sweep[s].todo \ {p}, p, sweep[s].given, sweep[s].lost)
    BY <2>1, NowTakes
  <2>3. sweep[s].at = "unlink"
    BY DEF SweepNext
  <2> QED
    BY <1>1, <2>2, <2>3 DEF Now
<1> QED
  BY <1>2 DEF SweepNext, StopsHere
\* The sweep after a failure misses nothing.
LEMMA SweepsAllStep ==
    ASSUME ToolTypeOK, FilesWritten, \A q \in Runs : Reported(q),
           \A q \in Runs : AfterRight(q), \A q \in Runs : Gapless(q),
           \A z \in Sweepers : SweepRight(z), \A q \in Runs : SweepsAll(q), ToolNext
    PROVE  \A q \in Runs : SweepsAll(q)'
<1>0. RunTypes /\ sweep \in [Sweepers -> SweepStates] /\ SortsRight /\ LostKept
  BY Types, Sorts, LostStep
<1>b. \A q \in Runs, p \in Parts : BeyondGap(q, p) => BeyondGap(q, p)'
  BY <1>0, GapStays
<1>f. file \in [Parts -> Runs \cup {Absent}]
  BY DEF ToolTypeOK
<1>r. \A q \in Runs : Reported(q)
  OBVIOUS
<1>1. ASSUME NEW r \in Runs, Begin(r) PROVE \A q \in Runs : SweepsAll(q)'
  <2>1. ASSUME NEW q \in Runs PROVE sweep'[<<q, "after">>] = sweep[<<q, "after">>]
    <3>1. <<q, "after">> \in Sweepers /\ <<r, "before">> \in Sweepers /\ <<q, "after">> # <<r, "before">>
      BY <1>0 DEF SortsRight
    <3>2. sweep' = sweep \/ sweep' = [sweep EXCEPT ![<<r, "before">>].at = "list"]
      BY <1>1 DEF Begin, StartSweep
    <3> QED
      BY <3>1, <3>2, <1>0
  <2> QED
    BY <1>1, <2>1, <1>0, <1>r, FilesWritten, BeginMoves, SweepsAllEarly
<1>2. ASSUME NEW r \in Runs, Cleared(r) PROVE \A q \in Runs : SweepsAll(q)'
  <2>1. ASSUME NEW q \in Runs PROVE sweep'[<<q, "after">>] = sweep[<<q, "after">>]
    <3>1. <<q, "after">> \in Sweepers /\ <<r, "before">> \in Sweepers /\ <<q, "after">> # <<r, "before">>
      BY <1>0 DEF SortsRight
    <3>2. sweep' = sweep \/ sweep' = [sweep EXCEPT ![<<r, "before">>].given = TRUE]
      BY <1>2 DEF Cleared
    <3> QED
      BY <3>1, <3>2, <1>0
  <2> QED
    BY <1>2, <2>1, <1>0, <1>r, FilesWritten, ClearedMoves, SweepsAllEarly
<1>3. ASSUME NEW r \in Runs, MakeWorkDir(r) PROVE \A q \in Runs : SweepsAll(q)'
  <2>1. sweep' = sweep
    BY <1>3 DEF MakeWorkDir
  <2> QED
    BY <1>3, <2>1, <1>0, <1>r, FilesWritten, MakeWorkDirMoves, SweepsAllEarly
<1>4. ASSUME NEW r \in Runs, Spawn(r) PROVE \A q \in Runs : SweepsAll(q)'
  BY <1>0, <1>b, \A q \in Runs : SweepsAll(q), <1>4 DEF Spawn, Goto, diskVars, SweepsAll, RunTypes
<1>5. ASSUME NEW r \in Runs, PrepareExpires(r) PROVE \A q \in Runs : SweepsAll(q)'
  <2>1. sweep' = sweep
    BY <1>5 DEF PrepareExpires
  <2> QED
    BY <1>5, <2>1, <1>0, <1>r, FilesWritten, PrepareExpiresMoves, SweepsAllEarly
<1>6. ASSUME NEW r \in Runs, EndOfOutput(r) PROVE \A q \in Runs : SweepsAll(q)'
  BY <1>0, <1>b, \A q \in Runs : SweepsAll(q), <1>6 DEF EndOfOutput, Goto, pidVars, diskVars,
     SweepsAll, RunTypes
<1>7. ASSUME NEW r \in Runs, Stall(r) PROVE \A q \in Runs : SweepsAll(q)'
  BY <1>0, <1>b, \A q \in Runs : SweepsAll(q), <1>7 DEF Stall, Goto, pidVars, diskVars,
     SweepsAll, RunTypes
<1>8. ASSUME NEW r \in Runs, StallKills(r) PROVE \A q \in Runs : SweepsAll(q)'
  BY <1>0, <1>b, \A q \in Runs : SweepsAll(q), <1>8 DEF StallKills, Goto, Killed, Exited,
     pidVars, diskVars, SweepsAll, RunTypes
<1>9. ASSUME NEW r \in Runs, Reaped(r) PROVE \A q \in Runs : SweepsAll(q)'
  BY <1>0, <1>b, \A q \in Runs : SweepsAll(q), <1>9 DEF Reaped, Goto, Exited, pidVars,
     diskVars, SweepsAll, RunTypes
<1>10. ASSUME NEW r \in Runs, AskToStop(r) PROVE \A q \in Runs : SweepsAll(q)'
  BY <1>0, <1>b, \A q \in Runs : SweepsAll(q), <1>10 DEF AskToStop, Goto, Exited, pidVars,
     diskVars, SweepsAll, RunTypes
<1>11. ASSUME NEW r \in Runs, Kill(r) PROVE \A q \in Runs : SweepsAll(q)'
  BY <1>0, <1>b, \A q \in Runs : SweepsAll(q), <1>11 DEF Kill, Goto, Killed, Exited, pidVars,
     diskVars, SweepsAll, RunTypes
<1>12. ASSUME NEW r \in Runs, Abandon(r) PROVE \A q \in Runs : SweepsAll(q)'
  BY <1>0, <1>b, \A q \in Runs : SweepsAll(q), <1>12 DEF Abandon, Goto, GivesUp, NoteChild,
     Exited, diskVars, SweepsAll, RunTypes
<1>13. ASSUME NEW r \in Runs, Verdict(r) PROVE \A q \in Runs : SweepsAll(q)'
  <2>1. sweep' = sweep /\ file' = file /\ pc[r] = "verdict" /\ outcome' = [outcome EXCEPT ![r] = Report(r)]
    BY <1>13 DEF Verdict, EndsAs, diskVars
  <2>2. sweep'[<<r, "after">>].at = "none"
    BY <2>1 DEF AfterRight
  <2>3. SweepsAll(r)'
    BY <2>2, <1>b DEF SweepsAll
  <2>4. ASSUME NEW q \in Runs, q # r PROVE SweepsAll(q)'
    <3>1. outcome'[q] = outcome[q]
      BY <2>1, <2>4, <1>0 DEF RunTypes
    <3> QED
      BY <2>1, <3>1, SweepsAllSame, <1>0
  <2> QED
    BY <2>3, <2>4
<1>14. ASSUME NEW r \in Runs, Publish(r) PROVE \A q \in Runs : SweepsAll(q)'
  <2>1. sweep' = sweep /\ pc[r] = "publish" /\ (outcome' = outcome \/ outcome' = [outcome EXCEPT ![r] = "failed"])
        /\ (file' = file \/ file' = [file EXCEPT ![Base] = r])
    BY <1>14 DEF Publish, EndsAs
  <2>2. sweep'[<<r, "after">>].at = "none"
    BY <2>1 DEF AfterRight
  <2>3. SweepsAll(r)'
    BY <2>2, <1>b DEF SweepsAll
  <2>4. ASSUME NEW q \in Runs, q # r PROVE SweepsAll(q)'
    <3>1. outcome'[q] = outcome[q] /\ (\A p \in Parts : file'[p] = q => file[p] = q)
      BY <2>1, <2>4, <1>0, <1>f DEF RunTypes
    <3> QED
      BY <2>1, <3>1, SweepsAllSame, <1>0
  <2> QED
    BY <2>3, <2>4
<1>15. ASSUME NEW r \in Runs, SweepStarts(r) PROVE \A q \in Runs : SweepsAll(q)'
  <2> DEFINE s == <<r, "after">>
  <2>1. s \in Sweepers /\ file' = file /\ outcome' = outcome
    BY <1>15, <1>0 DEF SortsRight, SweepStarts, diskVars
  <2>2. CASE sweep' = sweep
    BY <2>1, <2>2, <1>b DEF SweepsAll
  <2>3. CASE sweep' = [sweep EXCEPT ![s].at = "list"]
    <3>1. Now(s, "list", sweep[s].todo, sweep[s].next, sweep[s].given, sweep[s].lost)
      BY <1>0, <2>1, <2>3, NowAt
    <3>2. SweepsAll(r)'
      BY <3>1, <2>1, <1>b DEF Now, SweepsAll
    <3>3. ASSUME NEW q \in Runs, q # r PROVE SweepsAll(q)'
      <4>1. <<q, "after">> \in Sweepers \ {s}
        BY <1>0, <3>3 DEF SortsRight
      <4>2. sweep'[<<q, "after">>] = sweep[<<q, "after">>]
        BY <4>1, <3>1 DEF Now
      <4> QED
        BY <4>2, <2>1, SweepsAllSame, <1>0
    <3> QED
      BY <3>2, <3>3
  <2> QED
    BY <1>15, <2>2, <2>3 DEF SweepStarts, StartSweep
<1>16. ASSUME NEW r \in Runs, SweepEnds(r) PROVE \A q \in Runs : SweepsAll(q)'
  <2> DEFINE s == <<r, "after">>
  <2>1. s \in Sweepers /\ file' = file /\ outcome' = outcome
    BY <1>16, <1>0 DEF SortsRight, SweepEnds, diskVars
  <2>2. CASE sweep' = sweep
    BY <2>1, <2>2, <1>b DEF SweepsAll
  <2>3. CASE sweep' = [sweep EXCEPT ![s].given = TRUE]
    <3>1. Now(s, sweep[s].at, sweep[s].todo, sweep[s].next, TRUE, sweep[s].lost)
      BY <1>0, <2>1, <2>3, NowGiven
    <3>2. SweepsAll(r)'
      BY <3>1, <2>1, <1>b DEF Now, SweepsAll
    <3>3. ASSUME NEW q \in Runs, q # r PROVE SweepsAll(q)'
      <4>1. <<q, "after">> \in Sweepers \ {s}
        BY <1>0, <3>3 DEF SortsRight
      <4>2. sweep'[<<q, "after">>] = sweep[<<q, "after">>]
        BY <4>1, <3>1 DEF Now
      <4> QED
        BY <4>2, <2>1, SweepsAllSame, <1>0
    <3> QED
      BY <3>2, <3>3
  <2> QED
    BY <1>16, <2>2, <2>3 DEF SweepEnds
<1>17. ASSUME NEW r \in Runs, RemoveTree(r) PROVE \A q \in Runs : SweepsAll(q)'
  BY <1>0, <1>b, \A q \in Runs : SweepsAll(q), <1>17 DEF RemoveTree, Goto, pidVars, SweepsAll,
     RunTypes
<1>18. ASSUME NEW r \in Runs, Cancel(r) PROVE \A q \in Runs : SweepsAll(q)'
  BY <1>0, <1>b, \A q \in Runs : SweepsAll(q), <1>18 DEF Cancel, runVars, pidVars, diskVars,
     SweepsAll, RunTypes
<1>19. ASSUME NEW r \in Runs, WatcherActs(r) PROVE \A q \in Runs : SweepsAll(q)'
  BY <1>0, <1>b, \A q \in Runs : SweepsAll(q), <1>19 DEF WatcherActs, Awaited, Exited, pidVars,
     diskVars, SweepsAll, RunTypes
<1>20. ASSUME NEW r \in Runs, WatcherKills(r) PROVE \A q \in Runs : SweepsAll(q)'
  BY <1>0, <1>b, \A q \in Runs : SweepsAll(q), <1>20 DEF WatcherKills, Killed, runVars,
     pidVars, diskVars, SweepsAll, RunTypes
<1>21. ASSUME NEW r \in Runs, AbandonedGone(r) PROVE \A q \in Runs : SweepsAll(q)'
  BY <1>0, <1>b, \A q \in Runs : SweepsAll(q), <1>21 DEF AbandonedGone, Exited, runVars,
     diskVars, SweepsAll, RunTypes
<1>22. ASSUME NEW r \in Runs, Writes(r) PROVE \A q \in Runs : SweepsAll(q)'
  <2>1. sweep' = sweep /\ outcome' = outcome /\ child[r] = "running"
        /\ (file' = file \/ \E p \in Written : file' = [file EXCEPT ![p] = r])
    BY <1>22 DEF Writes, WritesFor, runVars
  <2>2. outcome[r] \notin {"failed", "cancelled"}
    BY <2>1, <1>r DEF Reported
  <2>3. SweepsAll(r)'
    BY <2>1, <2>2, <1>b DEF SweepsAll
  <2>4. ASSUME NEW q \in Runs, q # r PROVE SweepsAll(q)'
    <3>1. \A p \in Parts : file'[p] = q => file[p] = q
      BY <2>1, <2>4, <1>f
    <3> QED
      BY <2>1, <3>1, SweepsAllSame, <1>0
  <2> QED
    BY <2>3, <2>4
<1>23. ASSUME NEW r \in Runs, Exits(r) PROVE \A q \in Runs : SweepsAll(q)'
  BY <1>0, <1>b, \A q \in Runs : SweepsAll(q), <1>23 DEF Exits, runVars, pidVars, diskVars,
     SweepsAll, RunTypes
<1>24. ASSUME NEW r \in Runs, Dies(r) PROVE \A q \in Runs : SweepsAll(q)'
  <2>1. sweep' = sweep /\ outcome' = outcome /\ child[r] = "dying"
        /\ (file' = file \/ \E p \in Written : file' = [file EXCEPT ![p] = r])
    BY <1>24 DEF Dies, WritesFor, runVars
  <2>2. outcome[r] \notin {"failed", "cancelled"}
    BY <2>1, <1>r DEF Reported
  <2>3. SweepsAll(r)'
    BY <2>1, <2>2, <1>b DEF SweepsAll
  <2>4. ASSUME NEW q \in Runs, q # r PROVE SweepsAll(q)'
    <3>1. \A p \in Parts : file'[p] = q => file[p] = q
      BY <2>1, <2>4, <1>f
    <3> QED
      BY <2>1, <3>1, SweepsAllSame, <1>0
  <2> QED
    BY <2>3, <2>4
<1>25. ASSUME NEW r \in Runs, NEW k \in Samples, Measure(r, k) PROVE \A q \in Runs : SweepsAll(q)'
  BY <1>0, <1>b, \A q \in Runs : SweepsAll(q), <1>25 DEF Measure, runVars, pidVars, diskVars,
     SweepsAll, RunTypes
<1>26. ASSUME NEW x \in probes, ProbeReturns(x) PROVE \A q \in Runs : SweepsAll(q)'
  BY <1>0, <1>b, \A q \in Runs : SweepsAll(q), <1>26 DEF ProbeReturns, runVars, pidVars,
     diskVars, SweepsAll, RunTypes
<1>27. ASSUME NEW s \in Sweepers, SweepLists(s) PROVE \A q \in Runs : SweepsAll(q)'
  <2>1. Sweeps(s) /\ file' = file /\ outcome' = outcome
    BY <1>27, <1>0, ListsSweeps DEF SweepLists, runVars, diskVars
  <2>7. ASSUME NEW q \in Runs, <<q, "after">> = s PROVE SweepsAll(q)'
    <3>1. CASE sweep[s].given
      BY <3>1, <2>1, <2>7, <1>b DEF Sweeps, SweepsAll
    <3>2. CASE ~sweep[s].given
      <4>1. sweep' = [sweep EXCEPT ![s].at = "unlink", ![s].todo = Found]
        BY <1>27, <3>2 DEF SweepLists
      <4>2. Now(s, "unlink", Found, sweep[s].next, sweep[s].given, sweep[s].lost)
        BY <4>1, <1>0, NowTodo
      <4>3. pc[q] # "ended" /\ sweep[s].at = "list"
        BY <1>27, <2>7, <3>2 DEF SweepLists, AfterRight, LeftBehind
      <4>4. \A p \in Parts : file[p] = q => \A x \in 1..p : Kept(q, x)
        BY <2>7, <4>3 DEF Gapless
      <4>5. \A p \in Parts : file[p] = q => p \in Found \/ BeyondGap(q, p)
        <5> SUFFICES ASSUME NEW p \in Parts, file[p] = q, p \notin Found PROVE BeyondGap(q, p)
          OBVIOUS
        <5>1. p \in Written /\ q # Absent
          BY <1>0, FilesWritten DEF SortsRight, FilesWritten
        <5>2. PICK x \in 1..p : file[x] = Absent
          BY <5>1 DEF Found
        <5>3. x \in 1..(p - 1)
          BY <5>1, <5>2, PartsBelow
        <5>4. Kept(q, x)
          BY <4>4, <5>2
        <5> QED
          BY <5>2, <5>3, <5>4 DEF Kept, BeyondGap
      <4> QED
        BY <4>2, <4>5, <2>1, <2>7, <1>b DEF SweepsAll, Now
    <3> QED
      BY <3>1, <3>2
  <2>8. ASSUME NEW q \in Runs, <<q, "after">> # s PROVE SweepsAll(q)'
    <3>1. sweep'[<<q, "after">>] = sweep[<<q, "after">>]
      BY <2>1, <2>8, <1>0 DEF SortsRight, Sweeps
    <3> QED
      BY <2>1, <3>1, SweepsAllSame, <1>0
  <2> QED
    BY <2>7, <2>8
<1>28. ASSUME NEW s \in Sweepers, SweepNext(s) PROVE \A q \in Runs : SweepsAll(q)'
  <2>1. Sweeps(s) /\ file' = file /\ outcome' = outcome
    BY <1>28, <1>0, NextSweeps DEF SweepNext, runVars, diskVars
  <2>7. ASSUME NEW q \in Runs, <<q, "after">> = s PROVE SweepsAll(q)'
    <3>1. CASE sweep[s].given
      BY <3>1, <2>1, <2>7, <1>b DEF Sweeps, SweepsAll
    <3>2. CASE ~sweep[s].given /\ sweep' = [sweep EXCEPT ![s].at = "returned", ![s].todo = {}]
      <4>1. sweep[s].todo = {}
        BY <1>28, <3>2, <1>0, Taking
      <4>2. sweep[s].next = NoPath /\ sweep[s].at = "unlink" /\ SweepsAll(q)
        BY <1>28 DEF SweepNext
      <4>3. outcome[q] \in {"failed", "cancelled"} => \A x \in Parts : file[x] = q => BeyondGap(q, x)
        BY <4>1, <4>2, <3>2, <2>7, <1>0 DEF SweepsAll, SortsRight
      <4> QED
        BY <4>3, <2>1, <1>b DEF SweepsAll
    <3>3. CASE \E p \in sweep[s].todo : sweep' = [sweep EXCEPT ![s].next = p, ![s].todo = sweep[s].todo \ {p}]
      <4>1. PICK p \in sweep[s].todo : sweep' = [sweep EXCEPT ![s].next = p, ![s].todo = sweep[s].todo \ {p}]
        BY <3>3
      <4>2. Now(s, sweep[s].at, sweep[s].todo \ {p}, p, sweep[s].given, sweep[s].lost)
        BY <4>1, <1>0, NowTakes
      <4>3. sweep[s].next = NoPath /\ sweep[s].at = "unlink" /\ SweepsAll(q)
        BY <1>28 DEF SweepNext
      <4>4. outcome[q] \in {"failed", "cancelled"} /\ ~sweep[s].given =>
              \A x \in Parts : file[x] = q => x \in sweep[s].todo \/ BeyondGap(q, x)
        BY <4>3, <2>7, <1>0 DEF SweepsAll, SortsRight
      <4>5. sweep'[s].at = "unlink" /\ sweep'[s].given = sweep[s].given /\ sweep'[s].next = p
            /\ sweep'[s].todo = sweep[s].todo \ {p}
        BY <4>2, <4>3 DEF Now
      <4> QED
        BY <4>4, <4>5, <2>1, <2>7, <1>b DEF SweepsAll
    <3>4. \/ sweep' = [sweep EXCEPT ![s].at = "returned", ![s].todo = {}]
          \/ \E p \in sweep[s].todo : sweep' = [sweep EXCEPT ![s].next = p, ![s].todo = sweep[s].todo \ {p}]
      BY <1>28 DEF SweepNext
    <3> QED
      BY <3>1, <3>2, <3>3, <3>4
  <2>8. ASSUME NEW q \in Runs, <<q, "after">> # s PROVE SweepsAll(q)'
    <3>1. sweep'[<<q, "after">>] = sweep[<<q, "after">>]
      BY <2>1, <2>8, <1>0 DEF SortsRight, Sweeps
    <3> QED
      BY <2>1, <3>1, SweepsAllSame, <1>0
  <2> QED
    BY <2>7, <2>8
<1>29. ASSUME NEW s \in Sweepers, SweepUnlinks(s) PROVE \A q \in Runs : SweepsAll(q)'
  <2>1. Sweeps(s) /\ outcome' = outcome /\ (\A q \in Runs : \A p \in Parts : file'[p] = q => file[p] = q)
    BY <1>29, <1>0, <1>f, UnlinksSweeps DEF SweepUnlinks, runVars, SortsRight
  <2>7. ASSUME NEW q \in Runs, <<q, "after">> = s PROVE SweepsAll(q)'
    <3>1. PICK L : sweep' = [sweep EXCEPT ![s].next = NoPath, ![s].lost = L]
      BY <1>29 DEF SweepUnlinks
    <3>2. Now(s, sweep[s].at, sweep[s].todo, NoPath, sweep[s].given, L)
      BY <3>1, <1>0, NowUnlinks
    <3>3. \A p \in Parts : file'[p] = q => file[p] = q /\ p # sweep[s].next
      BY <1>29, <1>0, <1>f, <2>1 DEF SweepUnlinks, SortsRight
    <3>4. SweepsAll(q) /\ sweep[s].at = "unlink"
      BY <1>29, \A z \in Sweepers : SweepRight(z) DEF SweepUnlinks, SweepRight
    <3>5. outcome[q] \in {"failed", "cancelled"} /\ ~sweep[s].given =>
            \A x \in Parts : file'[x] = q => x \in sweep[s].todo \/ BeyondGap(q, x)
      BY <3>3, <3>4, <2>7 DEF SweepsAll
    <3>6. sweep'[s].at = "unlink" /\ sweep'[s].given = sweep[s].given /\ sweep'[s].todo = sweep[s].todo
      BY <3>2, <3>4 DEF Now
    <3> QED
      BY <3>5, <3>6, <2>1, <2>7, <1>b DEF SweepsAll
  <2>8. ASSUME NEW q \in Runs, <<q, "after">> # s PROVE SweepsAll(q)'
    <3>1. sweep'[<<q, "after">>] = sweep[<<q, "after">>]
      BY <2>1, <2>8, <1>0 DEF SortsRight, Sweeps
    <3> QED
      BY <2>1, <3>1, SweepsAllSame, <1>0
  <2> QED
    BY <2>7, <2>8
<1>30. ASSUME StopAnswering PROVE \A q \in Runs : SweepsAll(q)'
  BY <1>0, <1>b, \A q \in Runs : SweepsAll(q), <1>30 DEF StopAnswering, runVars, pidVars,
     SweepsAll, RunTypes
<1>31. ASSUME AnswerAgain PROVE \A q \in Runs : SweepsAll(q)'
  BY <1>0, <1>b, \A q \in Runs : SweepsAll(q), <1>31 DEF AnswerAgain, runVars, pidVars,
     SweepsAll, RunTypes
<1> QED
  BY <1>1, <1>2, <1>3, <1>4, <1>5, <1>6, <1>7, <1>8, <1>9, <1>10, <1>11, <1>12, <1>13, <1>14,
     <1>15, <1>16, <1>17, <1>18, <1>19, <1>20, <1>21, <1>22, <1>23, <1>24, <1>25, <1>26, <1>27,
     <1>28, <1>29, <1>30, <1>31 DEF ToolNext, Step

-----------------------------------------------------------------------------
\* The invariant holds at first, and every step keeps it.
LEMMA ZeroWithin == ASSUME NEW m \in Nat PROVE 0 \in 0..m
  OBVIOUS
LEMMA RunsInit == ASSUME ToolInit PROVE RunIInv
<1>1. Absent \notin Runs /\ 0 \in 0..MaxHangs
  <2>1. N \in Nat /\ MaxHangs \in Nat
    BY ToolRunAssumption
  <2>2. Absent \notin Runs
    BY <2>1, RunIs
  <2>3. 0 \in 0..MaxHangs
    BY <2>1, ZeroWithin
  <2> QED
    BY <2>2, <2>3
<1>2. NoSweep \in SweepStates
  BY DEF NoSweep, SweepStates
<1>3. ToolTypeOK
  <2>1. 0 \in Parts
    BY Sorts DEF SortsRight, Base
  <2> QED
    BY <1>1, <1>2, <2>1 DEF ToolInit, ToolTypeOK, Phases
<1>4. \A r \in Runs : Reported(r)
  BY DEF ToolInit, Reported, Early, Under, Late
<1>5. InTurn /\ FilesWritten
  BY DEF ToolInit, InTurn, FilesWritten
<1>6. Published
  <2>1. Base \in Parts
    BY Sorts DEF SortsRight
  <2> QED
    BY <1>1, <2>1 DEF ToolInit, Published
<1>7. \A s \in Sweepers : SweepRight(s)
  BY DEF ToolInit, SweepRight, NoSweep
<1>8. \A r \in Runs : sweep[<<r, "before">>] = NoSweep /\ sweep[<<r, "after">>] = NoSweep
  BY DEF ToolInit, Sweepers
<1>9. \A r \in Runs : BeforeRight(r) /\ AfterRight(r) /\ Gapless(r) /\ SweepsAll(r)
  <2>1. NoSweep.at = "none"
    BY DEF NoSweep
  <2>2. \A r \in Runs : BeforeRight(r) /\ AfterRight(r) /\ SweepsAll(r)
    BY <1>8, <2>1 DEF ToolInit, BeforeRight, AfterRight, SweepsAll, LeftBehind
  <2>3. \A r \in Runs : Gapless(r)
    BY <1>1 DEF ToolInit, Gapless
  <2> QED
    BY <2>2, <2>3
<1> QED
  BY <1>3, <1>4, <1>5, <1>6, <1>7, <1>9 DEF RunIInv
LEMMA RunsStutter == ASSUME RunIInv, UNCHANGED toolVars PROVE RunIInv'
<1>1. ToolTypeOK'
  BY DEF RunIInv, toolVars, ToolTypeOK
<1>2. \A r \in Runs : Reported(r)'
  BY DEF RunIInv, toolVars, Reported, Exited
<1>3. InTurn' /\ FilesWritten' /\ Published'
  BY DEF RunIInv, toolVars, InTurn, FilesWritten, Published, Has, Written
<1>4. \A s \in Sweepers : SweepRight(s)'
  BY DEF RunIInv, toolVars, SweepRight
<1>5. \A r \in Runs : BeforeRight(r)' /\ AfterRight(r)' /\ Gapless(r)' /\ SweepsAll(r)'
  <2>1. \A r \in Runs : BeforeRight(r)' /\ AfterRight(r)'
    BY DEF RunIInv, toolVars, BeforeRight, AfterRight, LeftBehind
  <2>2. \A r \in Runs : Gapless(r)'
    BY DEF RunIInv, toolVars, Gapless, Kept
  <2>3. \A r \in Runs : SweepsAll(r)'
    BY DEF RunIInv, toolVars, SweepsAll, BeyondGap
  <2> QED
    BY <2>1, <2>2, <2>3
<1> QED
  BY <1>1, <1>2, <1>3, <1>4, <1>5 DEF RunIInv
LEMMA RunsStep == ASSUME RunIInv, ToolNext PROVE RunIInv'
<1>1. ToolTypeOK /\ (\A r \in Runs : Reported(r)) /\ InTurn /\ FilesWritten /\ Published
      /\ (\A s \in Sweepers : SweepRight(s))
      /\ (\A r \in Runs : BeforeRight(r)) /\ (\A r \in Runs : AfterRight(r))
      /\ (\A r \in Runs : Gapless(r)) /\ (\A r \in Runs : SweepsAll(r))
  BY DEF RunIInv
<1>2. ToolTypeOK'
  BY <1>1, ToolTypeStep
<1>3. \A r \in Runs : Reported(r)'
  BY <1>1, ReportedStep
<1>4. InTurn' /\ FilesWritten' /\ Published'
  BY <1>1, InTurnStep, FilesStep, PublishedStep
<1>5. \A s \in Sweepers : SweepRight(s)'
  BY <1>1, SweepsStep
<1>6. (\A r \in Runs : BeforeRight(r)') /\ (\A r \in Runs : AfterRight(r)')
  BY <1>1, BeforeStep, AfterStep
<1>7. (\A r \in Runs : Gapless(r)') /\ \A r \in Runs : SweepsAll(r)'
  BY <1>1, GaplessStep, SweepsAllStep
<1> QED
  BY <1>2, <1>3, <1>4, <1>5, <1>6, <1>7 DEF RunIInv
LEMMA RunsInductive == ToolSpec => []RunIInv
<1>1. ToolInit => RunIInv
  BY RunsInit
<1>2. RunIInv /\ [ToolNext]_toolVars => RunIInv'
  BY RunsStep, RunsStutter
<1> QED
  BY <1>1, <1>2, PTL DEF ToolSpec

\* A run that ends while its converter still runs says so, and leaves it to the
\* list of the abandoned, for any number of runs and of a volume's silences, of
\* probes and of parts, and for any tool (subprocess_runner.py, reap and the
\* order of the errors of run).
THEOREM StillRunningSaid == ToolSpec => []RunInv
<1>1. RunIInv => RunInv
  BY DEF RunIInv, Reported, Late, RunInv, StillRunningIsSaid
<1> QED
  BY <1>1, RunsInductive, PTL

\* A sweep that was given up takes at most one file from the later runs, the one
\* whose removal was under way (subprocess_runner.py _unlink_all).
THEOREM OneStray == ToolSpec => []StrayOnce
<1>1. RunIInv => StrayOnce
  BY DEF RunIInv, SweepRight, StrayOnce
<1> QED
  BY <1>1, RunsInductive, PTL

\* No way to end leaves a partial output for a product: what a work directory
\* published is whole, and what a tool in place swept is gone, all its parts but
\* those behind a gap, where a sweep that an earlier run had given up on took a
\* part below them while the run was under way (subprocess_runner.py run and
\* _unlink_all, _numbered_parts of makeps3iso.py, the publish of the tools).
THEOREM NoPartialProduct == ToolSpec => []NothingPartial
<1>1. RunIInv => NothingPartial
  <2> SUFFICES ASSUME RunIInv PROVE NothingPartial
    OBVIOUS
  <2>1. PublishedWhole
    BY DEF RunIInv, Published, Reported, PublishedWhole
  <2>2. \A r \in Runs : SweepsAll(r)
    BY DEF RunIInv
  <2>3. ASSUME NEW r \in Runs, outcome[r] \in {"failed", "cancelled"},
               sweep[<<r, "after">>].at = "returned", ~sweep[<<r, "after">>].given
        PROVE  \A p \in Parts : file[p] = r => BeyondGap(r, p)
    <3>1. SweepsAll(r)
      BY <2>2
    <3> QED
      BY <2>3, <3>1 DEF SweepsAll
  <2>4. SweptClean
    BY <2>3 DEF SweptClean
  <2> QED
    BY <2>1, <2>4 DEF NothingPartial
<1> QED
  BY <1>1, RunsInductive, PTL
=============================================================================
