------------------------ MODULE HistoryOverflowProofs ------------------------
(***************************************************************************)
(* Theorems about HistoryOverflow for any number of jobs, any cap and any  *)
(* length of the log, any number of refreshes, drops, clears and restarts: *)
(* get_history_overflow is honest with every cursor, and the totals of the *)
(* store are those of the moment it claims, and never an earlier one.      *)
(*                                                                         *)
(* And about MatchCache, the other table that is served from, for any      *)
(* files, DATs, runs and events: the DATs have the last word over every    *)
(* row, nothing is sent to the server that the operator or the DATs make   *)
(* needless, and an identity is not lost to a poorer verdict.  The two     *)
(* parts share no definition.                                              *)
(***************************************************************************)
EXTENDS HistoryOverflow, MatchCache, FiniteSetTheorems, TLAPS

-----------------------------------------------------------------------------
\* The inductive invariant.

\* The server and its log: the log is the tail of all evictions since the last
\* reset, without a gap, and evictedAt is where each of them stands.
Entries == [seq : Nat, id : Jobs]
Counted ==
    /\ srv \in [Jobs -> {"none", "active", "ended", "gone"}] /\ pruning \subseteq Jobs
    /\ gen \in Nat \ {0} /\ disturbed \in 0..MaxDisturbances /\ gen <= disturbed + 1
    /\ seq \in Nat /\ resetSeq \in 0..seq
    /\ evictedAt \in [Jobs -> 0..seq]
    /\ \A j \in Jobs : evictedAt[j] > 0 => srv[j] = "gone"
Logged ==
    /\ log \in Seq(Entries) /\ Len(log) <= LogSize /\ Len(log) <= seq
    /\ \A i \in 1..Len(log) : /\ log[i].seq = seq - Len(log) + i
                              /\ evictedAt[log[i].id] = log[i].seq
    /\ \A j \in Jobs : evictedAt[j] > seq - Len(log) => \E i \in 1..Len(log) : log[i].id = j
    /\ log = <<>> => resetSeq = seq

\* The tallies of all moments, the present one among them.
Kept(g, s, t) == <<g, s>> \in DOMAIN tallyAt /\ tallyAt[<<g, s>>] = t
Totals ==
    /\ tally \subseteq {j \in Jobs : srv[j] = "gone"}
    /\ \A g, s : <<g, s>> \in DOMAIN tallyAt => g \in 1..gen /\ s \in Nat /\ (g = gen => s <= seq)
    /\ Kept(gen, seq, tally)

\* Every payload that is under way tells a tally of its moment.
Payloads == [gen : Nat, seq : Nat, tally : SUBSET Jobs, ids : SUBSET Jobs, expired : BOOLEAN]
Tells(g, T, p) ==
    /\ p.gen \in 1..g /\ p.seq \in Nat /\ p.tally \subseteq Jobs
    /\ <<p.gen, p.seq>> \in DOMAIN T /\ T[<<p.gen, p.seq>>] = p.tally

Streams == [up : BOOLEAN, subs : SUBSET Jobs, news : SUBSET Jobs, sent : BOOLEAN,
            todo : Seq(Jobs), cursor : Nat, last : Int]
Frames  == [kind : {"job"}, id : Jobs, st : {"active", "ended"}]
               \cup [kind : {"history"}, pay : Payloads]
Streamed ==
    /\ stream \in Streams /\ stream.news \subseteq stream.subs
    /\ frames \in Seq(Frames) /\ Len(frames) <= MaxFrames
    /\ \A n \in 1..Len(frames) : frames[n].kind = "history" => Tells(gen, tallyAt, frames[n].pay)

\* The refreshes, the answers of a Clear, and the store.
Underway(g, T, x) ==
    /\ x.at \in {"idle", "list", "listed", "history", "answered"}
    /\ x.at = "listed" => x.list \in [Jobs -> {"none", "active", "ended"}]
    /\ x.at = "answered" => Tells(g, T, x.pay)
Refreshes == DOMAIN refresh = Reads /\ \A r \in Reads : Underway(gen, tallyAt, refresh[r])
Empty(c) == [gen |-> c.gen, seq |-> c.seq, tally |-> {}, ids |-> {}]
Clears == \A c \in cleared : Tells(gen, tallyAt, Empty(c))
Store ==
    /\ rows \in [Jobs -> {"none", "active", "ended"}]
    /\ cTally \subseteq Jobs /\ cSeq \in Nat \cup {-1} /\ cGen \in 0..gen
    /\ cSeq >= 0 => Kept(cGen, cSeq, cTally)

IInv == Counted /\ Logged /\ Totals /\ Streamed /\ Refreshes /\ Clears /\ Store

-----------------------------------------------------------------------------
\* The operators on sequences.

LEMMA Bounds == NJobs \in Nat /\ Cap \in Nat /\ LogSize \in Nat \ {0} /\ MaxFrames \in Nat /\ MaxDisturbances \in Nat
BY BoundsAssumption

\* The rank of a job tells it from the others.
Upto(S, k) == {n \in S : n <= k}

LEMMA RankType ==
    ASSUME NEW S \in SUBSET Jobs
    PROVE  /\ IsFiniteSet(S) /\ Cardinality(S) \in Nat
           /\ \A k \in S : Cardinality(Upto(S, k)) \in 1..Cardinality(S)
<1>1. IsFiniteSet(Jobs)  BY Bounds, FS_Interval DEF Jobs
<1>2. IsFiniteSet(S) /\ Cardinality(S) \in Nat  BY <1>1, FS_Subset, FS_CardinalityType
<1>3. ASSUME NEW k \in S PROVE Cardinality(Upto(S, k)) \in 1..Cardinality(S)
  <2>1. Upto(S, k) \in SUBSET S /\ k \in Upto(S, k)  BY Bounds DEF Upto, Jobs
  <2>2. IsFiniteSet(Upto(S, k)) /\ Cardinality(Upto(S, k)) \in Nat
        /\ Cardinality(Upto(S, k)) <= Cardinality(S)
    BY <1>2, <2>1, FS_Subset, FS_CardinalityType
  <2>3. Cardinality(Upto(S, k)) # 0  BY <2>1, <2>2, FS_EmptySet
  <2> QED  BY <1>2, <2>2, <2>3
<1> QED  BY <1>2, <1>3

LEMMA RankGrows ==
    ASSUME NEW S \in SUBSET Jobs, NEW k \in S, NEW n \in S, k < n
    PROVE  Cardinality(Upto(S, k)) < Cardinality(Upto(S, n))
<1>1. k \in Int /\ n \in Int /\ \A x \in S : x \in Int  BY Bounds DEF Jobs
<1>2. Upto(S, k) \in SUBSET Upto(S, n) /\ n \in Upto(S, n) /\ n \notin Upto(S, k)
  <2>1. ASSUME NEW x \in S, x <= k PROVE x <= n  BY <1>1, <2>1
  <2>2. n <= n /\ ~(n <= k)  BY <1>1
  <2> QED  BY <2>1, <2>2 DEF Upto
<1>3. IsFiniteSet(S) /\ Upto(S, n) \in SUBSET S  BY RankType DEF Upto
<1>4. IsFiniteSet(Upto(S, n))  BY <1>3, FS_Subset
<1>5. Cardinality(Upto(S, k)) <= Cardinality(Upto(S, n))
      /\ Cardinality(Upto(S, k)) # Cardinality(Upto(S, n))
  BY <1>2, <1>4, FS_Subset
<1> QED  BY <1>5, RankType

\* InOrder lists each member once.
LEMMA Enumerates ==
    ASSUME NEW S \in SUBSET Jobs
    PROVE  /\ InOrder(S) \in Seq(S) /\ Len(InOrder(S)) = Cardinality(S) /\ Cardinality(S) \in Nat
           /\ \A k \in S : \E i \in 1..Cardinality(S) : InOrder(S)[i] = k
           /\ \A i, n \in 1..Cardinality(S) : InOrder(S)[i] = InOrder(S)[n] => i = n
<1> DEFINE size == Cardinality(S)
           rank == [k \in S |-> Cardinality(Upto(S, k))]
<1>1. IsFiniteSet(S) /\ size \in Nat /\ \A k \in S : rank[k] \in 1..size  BY RankType
<1>2. \A k, n \in S : rank[k] = rank[n] => k = n
  <2> SUFFICES ASSUME NEW k \in S, NEW n \in S, rank[k] = rank[n], k # n PROVE FALSE
    OBVIOUS
  <2>1. k < n \/ n < k  BY Bounds DEF Jobs
  <2>2. rank[k] < rank[n] \/ rank[n] < rank[k]  BY <2>1, RankGrows
  <2>3. rank[k] \in Int /\ rank[n] \in Int  BY <1>1
  <2> QED  BY <2>2, <2>3
<1>3. rank \in Injection(S, 1..size)
  <2>1. rank \in [S -> 1..size]  BY <1>1
  <2> QED  BY <1>2, <2>1 DEF Injection, IsInjective
<1>4. IsFiniteSet(1..size) /\ Cardinality(1..size) = size
  <2> HIDE DEF size
  <2> QED  BY <1>1, FS_Interval
<1>5. rank \in Surjection(S, 1..size)  BY <1>3, <1>4, FS_Injection
<1>6. \A i \in 1..size : \E k \in S : rank[k] = i  BY <1>5 DEF Surjection
<1>7. \A i \in 1..size : InOrder(S)[i] \in S /\ rank[InOrder(S)[i]] = i
  <2> TAKE i \in 1..size
  <2>1. InOrder(S)[i] = CHOOSE j \in S : Cardinality(Upto(S, j)) = i  BY DEF InOrder, Upto
  <2>2. \E j \in S : Cardinality(Upto(S, j)) = i  BY <1>6
  <2> QED  BY <2>1, <2>2
<1>8. InOrder(S) = [i \in 1..size |-> InOrder(S)[i]]  BY DEF InOrder
<1> HIDE DEF size, rank
<1>9. InOrder(S) \in Seq(S) /\ Len(InOrder(S)) = size  BY <1>1, <1>7, <1>8
<1>10. \A k \in S : \E i \in 1..size : InOrder(S)[i] = k  BY <1>1, <1>2, <1>7
<1>11. \A i, n \in 1..size : InOrder(S)[i] = InOrder(S)[n] => i = n  BY <1>7
<1> QED  BY <1>1, <1>9, <1>10, <1>11 DEF size

\* The log keeps a suffix.
LEMMA Suffix ==
    ASSUME NEW S, NEW s \in Seq(S)
    PROVE  /\ Last(s) \in Seq(S) /\ Len(Last(s)) <= LogSize /\ Len(Last(s)) <= Len(s)
           /\ s # <<>> => Last(s) # <<>>
           /\ \A i \in 1..Len(Last(s)) : Last(s)[i] = s[Len(s) - Len(Last(s)) + i]
<1>1. Len(s) \in Nat /\ LogSize \in Nat \ {0}  BY Bounds
<1>2. CASE Len(s) <= LogSize  BY <1>1, <1>2 DEF Last
<1>3. CASE ~(Len(s) <= LogSize)
  <2> DEFINE from == Len(s) - LogSize + 1
  <2>1. from \in 1..Len(s) /\ Len(s) - from + 1 = LogSize  BY <1>1, <1>3
  <2>2. Last(s) = SubSeq(s, from, Len(s))  BY <1>3 DEF Last
  <2> HIDE DEF from
  <2>3. /\ SubSeq(s, from, Len(s)) \in Seq(S) /\ Len(SubSeq(s, from, Len(s))) = Len(s) - from + 1
        /\ \A i \in 1..(Len(s) - from + 1) : SubSeq(s, from, Len(s))[i] = s[from + i - 1]
    BY <1>1, <2>1
  <2>4. Len(s) - LogSize = from - 1  BY <1>1 DEF from
  <2>5. Len(Last(s)) = LogSize /\ Last(s) \in Seq(S)  BY <2>1, <2>2, <2>3
  <2>6. ASSUME NEW i \in 1..LogSize PROVE Last(s)[i] = s[Len(s) - LogSize + i]
    <3>1. from + i - 1 = Len(s) - LogSize + i  BY <1>1, <2>1, <2>4
    <3> QED  BY <2>1, <2>2, <2>3, <3>1
  <2>7. LogSize <= Len(s) /\ Last(s) # <<>>  BY <1>1, <1>3, <2>5
  <2> QED  BY <1>1, <2>5, <2>6, <2>7
<1> QED  BY <1>2, <1>3

-----------------------------------------------------------------------------
\* The server and its log.

\* What a prune appends to the log, before it is cut to its length.
NewTimes(S, out) ==
    [k \in Jobs |-> IF k \in S THEN seq + CHOOSE i \in DOMAIN out : out[i] = k ELSE evictedAt[k]]
NewEntries(out) == [i \in DOMAIN out |-> [seq |-> seq + i, id |-> out[i]]]

LEMMA AsSequence ==
    ASSUME NEW E, NEW n \in Nat, NEW f \in [1..n -> E]
    PROVE  f \in Seq(E) /\ Len(f) = n
OBVIOUS

LEMMA Joined ==
    ASSUME NEW E, NEW s \in Seq(E), NEW t \in Seq(E), NEW u, u = s \o t
    PROVE  /\ u \in Seq(E) /\ Len(u) = Len(s) + Len(t)
           /\ \A n \in 1..Len(s) : u[n] = s[n]
           /\ \A n \in 1..Len(t) : u[Len(s) + n] = t[n]
OBVIOUS

LEMMA OldestType ==
    ASSUME Counted, NEW j \in Jobs
    PROVE  Oldest(j) \in SUBSET {k \in Jobs : srv[k] = "ended"}
<1> DEFINE S == {k \in Jobs \ {j} : srv[k] = "ended"}
<1>1. S \in SUBSET Jobs  OBVIOUS
<1>2. InOrder(S) \in Seq(S)  BY <1>1, Enumerates
<1>3. \A i \in DOMAIN InOrder(S) : InOrder(S)[i] \in S
  <2> HIDE DEF S
  <2> QED  BY <1>2
<1> QED  BY <1>3 DEF Oldest

\* The log with the new entries behind it, entry by entry.
Recorded(S, out, new) ==
    /\ Len(out) \in Nat \ {0}
    /\ new \in Seq(Entries) /\ Len(new) = Len(log) + Len(out)
    /\ evictedAt' \in [Jobs -> 0..(seq + Len(out))]
    /\ \A j \in Jobs : evictedAt'[j] > 0 => j \in S \/ srv[j] = "gone"
    /\ \A n \in 1..Len(new) : /\ new[n].seq = seq - Len(log) + n
                              /\ evictedAt'[new[n].id] = new[n].seq
    /\ \A j \in Jobs : evictedAt'[j] > seq - Len(log) => \E n \in 1..Len(new) : new[n].id = j

LEMMA Appended ==
    ASSUME Counted, Logged, NEW S \in SUBSET {k \in Jobs : srv[k] = "ended"},
           S # {}, NEW out, out = InOrder(S), NEW ent, ent = NewEntries(out), NEW new, new = log \o ent,
           evictedAt' = NewTimes(S, out)
    PROVE  Recorded(S, out, new)
<1> DEFINE size == Len(out)
<1>1. /\ out \in Seq(S) /\ size = Cardinality(S) /\ size \in Nat
      /\ \A k \in S : \E i \in 1..size : out[i] = k
      /\ \A i, n \in 1..size : out[i] = out[n] => i = n
  <2>1. S \in SUBSET Jobs  OBVIOUS
  <2>2. /\ InOrder(S) \in Seq(S) /\ Len(InOrder(S)) = Cardinality(S) /\ Cardinality(S) \in Nat
        /\ \A k \in S : \E i \in 1..Cardinality(S) : InOrder(S)[i] = k
        /\ \A i, n \in 1..Cardinality(S) : InOrder(S)[i] = InOrder(S)[n] => i = n
    BY <2>1, Enumerates
  <2> QED  BY <2>2
<1>2. size # 0 /\ DOMAIN out = 1..size /\ \A i \in 1..size : out[i] \in S  BY <1>1
<1>3. /\ seq \in Nat /\ log \in Seq(Entries) /\ Len(log) \in Nat /\ Len(log) <= seq
      /\ evictedAt \in [Jobs -> 0..seq]
  BY DEF Counted, Logged
<1>4. ASSUME NEW i \in 1..size PROVE evictedAt'[out[i]] = seq + i
  <2>1. out[i] \in S /\ out[i] \in Jobs  BY <1>2
  <2>2. (CHOOSE n \in DOMAIN out : out[n] = out[i]) = i  BY <1>1, <1>2
  <2> QED  BY <2>1, <2>2 DEF NewTimes
<1>5. ASSUME NEW k \in Jobs \ S PROVE evictedAt'[k] = evictedAt[k]  BY DEF NewTimes
<1>6. evictedAt' \in [Jobs -> 0..(seq + size)]
  <2>1. ASSUME NEW k \in Jobs PROVE evictedAt'[k] \in 0..(seq + size)
    <3>1. CASE k \in S
      <4>1. PICK i \in 1..size : out[i] = k  BY <1>1, <3>1
      <4>2. seq + i \in 0..(seq + size)  BY <1>1, <1>3
      <4> QED  BY <1>4, <4>1, <4>2
    <3>2. CASE k \notin S  
      <4>1. evictedAt[k] \in 0..seq  BY <1>3
      <4> QED  BY <1>1, <1>3, <1>5, <3>2, <4>1
    <3> QED  BY <3>1, <3>2
  <2>2. evictedAt' = [k \in Jobs |-> evictedAt'[k]]  BY DEF NewTimes
  <2> QED  BY <2>1, <2>2
<1>7. \A j \in Jobs : evictedAt'[j] > 0 => j \in S \/ srv[j] = "gone"
  BY <1>5 DEF Counted
<1>8. ent \in Seq(Entries) /\ Len(ent) = size
      /\ \A i \in 1..size : ent[i] = [seq |-> seq + i, id |-> out[i]]
  <2>1. ASSUME NEW i \in 1..size PROVE [seq |-> seq + i, id |-> out[i]] \in Entries
    <3>1. seq + i \in Nat /\ out[i] \in Jobs  BY <1>1, <1>2, <1>3
    <3> QED  BY <3>1 DEF Entries
  <2>2. ent = [i \in 1..size |-> [seq |-> seq + i, id |-> out[i]]]  BY <1>2 DEF NewEntries
  <2>3. ent = [i \in 1..size |-> ent[i]]  BY <2>2
  <2>4. \A i \in 1..size : ent[i] = [seq |-> seq + i, id |-> out[i]]  BY <2>2
  <2> HIDE DEF size
  <2>5. \A i \in 1..size : ent[i] \in Entries  BY <2>1, <2>4
  <2>6. ent \in [1..size -> Entries]  BY <2>3, <2>5
  <2>7. size \in Nat  BY <1>1
  <2>8. ent \in Seq(Entries) /\ Len(ent) = size  BY <2>6, <2>7, AsSequence
  <2> QED  BY <2>4, <2>8
<1>9. /\ new \in Seq(Entries) /\ Len(new) = Len(log) + size
      /\ \A n \in 1..Len(log) : new[n] = log[n]
      /\ \A n \in 1..size : new[Len(log) + n] = ent[n]
  <2> HIDE DEF size
  <2>1. new = log \o ent  OBVIOUS
  <2>2. log \in Seq(Entries) /\ ent \in Seq(Entries) /\ Len(ent) = size  BY <1>3, <1>8
  <2>3. /\ new \in Seq(Entries) /\ Len(new) = Len(log) + Len(ent)
        /\ \A n \in 1..Len(log) : new[n] = log[n]
        /\ \A n \in 1..Len(ent) : new[Len(log) + n] = ent[n]
    BY <2>1, <2>2, Joined
  <2> QED  BY <2>2, <2>3
<1> HIDE DEF size
<1>10. ASSUME NEW n \in 1..Len(new)
       PROVE  new[n].seq = seq - Len(log) + n /\ evictedAt'[new[n].id] = new[n].seq
  <2>1. CASE n \in 1..Len(log)
    <3>1. log[n] \in Entries /\ log[n].seq = seq - Len(log) + n /\ evictedAt[log[n].id] = log[n].seq
      BY <1>3, <2>1 DEF Logged
    <3>2. log[n].id \in Jobs /\ evictedAt[log[n].id] > 0  BY <1>3, <2>1, <3>1 DEF Entries
    <3>3. log[n].id \notin S  BY <3>2 DEF Counted
    <3> QED  BY <1>5, <1>9, <2>1, <3>1, <3>2, <3>3
  <2>2. CASE n \notin 1..Len(log)
    <3> DEFINE i == n - Len(log)
    <3>1. i \in 1..size /\ n = Len(log) + i  BY <1>1, <1>3, <1>9, <2>2
    <3> HIDE DEF i
    <3>2. new[n] = ent[i]  BY <1>9, <3>1
    <3>3. new[n].seq = seq + i /\ new[n].id = out[i]  BY <1>8, <3>1, <3>2
    <3>4. seq - Len(log) + n = seq + i  BY <1>1, <1>3, <3>1
    <3> QED  BY <1>4, <3>1, <3>3, <3>4
  <2> QED  BY <2>1, <2>2
<1>11. ASSUME NEW j \in Jobs, evictedAt'[j] > seq - Len(log)
       PROVE  \E n \in 1..Len(new) : new[n].id = j
  <2>1. CASE j \in S
    <3>1. PICK i \in 1..size : out[i] = j  BY <1>1, <2>1
    <3>2. Len(log) + i \in 1..Len(new)  BY <1>1, <1>3, <1>9
    <3>3. new[Len(log) + i].id = j  BY <1>8, <1>9, <3>1
    <3> QED  BY <3>2, <3>3
  <2>2. CASE j \notin S
    <3>1. PICK i \in 1..Len(log) : log[i].id = j  BY <1>5, <1>11, <2>2 DEF Logged
    <3>2. i \in 1..Len(new) /\ new[i].id = j  BY <1>1, <1>3, <1>9, <3>1
    <3> QED  BY <3>2
  <2> QED  BY <2>1, <2>2
<1> QED  BY <1>1, <1>2, <1>6, <1>7, <1>9, <1>10, <1>11 DEF size, Recorded

Core == Counted /\ Logged /\ Totals
Growing == gen' \in Nat /\ gen <= gen' /\ \A g, s, t : Kept(g, s, t) => Kept(g, s, t)'

\* A step that leaves the server alone keeps what is said of it.
LEMMA Idles ==
    ASSUME Core, UNCHANGED <<srv, tally, log, seq, resetSeq, gen, evictedAt, tallyAt>>,
           pruning' \subseteq Jobs, disturbed' \in 0..MaxDisturbances, disturbed <= disturbed'
    PROVE  Core' /\ Growing
<1>0. disturbed \in Nat /\ gen \in Nat /\ gen <= disturbed + 1  BY Bounds DEF Core, Counted
<1>1. gen <= disturbed' + 1
  <2>1. disturbed' \in Int  BY Bounds
  <2>2. \A a, b, c \in Int : a <= b + 1 /\ b <= c => a <= c + 1  OBVIOUS
  <2>3. gen \in Int /\ disturbed \in Int  BY <1>0
  <2> QED  BY <1>0, <2>1, <2>2, <2>3
<1>2. Counted'  BY <1>1 DEF Core, Counted
<1>3. Logged'  BY DEF Core, Logged
<1>4. Totals'  BY DEF Core, Totals, Kept
<1>5. Growing  BY DEF Growing, Kept, Core, Counted
<1> QED  BY <1>2, <1>3, <1>4, <1>5 DEF Core

LEMMA Advances ==
    ASSUME Core, gen' = gen, NEW by \in Nat \ {0}, NEW t, Advance(by, t),
           t \subseteq {j \in Jobs : srv'[j] = "gone"}
    PROVE  Totals' /\ Growing /\ Kept(gen, seq, t)'
<1>1. gen \in Nat \ {0} /\ seq \in Nat /\ seq' = seq + by /\ tally' = t  BY DEF Core, Counted, Advance
<1> DEFINE key == <<gen, seq + by>>
<1>2. tallyAt' = [p \in DOMAIN tallyAt \cup {key} |-> IF p = key THEN t ELSE tallyAt[p]]
  BY DEF Advance
<1>3. key \notin DOMAIN tallyAt
  <2>1. ~(seq + by <= seq)  BY <1>1
  <2> QED  BY <2>1 DEF Core, Totals
<1>4. DOMAIN tallyAt' = DOMAIN tallyAt \cup {key} /\ tallyAt'[key] = t
      /\ \A p \in DOMAIN tallyAt : tallyAt'[p] = tallyAt[p]
  BY <1>2, <1>3
<1>5. Growing
  <2>1. \A g, s, u : Kept(g, s, u) => Kept(g, s, u)'  BY <1>4 DEF Kept
  <2> QED  BY <1>1, <2>1 DEF Growing
<1>6. Kept(gen, seq, t)'  BY <1>1, <1>4 DEF Kept
<1>7. ASSUME NEW g, NEW s, <<g, s>> \in DOMAIN tallyAt'
      PROVE  g \in 1..gen' /\ s \in Nat /\ (g = gen' => s <= seq')
  <2>1. CASE <<g, s>> = key
    <3>1. g = gen /\ s = seq + by  BY <2>1
    <3> QED  BY <1>1, <3>1
  <2>2. CASE <<g, s>> \in DOMAIN tallyAt
    <3>1. g \in 1..gen /\ s \in Nat /\ (g = gen => s <= seq)  BY <2>2 DEF Core, Totals
    <3> QED  BY <1>1, <3>1
  <2> QED  BY <1>4, <1>7, <2>1, <2>2
<1>8. Totals'  BY <1>1, <1>6, <1>7 DEF Totals, Kept
<1> QED  BY <1>5, <1>6, <1>8

LEMMA PruneStep ==
    ASSUME Core, NEW j \in Jobs, Prune(j)
    PROVE  Core' /\ Growing
<1> DEFINE S == Oldest(j)
           out == InOrder(S)
<1>0. Counted /\ Logged /\ Totals /\ pruning' \subseteq Jobs  BY DEF Core, Counted, Prune
<1>1. S \in SUBSET {k \in Jobs : srv[k] = "ended"} /\ S \in SUBSET Jobs  BY <1>0, OldestType
<1>2. out \in Seq(S) /\ Len(out) = Cardinality(S) /\ \A k \in S : \E i \in 1..Len(out) : out[i] = k
  <2> HIDE DEF S
  <2> QED  BY <1>1, Enumerates
<1>3. CASE out = <<>>
  <2>1. UNCHANGED <<srv, tally, log, seq, resetSeq, gen, evictedAt, tallyAt, disturbed>>
    BY <1>3 DEF Prune
  <2>2. disturbed \in 0..MaxDisturbances /\ disturbed <= disturbed  BY Bounds DEF Core, Counted
  <2> QED  BY <1>0, <2>1, <2>2, Idles
<1>4. CASE out # <<>>
  <2> DEFINE ent == NewEntries(out)
             new == log \o ent
  <2>1. /\ srv' = [k \in Jobs |-> IF k \in S THEN "gone" ELSE srv[k]]
        /\ log' = Last(new)
        /\ evictedAt' = NewTimes(S, out)
        /\ Advance(Len(out), tally \cup S)
        /\ UNCHANGED <<resetSeq, gen, disturbed>>
    BY <1>4 DEF Prune, NewEntries, NewTimes
  <2>2. S # {}
    <3> HIDE DEF S, out
    <3> QED  BY <1>2, <1>4
  <2>3. /\ Len(out) \in Nat \ {0}
        /\ new \in Seq(Entries) /\ Len(new) = Len(log) + Len(out)
        /\ evictedAt' \in [Jobs -> 0..(seq + Len(out))]
        /\ \A k \in Jobs : evictedAt'[k] > 0 => k \in S \/ srv[k] = "gone"
        /\ \A n \in 1..Len(new) : /\ new[n].seq = seq - Len(log) + n
                                  /\ evictedAt'[new[n].id] = new[n].seq
        /\ \A k \in Jobs : evictedAt'[k] > seq - Len(log) => \E n \in 1..Len(new) : new[n].id = k
    <3> HIDE DEF S, out, ent, new
    <3>1. out = InOrder(S) /\ ent = NewEntries(out) /\ new = log \o ent  BY DEF out, ent, new
    <3>2. evictedAt' = NewTimes(S, out)  BY <2>1
    <3>3. Counted /\ Logged /\ S \in SUBSET {k \in Jobs : srv[k] = "ended"}  BY <1>0, <1>1
    <3>4. Recorded(S, out, new)  BY <2>2, <3>1, <3>2, <3>3, Appended
    <3> QED  BY <3>4 DEF Recorded
  <2> HIDE DEF new, out, S
  <2>4. seq' = seq + Len(out) /\ tally' = tally \cup S  BY <2>1 DEF Advance
  <2>5. seq \in Nat /\ Len(log) \in Nat /\ Len(log) <= seq /\ seq' \in Nat
    BY <1>0, <2>3, <2>4 DEF Counted, Logged
  <2>6. Counted'
    <3>1. srv' \in [Jobs -> {"none", "active", "ended", "gone"}]  BY <1>0, <2>1 DEF Counted
    <3>2. resetSeq' \in 0..seq'  BY <1>0, <2>1, <2>3, <2>4, <2>5 DEF Counted
    <3>3. \A k \in Jobs : evictedAt'[k] > 0 => srv'[k] = "gone"  BY <2>1, <2>3
    <3>4. evictedAt' \in [Jobs -> 0..seq']  BY <2>3, <2>4
    <3> QED  BY <1>0, <2>1, <2>5, <3>1, <3>2, <3>3, <3>4 DEF Counted
  <2>7. /\ log' \in Seq(Entries) /\ Len(log') <= LogSize /\ Len(log') <= Len(new)
        /\ log' # <<>> /\ Len(log') \in Nat
        /\ \A i \in 1..Len(log') : log'[i] = new[Len(new) - Len(log') + i]
    <3>1. new # <<>>  BY <2>3, <2>5
    <3>2. new \in Seq(Entries) /\ log' = Last(new)  BY <2>1, <2>3
    <3>3. /\ Last(new) \in Seq(Entries) /\ Len(Last(new)) <= LogSize /\ Len(Last(new)) <= Len(new)
          /\ Last(new) # <<>>
          /\ \A i \in 1..Len(Last(new)) : Last(new)[i] = new[Len(new) - Len(Last(new)) + i]
      BY <3>1, <3>2, Suffix
    <3> QED  BY <3>2, <3>3
  <2>8. Logged'
    <3> DEFINE cut == Len(new) - Len(log')
    <3>1. cut \in Nat /\ seq - Len(log) + cut = seq' - Len(log') /\ Len(log') <= seq'
      BY <2>3, <2>4, <2>5, <2>7
    <3>2. \A i \in 1..Len(log') : cut + i \in 1..Len(new) /\ log'[i] = new[cut + i]
      BY <2>3, <2>5, <2>7
    <3>3. ASSUME NEW i \in 1..Len(log')
          PROVE  log'[i].seq = seq' - Len(log') + i /\ evictedAt'[log'[i].id] = log'[i].seq
      <4> HIDE DEF cut
      <4>1. seq - Len(log) + (cut + i) = seq' - Len(log') + i  BY <2>5, <2>7, <3>1
      <4> QED  BY <2>3, <3>2, <4>1
    <3>4. ASSUME NEW k \in Jobs, evictedAt'[k] > seq' - Len(log')
          PROVE  \E i \in 1..Len(log') : log'[i].id = k
      <4>0. evictedAt'[k] \in Int  BY <2>3, <2>5
      <4>1. evictedAt'[k] > seq - Len(log)  BY <2>5, <2>7, <2>4, <3>1, <3>4, <4>0
      <4>2. PICK n \in 1..Len(new) : new[n].id = k  BY <2>3, <4>1
      <4>3. evictedAt'[k] = seq - Len(log) + n  BY <2>3, <4>2
      <4>4. n > cut  BY <2>3, <2>4, <2>5, <2>7, <3>1, <3>4, <4>2, <4>3
      <4>5. n - cut \in 1..Len(log') /\ cut + (n - cut) = n  BY <2>3, <2>5, <2>7, <4>2, <4>4
      <4> HIDE DEF cut
      <4>6. log'[n - cut] = new[n]  BY <3>2, <4>5
      <4> QED  BY <4>2, <4>5, <4>6
    <3> QED  BY <2>7, <3>1, <3>3, <3>4 DEF Logged
  <2>9. Totals' /\ Growing
    <3>1. tally \cup S \subseteq {k \in Jobs : srv'[k] = "gone"}  BY <1>0, <1>1, <2>1 DEF Totals
    <3>2. gen' = gen  BY <2>1
    <3> QED  BY <2>1, <2>3, <3>1, <3>2, Advances
  <2> QED  BY <2>6, <2>8, <2>9 DEF Core
<1> QED  BY <1>3, <1>4

LEMMA ClearStep ==
    ASSUME Core, Clear
    PROVE  Core' /\ Growing /\ Kept(gen, seq, {})' /\ gen' = gen
<1>1. /\ srv' = [j \in Jobs |-> IF srv[j] = "ended" THEN "gone" ELSE srv[j]]
      /\ log' = <<>> /\ Advance(1, {}) /\ resetSeq' = seq' /\ UNCHANGED <<pruning, gen, evictedAt>>
      /\ disturbed < MaxDisturbances /\ disturbed' = disturbed + 1
  BY DEF Clear, Disturb
<1>2. Totals' /\ Growing /\ Kept(gen, seq, {})'
  <2>1. gen' = gen  BY <1>1
  <2> QED  BY <1>1, <2>1, Advances
<1>3. Counted /\ seq' = seq + 1 /\ seq \in Nat  BY <1>1 DEF Core, Counted, Advance
<1>4. Counted'
  <2>1. evictedAt' \in [Jobs -> 0..seq']
    <3>1. \A k \in Jobs : evictedAt[k] \in 0..seq'  BY <1>3 DEF Counted
    <3> QED  BY <1>1, <1>3, <3>1 DEF Counted
  <2>2. disturbed' \in 0..MaxDisturbances /\ gen' <= disturbed' + 1 /\ resetSeq' \in 0..seq' /\ seq' \in Nat
    BY <1>1, <1>3, Bounds DEF Counted
  <2>3. srv' \in [Jobs -> {"none", "active", "ended", "gone"}]
        /\ \A j \in Jobs : evictedAt'[j] > 0 => srv'[j] = "gone"
    BY <1>1, <1>3 DEF Counted
  <2> QED  BY <1>1, <1>3, <2>1, <2>2, <2>3 DEF Counted
<1>5. Logged'
  <2>1. Len(log') = 0 /\ log' \in Seq(Entries)  BY <1>1
  <2>2. \A j \in Jobs : ~(evictedAt'[j] > seq' - 0)
    <3> TAKE j \in Jobs
    <3>1. evictedAt'[j] \in 0..seq' /\ seq' \in Nat  BY <1>4 DEF Counted
    <3> QED  BY <3>1
  <2>3. seq' \in Nat /\ LogSize \in Nat  BY <1>3, Bounds
  <2> QED  BY <1>1, <2>1, <2>2, <2>3 DEF Logged
<1> QED  BY <1>1, <1>2, <1>4, <1>5 DEF Core

LEMMA RestartStep ==
    ASSUME Core, Restart
    PROVE  Core' /\ Growing
<1>1. /\ gen' = gen + 1 /\ srv' = [j \in Jobs |-> IF srv[j] = "none" THEN "none" ELSE "gone"]
      /\ pruning' = {} /\ tally' = {} /\ log' = <<>> /\ seq' = 0 /\ resetSeq' = 0
      /\ evictedAt' = [j \in Jobs |-> 0]
      /\ tallyAt' = [p \in DOMAIN tallyAt \cup {<<gen + 1, 0>>} |-> IF p = <<gen + 1, 0>> THEN {} ELSE tallyAt[p]]
      /\ disturbed < MaxDisturbances /\ disturbed' = disturbed + 1
  BY DEF Restart, Disturb
<1>2. Counted /\ gen \in Nat \ {0}  BY DEF Core, Counted
<1>3. Counted'
  <2>1. disturbed' \in 0..MaxDisturbances /\ gen' <= disturbed' + 1 /\ gen' \in Nat \ {0}
    BY <1>1, <1>2, Bounds DEF Counted
  <2>2. srv' \in [Jobs -> {"none", "active", "ended", "gone"}]  BY <1>1, <1>2 DEF Counted
  <2> QED  BY <1>1, <2>1, <2>2 DEF Counted
<1>4. Logged'  BY <1>1, Bounds DEF Logged
<1> DEFINE key == <<gen + 1, 0>>
<1>5. key \notin DOMAIN tallyAt  BY <1>2 DEF Core, Totals
<1>6. DOMAIN tallyAt' = DOMAIN tallyAt \cup {key} /\ tallyAt'[key] = {}
      /\ \A p \in DOMAIN tallyAt : tallyAt'[p] = tallyAt[p]
  BY <1>1, <1>5
<1>7. Growing
  <2>1. \A g, s, u : Kept(g, s, u) => Kept(g, s, u)'  BY <1>6 DEF Kept
  <2> QED  BY <1>1, <1>2, <2>1 DEF Growing
<1>8. Totals'
  <2>1. ASSUME NEW g, NEW s, <<g, s>> \in DOMAIN tallyAt'
        PROVE  g \in 1..gen' /\ s \in Nat /\ (g = gen' => s <= seq')
    <3>1. CASE <<g, s>> = key
      <4>1. g = gen + 1 /\ s = 0  BY <3>1
      <4> QED  BY <1>1, <1>2, <4>1
    <3>2. CASE <<g, s>> \in DOMAIN tallyAt
      <4>1. g \in 1..gen /\ s \in Nat  BY <3>2 DEF Core, Totals
      <4> QED  BY <1>1, <1>2, <4>1
    <3> QED  BY <1>6, <2>1, <3>1, <3>2
  <2> QED  BY <1>1, <1>6, <2>1 DEF Totals, Kept
<1> QED  BY <1>3, <1>4, <1>7, <1>8 DEF Core

\* One job goes on to another status, and none that is gone comes back.
LEMMA SrvStep ==
    ASSUME Core, NEW j \in Jobs, NEW v \in {"active", "ended", "gone"},
           srv' = [srv EXCEPT ![j] = v], srv[j] # "gone",
           UNCHANGED <<tally, log, seq, resetSeq, gen, evictedAt, tallyAt>>,
           pruning' \subseteq Jobs, disturbed' \in 0..MaxDisturbances, gen <= disturbed' + 1
    PROVE  Core' /\ Growing
<1>1. /\ srv' \in [Jobs -> {"none", "active", "ended", "gone"}]
      /\ \A k \in Jobs : srv[k] = "gone" => srv'[k] = "gone"
  BY DEF Core, Counted
<1>2. Counted'  BY <1>1 DEF Core, Counted
<1>3. Logged'  BY DEF Core, Logged
<1>4. Totals'  BY <1>1 DEF Core, Totals, Kept
<1>5. Growing  BY DEF Growing, Kept, Core, Counted
<1> QED  BY <1>2, <1>3, <1>4, <1>5 DEF Core

LEMMA Disturbing ==
    ASSUME Core
    PROVE  /\ disturbed \in 0..MaxDisturbances /\ gen <= disturbed + 1 /\ disturbed <= disturbed
           /\ disturbed < MaxDisturbances => /\ disturbed + 1 \in 0..MaxDisturbances
                                             /\ gen <= (disturbed + 1) + 1 /\ disturbed <= disturbed + 1
BY Bounds DEF Core, Counted

LEMMA CoreStep ==
    ASSUME Core, [Next]_vars
    PROVE  Core' /\ Growing
<1>0. /\ disturbed \in 0..MaxDisturbances /\ gen <= disturbed + 1 /\ disturbed <= disturbed
      /\ disturbed < MaxDisturbances => /\ disturbed + 1 \in 0..MaxDisturbances
                                        /\ gen <= (disturbed + 1) + 1 /\ disturbed <= disturbed + 1
      /\ pruning \subseteq Jobs
  BY Disturbing DEF Core, Counted
<1>1. CASE \E j \in Jobs : Create(j)
  <2>1. PICK j \in Jobs : Create(j)  BY <1>1
  <2>2. /\ srv' = [srv EXCEPT ![j] = "active"] /\ srv[j] # "gone" /\ disturbed' = disturbed /\ pruning' = pruning
        /\ UNCHANGED <<tally, log, seq, resetSeq, gen, evictedAt, tallyAt>>
    BY <2>1 DEF Create
  <2> QED  BY <1>0, <2>2, SrvStep
<1>2. CASE \E j \in Jobs : End(j)
  <2>1. PICK j \in Jobs : End(j)  BY <1>2
  <2>2. /\ srv' = [srv EXCEPT ![j] = "ended"] /\ srv[j] # "gone" /\ disturbed' = disturbed
        /\ pruning' = pruning \cup {j} /\ UNCHANGED <<tally, log, seq, resetSeq, gen, evictedAt, tallyAt>>
    BY <2>1 DEF End
  <2>3. pruning' \subseteq Jobs  BY <1>0, <2>2
  <2> QED  BY <1>0, <2>2, <2>3, SrvStep
<1>3. CASE \E j \in Jobs : Delete(j)
  <2>1. PICK j \in Jobs : Delete(j)  BY <1>3
  <2>2. /\ srv' = [srv EXCEPT ![j] = "gone"] /\ srv[j] # "gone" /\ disturbed < MaxDisturbances
        /\ disturbed' = disturbed + 1 /\ pruning' = pruning
        /\ UNCHANGED <<tally, log, seq, resetSeq, gen, evictedAt, tallyAt>>
    BY <2>1 DEF Delete, Disturb
  <2> QED  BY <1>0, <2>2, SrvStep
<1>4. CASE Clear  BY <1>4, ClearStep
<1>5. CASE Restart  BY <1>5, RestartStep
<1>6. CASE \E j \in Jobs : Prune(j)  BY <1>6, PruneStep
<1>7. CASE Drop \/ \E r \in Reads : FailRead(r)
  <2>1. /\ UNCHANGED <<srv, tally, log, seq, resetSeq, gen, evictedAt, tallyAt>> /\ pruning' = pruning
        /\ disturbed < MaxDisturbances /\ disturbed' = disturbed + 1
    BY <1>7 DEF Drop, FailRead, Disturb, srvVars
  <2> QED  BY <1>0, <2>1, Idles
<1>8. CASE \/ Stream \/ Connect \/ Poll \/ Deliver \/ UNCHANGED vars
           \/ \E j \in Jobs : EmitUpdate(j)
           \/ \E r \in Reads : Reading(r)
           \/ \E c \in cleared : ApplyClear(c)
  <2>1. /\ UNCHANGED <<srv, tally, log, seq, resetSeq, gen, evictedAt, tallyAt>> /\ pruning' = pruning
        /\ disturbed' = disturbed
    <3>1. CASE Stream  BY <3>1 DEF Stream, Subscribe, EmitSnapshot, EmitHistory, srvVars
    <3>2. CASE Connect \/ Poll \/ Deliver \/ UNCHANGED vars
      BY <3>2 DEF Connect, Poll, Deliver, srvVars, vars
    <3>3. CASE \E j \in Jobs : EmitUpdate(j)  BY <3>3 DEF EmitUpdate, srvVars
    <3>4. CASE \E r \in Reads : Reading(r)
      BY <3>4 DEF Reading, Answer, ApplyList, ApplyHistory, srvVars
    <3>5. CASE \E c \in cleared : ApplyClear(c)  BY <3>5 DEF ApplyClear, srvVars
    <3> QED  BY <1>8, <3>1, <3>2, <3>3, <3>4, <3>5
  <2> QED  BY <1>0, <2>1, Idles
<1> QED  BY <1>1, <1>2, <1>3, <1>4, <1>5, <1>6, <1>7, <1>8 DEF Next, Server

-----------------------------------------------------------------------------
\* What is under way.

LEMMA TellsOn ==
    ASSUME Core, Growing
    PROVE  /\ \A p : Tells(gen, tallyAt, p) => Tells(gen', tallyAt', p)
           /\ \A x : Underway(gen, tallyAt, x) => Underway(gen', tallyAt', x)
<1>1. ASSUME NEW p, Tells(gen, tallyAt, p) PROVE Tells(gen', tallyAt', p)
  <2>1. p.gen \in 1..gen' /\ p.seq \in Nat /\ p.tally \subseteq Jobs
    BY <1>1 DEF Tells, Growing, Core, Counted
  <2>2. Kept(p.gen, p.seq, p.tally)  BY <1>1 DEF Tells, Kept
  <2>3. Kept(p.gen, p.seq, p.tally)'  BY <2>2 DEF Growing
  <2> QED  BY <2>1, <2>3 DEF Tells, Kept
<1> QED  BY <1>1 DEF Underway

\* The server answers with the present totals.
LEMMA OverflowTells ==
    ASSUME Core, NEW c, NEW g
    PROVE  Overflow(c, g) \in Payloads /\ Tells(gen, tallyAt, Overflow(c, g))
<1> DEFINE b == Rewound(c, g)
<1>1. EvictedSince(b) \subseteq Jobs
  <2> HIDE DEF b
  <2>1. \A i \in DOMAIN log : log[i].id \in Jobs
    <3>1. log \in Seq(Entries)  BY DEF Core, Logged
    <3>2. \A i \in DOMAIN log : log[i] \in Entries  BY <3>1
    <3> QED  BY <3>2 DEF Entries
  <2> QED  BY <2>1 DEF EvictedSince
<1>2. Expired(b) \in BOOLEAN  BY DEF Expired
<1>3. gen \in Nat \ {0} /\ seq \in Nat /\ tally \subseteq Jobs /\ Kept(gen, seq, tally)
  BY DEF Core, Counted, Totals
<1>4. Overflow(c, g) = [gen |-> gen, seq |-> seq, tally |-> tally, ids |-> EvictedSince(b), expired |-> Expired(b)]
  BY DEF Overflow
<1> HIDE DEF b
<1>5. Overflow(c, g) \in Payloads  BY <1>1, <1>2, <1>3, <1>4 DEF Payloads
<1>6. Tells(gen, tallyAt, Overflow(c, g))  BY <1>3, <1>4 DEF Tells, Kept
<1> QED  BY <1>5, <1>6

\* Frames on their way.
Sent ==
    /\ frames \in Seq(Frames) /\ Len(frames) <= MaxFrames
    /\ \A n \in 1..Len(frames) : frames[n].kind = "history" => Tells(gen, tallyAt, frames[n].pay)

LEMMA SendNone ==
    ASSUME Core, Growing, Sent, frames' = frames \/ frames' = <<>>
    PROVE  Sent'
<1>1. \A p : Tells(gen, tallyAt, p) => Tells(gen', tallyAt', p)  BY TellsOn
<1>2. CASE frames' = frames  BY <1>1, <1>2 DEF Sent
<1>3. CASE frames' = <<>>
  <2>1. Len(frames') = 0 /\ frames' \in Seq(Frames)  BY <1>3
  <2>2. 0 <= MaxFrames  BY Bounds
  <2>3. \A n \in 1..Len(frames') : FALSE  BY <2>1
  <2> QED  BY <2>1, <2>2, <2>3 DEF Sent
<1> QED  BY <1>2, <1>3

LEMMA SendRest ==
    ASSUME Core, Growing, Sent, frames # <<>>, frames' = Tail(frames)
    PROVE  Sent'
<1>1. \A p : Tells(gen, tallyAt, p) => Tells(gen', tallyAt', p)  BY TellsOn
<1>2. /\ frames' \in Seq(Frames) /\ Len(frames') = Len(frames) - 1 /\ Len(frames) \in Nat
      /\ \A n \in 1..Len(frames') : n + 1 \in 1..Len(frames) /\ frames'[n] = frames[n + 1]
  BY DEF Sent
<1>3. Len(frames') <= MaxFrames
  <2>1. Len(frames) <= MaxFrames /\ MaxFrames \in Nat  BY Bounds DEF Sent
  <2> QED  BY <1>2, <2>1
<1>4. ASSUME NEW n \in 1..Len(frames'), frames'[n].kind = "history"
      PROVE  Tells(gen', tallyAt', frames'[n].pay)
  <2>1. n + 1 \in 1..Len(frames) /\ frames'[n] = frames[n + 1]  BY <1>2
  <2>2. frames[n + 1].kind = "history"  BY <1>4, <2>1
  <2>3. Tells(gen, tallyAt, frames[n + 1].pay)  BY <2>1, <2>2 DEF Sent
  <2> QED  BY <1>1, <2>1, <2>3
<1> QED  BY <1>2, <1>3, <1>4 DEF Sent

LEMMA SendOne ==
    ASSUME Core, Growing, Sent, Room, NEW f \in Frames, frames' = Append(frames, f),
           f.kind = "history" => Tells(gen', tallyAt', f.pay)
    PROVE  Sent'
<1>1. \A p : Tells(gen, tallyAt, p) => Tells(gen', tallyAt', p)  BY TellsOn
<1>2. /\ frames' \in Seq(Frames) /\ Len(frames') = Len(frames) + 1 /\ Len(frames) \in Nat
      /\ frames'[Len(frames) + 1] = f /\ \A n \in 1..Len(frames) : frames'[n] = frames[n]
  BY DEF Sent
<1>3. Len(frames') <= MaxFrames  BY <1>2, Bounds DEF Room
<1>4. ASSUME NEW n \in 1..Len(frames'), frames'[n].kind = "history"
      PROVE  Tells(gen', tallyAt', frames'[n].pay)
  <2>1. CASE n = Len(frames) + 1  BY <1>2, <1>4, <2>1
  <2>2. CASE n # Len(frames) + 1
    <3>1. n \in 1..Len(frames)  BY <1>2, <2>2
    <3> QED  BY <1>1, <1>2, <1>4, <3>1 DEF Sent
  <2> QED  BY <2>1, <2>2
<1> QED  BY <1>2, <1>3, <1>4 DEF Sent

LEMMA RowFrame == \A j \in Jobs : Row(j) \in Frames /\ Row(j).kind # "history"
BY DEF Row, Frames

Open == stream \in Streams /\ stream.news \subseteq stream.subs

LEMMA StreamStep ==
    ASSUME Core, Growing, Open, Sent, [Next]_vars
    PROVE  Open' /\ Sent'
<1>1. CASE \E j \in Jobs : End(j)
  <2>1. PICK j \in Jobs : End(j)  BY <1>1
  <2>2. /\ stream' = IF j \in stream.subs THEN [stream EXCEPT !.news = @ \cup {j}] ELSE stream
        /\ frames' = frames
    BY <2>1 DEF End
  <2>3. Open'  BY <2>2 DEF Open, Streams
  <2> QED  BY <2>2, <2>3, SendNone
<1>2. CASE Restart \/ Drop
  <2>1. stream' = Closed /\ frames' = <<>>  BY <1>2 DEF Restart, Drop
  <2>2. Open'  BY <2>1 DEF Open, Streams, Closed
  <2> QED  BY <2>1, <2>2, SendNone
<1>3. CASE Subscribe
  <2> DEFINE active == {j \in Jobs : srv[j] = "active"}
  <2>1. /\ stream' = [stream EXCEPT !.subs = @ \cup active, !.sent = TRUE,
                         !.todo = IF stream.sent THEN @ ELSE InOrder(Retained),
                         !.cursor = IF stream.sent THEN @ ELSE seq]
        /\ frames' = frames
    BY <1>3 DEF Subscribe
  <2>2. InOrder(Retained) \in Seq(Jobs)
    <3>1. Retained \in SUBSET Jobs  BY DEF Retained
    <3>2. InOrder(Retained) \in Seq(Retained)  BY <3>1, Enumerates
    <3> QED  BY <3>1, <3>2
  <2>3. active \subseteq Jobs /\ seq \in Nat  BY DEF Core, Counted
  <2> HIDE DEF active
  <2>4. Open'  BY <2>1, <2>2, <2>3 DEF Open, Streams
  <2> QED  BY <2>1, <2>4, SendNone
<1>4. CASE EmitSnapshot
  <2>1. /\ stream.todo # <<>> /\ Room /\ frames' = Append(frames, Row(Head(stream.todo)))
        /\ stream' = [stream EXCEPT !.todo = Tail(@)]
    BY <1>4 DEF EmitSnapshot
  <2>2. stream.todo \in Seq(Jobs) /\ Head(stream.todo) \in Jobs /\ Tail(stream.todo) \in Seq(Jobs)
    BY <2>1 DEF Open, Streams
  <2>3. Open'  BY <2>1, <2>2 DEF Open, Streams
  <2>4. PICK j \in Jobs : j = Head(stream.todo)  BY <2>2
  <2>5. Row(j) \in Frames /\ Row(j).kind # "history" /\ frames' = Append(frames, Row(j))
    BY <2>1, <2>4, RowFrame
  <2>6. Sent'  BY <2>1, <2>5, SendOne
  <2> QED  BY <2>3, <2>6
<1>5. CASE EmitHistory
  <2> DEFINE p == Overflow(stream.cursor, gen)
             f == [kind |-> "history", pay |-> p]
  <2>1. Room /\ frames' = Append(frames, f) /\ stream' = [stream EXCEPT !.last = seq, !.cursor = seq]
    BY <1>5 DEF EmitHistory
  <2>2. seq \in Nat /\ seq \in Int  BY DEF Core, Counted
  <2>3. Open'
    <3>1. stream' = [stream EXCEPT !.last = seq, !.cursor = seq]  BY <2>1
    <3> QED  BY <2>2, <3>1 DEF Open, Streams
  <2>4. p \in Payloads /\ Tells(gen, tallyAt, p)  BY OverflowTells
  <2>5. Tells(gen', tallyAt', p)  BY <2>4, TellsOn
  <2> HIDE DEF p
  <2>6. f \in Frames /\ f.pay = p  BY <2>4 DEF Frames
  <2> HIDE DEF f
  <2>7. Sent'  BY <2>1, <2>5, <2>6, SendOne
  <2> QED  BY <2>3, <2>7
<1>6. CASE \E j \in Jobs : EmitUpdate(j)
  <2>1. PICK j \in Jobs : EmitUpdate(j)  BY <1>6
  <2>2. /\ Room
        /\ frames' = frames \/ frames' = Append(frames, Row(j))
        /\ stream' = stream \/ stream' = [stream EXCEPT !.news = @ \ {j}, !.subs = @ \ {j}]
    BY <2>1 DEF EmitUpdate
  <2>3. Open'  BY <2>2 DEF Open, Streams
  <2>4. Row(j) \in Frames /\ Row(j).kind # "history"  BY RowFrame
  <2>5. CASE frames' = frames  BY <2>3, <2>5, SendNone
  <2>6. CASE frames' = Append(frames, Row(j))
    <3>1. Sent'  BY <2>2, <2>4, <2>6, SendOne
    <3> QED  BY <2>3, <3>1
  <2> QED  BY <2>2, <2>5, <2>6
<1>7. CASE Connect
  <2>1. stream' = [Closed EXCEPT !.up = TRUE] /\ frames' = frames  BY <1>7 DEF Connect
  <2>2. stream' = [up |-> TRUE, subs |-> {}, news |-> {}, sent |-> FALSE,
                  todo |-> <<>>, cursor |-> 0, last |-> -1]
    BY <2>1 DEF Closed
  <2>3. Open'  BY <2>2 DEF Open, Streams
  <2> QED  BY <2>1, <2>3, SendNone
<1>8. CASE Deliver
  <2>1. stream' = stream /\ frames # <<>> /\ frames' = Tail(frames)  BY <1>8 DEF Deliver
  <2>2. Open'  BY <2>1 DEF Open
  <2> QED  BY <2>1, <2>2, SendRest
<1>9. CASE \/ Poll \/ Clear \/ UNCHANGED vars
           \/ \E j \in Jobs : Create(j) \/ Delete(j) \/ Prune(j)
           \/ \E r \in Reads : Reading(r) \/ FailRead(r)
           \/ \E c \in cleared : ApplyClear(c)
  <2>1. stream' = stream /\ frames' = frames
    <3>1. CASE Poll \/ Clear \/ UNCHANGED vars  BY <3>1 DEF Poll, Clear, vars, streamVars
    <3>2. CASE \E j \in Jobs : Create(j) \/ Delete(j) \/ Prune(j)
      BY <3>2 DEF Create, Delete, Prune, streamVars
    <3>3. CASE \E r \in Reads : Reading(r) \/ FailRead(r)
      BY <3>3 DEF Reading, Answer, ApplyList, ApplyHistory, FailRead, streamVars
    <3>4. CASE \E c \in cleared : ApplyClear(c)  BY <3>4 DEF ApplyClear, streamVars
    <3> QED  BY <1>9, <3>1, <3>2, <3>3, <3>4
  <2>2. Open'  BY <2>1 DEF Open
  <2> QED  BY <2>1, <2>2, SendNone
<1> QED  BY <1>1, <1>2, <1>3, <1>4, <1>5, <1>6, <1>7, <1>8, <1>9 DEF Next, Server, Stream

-----------------------------------------------------------------------------
\* The browser.

\* Refresh r goes on, and the others stay as they are.
LEMMA ReadOne ==
    ASSUME Core, Growing, Refreshes, NEW r \in Reads, NEW x, refresh' = [refresh EXCEPT ![r] = x],
           Underway(gen', tallyAt', x)
    PROVE  Refreshes'
<1>1. \A y : Underway(gen, tallyAt, y) => Underway(gen', tallyAt', y)  BY TellsOn
<1>2. DOMAIN refresh' = Reads /\ refresh'[r] = x /\ \A q \in Reads \ {r} : refresh'[q] = refresh[q]
  BY DEF Refreshes
<1>3. ASSUME NEW q \in Reads PROVE Underway(gen', tallyAt', refresh'[q])
  BY <1>1, <1>2 DEF Refreshes
<1> QED  BY <1>2, <1>3 DEF Refreshes

LEMMA ReadNone ==
    ASSUME Core, Growing, Refreshes, refresh' = refresh
    PROVE  Refreshes'
<1>1. \A y : Underway(gen, tallyAt, y) => Underway(gen', tallyAt', y)  BY TellsOn
<1> QED  BY <1>1 DEF Refreshes

LEMMA IdleUnderway ==
    \A g, T : /\ Underway(g, T, Idle)
              /\ \A a, b, c : /\ Underway(g, T, [at |-> "list", seq |-> a, gen |-> b, again |-> c])
                              /\ Underway(g, T, [at |-> "history", seq |-> a, gen |-> b, again |-> c])
BY DEF Underway, Idle

LEMMA BeginStep ==
    ASSUME Core, Growing, Refreshes, NEW r \in Reads, NEW again, Begin(r, again)
    PROVE  Refreshes'
<1> DEFINE x == [at |-> "list", seq |-> cSeq', gen |-> cGen', again |-> again]
<1>1. refresh' = [refresh EXCEPT ![r] = x]  BY DEF Begin
<1>2. Underway(gen', tallyAt', x)  BY DEF Underway
<1> HIDE DEF x
<1> QED  BY <1>1, <1>2, ReadOne

LEMMA RefreshStep ==
    ASSUME Core, Growing, Refreshes, [Next]_vars
    PROVE  Refreshes'
<1>1. CASE Restart
  <2>1. refresh' = [r \in Reads |-> IF refresh[r].at \in {"list", "history"} THEN Idle ELSE refresh[r]]
    BY <1>1 DEF Restart
  <2>2. \A y : Underway(gen, tallyAt, y) => Underway(gen', tallyAt', y)  BY TellsOn
  <2>3. Underway(gen', tallyAt', Idle)  BY IdleUnderway
  <2> QED  BY <2>1, <2>2, <2>3 DEF Refreshes
<1>2. CASE Connect \/ Poll
  <2>1. PICK r \in Reads : Begin(r, FALSE)  BY <1>2 DEF Connect, Poll
  <2> QED  BY <2>1, BeginStep
<1>3. CASE Deliver
  <2>1. CASE refresh' = refresh  BY <2>1, ReadNone
  <2>2. CASE refresh' # refresh
    <3>1. PICK r \in Reads : Begin(r, FALSE)  BY <1>3, <2>2 DEF Deliver
    <3> QED  BY <3>1, BeginStep
  <2> QED  BY <2>1, <2>2
<1>4. CASE \E r \in Reads : Answer(r)
  <2>1. PICK r \in Reads : Answer(r)  BY <1>4
  <2>2. CASE refresh[r].at = "list"
    <3> DEFINE x == [at |-> "listed", seq |-> refresh[r].seq, gen |-> refresh[r].gen,
                     again |-> refresh[r].again, list |-> Listed]
    <3>1. refresh' = [refresh EXCEPT ![r] = x]  BY <2>1, <2>2 DEF Answer, Refreshes
    <3>2. Listed \in [Jobs -> {"none", "active", "ended"}]  BY DEF Listed, Retained
    <3>3. Underway(gen', tallyAt', x)  BY <3>2 DEF Underway
    <3> HIDE DEF x
    <3> QED  BY <3>1, <3>3, ReadOne
  <2>3. CASE refresh[r].at # "list"
    <3> DEFINE p == Overflow(refresh[r].seq, refresh[r].gen)
               x == [at |-> "answered", again |-> refresh[r].again, pay |-> p]
    <3>1. refresh' = [refresh EXCEPT ![r] = x]  BY <2>1, <2>3 DEF Answer, Refreshes
    <3>2. Tells(gen, tallyAt, p)  BY OverflowTells
    <3>3. Tells(gen', tallyAt', p)  BY <3>2, TellsOn
    <3> HIDE DEF p
    <3>4. Underway(gen', tallyAt', x)  BY <3>3 DEF Underway
    <3> HIDE DEF x
    <3> QED  BY <3>1, <3>4, ReadOne
  <2> QED  BY <2>2, <2>3
<1>5. CASE \E r \in Reads : ApplyList(r)
  <2>1. PICK r \in Reads : ApplyList(r)  BY <1>5
  <2> DEFINE x == [at |-> "history", seq |-> refresh[r].seq, gen |-> refresh[r].gen, again |-> refresh[r].again]
  <2>2. refresh' = [refresh EXCEPT ![r] = x]  BY <2>1 DEF ApplyList, Refreshes
  <2>3. Underway(gen', tallyAt', x)  BY IdleUnderway
  <2> HIDE DEF x
  <2> QED  BY <2>2, <2>3, ReadOne
<1>6. CASE \E r \in Reads : ApplyHistory(r)
  <2>1. PICK r \in Reads : ApplyHistory(r)  BY <1>6
  <2>2. Begin(r, TRUE) \/ refresh' = [refresh EXCEPT ![r] = Idle]  BY <2>1 DEF ApplyHistory
  <2>3. Underway(gen', tallyAt', Idle)  BY IdleUnderway
  <2>4. CASE Begin(r, TRUE)  BY <2>4, BeginStep
  <2>5. CASE refresh' = [refresh EXCEPT ![r] = Idle]  BY <2>3, <2>5, ReadOne
  <2> QED  BY <2>2, <2>4, <2>5
<1>7. CASE \E r \in Reads : FailRead(r)
  <2>1. PICK r \in Reads : refresh' = [refresh EXCEPT ![r] = Idle]  BY <1>7 DEF FailRead
  <2>2. Underway(gen', tallyAt', Idle)  BY IdleUnderway
  <2> QED  BY <2>1, <2>2, ReadOne
<1>8. CASE \/ Clear \/ Drop \/ Stream \/ UNCHANGED vars
           \/ \E j \in Jobs : Create(j) \/ End(j) \/ Delete(j) \/ Prune(j) \/ EmitUpdate(j)
           \/ \E c \in cleared : ApplyClear(c)
  <2>1. refresh' = refresh
    <3>1. CASE Clear \/ Drop \/ Stream \/ UNCHANGED vars
      BY <3>1 DEF Clear, Drop, Stream, Subscribe, EmitSnapshot, EmitHistory, vars
    <3>2. CASE \E j \in Jobs : Create(j) \/ End(j) \/ Delete(j) \/ Prune(j) \/ EmitUpdate(j)
      BY <3>2 DEF Create, End, Delete, Prune, EmitUpdate
    <3>3. CASE \E c \in cleared : ApplyClear(c)  BY <3>3 DEF ApplyClear
    <3> QED  BY <1>8, <3>1, <3>2, <3>3
  <2> QED  BY <2>1, ReadNone
<1> QED  BY <1>1, <1>2, <1>3, <1>4, <1>5, <1>6, <1>7, <1>8 DEF Next, Server, Reading

\* The answers of a Clear.
LEMMA ClearsStep ==
    ASSUME Core, Growing, Clears, [Next]_vars
    PROVE  Clears'
<1>1. \A p : Tells(gen, tallyAt, p) => Tells(gen', tallyAt', p)  BY TellsOn
<1>2. CASE Clear
  <2>1. Kept(gen, seq, {})' /\ gen' = gen /\ Core'  BY <1>2, ClearStep
  <2>2. cleared' \in {cleared, cleared \cup {[gen |-> gen, seq |-> seq']}}  BY <1>2 DEF Clear
  <2> DEFINE d == [gen |-> gen, seq |-> seq']
  <2>3. gen' \in Nat \ {0} /\ seq' \in Nat  BY <2>1 DEF Core, Counted
  <2>4. Tells(gen', tallyAt', Empty(d))
    <3>1. Empty(d) = [gen |-> gen', seq |-> seq', tally |-> {}, ids |-> {}]  BY <2>1 DEF Empty
    <3>2. gen' \in 1..gen'  BY <2>3
    <3> QED  BY <2>1, <2>3, <3>1, <3>2 DEF Tells, Kept
  <2> HIDE DEF d
  <2>5. \A c \in cleared' : c \in cleared \/ c = d  BY <2>2 DEF d
  <2> QED  BY <1>1, <2>4, <2>5 DEF Clears
<1>3. CASE ~Clear
  <2>1. cleared' \subseteq cleared
    <3>1. CASE \E c \in cleared : ApplyClear(c)  BY <3>1 DEF ApplyClear
    <3>2. CASE Restart \/ Drop \/ Stream \/ Connect \/ Poll \/ Deliver \/ UNCHANGED vars
      BY <3>2 DEF Restart, Drop, Stream, Subscribe, EmitSnapshot, EmitHistory, Connect, Poll, Deliver, vars
    <3>3. CASE \E j \in Jobs : Create(j) \/ End(j) \/ Delete(j) \/ Prune(j) \/ EmitUpdate(j)
      BY <3>3 DEF Create, End, Delete, Prune, EmitUpdate
    <3>4. CASE \E r \in Reads : Reading(r) \/ FailRead(r)
      BY <3>4 DEF Reading, Answer, ApplyList, ApplyHistory, FailRead
    <3> QED  BY <1>3, <3>1, <3>2, <3>3, <3>4 DEF Next, Server
  <2> QED  BY <1>1, <2>1 DEF Clears
<1> QED  BY <1>2, <1>3

\* The store takes a payload, or none.
LEMMA ApplyStep ==
    ASSUME Core, Growing, Store, NEW p, Tells(gen', tallyAt', p),
           NEW R \in [Jobs -> {"none", "active", "ended"}], Apply(p, R)
    PROVE  Store'
<1>1. gen' \in Nat /\ gen \in Nat /\ gen <= gen'  BY DEF Growing, Core, Counted
<1>2. CASE IsStale(p)
  <2>1. rows' = R /\ UNCHANGED <<cTally, cSeq, cGen>>  BY <1>2 DEF Apply
  <2>2. cSeq >= 0 => Kept(cGen, cSeq, cTally)'  BY <2>1 DEF Store, Growing, Kept
  <2>3. cGen' \in 0..gen'  BY <1>1, <2>1 DEF Store
  <2> QED  BY <2>1, <2>2, <2>3 DEF Store
<1>3. CASE ~IsStale(p)
  <2>1. /\ rows' = [j \in Jobs |-> IF j \in p.ids THEN "none" ELSE R[j]]
        /\ cTally' = p.tally /\ cSeq' = p.seq /\ cGen' = p.gen
    BY <1>3 DEF Apply
  <2>2. rows' \in [Jobs -> {"none", "active", "ended"}]  BY <2>1
  <2>3. cTally' \subseteq Jobs /\ cSeq' \in Nat \cup {-1} /\ cGen' \in 0..gen' /\ Kept(cGen, cSeq, cTally)'
    BY <1>1, <2>1 DEF Tells, Kept
  <2> QED  BY <2>2, <2>3 DEF Store
<1> QED  BY <1>2, <1>3

\* New rows, and the same totals.
LEMMA RowsStep ==
    ASSUME Core, Growing, Store, rows' \in [Jobs -> {"none", "active", "ended"}],
           UNCHANGED <<cTally, cSeq, cGen>>
    PROVE  Store'
<1>1. gen' \in Nat /\ gen \in Nat /\ gen <= gen'  BY DEF Growing, Core, Counted
<1>2. cSeq >= 0 => Kept(cGen, cSeq, cTally)'  BY DEF Store, Growing, Kept
<1>3. cGen' \in 0..gen'  BY <1>1 DEF Store
<1> QED  BY <1>2, <1>3 DEF Store

LEMMA StoreStep ==
    ASSUME Core, Growing, Store, Sent, Refreshes, Clears, [Next]_vars
    PROVE  Store'
<1>0. (\A p : Tells(gen, tallyAt, p) => Tells(gen', tallyAt', p))
      /\ rows \in [Jobs -> {"none", "active", "ended"}]
  BY TellsOn DEF Store
<1>1. CASE Deliver
  <2> DEFINE f == Head(frames)
  <2>1. frames # <<>>  BY <1>1 DEF Deliver
  <2>2. f \in Frames /\ (f.kind = "history" => Tells(gen, tallyAt, f.pay))
    <3>1. f = frames[1] /\ 1 \in 1..Len(frames) /\ frames \in Seq(Frames)  BY <2>1 DEF Sent
    <3> QED  BY <3>1 DEF Sent
  <2>3. CASE f.kind = "job"
    <3>1. rows' = [rows EXCEPT ![f.id] = f.st] /\ UNCHANGED <<cTally, cSeq, cGen>>
      BY <1>1, <2>3 DEF Deliver
    <3>2. f.st \in {"active", "ended"}  BY <2>2, <2>3 DEF Frames
    <3> HIDE DEF f
    <3>3. rows' \in [Jobs -> {"none", "active", "ended"}]  BY <1>0, <3>1, <3>2
    <3> QED  BY <3>1, <3>3, RowsStep
  <2>4. CASE f.kind # "job"
    <3>1. f.kind = "history" /\ Apply(f.pay, rows)  BY <1>1, <2>4 DEF Deliver
    <3>2. Tells(gen', tallyAt', f.pay)  BY <1>0, <2>2, <3>1
    <3> HIDE DEF f
    <3> QED  BY <1>0, <3>1, <3>2, ApplyStep
  <2> QED  BY <2>3, <2>4
<1>2. CASE \E r \in Reads : ApplyList(r)
  <2>1. PICK r \in Reads : ApplyList(r)  BY <1>2
  <2>2. refresh[r].list \in [Jobs -> {"none", "active", "ended"}]
    BY <2>1 DEF ApplyList, Refreshes, Underway
  <2>3. rows' = [j \in Jobs |-> Merge(rows[j], refresh[r].list[j])] /\ UNCHANGED <<cTally, cSeq, cGen>>
    BY <2>1 DEF ApplyList
  <2>4. \A x, y \in {"none", "active", "ended"} : Merge(x, y) \in {"none", "active", "ended"}
    BY DEF Merge
  <2>5. rows' \in [Jobs -> {"none", "active", "ended"}]  BY <1>0, <2>2, <2>3, <2>4
  <2> QED  BY <2>3, <2>5, RowsStep
<1>3. CASE \E r \in Reads : ApplyHistory(r)
  <2>1. PICK r \in Reads : ApplyHistory(r)  BY <1>3
  <2>2. Tells(gen, tallyAt, refresh[r].pay)  BY <2>1 DEF ApplyHistory, Refreshes, Underway
  <2>3. Apply(refresh[r].pay, rows)  BY <2>1 DEF ApplyHistory
  <2>4. Tells(gen', tallyAt', refresh[r].pay)  BY <1>0, <2>2
  <2> QED  BY <1>0, <2>3, <2>4, ApplyStep
<1>4. CASE \E c \in cleared : ApplyClear(c)
  <2>1. PICK c \in cleared : ApplyClear(c)  BY <1>4
  <2> DEFINE R == [j \in Jobs |-> IF rows[j] = "ended" THEN "none" ELSE rows[j]]
  <2>2. Apply(Empty(c), R)  BY <2>1 DEF ApplyClear, Empty
  <2>3. R \in [Jobs -> {"none", "active", "ended"}]  BY <1>0
  <2> HIDE DEF R
  <2>4. Tells(gen', tallyAt', Empty(c))  BY <1>0 DEF Clears
  <2> QED  BY <2>2, <2>3, <2>4, ApplyStep
<1>5. CASE \/ Server \/ Drop \/ Stream \/ Connect \/ Poll \/ UNCHANGED vars
           \/ \E j \in Jobs : Prune(j) \/ EmitUpdate(j)
           \/ \E r \in Reads : Answer(r) \/ FailRead(r)
  <2>1. UNCHANGED storeVars
    <3>1. CASE Server  BY <3>1 DEF Server, Create, End, Delete, Clear, Restart
    <3>2. CASE Drop \/ Stream \/ Connect \/ Poll \/ UNCHANGED vars
      BY <3>2 DEF Drop, Stream, Subscribe, EmitSnapshot, EmitHistory, Connect, Poll, vars
    <3>3. CASE \E j \in Jobs : Prune(j) \/ EmitUpdate(j)  BY <3>3 DEF Prune, EmitUpdate
    <3>4. CASE \E r \in Reads : Answer(r) \/ FailRead(r)  BY <3>4 DEF Answer, FailRead
    <3> QED  BY <1>5, <3>1, <3>2, <3>3, <3>4
  <2>2. rows' = rows /\ UNCHANGED <<cTally, cSeq, cGen>>  BY <2>1 DEF storeVars
  <2> QED  BY <1>0, <2>2, RowsStep
<1> QED  BY <1>1, <1>2, <1>3, <1>4, <1>5 DEF Next, Reading

-----------------------------------------------------------------------------
LEMMA InitInv == Init => IInv
<1> SUFFICES ASSUME Init PROVE IInv  OBVIOUS
<1>1. Counted  BY Bounds DEF Init, Counted
<1>2. Logged  BY Bounds DEF Init, Logged
<1>3. Totals
  <2>1. DOMAIN tallyAt = {<<1, 0>>} /\ tallyAt[<<1, 0>>] = {}  BY DEF Init
  <2>2. gen = 1 /\ seq = 0 /\ tally = {}  BY DEF Init
  <2> QED  BY <2>1, <2>2 DEF Totals, Kept
<1>4. Streamed
  <2>1. stream = Closed /\ frames = <<>>  BY DEF Init
  <2>2. stream \in Streams /\ stream.news \subseteq stream.subs  BY <2>1 DEF Closed, Streams
  <2>3. Len(frames) = 0 /\ frames \in Seq(Frames) /\ 0 <= MaxFrames  BY <2>1, Bounds
  <2>4. \A n \in 1..Len(frames) : FALSE  BY <2>3
  <2> QED  BY <2>2, <2>3, <2>4 DEF Streamed
<1>5. Refreshes /\ Clears
  <2>1. Underway(gen, tallyAt, Idle)  BY IdleUnderway
  <2> QED  BY <2>1 DEF Init, Refreshes, Clears
<1>6. Store  BY DEF Init, Store
<1> QED  BY <1>1, <1>2, <1>3, <1>4, <1>5, <1>6 DEF IInv

LEMMA NextInv == IInv /\ [Next]_vars => IInv'
<1> SUFFICES ASSUME IInv, [Next]_vars PROVE IInv'  OBVIOUS
<1>1. Core /\ Open /\ Sent /\ Refreshes /\ Clears /\ Store
  BY DEF IInv, Core, Streamed, Open, Sent
<1>2. Core' /\ Growing  BY <1>1, CoreStep
<1>3. Open' /\ Sent'  BY <1>1, <1>2, StreamStep
<1>4. Refreshes'  BY <1>1, <1>2, RefreshStep
<1>5. Clears'  BY <1>1, <1>2, ClearsStep
<1>6. Store'  BY <1>1, <1>2, StoreStep
<1>7. Streamed'  BY <1>3 DEF Streamed, Open, Sent
<1> QED  BY <1>2, <1>4, <1>5, <1>6, <1>7 DEF IInv, Core

\* The log is the gapless tail of the evictions since the last reset, and
\* every payload on its way tells the tally of the moment that it names.
THEOREM HistoryKept == Spec => []IInv
<1> QED  BY InitInv, NextInv, PTL DEF Spec

\* get_history_overflow names every job evicted since a cursor, or says that it
\* cannot, for every cursor there ever was.
THEOREM CursorAlwaysHonest == Spec => []CursorInv
<1>1. ASSUME IInv PROVE TypeOK
  <2>1. Core /\ Streamed /\ Refreshes /\ Store  BY <1>1 DEF IInv, Core
  <2>2. \A i \in DOMAIN log : log[i].seq \in 1..seq
    <3>1. log \in Seq(Entries) /\ Len(log) \in Nat /\ Len(log) <= seq /\ seq \in Nat
      BY <2>1 DEF Core, Counted, Logged
    <3>2. ASSUME NEW i \in 1..Len(log) PROVE log[i].seq \in 1..seq
      <4>1. log[i].seq = seq - Len(log) + i  BY <2>1 DEF Core, Logged
      <4> QED  BY <3>1, <4>1
    <3> QED  BY <3>1, <3>2
  <2>3. gen \in 1..(MaxDisturbances + 1)  BY <2>1, Bounds DEF Core, Counted
  <2>4. stream.news \subseteq stream.subs /\ stream.cursor \in Nat /\ Len(frames) <= MaxFrames
    BY <2>1 DEF Streamed, Streams
  <2>5. \A r \in Reads : refresh[r].at \in {"idle", "list", "listed", "history", "answered"}
    BY <2>1 DEF Refreshes, Underway
  <2> QED  BY <2>1, <2>2, <2>3, <2>4, <2>5 DEF TypeOK, Core, Counted, Logged, Totals, Store
<1>2. ASSUME IInv, NEW c \in 0..seq, ~Expired(c)
      PROVE  EvictedSince(c) = {j \in Jobs : evictedAt[j] > c}
  <2>1. /\ log \in Seq(Entries) /\ Len(log) \in Nat /\ seq \in Nat /\ c \in Nat
        /\ \A i \in 1..Len(log) : log[i].seq = seq - Len(log) + i /\ evictedAt[log[i].id] = log[i].seq
        /\ \A j \in Jobs : evictedAt[j] > seq - Len(log) => \E i \in 1..Len(log) : log[i].id = j
        /\ log = <<>> => resetSeq = seq
        /\ evictedAt \in [Jobs -> 0..seq] /\ resetSeq \in 0..seq
    BY <1>2 DEF IInv, Counted, Logged
  <2>2. \A i \in 1..Len(log) : log[i].id \in Jobs /\ i \in DOMAIN log
    <3>1. \A i \in 1..Len(log) : log[i] \in Entries /\ i \in DOMAIN log  BY <2>1
    <3> QED  BY <3>1 DEF Entries
  <2>3. c >= seq - Len(log)
    <3>1. CASE log = <<>>
      <4>1. ~(c < resetSeq) /\ resetSeq = seq /\ Len(log) = 0  BY <1>2, <2>1, <3>1 DEF Expired
      <4> QED  BY <2>1, <4>1
    <3>2. CASE log # <<>>
      <4>1. 1 \in 1..Len(log)  BY <2>1, <3>2
      <4>2. log[1].seq = seq - Len(log) + 1  BY <2>1, <4>1
      <4>3. ~(c < log[1].seq - 1)  BY <1>2, <2>1, <3>2 DEF Expired
      <4> QED  BY <2>1, <4>2, <4>3
    <3> QED  BY <3>1, <3>2
  <2>4. ASSUME NEW j \in EvictedSince(c) PROVE j \in Jobs /\ evictedAt[j] > c
    <3>1. PICK i \in DOMAIN log : log[i].seq > c /\ j = log[i].id  BY DEF EvictedSince
    <3>2. i \in 1..Len(log)  BY <2>1
    <3> QED  BY <2>1, <2>2, <3>1, <3>2
  <2>5. ASSUME NEW j \in Jobs, evictedAt[j] > c PROVE j \in EvictedSince(c)
    <3>0. evictedAt[j] \in Nat  BY <2>1
    <3>1. evictedAt[j] > seq - Len(log)  BY <2>1, <2>3, <2>5, <3>0
    <3>2. PICK i \in 1..Len(log) : log[i].id = j  BY <2>1, <3>1
    <3>3. log[i].seq > c /\ c >= 0 /\ i \in DOMAIN log  BY <2>1, <2>2, <2>5, <3>2
    <3> QED  BY <3>2, <3>3 DEF EvictedSince
  <2> QED  BY <2>4, <2>5
<1>3. IInv => CursorInv  BY <1>1, <1>2 DEF CursorInv, CursorHonest
<1> QED  BY <1>3, HistoryKept, PTL

\* The totals in the store are those the server had at the moment the store
\* claims, of the process it claims.
THEOREM TotalsOfTheirMoment == Spec => []TallyAtCursor
<1>1. IInv => TallyAtCursor  BY DEF IInv, Store, Kept, TallyAtCursor
<1> QED  BY <1>1, HistoryKept, PTL

\* Whatever overtakes what, the store never goes back to an earlier moment of the
\* same server process.
LEMMA ApplyForward ==
    ASSUME Store, NEW p, p.seq \in Nat, NEW R, Apply(p, R)
    PROVE  cGen' = cGen => cSeq' >= cSeq
<1>1. cSeq \in Int  BY DEF Store
<1>2. CASE IsStale(p)  BY <1>1, <1>2 DEF Apply
<1>3. CASE ~IsStale(p)
  <2>1. cSeq' = p.seq /\ cGen' = p.gen  BY <1>3 DEF Apply
  <2> QED  BY <1>1, <1>3, <2>1 DEF IsStale, SeqIn
<1> QED  BY <1>2, <1>3

THEOREM TotalsForward == Spec => TotalsNeverGoBack
<1> DEFINE Forward == cGen' = cGen => cSeq' >= cSeq
<1>1. ASSUME IInv, [Next]_vars PROVE Forward
  <2>0. Store /\ Sent /\ Refreshes /\ Clears /\ cSeq \in Int
    BY <1>1 DEF IInv, Streamed, Sent, Store
  <2>1. CASE Deliver
    <3>1. CASE Head(frames).kind = "job"
      <4>1. UNCHANGED <<cSeq, cGen>>  BY <2>1, <3>1 DEF Deliver
      <4> QED  BY <2>0, <4>1
    <3>2. CASE Head(frames).kind # "job"
      <4>1. frames # <<>> /\ Head(frames).kind = "history" /\ Apply(Head(frames).pay, rows)
        BY <2>1, <3>2 DEF Deliver
      <4>2. Head(frames) = frames[1] /\ 1 \in 1..Len(frames)  BY <2>0, <4>1 DEF Sent
      <4>3. Head(frames).pay.seq \in Nat  BY <2>0, <4>1, <4>2 DEF Sent, Tells
      <4> QED  BY <2>0, <4>1, <4>3, ApplyForward
    <3> QED  BY <3>1, <3>2
  <2>2. CASE \E r \in Reads : ApplyHistory(r)
    <3>1. PICK r \in Reads : ApplyHistory(r)  BY <2>2
    <3>2. Apply(refresh[r].pay, rows) /\ refresh[r].at = "answered"  BY <3>1 DEF ApplyHistory
    <3>3. refresh[r].pay.seq \in Nat  BY <2>0, <3>2 DEF Refreshes, Underway, Tells
    <3> QED  BY <2>0, <3>2, <3>3, ApplyForward
  <2>3. CASE \E c \in cleared : ApplyClear(c)
    <3>1. PICK c \in cleared : ApplyClear(c)  BY <2>3
    <3>2. PICK R : Apply(Empty(c), R)  BY <3>1 DEF ApplyClear, Empty
    <3>3. Empty(c).seq \in Nat  BY <2>0 DEF Clears, Tells
    <3> QED  BY <2>0, <3>2, <3>3, ApplyForward
  <2>4. CASE UNCHANGED <<cSeq, cGen>>  BY <2>0, <2>4
  <2>5. CASE \/ Server \/ Drop \/ Stream \/ Connect \/ Poll \/ UNCHANGED vars
             \/ \E j \in Jobs : Prune(j) \/ EmitUpdate(j)
             \/ \E r \in Reads : Answer(r) \/ ApplyList(r) \/ FailRead(r)
    <3>1. UNCHANGED <<cSeq, cGen>>
      <4>1. CASE Server  BY <4>1 DEF Server, Create, End, Delete, Clear, Restart, storeVars
      <4>2. CASE Drop \/ Stream \/ Connect \/ Poll \/ UNCHANGED vars
        BY <4>2 DEF Drop, Stream, Subscribe, EmitSnapshot, EmitHistory, Connect, Poll, vars, storeVars
      <4>3. CASE \E j \in Jobs : Prune(j) \/ EmitUpdate(j)  BY <4>3 DEF Prune, EmitUpdate, storeVars
      <4>4. CASE \E r \in Reads : Answer(r) \/ ApplyList(r) \/ FailRead(r)
        BY <4>4 DEF Answer, ApplyList, FailRead, storeVars
      <4> QED  BY <2>5, <4>1, <4>2, <4>3, <4>4
    <3> QED  BY <2>4, <3>1
  <2> QED  BY <1>1, <2>1, <2>2, <2>3, <2>5 DEF Next, Reading
<1>2. IInv /\ [Next]_vars => [Forward]_vars  BY <1>1
<1> QED  BY <1>2, HistoryKept, PTL DEF Spec, TotalsNeverGoBack

-----------------------------------------------------------------------------
\* The match cache: the inductive invariant.

\* What the store and the matchers hold.
VerdictNames == {"none", "miss", "capped", "dat", "remote", "error", "absent", "stuck", "down"}
Verdicts == [v : VerdictNames, cands : SUBSET Hashes, stamp : BOOLEAN, asked : SUBSET Hashes,
             hash : Hashes \cup {<<>>}, dat : Dats \cup {0}]
WriteRecs == [p : Paths, verdict : Verdicts, seen : Verdicts, clear : BOOLEAN]
HashStates   == [pc : {"hash"}, p : Paths, cands : SUBSET Hashes]
RemoteStates == [pc : {"send", "sent"}, p : Paths, cands : SUBSET Hashes, capped : BOOLEAN,
                 asked : SUBSET Hashes]
DoneStates   == [pc : {"done"}, p : Paths, verdict : Verdicts]
CommitStates == [pc : {"commit"}, writes : SUBSET WriteRecs]
DropStates   == [pc : {"drop"}, p : Paths, seen : Verdicts]
ChangeStates == [pc : {"idle"}] \cup [pc : {"staging"}, old : SUBSET Dats]
           \cup [pc : {"listed", "imported", "cleared"}, paths : SUBSET Paths, old : SUBSET Dats]
           \cup [pc : {"schedule"}, paths : SUBSET Paths]
JobStates  == [on : BOOLEAN, todo : SUBSET Paths, local : BOOLEAN, stop : {"no", "cancel", "crash"}]
ScanStates == [on : BOOLEAN, phase : {"list", "read", "match"}, force : BOOLEAN, todo : SUBSET Paths,
          cached : SUBSET (Paths \X Verdicts), cancelled : BOOLEAN, failed : BOOLEAN]
BatchStates == [on : BOOLEAN, todo : SUBSET Paths, held : SUBSET (Paths \X Verdicts)]

\* The evidence of a match: one hash of each kind at most, and none but the
\* first version's while the file is still that.  (f is `file'.)
OneEach(hs)  == \A h, g \in hs : h[2] = g[2] => h = g
FirstOnly(f, p, hs) == f[p] = 1 => \A h \in hs : h[1] = 1
Evidence(f, p, hs)  == OneEach(hs) /\ FirstOnly(f, p, hs)

\* What a verdict says follows from its evidence.
Sound(f, p, v) ==
    /\ Matched(v) <=> v.hash # <<>>
    /\ v.stamp => v.asked = v.cands /\ v.cands # {}
    /\ v.v = "remote" => v.hash \in v.cands /\ v.dat = 0
    /\ FirstOnly(f, p, v.cands)
    /\ Matched(v) => FirstOnly(f, p, {v.hash})
    /\ v.v = "stuck" => v.cands = {}
    /\ v.v = "dat" => ~v.stamp

\* A verdict on its way to a row was not covered when its row was read, and
\* takes no name from a file that nobody touched.
Decided(f, w) ==
    /\ Sound(f, w.p, w.verdict) /\ Cacheable(w.verdict)
    /\ ByRemote(w.verdict) => w.clear
    /\ f[w.p] = 1 /\ RemoteHit(w.seen) => Matched(w.verdict) \/ w.verdict.stamp

\* A match, wherever it stands.
Fine(f, r) ==
    \/ r = NoMatch
    \/ r \in HashStates /\ Evidence(f, r.p, r.cands) /\ \A h \in r.cands : h[2] = "embedded"
    \/ /\ r \in RemoteStates /\ Evidence(f, r.p, r.cands) /\ r.asked \subseteq r.cands
       /\ r.pc = "send" => r.asked # r.cands
       /\ r.pc = "sent" => r.asked # {}
    \/ r \in DoneStates /\ Sound(f, r.p, r.verdict)
    \/ r \in CommitStates /\ \A w \in r.writes : Decided(f, w)
    \/ r \in DropStates /\ f[r.p] # 1

\* The tables: versions only grow, and the rows and the index name DATs there are.
Tables ==
    /\ events \in Nat /\ events <= MaxEvents
    /\ file \in [Paths -> Nat] /\ \A p \in Paths : file[p] <= events + 2
    /\ nextDat \in 1..(MaxDats + 1) /\ dats \subseteq Dats /\ index \in [Hashes -> dats \cup {0}]
    /\ row \in [Paths -> Verdicts] /\ lost \in [Paths -> {"no", "raced", "stopped"}]
    /\ \A p \in Paths : /\ Sound(file, p, row[p]) /\ row[p].dat \in dats \cup {0}
                        /\ row[p].v \in {"none", "miss", "dat", "remote"}

\* The tasks: nothing waits for a job that does not run.
JobWell ==
    /\ job \in JobStates /\ deferred \subseteq Paths /\ drains \subseteq SUBSET Paths
    /\ ~job.on => job.todo = {} /\ deferred = {}
    /\ m["job"].pc # "idle" => job.on
BatchWell ==
    /\ batch \in BatchStates
    /\ \A u \in batch.held : Sound(file, u[1], u[2]) /\ Cacheable(u[2])
ChangeWell == change \in [Changers -> ChangeStates] /\ change["upload"].pc # "imported"
Tasks == JobWell /\ scan \in ScanStates /\ BatchWell /\ ChangeWell

Matching == DOMAIN m = Matchers /\ \A x \in Matchers : Fine(file, m[x])

\* A row that owes a rematch, and one that is to come apart from the match under way.
Owed(p) == RemoteHit(row[p]) /\ index[row[p].hash] # 0 /\ lost[p] = "no"
Elsewhere(p) ==
    \/ p \in deferred \cup job.todo \cup (UNION drains)
    \/ \E c \in Changers : ChangeWill(c, p)

\* The DATs came to know the evidence of a match after it had looked.
Overtaken(r) ==
    \/ r.pc \in {"send", "sent"} /\ Covered(r.cands)
    \/ r.pc = "done" /\ r.verdict.v # "dat" /\ Covered(r.verdict.cands)

Yielding ==
    /\ RemoteYields
    /\ Overtaken(m["job"]) /\ Owed(m["job"].p) => Elsewhere(m["job"].p)

CacheIInv == Tables /\ Tasks /\ Matching /\ Yielding
-----------------------------------------------------------------------------
\* Verdicts.
LEMMA NotAHash == <<>> \notin Hashes /\ \A h \in Hashes : h[2] \in {"embedded", "file"}
  BY DEF Hashes
LEMMA VerdictIs ==
    ASSUME NEW v \in VerdictNames, NEW hs \in SUBSET Hashes
    PROVE  /\ Verdict(v, hs) \in Verdicts
           /\ Verdict(v, hs).v = v /\ Verdict(v, hs).cands = hs /\ ~Verdict(v, hs).stamp
           /\ Verdict(v, hs).hash = <<>> /\ Verdict(v, hs).dat = 0
  BY DEF Verdict, Verdicts
LEMMA HitIs ==
    ASSUME NEW p, NEW h \in Hashes, index[h] \in Dats \cup {0}
    PROVE  /\ Hit(p, h) \in Verdicts
           /\ Hit(p, h).v = "dat" /\ Hit(p, h).cands = {} /\ ~Hit(p, h).stamp
           /\ Hit(p, h).hash = h
  BY DEF Hit, Verdict, Verdicts, VerdictNames
LEMMA RemoteIs ==
    ASSUME NEW hs \in SUBSET Hashes, NEW h \in Hashes
    PROVE  /\ Remote(hs, h) \in Verdicts
           /\ Remote(hs, h).v = "remote" /\ Remote(hs, h).cands = hs /\ ~Remote(hs, h).stamp
           /\ Remote(hs, h).hash = h /\ Remote(hs, h).dat = 0
  BY DEF Remote, Verdict, Verdicts, VerdictNames
LEMMA StampedIs ==
    ASSUME NEW hs \in SUBSET Hashes, NEW sent \in SUBSET Hashes
    PROVE  /\ Stamped(hs, sent) \in Verdicts
           /\ Stamped(hs, sent).v = "miss" /\ Stamped(hs, sent).cands = hs
           /\ Stamped(hs, sent).asked = sent /\ Stamped(hs, sent).hash = <<>>
  BY DEF Stamped, Verdict, Verdicts, VerdictNames
LEMMA LinkedIs ==
    ASSUME dats \subseteq Dats, NEW v \in Verdicts
    PROVE  /\ Linked(v) \in Verdicts
           /\ Linked(v).v = v.v /\ Linked(v).cands = v.cands /\ Linked(v).stamp = v.stamp
           /\ Linked(v).asked = v.asked /\ Linked(v).hash = v.hash
           /\ v.dat = 0 => Linked(v).dat = 0
  BY DEF Linked, Verdicts
LEMMA PlainSound ==
    ASSUME NEW v \in VerdictNames, v \notin {"dat", "remote"}, NEW hs \in SUBSET Hashes, NEW f, NEW p,
           FirstOnly(f, p, hs), v = "stuck" => hs = {}
    PROVE  Verdict(v, hs) \in Verdicts /\ Sound(f, p, Verdict(v, hs))
  BY VerdictIs DEF Sound, Matched
LEMMA EmptySound ==
    ASSUME NEW v \in VerdictNames, v \notin {"dat", "remote"}, NEW f, NEW p
    PROVE  Verdict(v, {}) \in Verdicts /\ Sound(f, p, Verdict(v, {}))
  BY PlainSound DEF FirstOnly
LEMMA HitSound ==
    ASSUME NEW f, NEW p, NEW h \in Hashes, index[h] \in Dats \cup {0}, FirstOnly(f, p, {h})
    PROVE  Hit(p, h) \in Verdicts /\ Sound(f, p, Hit(p, h))
  BY HitIs, NotAHash DEF Sound, Matched, FirstOnly
LEMMA RemoteSound ==
    ASSUME NEW f, NEW p, NEW hs \in SUBSET Hashes, NEW h \in hs, FirstOnly(f, p, hs)
    PROVE  Remote(hs, h) \in Verdicts /\ Sound(f, p, Remote(hs, h))
  BY RemoteIs, NotAHash DEF Sound, Matched, FirstOnly
LEMMA StampedSound ==
    ASSUME NEW f, NEW p, NEW hs \in SUBSET Hashes, hs # {}, FirstOnly(f, p, hs)
    PROVE  Stamped(hs, hs) \in Verdicts /\ Sound(f, p, Stamped(hs, hs))
  BY StampedIs DEF Sound, Matched
LEMMA LinkedSound ==
    ASSUME dats \subseteq Dats, NEW v \in Verdicts, NEW f, NEW p, Sound(f, p, v)
    PROVE  Linked(v) \in Verdicts /\ Sound(f, p, Linked(v))
  BY LinkedIs DEF Sound, Matched

\* One hash of each kind: there is a first and a last one.
LEMMA FirstIn ==
    ASSUME NEW hs \in SUBSET Hashes, OneEach(hs), hs # {}
    PROVE  First(hs) \in hs /\ LastAsked(hs) \in hs
<1>1. PICK g \in hs : TRUE
  OBVIOUS
<1>2. \E h \in hs : h[2] = "file" => hs = {h}
  <2>1. CASE \E h \in hs : h[2] # "file"
    BY <2>1
  <2>2. CASE \A h \in hs : h[2] = "file"
    BY <1>1, <2>2 DEF OneEach
  <2> QED
    BY <2>1, <2>2
<1>3. \E h \in hs : h[2] = "embedded" => hs = {h}
  <2>1. CASE \E h \in hs : h[2] # "embedded"
    BY <2>1
  <2>2. CASE \A h \in hs : h[2] = "embedded"
    BY <1>1, <2>2 DEF OneEach
  <2> QED
    BY <2>1, <2>2
<1> QED
  BY <1>2, <1>3 DEF First, LastAsked
LEMMA KnownIn ==
    ASSUME NEW hs \in SUBSET Hashes, OneEach(hs), Covered(hs)
    PROVE  Known(hs) \in hs
<1>1. {h \in hs : index[h] # 0} \in SUBSET Hashes /\ {h \in hs : index[h] # 0} # {}
      /\ OneEach({h \in hs : index[h] # 0})
  BY DEF OneEach, Covered
<1>2. First({h \in hs : index[h] # 0}) \in {h \in hs : index[h] # 0}
  BY <1>1, FirstIn
<1> QED
  BY <1>2 DEF Known
-----------------------------------------------------------------------------
\* Matches.
LEMMA IdleIs == NoMatch.pc = "idle" /\ \A f : Fine(f, NoMatch)
  BY DEF NoMatch, Fine
LEMMA AtHash ==
    ASSUME NEW f, NEW r, Fine(f, r), r.pc = "hash"
    PROVE  r \in HashStates /\ Evidence(f, r.p, r.cands) /\ \A h \in r.cands : h[2] = "embedded"
  BY DEF Fine, NoMatch, HashStates, RemoteStates, DoneStates, CommitStates, DropStates
LEMMA AtRemote ==
    ASSUME NEW f, NEW r, Fine(f, r), r.pc \in {"send", "sent"}
    PROVE  /\ r \in RemoteStates /\ Evidence(f, r.p, r.cands) /\ r.asked \subseteq r.cands
           /\ r.pc = "send" => r.asked # r.cands
           /\ r.pc = "sent" => r.asked # {}
  BY DEF Fine, NoMatch, HashStates, RemoteStates, DoneStates, CommitStates, DropStates
LEMMA AtDone ==
    ASSUME NEW f, NEW r, Fine(f, r), r.pc = "done"
    PROVE  r \in DoneStates /\ r.p \in Paths /\ r.verdict \in Verdicts /\ Sound(f, r.p, r.verdict)
  BY DEF Fine, NoMatch, HashStates, RemoteStates, DoneStates, CommitStates, DropStates
LEMMA AtCommit ==
    ASSUME NEW f, NEW r, Fine(f, r), r.pc = "commit"
    PROVE  r.writes \subseteq WriteRecs /\ \A w \in r.writes : Decided(f, w)
  BY DEF Fine, NoMatch, HashStates, RemoteStates, DoneStates, CommitStates, DropStates
LEMMA AtDrop ==
    ASSUME NEW f, NEW r, Fine(f, r), r.pc = "drop"
    PROVE  r.p \in Paths /\ f[r.p] # 1
  BY DEF Fine, NoMatch, HashStates, RemoteStates, DoneStates, CommitStates, DropStates
LEMMA Stages ==
    ASSUME NEW f, NEW r, Fine(f, r)
    PROVE  r.pc \in {"idle", "hash", "send", "sent", "done", "commit", "drop"}
  BY DEF Fine, NoMatch, HashStates, RemoteStates, DoneStates, CommitStates, DropStates

LEMMA DoneFine ==
    ASSUME NEW f, NEW p \in Paths, NEW v \in Verdicts, Sound(f, p, v)
    PROVE  Fine(f, Done(p, v)) /\ Done(p, v).pc = "done" /\ Done(p, v).p = p /\ Done(p, v).verdict = v
<1>1. Done(p, v) \in DoneStates /\ Done(p, v).pc = "done" /\ Done(p, v).p = p /\ Done(p, v).verdict = v
  BY DEF Done, DoneStates
<1> QED
  BY <1>1 DEF Fine
LEMMA HashingFine ==
    ASSUME NEW f, NEW p \in Paths, NEW hs \in SUBSET Hashes, Evidence(f, p, hs),
           \A h \in hs : h[2] = "embedded"
    PROVE  Fine(f, Hashing(p, hs)) /\ Hashing(p, hs).pc = "hash" /\ Hashing(p, hs).p = p
<1>1. Hashing(p, hs) \in HashStates /\ Hashing(p, hs).pc = "hash" /\ Hashing(p, hs).p = p
      /\ Hashing(p, hs).cands = hs
  BY DEF Hashing, HashStates
<1> QED
  BY <1>1 DEF Fine

\* A match that goes on: where it may be, and that the DATs do not know its
\* evidence now.
Goes(r, p) ==
    /\ Fine(file, r) /\ r.p = p
    /\ r.pc \in {"hash", "send", "done"} /\ ~Overtaken(r)
LEMMA EmptyGoes ==
    ASSUME NEW p \in Paths, NEW v \in VerdictNames, v \notin {"dat", "remote"}
    PROVE  Goes(Done(p, Verdict(v, {})), p)
<1>1. Verdict(v, {}) \in Verdicts /\ Sound(file, p, Verdict(v, {})) /\ Verdict(v, {}).cands = {}
  BY EmptySound, VerdictIs
<1>2. ~Covered(Verdict(v, {}).cands)
  BY <1>1 DEF Covered
<1> QED
  BY <1>1, <1>2, DoneFine DEF Goes, Overtaken
LEMMA AskingGoes ==
    ASSUME Tables, NEW x, NEW p \in Paths, NEW hs \in SUBSET Hashes, Evidence(file, p, hs),
           NEW capped \in BOOLEAN
    PROVE  Goes(Asking(x, p, hs, capped), p)
<1> DEFINE r == Asking(x, p, hs, capped)
<1>1. CASE Covered(hs)
  <2>1. Known(hs) \in hs
    BY <1>1, KnownIn DEF Evidence
  <2>2. FirstOnly(file, p, {Known(hs)}) /\ Known(hs) \in Hashes /\ index[Known(hs)] \in Dats \cup {0}
    BY <2>1 DEF Evidence, FirstOnly, Tables
  <2>3. Hit(p, Known(hs)) \in Verdicts /\ Sound(file, p, Hit(p, Known(hs)))
        /\ Hit(p, Known(hs)).v = "dat"
    BY <2>2, HitSound, HitIs
  <2>4. r = Done(p, Hit(p, Known(hs)))
    BY <1>1 DEF Asking
  <2> QED
    BY <2>3, <2>4, DoneFine DEF Goes, Overtaken
<1>2. CASE ~Covered(hs) /\ (hs = {} \/ LocalOnly(x))
  <2> DEFINE v == IF capped THEN "capped" ELSE "miss"
  <2>1. r = Done(p, Verdict(v, hs)) /\ v \in VerdictNames
        /\ v \notin {"dat", "remote", "stuck"}
    BY <1>2 DEF Asking, VerdictNames
  <2> HIDE DEF v
  <2>2. Verdict(v, hs) \in Verdicts /\ Sound(file, p, Verdict(v, hs)) /\ Verdict(v, hs).cands = hs
    BY <2>1, PlainSound, VerdictIs DEF Evidence
  <2> QED
    BY <1>2, <2>1, <2>2, DoneFine DEF Goes, Overtaken
<1>3. CASE ~Covered(hs) /\ ~(hs = {} \/ LocalOnly(x))
  <2>1. r = [pc |-> "send", p |-> p, cands |-> hs, capped |-> capped, asked |-> {}]
    BY <1>3 DEF Asking
  <2>2. r \in RemoteStates /\ r.pc = "send" /\ r.p = p /\ r.cands = hs /\ r.asked = {}
    BY <2>1 DEF RemoteStates
  <2> HIDE DEF r
  <2>3. Fine(file, r)
    BY <1>3, <2>2 DEF Fine
  <2>4. ~Overtaken(r)
    BY <1>3, <2>2 DEF Overtaken
  <2> QED
    BY <2>2, <2>3, <2>4 DEF Goes, r
<1> QED
  BY <1>1, <1>2, <1>3
LEMMA VersionIs ==
    ASSUME Tables, NEW p \in Paths, file[p] # 0
    PROVE  \A k \in {"embedded", "file"} : <<file[p], k>> \in Hashes
<1>1. file[p] \in Nat /\ file[p] <= events + 2 /\ events \in Nat /\ events <= MaxEvents /\ MaxEvents \in Nat
  BY MatchCacheAssumption DEF Tables
<1>2. file[p] \in 1..(MaxEvents + 2)
  BY <1>1
<1> QED
  BY <1>2 DEF Hashes, Versions
LEMMA EmbeddedGoes ==
    ASSUME Tables, NEW x, NEW p \in Paths, file[p] # 0
    PROVE  Goes(Embedded(x, p), p)
<1> DEFINE e == IF "embedded" \in Kinds[p] THEN {<<file[p], "embedded">>} ELSE {}
<1>1. e \in SUBSET Hashes
  BY VersionIs
<1>2. Evidence(file, p, e) /\ \A h \in e : h[2] = "embedded"
  BY DEF Evidence, OneEach, FirstOnly
<1>3. Embedded(x, p) = Asking(x, p, e, FALSE) \/ Embedded(x, p) = Hashing(p, e)
  BY DEF Embedded
<1> HIDE DEF e
<1>4. Goes(Asking(x, p, e, FALSE), p)
  BY <1>1, <1>2, AskingGoes
<1>5. Goes(Hashing(p, e), p)
  BY <1>1, <1>2, HashingFine DEF Goes, Overtaken
<1> QED
  BY <1>3, <1>4, <1>5
LEMMA OpenGoes ==
    ASSUME Tables, NEW x \in Matchers, NEW p \in Paths, OpenFile(x, p)
    PROVE  \E r : m' = [m EXCEPT ![x] = r] /\ Goes(r, p)
<1>1. CASE file[p] = 0 /\ (x = "scan" => Available)
  <2> DEFINE v == IF x = "scan" THEN "error" ELSE "absent"
  <2>1. m' = [m EXCEPT ![x] = Done(p, Verdict(v, {}))] /\ v \in VerdictNames /\ v \notin {"dat", "remote"}
    BY <1>1 DEF OpenFile, VerdictNames
  <2> HIDE DEF v
  <2> QED
    BY <2>1, EmptyGoes
<1>2. CASE m' = [m EXCEPT ![x] = Done(p, Verdict("miss", {}))]
  BY <1>2, EmptyGoes DEF VerdictNames
<1>3. CASE file[p] # 0 /\ m' = [m EXCEPT ![x] = Embedded(x, p)]
  BY <1>3, EmbeddedGoes
<1>4. CASE \E v \in {"error", "stuck"} : m' = [m EXCEPT ![x] = Done(p, Verdict(v, {}))]
  BY <1>4, EmptyGoes DEF VerdictNames
<1>5. CASE m' = [m EXCEPT ![x] = Hashing(p, {})]
  <2>1. Evidence(file, p, {})
    BY DEF Evidence, OneEach, FirstOnly
  <2> QED
    BY <1>5, <2>1, HashingFine DEF Goes, Overtaken
<1> QED
  BY <1>1, <1>2, <1>3, <1>4, <1>5 DEF OpenFile
LEMMA HashGoes ==
    ASSUME Tables, NEW x \in Matchers, Fine(file, m[x]), HashFile(x)
    PROVE  \E r : m' = [m EXCEPT ![x] = r] /\ Goes(r, m[x].p)
<1> DEFINE p == m[x].p
<1>1. m[x].pc = "hash" /\ p \in Paths /\ m[x].cands \in SUBSET Hashes /\ Evidence(file, p, m[x].cands)
      /\ \A h \in m[x].cands : h[2] = "embedded"
  BY AtHash DEF HashFile, HashStates
<1>2. CASE file[p] # 0 /\ m' = [m EXCEPT ![x] = Asking(x, p, m[x].cands \cup {<<file[p], "file">>}, FALSE)]
  <2> DEFINE hs == m[x].cands \cup {<<file[p], "file">>}
  <2>1. hs \in SUBSET Hashes
    BY <1>1, <1>2, VersionIs
  <2>2. Evidence(file, p, hs)
    BY <1>1 DEF Evidence, OneEach, FirstOnly
  <2> HIDE DEF hs
  <2>3. Goes(Asking(x, p, hs, FALSE), p)
    BY <1>1, <2>1, <2>2, AskingGoes
  <2> QED
    BY <1>2, <2>3 DEF hs
<1>3. CASE m' = [m EXCEPT ![x] = Asking(x, p, m[x].cands, TRUE)]
  BY <1>1, <1>3, AskingGoes
<1>4. CASE m' = [m EXCEPT ![x] = Done(p, Verdict("error", {}))]
  BY <1>1, <1>4, EmptyGoes DEF VerdictNames
<1> QED
  BY <1>2, <1>3, <1>4 DEF HashFile
\* One question put to the server, or the end of asking.
LEMMA GiveUpIs ==
    ASSUME NEW x, Fine(file, m[x]), m[x].pc \in {"send", "sent"}
    PROVE  /\ Fine(file, GiveUp(x)) /\ GiveUp(x).pc = "done" /\ GiveUp(x).p = m[x].p
           /\ Overtaken(GiveUp(x)) => Overtaken(m[x])
<1>1. m[x].p \in Paths /\ m[x].cands \in SUBSET Hashes /\ FirstOnly(file, m[x].p, m[x].cands)
  BY AtRemote DEF RemoteStates, Evidence
<1>2. \E v \in {"miss", "capped"} : GiveUp(x) = Done(m[x].p, Verdict(v, m[x].cands))
  BY DEF GiveUp, Ended
<1>3. PICK v \in {"miss", "capped"} : GiveUp(x) = Done(m[x].p, Verdict(v, m[x].cands))
  BY <1>2
<1>4. v \in VerdictNames /\ v \notin {"dat", "remote"}
  BY DEF VerdictNames
<1>5. Verdict(v, m[x].cands) \in Verdicts /\ Sound(file, m[x].p, Verdict(v, m[x].cands))
      /\ Verdict(v, m[x].cands).cands = m[x].cands
  BY <1>1, <1>4, PlainSound, VerdictIs
<1> QED
  BY <1>1, <1>3, <1>5, DoneFine DEF Overtaken
LEMMA PutIs ==
    ASSUME DOMAIN m = Matchers, NEW x \in Matchers, Fine(file, m[x]), m[x].pc = "send",
           Put(x, First(m[x].cands \ m[x].asked))
    PROVE  \E r : /\ m' = [m EXCEPT ![x] = r] /\ Fine(file, r) /\ r.pc = "sent" /\ r.p = m[x].p
                  /\ Overtaken(r) => Overtaken(m[x])
<1> DEFINE g == First(m[x].cands \ m[x].asked)
           r == [m[x] EXCEPT !.pc = "sent", !.asked = m[x].asked \cup {g}]
<1>1. m[x] \in RemoteStates /\ Evidence(file, m[x].p, m[x].cands) /\ m[x].asked \subseteq m[x].cands
      /\ m[x].asked # m[x].cands
  BY AtRemote
<1>2. m[x].cands \ m[x].asked # {} /\ m[x].cands \ m[x].asked \in SUBSET Hashes
      /\ OneEach(m[x].cands \ m[x].asked)
  BY <1>1 DEF RemoteStates, Evidence, OneEach
<1>3. g \in m[x].cands \ m[x].asked
  BY <1>2, FirstIn
<1> HIDE DEF g
<1>4. r \in RemoteStates /\ r.pc = "sent" /\ r.p = m[x].p /\ r.cands = m[x].cands
      /\ r.asked = m[x].asked \cup {g}
  BY <1>1, <1>3 DEF RemoteStates
<1>5. m' = [m EXCEPT ![x] = r]
  BY DEF Put, g
<1> HIDE DEF r
<1>6. Fine(file, r)
  BY <1>1, <1>3, <1>4 DEF Fine
<1>7. Overtaken(r) => Overtaken(m[x])
  BY <1>4 DEF Overtaken
<1> QED
  BY <1>4, <1>5, <1>6, <1>7
LEMMA SendGoes ==
    ASSUME DOMAIN m = Matchers, NEW x \in Matchers, Fine(file, m[x]), Send(x)
    PROVE  \E r : /\ m' = [m EXCEPT ![x] = r] /\ Fine(file, r) /\ r.p = m[x].p
                  /\ r.pc \in {"sent", "done"} /\ (r.pc = "sent" => ~Stopped(x))
                  /\ Overtaken(r) => Overtaken(m[x])
<1>1. CASE Stopped(x) /\ m' = [m EXCEPT ![x] = GiveUp(x)]
  BY <1>1, GiveUpIs DEF Send
<1>2. CASE ~Stopped(x) /\ Put(x, First(m[x].cands \ m[x].asked))
  BY <1>2, PutIs DEF Send
<1> QED
  BY <1>1, <1>2 DEF Send
LEMMA LocallyIs ==
    ASSUME Tables, NEW x, Fine(file, m[x]), m[x].pc = "sent",
           NEW v \in Verdicts, Sound(file, m[x].p, v), v.cands = m[x].cands \/ Covered(m[x].cands)
    PROVE  Goes(Locally(x, v), m[x].p)
<1> DEFINE p  == m[x].p
           hs == m[x].cands
<1>1. p \in Paths /\ hs \in SUBSET Hashes /\ OneEach(hs) /\ FirstOnly(file, p, hs)
  BY AtRemote DEF RemoteStates, Evidence
<1>2. CASE Covered(hs)
  <2>1. Known(hs) \in hs
    BY <1>1, <1>2, KnownIn
  <2>2. FirstOnly(file, p, {Known(hs)}) /\ Known(hs) \in Hashes /\ index[Known(hs)] \in Dats \cup {0}
    BY <1>1, <2>1 DEF FirstOnly, Tables
  <2>3. Hit(p, Known(hs)) \in Verdicts /\ Sound(file, p, Hit(p, Known(hs)))
        /\ Hit(p, Known(hs)).v = "dat"
    BY <2>2, HitSound, HitIs
  <2>4. Locally(x, v) = Done(p, Hit(p, Known(hs)))
    BY <1>2 DEF Locally
  <2> QED
    BY <1>1, <2>3, <2>4, DoneFine DEF Goes, Overtaken
<1>3. CASE ~Covered(hs)
  <2>1. Locally(x, v) = Done(p, Ended(x, v))
    BY <1>3 DEF Locally
  <2>2. Ended(x, v) = v \/ Ended(x, v) = Verdict("capped", hs)
    BY DEF Ended
  <2>3. Verdict("capped", hs) \in Verdicts /\ Sound(file, p, Verdict("capped", hs))
        /\ Verdict("capped", hs).cands = hs
    BY <1>1, PlainSound, VerdictIs DEF VerdictNames
  <2>4. Ended(x, v) \in Verdicts /\ Sound(file, p, Ended(x, v)) /\ Ended(x, v).cands = hs
    BY <1>3, <2>2, <2>3
  <2> QED
    BY <1>1, <1>3, <2>1, <2>4, DoneFine DEF Goes, Overtaken
<1> QED
  BY <1>2, <1>3
LEMMA AgainIs ==
    ASSUME NEW x, Fine(file, m[x]), m[x].pc = "sent", m[x].asked # m[x].cands, ~Covered(m[x].cands)
    PROVE  Goes(Again(x), m[x].p)
<1> DEFINE r == Again(x)
<1>1. m[x] \in RemoteStates /\ Evidence(file, m[x].p, m[x].cands) /\ m[x].asked \subseteq m[x].cands
  BY AtRemote
<1>2. r \in RemoteStates /\ r.pc = "send" /\ r.p = m[x].p /\ r.cands = m[x].cands /\ r.asked = m[x].asked
  BY <1>1 DEF Again, RemoteStates
<1> HIDE DEF r
<1>3. Fine(file, r)
  BY <1>1, <1>2 DEF Fine
<1>4. ~Overtaken(r)
  BY <1>2 DEF Overtaken
<1> QED
  BY <1>2, <1>3, <1>4 DEF Goes, r
LEMMA ReplyGoes ==
    ASSUME Tables, NEW x \in Matchers, Fine(file, m[x]), Reply(x)
    PROVE  \E r : /\ m' = [m EXCEPT ![x] = r] /\ Fine(file, r) /\ r.p = m[x].p
                  /\ r.pc \in {"hash", "send", "done"} /\ (r.pc = "send" => ~Covered(r.cands))
                  /\ Overtaken(r) => Overtaken(m[x])
<1> DEFINE p  == m[x].p
           hs == m[x].cands
<1>1. m[x].pc = "sent" /\ p \in Paths /\ hs \in SUBSET Hashes /\ FirstOnly(file, p, hs)
      /\ OneEach(hs) /\ m[x].asked \subseteq hs /\ m[x].asked # {} /\ m[x].asked \in SUBSET Hashes
  BY AtRemote DEF Reply, RemoteStates, Evidence
<1>2. ASSUME NEW r, m' = [m EXCEPT ![x] = r], Goes(r, p)
      PROVE  \E q : /\ m' = [m EXCEPT ![x] = q] /\ Fine(file, q) /\ q.p = m[x].p
                    /\ q.pc \in {"hash", "send", "done"} /\ (q.pc = "send" => ~Covered(q.cands))
                    /\ Overtaken(q) => Overtaken(m[x])
  BY <1>2 DEF Goes, Overtaken
<1>3. CASE m' = [m EXCEPT ![x] = AfterMiss(x)]
  <2>1. CASE m[x].asked = hs
    <3>1. Stamped(hs, hs) \in Verdicts /\ Sound(file, p, Stamped(hs, hs)) /\ Stamped(hs, hs).cands = hs
      BY <1>1, <2>1, StampedSound, StampedIs
    <3>2. AfterMiss(x) = Locally(x, Stamped(hs, hs))
      BY <2>1 DEF AfterMiss
    <3> QED
      BY <1>1, <1>2, <1>3, <3>1, <3>2, LocallyIs
  <2>2. CASE m[x].asked # hs /\ Stopped(x)
    <3>1. AfterMiss(x) = GiveUp(x)
      BY <2>2 DEF AfterMiss
    <3> QED
      BY <1>1, <1>3, <3>1, GiveUpIs
  <2>3. CASE m[x].asked # hs /\ ~Stopped(x) /\ Covered(hs)
    <3>1. NoRow \in Verdicts /\ Sound(file, p, NoRow)
      BY EmptySound DEF NoRow, VerdictNames
    <3>2. AfterMiss(x) = Locally(x, NoRow)
      BY <2>3 DEF AfterMiss
    <3> QED
      BY <1>1, <1>2, <1>3, <2>3, <3>1, <3>2, LocallyIs
  <2>4. CASE m[x].asked # hs /\ ~Stopped(x) /\ ~Covered(hs)
    <3>1. AfterMiss(x) = Again(x)
      BY <2>4 DEF AfterMiss
    <3> QED
      BY <1>1, <1>2, <1>3, <2>4, <3>1, AgainIs
  <2> QED
    BY <2>1, <2>2, <2>3, <2>4
<1>4. CASE m' = [m EXCEPT ![x] = Locally(x, Remote(hs, LastAsked(m[x].asked)))]
  <2>1. OneEach(m[x].asked)
    BY <1>1 DEF OneEach
  <2>2. LastAsked(m[x].asked) \in hs
    BY <1>1, <2>1, FirstIn
  <2>3. Remote(hs, LastAsked(m[x].asked)) \in Verdicts
        /\ Sound(file, p, Remote(hs, LastAsked(m[x].asked)))
        /\ Remote(hs, LastAsked(m[x].asked)).cands = hs
    BY <1>1, <2>2, RemoteSound, RemoteIs
  <2> QED
    BY <1>1, <1>2, <1>4, <2>3, LocallyIs
<1>5. CASE m' = [m EXCEPT ![x] = Done(p, Verdict("down", hs))]
  <2>1. Verdict("down", hs) \in Verdicts /\ Sound(file, p, Verdict("down", hs))
        /\ Verdict("down", hs).cands = hs
    BY <1>1, PlainSound, VerdictIs DEF VerdictNames
  <2>2. Fine(file, Done(p, Verdict("down", hs))) /\ Done(p, Verdict("down", hs)).pc = "done"
        /\ Done(p, Verdict("down", hs)).p = p /\ Done(p, Verdict("down", hs)).verdict = Verdict("down", hs)
    BY <1>1, <2>1, DoneFine
  <2>3. Overtaken(Done(p, Verdict("down", hs))) => Overtaken(m[x])
    BY <1>1, <2>1, <2>2 DEF Overtaken
  <2> QED
    BY <1>5, <2>2, <2>3
<1> QED
  BY <1>3, <1>4, <1>5 DEF Reply

\* A verdict that is written, or that takes the row away.
LEMMA ChangedFirst ==
    ASSUME NEW p \in Paths, NEW r, NEW v, Sound(file, p, r), Sound(file, p, v),
           r \in Verdicts, v \in Verdicts, ProvesChanged(r, v)
    PROVE  file[p] # 1
<1> SUFFICES ASSUME file[p] = 1 PROVE FALSE
  OBVIOUS
<1>1. PICK h \in v.cands : h[2] = r.hash[2] /\ h # r.hash /\ Matched(r)
  BY DEF ProvesChanged
<1>2. h[1] = 1 /\ r.hash[1] = 1
  BY <1>1 DEF Sound, FirstOnly
<1>3. h \in Hashes /\ r.hash \in Hashes
  BY <1>1 DEF Sound, Verdicts
<1> QED
  BY <1>1, <1>2, <1>3 DEF Hashes
LEMMA WritesAre ==
    ASSUME Tables, NEW held \in SUBSET (Paths \X Verdicts),
           \A u \in held : Sound(file, u[1], u[2]) /\ Cacheable(u[2])
    PROVE  Writes(held) \subseteq WriteRecs /\ \A w \in Writes(held) : Decided(file, w)
<1> SUFFICES ASSUME NEW w \in Writes(held) PROVE w \in WriteRecs /\ Decided(file, w)
  OBVIOUS
<1>1. PICK u \in held : /\ ~CoveredNow(u[2]) /\ ~Downgrades(row[u[1]], u[2])
                        /\ w = [p |-> u[1], verdict |-> Linked(u[2]), seen |-> row[u[1]],
                                clear |-> ~Covered(u[2].cands)]
  BY DEF Writes
<1>2. u[1] \in Paths /\ u[2] \in Verdicts /\ Sound(file, u[1], u[2]) /\ Cacheable(u[2])
  BY <1>1
<1>3. dats \subseteq Dats /\ row[u[1]] \in Verdicts /\ Sound(file, u[1], row[u[1]])
  BY <1>2 DEF Tables
<1>4. Linked(u[2]) \in Verdicts /\ Sound(file, u[1], Linked(u[2]))
      /\ Linked(u[2]).v = u[2].v /\ Linked(u[2]).stamp = u[2].stamp
  BY <1>2, <1>3, LinkedSound, LinkedIs
<1>5. w \in WriteRecs /\ w.p = u[1] /\ w.verdict = Linked(u[2]) /\ w.seen = row[u[1]]
      /\ w.clear = ~Covered(u[2].cands)
  BY <1>1, <1>2, <1>3, <1>4 DEF WriteRecs
<1>6. Cacheable(w.verdict) /\ (ByRemote(w.verdict) => w.clear)
  BY <1>1, <1>2, <1>4, <1>5 DEF Cacheable, ByRemote, CoveredNow
<1>7. file[w.p] = 1 /\ RemoteHit(w.seen) => Matched(w.verdict) \/ w.verdict.stamp
  <2> SUFFICES ASSUME file[w.p] = 1, RemoteHit(w.seen), ~Matched(w.verdict), ~w.verdict.stamp PROVE FALSE
    OBVIOUS
  <2>1. ~Matched(u[2]) /\ ~u[2].stamp
    BY <1>4, <1>5 DEF Matched
  <2>2. ProvesChanged(row[u[1]], u[2])
    BY <1>1, <1>5, <2>1 DEF Downgrades
  <2> QED
    BY <1>2, <1>3, <1>5, <2>2, ChangedFirst
<1> QED
  BY <1>4, <1>5, <1>6, <1>7 DEF Decided
LEMMA WritingIs ==
    ASSUME Tables, NEW held \in SUBSET (Paths \X Verdicts),
           \A u \in held : Sound(file, u[1], u[2]) /\ Cacheable(u[2])
    PROVE  Fine(file, Writing(held)) /\ Writing(held).pc \in {"idle", "commit"}
           /\ (Writing(held).pc = "commit" => Writing(held).writes = Writes(held))
           /\ (Writes(held) # {} => Writing(held).pc = "commit")
<1>1. CASE Writes(held) = {}
  BY <1>1, IdleIs DEF Writing
<1>2. CASE Writes(held) # {}
  <2> DEFINE r == [pc |-> "commit", writes |-> Writes(held)]
  <2>1. Writing(held) = r
    BY <1>2 DEF Writing
  <2>2. r \in CommitStates /\ r.pc = "commit" /\ r.writes = Writes(held)
    BY WritesAre DEF CommitStates
  <2> HIDE DEF r
  <2>3. Fine(file, r)
    BY <2>2, WritesAre DEF Fine
  <2> QED
    BY <2>1, <2>2, <2>3
<1> QED
  BY <1>1, <1>2
LEMMA DroppingIs ==
    ASSUME Tables, NEW p \in Paths, NEW v \in Verdicts, Sound(file, p, v)
    PROVE  Fine(file, Dropping(p, v)) /\ Dropping(p, v).pc \in {"idle", "drop"}
           /\ (ProvesChanged(row[p], v) => Dropping(p, v).pc = "drop" /\ Dropping(p, v).p = p)
<1>1. CASE ProvesChanged(row[p], v)
  <2> DEFINE r == [pc |-> "drop", p |-> p, seen |-> row[p]]
  <2>1. Dropping(p, v) = r
    BY <1>1 DEF Dropping
  <2>2. row[p] \in Verdicts /\ Sound(file, p, row[p])
    BY DEF Tables
  <2>3. r \in DropStates /\ r.pc = "drop" /\ r.p = p /\ file[p] # 1
    BY <1>1, <2>2, ChangedFirst DEF DropStates
  <2> HIDE DEF r
  <2>4. Fine(file, r)
    BY <2>3 DEF Fine
  <2> QED
    BY <2>1, <2>3, <2>4
<1>2. CASE ~ProvesChanged(row[p], v)
  BY <1>2, IdleIs DEF Dropping
<1> QED
  BY <1>1, <1>2
-----------------------------------------------------------------------------
\* How a step moves the matchers.
Moved(x) ==
    \/ m'[x] = m[x]
    \/ /\ Fine(file, m'[x])
       /\ m'[x].pc = "send" => ~Covered(m'[x].cands)
       /\ m'[x].pc = "sent" => ~Stopped(x)
LEMMA MoveIs ==
    ASSUME DOMAIN m = Matchers, NEW x \in Matchers, NEW r, m' = [m EXCEPT ![x] = r], Fine(file, r),
           r.pc = "send" => ~Covered(r.cands), r.pc = "sent" => ~Stopped(x)
    PROVE  DOMAIN m' = Matchers /\ \A y \in Matchers : Moved(y)
  BY DEF Moved
LEMMA VerdictGoes ==
    ASSUME Tables, NEW x \in Matchers, Fine(file, m[x]), m[x].pc = "done"
    PROVE  /\ Fine(file, Dropping(m[x].p, m[x].verdict))
           /\ Dropping(m[x].p, m[x].verdict).pc \in {"idle", "drop"}
           /\ Fine(file, NoMatch) /\ NoMatch.pc = "idle"
           /\ Cacheable(m[x].verdict) =>
                /\ Fine(file, Writing({<<m[x].p, m[x].verdict>>}))
                /\ Writing({<<m[x].p, m[x].verdict>>}).pc \in {"idle", "commit"}
<1>1. m[x].p \in Paths /\ m[x].verdict \in Verdicts /\ Sound(file, m[x].p, m[x].verdict)
  BY AtDone
<1>2. Fine(file, NoMatch) /\ NoMatch.pc = "idle"
  BY IdleIs
<1>3. Fine(file, Dropping(m[x].p, m[x].verdict)) /\ Dropping(m[x].p, m[x].verdict).pc \in {"idle", "drop"}
  BY <1>1, DroppingIs
<1>4. ASSUME Cacheable(m[x].verdict)
      PROVE  /\ Fine(file, Writing({<<m[x].p, m[x].verdict>>}))
             /\ Writing({<<m[x].p, m[x].verdict>>}).pc \in {"idle", "commit"}
  <2> DEFINE held == {<<m[x].p, m[x].verdict>>}
  <2>1. held \in SUBSET (Paths \X Verdicts)
        /\ \A u \in held : Sound(file, u[1], u[2]) /\ Cacheable(u[2])
    BY <1>1, <1>4
  <2> HIDE DEF held
  <2>2. Fine(file, Writing(held)) /\ Writing(held).pc \in {"idle", "commit"}
    BY <2>1, WritingIs
  <2> QED
    BY <2>2 DEF held
<1> QED
  BY <1>2, <1>3, <1>4
LEMMA MovesStep ==
    ASSUME Tables, Tasks, Matching, MatchNext
    PROVE  DOMAIN m' = Matchers /\ \A y \in Matchers : Moved(y)
<1>m. DOMAIN m = Matchers /\ \A x \in Matchers : Fine(file, m[x])
  BY DEF Matching
<1>1. ASSUME NEW x \in Matchers, HashFile(x) PROVE DOMAIN m' = Matchers /\ \A y \in Matchers : Moved(y)
  <2>1. PICK r : m' = [m EXCEPT ![x] = r] /\ Goes(r, m[x].p)
    BY <1>m, <1>1, HashGoes
  <2> QED
    BY <1>m, <2>1, MoveIs DEF Goes, Overtaken
<1>2. ASSUME NEW x \in Matchers, Send(x) PROVE DOMAIN m' = Matchers /\ \A y \in Matchers : Moved(y)
  <2>1. PICK r : m' = [m EXCEPT ![x] = r] /\ Fine(file, r) /\ r.pc \in {"sent", "done"}
                 /\ (r.pc = "sent" => ~Stopped(x))
    BY <1>m, <1>2, SendGoes
  <2> QED
    BY <1>m, <2>1, MoveIs
<1>3. ASSUME NEW x \in Matchers, Reply(x) PROVE DOMAIN m' = Matchers /\ \A y \in Matchers : Moved(y)
  <2>1. PICK r : m' = [m EXCEPT ![x] = r] /\ Fine(file, r) /\ r.pc \in {"hash", "send", "done"}
                 /\ (r.pc = "send" => ~Covered(r.cands))
    BY <1>m, <1>3, ReplyGoes
  <2> QED
    BY <1>m, <2>1, MoveIs
<1>4. ASSUME NEW x \in Matchers, Commit(x) PROVE DOMAIN m' = Matchers /\ \A y \in Matchers : Moved(y)
  <2>1. m' = [m EXCEPT ![x] = NoMatch]
    BY <1>4 DEF Commit
  <2> QED
    BY <1>m, <2>1, MoveIs, IdleIs
<1>5. ASSUME NEW x \in Matchers, CommitFails(x) PROVE DOMAIN m' = Matchers /\ \A y \in Matchers : Moved(y)
  <2>1. m' = [m EXCEPT ![x] = NoMatch]
    BY <1>5 DEF CommitFails
  <2> QED
    BY <1>m, <2>1, MoveIs, IdleIs
<1>6. ASSUME NEW x \in Matchers, DropRow(x) PROVE DOMAIN m' = Matchers /\ \A y \in Matchers : Moved(y)
  <2>1. m' = [m EXCEPT ![x] = NoMatch]
    BY <1>6 DEF DropRow
  <2> QED
    BY <1>m, <2>1, MoveIs, IdleIs
<1>7. ASSUME NEW ps \in SUBSET Paths, JobRequest(ps) PROVE DOMAIN m' = Matchers /\ \A y \in Matchers : Moved(y)
  BY <1>m, <1>7 DEF JobRequest, Moved
<1>8. ASSUME NEW ps \in SUBSET Paths, Drain(ps) PROVE DOMAIN m' = Matchers /\ \A y \in Matchers : Moved(y)
  BY <1>m, <1>8 DEF Drain, Moved
<1>9. ASSUME NEW p \in Paths, JobNext(p) PROVE DOMAIN m' = Matchers /\ \A y \in Matchers : Moved(y)
  <2>1. \E r : m' = [m EXCEPT !["job"] = r] /\ Goes(r, p)
    BY <1>9, OpenGoes DEF JobNext, Matchers
  <2>2. PICK r : m' = [m EXCEPT !["job"] = r] /\ Goes(r, p)
    BY <2>1
  <2> QED
    BY <1>m, <2>2, MoveIs DEF Goes, Overtaken, Matchers
<1>10. ASSUME JobVerdict PROVE DOMAIN m' = Matchers /\ \A y \in Matchers : Moved(y)
  <2> DEFINE r == IF m["job"].verdict.v = "stuck" THEN NoMatch
                  ELSE IF Cacheable(m["job"].verdict)
                         THEN Writing({<<m["job"].p, m["job"].verdict>>})
                       ELSE Dropping(m["job"].p, m["job"].verdict)
  <2>1. m' = [m EXCEPT !["job"] = r] /\ m["job"].pc = "done" /\ "job" \in Matchers
    BY <1>10 DEF JobVerdict, Matchers
  <2>2. Fine(file, r) /\ r.pc \in {"idle", "commit", "drop"}
    BY <1>m, <2>1, VerdictGoes
  <2> HIDE DEF r
  <2> QED
    BY <1>m, <2>1, <2>2, MoveIs
<1>11. ASSUME JobCancel PROVE DOMAIN m' = Matchers /\ \A y \in Matchers : Moved(y)
  BY <1>m, <1>11 DEF JobCancel, Moved
<1>12. ASSUME JobEnd PROVE DOMAIN m' = Matchers /\ \A y \in Matchers : Moved(y)
  BY <1>m, <1>12 DEF JobEnd, Moved
<1>13. ASSUME NEW force \in BOOLEAN, ScanStart(force) PROVE DOMAIN m' = Matchers /\ \A y \in Matchers : Moved(y)
  BY <1>m, <1>13 DEF ScanStart, Moved
<1>14. ASSUME NEW p \in Paths, ScanTags(p) PROVE DOMAIN m' = Matchers /\ \A y \in Matchers : Moved(y)
  BY <1>m, <1>14 DEF ScanTags, Moved
<1>15. ASSUME NEW p \in Paths, ScanNext(p) PROVE DOMAIN m' = Matchers /\ \A y \in Matchers : Moved(y)
  <2>1. CASE UNCHANGED m
    BY <1>m, <2>1 DEF Moved
  <2>2. CASE OpenFile("scan", p)
    <3>1. PICK r : m' = [m EXCEPT !["scan"] = r] /\ Goes(r, p)
      BY <2>2, OpenGoes DEF Matchers
    <3> QED
      BY <1>m, <3>1, MoveIs DEF Goes, Overtaken, Matchers
  <2> QED
    BY <1>15, <2>1, <2>2 DEF ScanNext
<1>16. ASSUME ScanLists PROVE DOMAIN m' = Matchers /\ \A y \in Matchers : Moved(y)
  BY <1>m, <1>16 DEF ScanLists, Moved
<1>17. ASSUME ScanAbandons PROVE DOMAIN m' = Matchers /\ \A y \in Matchers : Moved(y)
  BY <1>m, <1>17 DEF ScanAbandons, Moved
<1>18. ASSUME ScanPrimes PROVE DOMAIN m' = Matchers /\ \A y \in Matchers : Moved(y)
  BY <1>m, <1>18 DEF ScanPrimes, Moved
<1>19. ASSUME ScanVerdict PROVE DOMAIN m' = Matchers /\ \A y \in Matchers : Moved(y)
  <2> DEFINE over == m["scan"].verdict.v = "stuck" \/ scan.cancelled
             r == IF over \/ NoEvidence(m["scan"].verdict) THEN NoMatch
                  ELSE IF Cacheable(m["scan"].verdict)
                         THEN Writing({<<m["scan"].p, m["scan"].verdict>>})
                       ELSE Dropping(m["scan"].p, m["scan"].verdict)
  <2>1. m' = [m EXCEPT !["scan"] = r] /\ m["scan"].pc = "done" /\ "scan" \in Matchers
    BY <1>19 DEF ScanVerdict, Matchers
  <2>2. Fine(file, r) /\ r.pc \in {"idle", "commit", "drop"}
    BY <1>m, <2>1, VerdictGoes
  <2> HIDE DEF r
  <2> QED
    BY <1>m, <2>1, <2>2, MoveIs
<1>20. ASSUME ScanCancel PROVE DOMAIN m' = Matchers /\ \A y \in Matchers : Moved(y)
  BY <1>m, <1>20 DEF ScanCancel, Moved
<1>21. ASSUME ScanEnd PROVE DOMAIN m' = Matchers /\ \A y \in Matchers : Moved(y)
  BY <1>m, <1>21 DEF ScanEnd, Moved
<1>22. ASSUME NEW ps \in SUBSET Paths, BatchStart(ps) PROVE DOMAIN m' = Matchers /\ \A y \in Matchers : Moved(y)
  BY <1>m, <1>22 DEF BatchStart, Moved
<1>23. ASSUME NEW p \in Paths, BatchNext(p) PROVE DOMAIN m' = Matchers /\ \A y \in Matchers : Moved(y)
  <2>1. \E r : m' = [m EXCEPT !["batch"] = r] /\ Goes(r, p)
    BY <1>23, OpenGoes DEF BatchNext, Matchers
  <2>2. PICK r : m' = [m EXCEPT !["batch"] = r] /\ Goes(r, p)
    BY <2>1
  <2> QED
    BY <1>m, <2>2, MoveIs DEF Goes, Overtaken, Matchers
<1>24. ASSUME BatchVerdict PROVE DOMAIN m' = Matchers /\ \A y \in Matchers : Moved(y)
  <2>1. m' = [m EXCEPT !["batch"] = NoMatch] /\ "batch" \in Matchers
    BY <1>24 DEF BatchVerdict, Matchers
  <2> QED
    BY <1>m, <2>1, MoveIs, IdleIs
<1>25. ASSUME BatchEnd PROVE DOMAIN m' = Matchers /\ \A y \in Matchers : Moved(y)
  <2>1. m' = [m EXCEPT !["batch"] = Writing(batch.held)] /\ "batch" \in Matchers
    BY <1>25 DEF BatchEnd, Matchers
  <2>2. batch.held \in SUBSET (Paths \X Verdicts)
        /\ \A u \in batch.held : Sound(file, u[1], u[2]) /\ Cacheable(u[2])
    BY DEF Tasks, BatchWell, BatchStates
  <2> QED
    BY <1>m, <2>1, <2>2, MoveIs, WritingIs
<1>26. ASSUME UploadBegin PROVE DOMAIN m' = Matchers /\ \A y \in Matchers : Moved(y)
  BY <1>m, <1>26 DEF UploadBegin, Moved
<1>27. ASSUME SyncBegin PROVE DOMAIN m' = Matchers /\ \A y \in Matchers : Moved(y)
  BY <1>m, <1>27 DEF SyncBegin, Moved
<1>28. ASSUME SyncStops PROVE DOMAIN m' = Matchers /\ \A y \in Matchers : Moved(y)
  BY <1>m, <1>28 DEF SyncStops, Moved
<1>29. ASSUME SyncSnapshot PROVE DOMAIN m' = Matchers /\ \A y \in Matchers : Moved(y)
  BY <1>m, <1>29 DEF SyncSnapshot, Moved
<1>30. ASSUME SyncClear PROVE DOMAIN m' = Matchers /\ \A y \in Matchers : Moved(y)
  BY <1>m, <1>30 DEF SyncClear, Moved
<1>31. ASSUME NEW c \in Changers, NEW hs \in DatSets, Import(c, hs) PROVE DOMAIN m' = Matchers /\ \A y \in Matchers : Moved(y)
  BY <1>m, <1>31 DEF Import, Moved
<1>32. ASSUME NEW d \in Dats, DeleteDat(d) PROVE DOMAIN m' = Matchers /\ \A y \in Matchers : Moved(y)
  BY <1>m, <1>32 DEF DeleteDat, Moved
<1>33. ASSUME NEW c \in Changers, ListSurvivors(c) PROVE DOMAIN m' = Matchers /\ \A y \in Matchers : Moved(y)
  BY <1>m, <1>33 DEF ListSurvivors, Moved
<1>34. ASSUME NEW c \in Changers, ScheduleRematch(c) PROVE DOMAIN m' = Matchers /\ \A y \in Matchers : Moved(y)
  BY <1>m, <1>34 DEF ScheduleRematch, Moved
<1>35. ASSUME NEW p \in Paths, Edit(p) PROVE DOMAIN m' = Matchers /\ \A y \in Matchers : Moved(y)
  BY <1>m, <1>35 DEF Edit, Moved
<1>36. ASSUME PruneMissing PROVE DOMAIN m' = Matchers /\ \A y \in Matchers : Moved(y)
  BY <1>m, <1>36 DEF PruneMissing, Moved
<1>37. ASSUME SaveToggle PROVE DOMAIN m' = Matchers /\ \A y \in Matchers : Moved(y)
  BY <1>m, <1>37 DEF SaveToggle, Moved
<1>38. ASSUME ApplyToggle PROVE DOMAIN m' = Matchers /\ \A y \in Matchers : Moved(y)
  BY <1>m, <1>38 DEF ApplyToggle, Moved
<1>39. ASSUME Crash PROVE DOMAIN m' = Matchers /\ \A y \in Matchers : Moved(y)
  <2>1. m' = [x \in Matchers |-> NoMatch]
    BY <1>39 DEF Crash
  <2> QED
    BY <2>1, IdleIs DEF Moved
<1>40. ASSUME NEW c \in Changers, SurvivorsUnread(c) PROVE DOMAIN m' = Matchers /\ \A y \in Matchers : Moved(y)
  BY <1>m, <1>40 DEF SurvivorsUnread, Moved
<1> QED
  BY <1>1, <1>2, <1>3, <1>4, <1>5, <1>6, <1>7, <1>8, <1>9, <1>10, <1>11, <1>12, <1>13,
     <1>14, <1>15, <1>16, <1>17, <1>18, <1>19, <1>20, <1>21, <1>22, <1>23, <1>24, <1>25,
     <1>26, <1>27, <1>28, <1>29, <1>30, <1>31, <1>32, <1>33, <1>34, <1>35, <1>36, <1>37,
     <1>38, <1>39, <1>40
     DEF MatchNext, Match, Job, Scan, Batch, Dat, World
-----------------------------------------------------------------------------
\* Files change by events only, and never back.
FilesWell ==
    /\ events' \in Nat /\ events' <= MaxEvents
    /\ file' \in [Paths -> Nat] /\ \A p \in Paths : file'[p] <= events' + 2
    /\ \A p \in Paths : file'[p] = 1 => file[p] = 1
LEMMA FilesStay ==
    ASSUME Tables, file' = file, events' = events \/ Event
    PROVE  FilesWell
<1>1. MaxEvents \in Nat /\ events \in Nat /\ events <= MaxEvents /\ \A p \in Paths : file[p] \in Nat
  BY MatchCacheAssumption DEF Tables
<1>2. events' \in Nat /\ events' <= MaxEvents /\ events <= events'
  BY <1>1 DEF Event
<1>3. \A p \in Paths : file[p] <= events' + 2
  BY <1>1, <1>2 DEF Tables
<1> QED
  BY <1>2, <1>3 DEF FilesWell, Tables
LEMMA FilesNext ==
    ASSUME Tables, NEW p \in Paths, file[p] # 0, Event,
           file' = [file EXCEPT ![p] = file[p] + 1] \/ file' = [file EXCEPT ![p] = 0]
    PROVE  FilesWell
<1>1. MaxEvents \in Nat /\ events \in Nat /\ \A q \in Paths : file[q] \in Nat
  BY MatchCacheAssumption DEF Tables
<1>2. events' = events + 1 /\ events < MaxEvents
  BY DEF Event
<1>3. \A q \in Paths : file'[q] \in Nat /\ file'[q] <= events' + 2 /\ (file'[q] = 1 => file[q] = 1)
  <2> SUFFICES ASSUME NEW q \in Paths
               PROVE  file'[q] \in Nat /\ file'[q] <= events' + 2 /\ (file'[q] = 1 => file[q] = 1)
    OBVIOUS
  <2>1. file[q] \in Nat /\ file[q] <= events + 2 /\ file[p] \in Nat /\ file[p] <= events + 2
    BY DEF Tables
  <2>2. file'[q] = file[q] \/ (q = p /\ file'[q] = file[q] + 1) \/ (q = p /\ file'[q] = 0)
    BY DEF Tables
  <2> QED
    BY <1>1, <1>2, <2>1, <2>2
<1>4. file' \in [Paths -> Nat]
  BY <1>3 DEF Tables
<1>5. events' \in Nat /\ events' <= MaxEvents
  BY <1>1, <1>2
<1> QED
  BY <1>3, <1>4, <1>5 DEF FilesWell
LEMMA FilesStep ==
    ASSUME Tables, MatchNext
    PROVE  FilesWell
<1>1. ASSUME NEW x \in Matchers, HashFile(x) PROVE FilesWell
  <2>1. file' = file /\ (events' = events \/ Event)
    BY <1>1 DEF HashFile, Event
  <2> QED
    BY <2>1, FilesStay
<1>2. ASSUME NEW x \in Matchers, Send(x) PROVE FilesWell
  <2>1. file' = file /\ (events' = events \/ Event)
    BY <1>2 DEF Send, Event
  <2> QED
    BY <2>1, FilesStay
<1>3. ASSUME NEW x \in Matchers, Reply(x) PROVE FilesWell
  <2>1. file' = file /\ (events' = events \/ Event)
    BY <1>3 DEF Reply, Event
  <2> QED
    BY <2>1, FilesStay
<1>4. ASSUME NEW x \in Matchers, Commit(x) PROVE FilesWell
  <2>1. file' = file /\ (events' = events \/ Event)
    BY <1>4 DEF Commit, Event
  <2> QED
    BY <2>1, FilesStay
<1>5. ASSUME NEW x \in Matchers, CommitFails(x) PROVE FilesWell
  <2>1. file' = file /\ (events' = events \/ Event)
    BY <1>5 DEF CommitFails, Event
  <2> QED
    BY <2>1, FilesStay
<1>6. ASSUME NEW x \in Matchers, DropRow(x) PROVE FilesWell
  <2>1. file' = file /\ (events' = events \/ Event)
    BY <1>6 DEF DropRow, Event
  <2> QED
    BY <2>1, FilesStay
<1>7. ASSUME NEW ps \in SUBSET Paths, JobRequest(ps) PROVE FilesWell
  <2>1. file' = file /\ (events' = events \/ Event)
    BY <1>7 DEF JobRequest
  <2> QED
    BY <2>1, FilesStay
<1>8. ASSUME NEW ps \in SUBSET Paths, Drain(ps) PROVE FilesWell
  <2>1. file' = file /\ (events' = events \/ Event)
    BY <1>8 DEF Drain, Schedule
  <2> QED
    BY <2>1, FilesStay
<1>9. ASSUME NEW p \in Paths, JobNext(p) PROVE FilesWell
  <2>1. file' = file /\ (events' = events \/ Event)
    BY <1>9 DEF JobNext, OpenFile, Event
  <2> QED
    BY <2>1, FilesStay
<1>10. ASSUME JobVerdict PROVE FilesWell
  <2>1. file' = file /\ (events' = events \/ Event)
    BY <1>10 DEF JobVerdict, Event
  <2> QED
    BY <2>1, FilesStay
<1>11. ASSUME JobCancel PROVE FilesWell
  <2>1. file' = file /\ (events' = events \/ Event)
    BY <1>11 DEF JobCancel, Event
  <2> QED
    BY <2>1, FilesStay
<1>12. ASSUME JobEnd PROVE FilesWell
  <2>1. file' = file /\ (events' = events \/ Event)
    BY <1>12 DEF JobEnd, Event
  <2> QED
    BY <2>1, FilesStay
<1>13. ASSUME NEW force \in BOOLEAN, ScanStart(force) PROVE FilesWell
  <2>1. file' = file /\ (events' = events \/ Event)
    BY <1>13 DEF ScanStart
  <2> QED
    BY <2>1, FilesStay
<1>14. ASSUME NEW p \in Paths, ScanTags(p) PROVE FilesWell
  <2>1. file[p] # 0 /\ Event /\ file' = [file EXCEPT ![p] = file[p] + 1]
    BY <1>14 DEF ScanTags, EnsureDiscIdEmbedded
  <2> QED
    BY <2>1, FilesNext
<1>15. ASSUME NEW p \in Paths, ScanNext(p) PROVE FilesWell
  <2>1. file' = file /\ (events' = events \/ Event)
    BY <1>15 DEF ScanNext, OpenFile, Event
  <2> QED
    BY <2>1, FilesStay
<1>16. ASSUME ScanLists PROVE FilesWell
  <2>1. file' = file /\ (events' = events \/ Event)
    BY <1>16 DEF ScanLists, Event
  <2> QED
    BY <2>1, FilesStay
<1>17. ASSUME ScanAbandons PROVE FilesWell
  <2>1. file' = file /\ (events' = events \/ Event)
    BY <1>17 DEF ScanAbandons, Event
  <2> QED
    BY <2>1, FilesStay
<1>18. ASSUME ScanPrimes PROVE FilesWell
  <2>1. file' = file /\ (events' = events \/ Event)
    BY <1>18 DEF ScanPrimes, Event
  <2> QED
    BY <2>1, FilesStay
<1>19. ASSUME ScanVerdict PROVE FilesWell
  <2>1. file' = file /\ (events' = events \/ Event)
    BY <1>19 DEF ScanVerdict, Event
  <2> QED
    BY <2>1, FilesStay
<1>20. ASSUME ScanCancel PROVE FilesWell
  <2>1. file' = file /\ (events' = events \/ Event)
    BY <1>20 DEF ScanCancel, Event
  <2> QED
    BY <2>1, FilesStay
<1>21. ASSUME ScanEnd PROVE FilesWell
  <2>1. file' = file /\ (events' = events \/ Event)
    BY <1>21 DEF ScanEnd, Event
  <2> QED
    BY <2>1, FilesStay
<1>22. ASSUME NEW ps \in SUBSET Paths, BatchStart(ps) PROVE FilesWell
  <2>1. file' = file /\ (events' = events \/ Event)
    BY <1>22 DEF BatchStart
  <2> QED
    BY <2>1, FilesStay
<1>23. ASSUME NEW p \in Paths, BatchNext(p) PROVE FilesWell
  <2>1. file' = file /\ (events' = events \/ Event)
    BY <1>23 DEF BatchNext, OpenFile, Event
  <2> QED
    BY <2>1, FilesStay
<1>24. ASSUME BatchVerdict PROVE FilesWell
  <2>1. file' = file /\ (events' = events \/ Event)
    BY <1>24 DEF BatchVerdict, Event
  <2> QED
    BY <2>1, FilesStay
<1>25. ASSUME BatchEnd PROVE FilesWell
  <2>1. file' = file /\ (events' = events \/ Event)
    BY <1>25 DEF BatchEnd, Event
  <2> QED
    BY <2>1, FilesStay
<1>26. ASSUME UploadBegin PROVE FilesWell
  <2>1. file' = file /\ (events' = events \/ Event)
    BY <1>26 DEF UploadBegin, Event
  <2> QED
    BY <2>1, FilesStay
<1>27. ASSUME SyncBegin PROVE FilesWell
  <2>1. file' = file /\ (events' = events \/ Event)
    BY <1>27 DEF SyncBegin, Event
  <2> QED
    BY <2>1, FilesStay
<1>28. ASSUME SyncStops PROVE FilesWell
  <2>1. file' = file /\ (events' = events \/ Event)
    BY <1>28 DEF SyncStops, Event
  <2> QED
    BY <2>1, FilesStay
<1>29. ASSUME SyncSnapshot PROVE FilesWell
  <2>1. file' = file /\ (events' = events \/ Event)
    BY <1>29 DEF SyncSnapshot, Event
  <2> QED
    BY <2>1, FilesStay
<1>30. ASSUME SyncClear PROVE FilesWell
  <2>1. file' = file /\ (events' = events \/ Event)
    BY <1>30 DEF SyncClear, Event
  <2> QED
    BY <2>1, FilesStay
<1>31. ASSUME NEW c \in Changers, NEW hs \in DatSets, Import(c, hs) PROVE FilesWell
  <2>1. file' = file /\ (events' = events \/ Event)
    BY <1>31 DEF Import, Event
  <2> QED
    BY <2>1, FilesStay
<1>32. ASSUME NEW d \in Dats, DeleteDat(d) PROVE FilesWell
  <2>1. file' = file /\ (events' = events \/ Event)
    BY <1>32 DEF DeleteDat, Event
  <2> QED
    BY <2>1, FilesStay
<1>33. ASSUME NEW c \in Changers, ListSurvivors(c) PROVE FilesWell
  <2>1. file' = file /\ (events' = events \/ Event)
    BY <1>33 DEF ListSurvivors, Event
  <2> QED
    BY <2>1, FilesStay
<1>34. ASSUME NEW c \in Changers, ScheduleRematch(c) PROVE FilesWell
  <2>1. file' = file /\ (events' = events \/ Event)
    BY <1>34 DEF ScheduleRematch, Schedule
  <2> QED
    BY <2>1, FilesStay
<1>35. ASSUME NEW p \in Paths, Edit(p) PROVE FilesWell
  <2>1. file[p] # 0 /\ Event /\ (file' = [file EXCEPT ![p] = file[p] + 1] \/ file' = [file EXCEPT ![p] = 0])
    BY <1>35 DEF Edit
  <2> QED
    BY <2>1, FilesNext
<1>36. ASSUME PruneMissing PROVE FilesWell
  <2>1. file' = file /\ (events' = events \/ Event)
    BY <1>36 DEF PruneMissing, Event
  <2> QED
    BY <2>1, FilesStay
<1>37. ASSUME SaveToggle PROVE FilesWell
  <2>1. file' = file /\ (events' = events \/ Event)
    BY <1>37 DEF SaveToggle, Event
  <2> QED
    BY <2>1, FilesStay
<1>38. ASSUME ApplyToggle PROVE FilesWell
  <2>1. file' = file /\ (events' = events \/ Event)
    BY <1>38 DEF ApplyToggle, Event
  <2> QED
    BY <2>1, FilesStay
<1>39. ASSUME Crash PROVE FilesWell
  <2>1. file' = file /\ (events' = events \/ Event)
    BY <1>39 DEF Crash, Event
  <2> QED
    BY <2>1, FilesStay
<1>40. ASSUME NEW c \in Changers, SurvivorsUnread(c) PROVE FilesWell
  <2>1. file' = file /\ (events' = events \/ Event)
    BY <1>40 DEF SurvivorsUnread
  <2> QED
    BY <2>1, FilesStay
<1> QED
  BY <1>1, <1>2, <1>3, <1>4, <1>5, <1>6, <1>7, <1>8, <1>9, <1>10, <1>11, <1>12, <1>13,
     <1>14, <1>15, <1>16, <1>17, <1>18, <1>19, <1>20, <1>21, <1>22, <1>23, <1>24, <1>25,
     <1>26, <1>27, <1>28, <1>29, <1>30, <1>31, <1>32, <1>33, <1>34, <1>35, <1>36, <1>37,
     <1>38, <1>39, <1>40
     DEF MatchNext, Match, Job, Scan, Batch, Dat, World

\* What is fine stays so while files only move on.
LEMMA SoundStays ==
    ASSUME NEW f, NEW g, NEW p, g[p] = 1 => f[p] = 1, NEW v, Sound(f, p, v)
    PROVE  Sound(g, p, v)
  BY DEF Sound, FirstOnly
LEMMA FineStays ==
    ASSUME NEW f, NEW g, \A p \in Paths : g[p] = 1 => f[p] = 1, NEW r, Fine(f, r)
    PROVE  Fine(g, r)
<1>1. CASE r = NoMatch
  BY <1>1, IdleIs
<1>2. CASE r \in HashStates /\ Evidence(f, r.p, r.cands) /\ \A h \in r.cands : h[2] = "embedded"
  <2>1. Evidence(g, r.p, r.cands)
    BY <1>2 DEF HashStates, Evidence, FirstOnly
  <2> QED
    BY <1>2, <2>1 DEF Fine
<1>3. CASE /\ r \in RemoteStates /\ Evidence(f, r.p, r.cands) /\ r.asked \subseteq r.cands
           /\ r.pc = "send" => r.asked # r.cands
           /\ r.pc = "sent" => r.asked # {}
  <2>1. Evidence(g, r.p, r.cands)
    BY <1>3 DEF RemoteStates, Evidence, FirstOnly
  <2> QED
    BY <1>3, <2>1 DEF Fine
<1>4. CASE r \in DoneStates /\ Sound(f, r.p, r.verdict)
  <2>1. Sound(g, r.p, r.verdict)
    BY <1>4, SoundStays DEF DoneStates
  <2> QED
    BY <1>4, <2>1 DEF Fine
<1>5. CASE r \in CommitStates /\ \A w \in r.writes : Decided(f, w)
  <2>1. ASSUME NEW w \in r.writes PROVE Decided(g, w)
    <3>1. w.p \in Paths /\ Decided(f, w)
      BY <1>5 DEF CommitStates, WriteRecs
    <3> QED
      BY <3>1, SoundStays DEF Decided
  <2> QED
    BY <1>5, <2>1 DEF Fine
<1>6. CASE r \in DropStates /\ f[r.p] # 1
  <2>1. g[r.p] # 1
    BY <1>6 DEF DropStates
  <2> QED
    BY <1>6, <2>1 DEF Fine
<1> QED
  BY <1>1, <1>2, <1>3, <1>4, <1>5, <1>6 DEF Fine
LEMMA MatchingStep ==
    ASSUME Tables, Tasks, Matching, MatchNext
    PROVE  Matching'
<1>1. \A p \in Paths : file'[p] = 1 => file[p] = 1
  BY FilesStep DEF FilesWell
<1>2. DOMAIN m' = Matchers /\ \A y \in Matchers : Fine(file, m'[y])
  BY MovesStep DEF Moved, Matching
<1>3. \A y \in Matchers : Fine(file', m'[y])
  BY <1>1, <1>2, FineStays
<1> QED
  BY <1>2, <1>3 DEF Matching
-----------------------------------------------------------------------------
\* The tables stay well formed.
Fates == {"no", "raced", "stopped"}
LEMMA NoRowIs == NoRow \in Verdicts /\ NoRow.dat = 0 /\ NoRow.v = "none" /\ \A f, p : Sound(f, p, NoRow)
<1>1. "none" \in VerdictNames /\ "none" \notin {"dat", "remote"} /\ {} \in SUBSET Hashes
  BY DEF VerdictNames
<1> QED
  BY <1>1, VerdictIs, EmptySound DEF NoRow
LEMMA TablesBy ==
    ASSUME Tables, FilesWell, nextDat' \in 1..(MaxDats + 1), dats' \subseteq Dats,
           index' \in [Hashes -> dats' \cup {0}], lost' \in [Paths -> Fates], DOMAIN row' = Paths,
           row' = [p \in Paths |-> row'[p]],
           \A p \in Paths : \/ row'[p] = row[p] /\ row[p].dat \in dats' \cup {0}
                            \/ row'[p] = NoRow
                            \/ /\ row'[p] \in Verdicts /\ Sound(file, p, row'[p])
                               /\ row'[p].dat \in dats' \cup {0}
                               /\ row'[p].v \in {"miss", "dat", "remote"}
    PROVE  Tables'
<1>1. ASSUME NEW p \in Paths
      PROVE  /\ row'[p] \in Verdicts /\ Sound(file, p, row'[p]) /\ row'[p].dat \in dats' \cup {0}
             /\ row'[p].v \in {"none", "miss", "dat", "remote"}
  <2>1. row[p] \in Verdicts /\ Sound(file, p, row[p]) /\ row[p].v \in {"none", "miss", "dat", "remote"}
    BY DEF Tables
  <2> QED
    BY <2>1, NoRowIs
<1>2. \A p \in Paths : Sound(file', p, row'[p])
  BY <1>1, SoundStays DEF FilesWell
<1> QED
  BY <1>1, <1>2 DEF Tables, FilesWell, Fates
LEMMA TablesKeepRows ==
    ASSUME Tables, FilesWell, UNCHANGED <<local, row>>, lost' \in [Paths -> Fates]
    PROVE  Tables'
<1>1. nextDat' \in 1..(MaxDats + 1) /\ dats' \subseteq Dats /\ index' \in [Hashes -> dats' \cup {0}]
  BY DEF Tables, local
<1>2. DOMAIN row' = Paths /\ row' = [p \in Paths |-> row'[p]]
      /\ \A p \in Paths : row'[p] = row[p] /\ row[p].dat \in dats' \cup {0}
  BY DEF Tables, local
<1> QED
  BY <1>1, <1>2, TablesBy
LEMMA TablesKeepDats ==
    ASSUME Tables, FilesWell, UNCHANGED local, lost' \in [Paths -> Fates],
           DOMAIN row' = Paths, row' = [p \in Paths |-> row'[p]],
           \A p \in Paths : \/ row'[p] \in {row[p], NoRow}
                            \/ /\ row'[p] \in Verdicts /\ Sound(file, p, row'[p])
                               /\ row'[p].dat \in dats \cup {0}
                               /\ row'[p].v \in {"miss", "dat", "remote"}
    PROVE  Tables'
<1>1. nextDat' \in 1..(MaxDats + 1) /\ dats' \subseteq Dats /\ index' \in [Hashes -> dats' \cup {0}]
      /\ dats' = dats
  BY DEF Tables, local
<1>2. \A p \in Paths : row[p].dat \in dats \cup {0}
  BY DEF Tables
<1> QED
  BY <1>1, <1>2, TablesBy
LEMMA LostTypes == Tables => lost \in [Paths -> Fates] /\ row \in [Paths -> Verdicts]
  BY DEF Tables, Fates
\* What a failed schedule takes away.
LEMMA StopTypes ==
    ASSUME lost \in [Paths -> Fates], NEW ps
    PROVE  /\ Stop(ps) \in [Paths -> Fates]
           /\ \A p \in Paths : IF p \in ps THEN Stop(ps)[p] = "stopped" ELSE Stop(ps)[p] = lost[p]
  BY DEF Stop, Fates
LEMMA ScheduleGoes ==
    ASSUME Tables, NEW ps, Schedule(ps)
    PROVE  /\ lost' \in [Paths -> Fates]
           /\ \E kept \in SUBSET ps :
                 /\ Rematch(kept)
                 /\ \A p \in Paths : lost'[p] = "no" => lost[p] = "no" /\ (p \in ps => p \in kept)
<1>1. PICK kept \in SUBSET ps : Rematch(kept) /\ ((kept = ps /\ lost' = lost) \/ lost' = Stop(ps \ kept))
  BY DEF Schedule
<1>2. lost \in [Paths -> Fates]
  BY LostTypes
<1>3. CASE kept = ps /\ lost' = lost
  BY <1>1, <1>2, <1>3
<1>4. CASE lost' = Stop(ps \ kept)
  <2>1. /\ lost' \in [Paths -> Fates]
        /\ \A p \in Paths : IF p \in ps \ kept THEN lost'[p] = "stopped" ELSE lost'[p] = lost[p]
    BY <1>2, <1>4, StopTypes
  <2> QED
    BY <1>1, <2>1
<1> QED
  BY <1>1, <1>3, <1>4
LEMMA WriteIs ==
    ASSUME NEW x \in Matchers, Fine(file, m[x]), m[x].pc = "commit", NEW w \in m[x].writes
    PROVE  /\ Write(x, w.p) \in m[x].writes /\ Write(x, w.p).p = w.p /\ w.p \in Paths
           /\ Decided(file, Write(x, w.p)) /\ Write(x, w.p).verdict \in Verdicts
           /\ Cacheable(Write(x, w.p).verdict)
<1>1. m[x].writes \subseteq WriteRecs /\ \A u \in m[x].writes : Decided(file, u)
  BY AtCommit
<1>2. Write(x, w.p) \in m[x].writes /\ Write(x, w.p).p = w.p
  BY DEF Write
<1> QED
  BY <1>1, <1>2 DEF WriteRecs, Decided
LEMMA TablesStep ==
    ASSUME Tables, Matching, MatchNext
    PROVE  Tables'
<1>m. FilesWell /\ lost \in [Paths -> Fates] /\ row \in [Paths -> Verdicts]
  BY FilesStep, LostTypes
<1>1. ASSUME NEW x \in Matchers, HashFile(x) PROVE Tables'
  BY <1>m, <1>1, TablesKeepRows DEF HashFile
<1>2. ASSUME NEW x \in Matchers, Send(x) PROVE Tables'
  BY <1>m, <1>2, TablesKeepRows DEF Send
<1>3. ASSUME NEW x \in Matchers, Reply(x) PROVE Tables'
  BY <1>m, <1>3, TablesKeepRows DEF Reply
<1>4. ASSUME NEW x \in Matchers, Commit(x) PROVE Tables'
  <2> DEFINE ps == {w.p : w \in m[x].writes}
  <2>1. m[x].pc = "commit" /\ UNCHANGED local /\ Fine(file, m[x])
        /\ \A w \in m[x].writes : Commits(w)
    BY <1>4 DEF Commit, Matching
  <2>r. row' = [p \in Paths |-> IF p \in ps THEN Write(x, p).verdict ELSE row[p]]
    BY <1>4 DEF Commit
  <2> DEFINE new == [p \in Paths |-> Write(x, p).verdict]
             after == [p \in Paths |-> IF p \in ps THEN new[p] ELSE row[p]]
  <2>s. row' = after
    BY <2>r
  <2>t. \A p \in Paths : new[p] = Write(x, p).verdict
    OBVIOUS
  <2> HIDE DEF new
  <2>u. DOMAIN after = Paths /\ after = [p \in Paths |-> after[p]]
        /\ \A p \in Paths : after[p] = IF p \in ps THEN new[p] ELSE row[p]
    OBVIOUS
  <2> HIDE DEF after
  <2>2. lost' \in [Paths -> Fates]
    BY <1>m, <1>4 DEF Commit, Fates
  <2>3. ASSUME NEW p \in Paths
        PROVE  \/ row'[p] \in {row[p], NoRow}
               \/ /\ row'[p] \in Verdicts /\ Sound(file, p, row'[p])
                  /\ row'[p].dat \in dats \cup {0}
                  /\ row'[p].v \in {"miss", "dat", "remote"}
    <3>1. CASE p \notin ps
      BY <2>s, <2>u, <3>1
    <3>2. CASE p \in ps
      <4>1. PICK w \in m[x].writes : w.p = p
        BY <3>2
      <4>2. Write(x, p) \in m[x].writes /\ Write(x, p).p = p /\ Decided(file, Write(x, p))
            /\ Write(x, p).verdict \in Verdicts /\ Cacheable(Write(x, p).verdict)
        BY <2>1, <4>1, WriteIs
      <4>3. Write(x, p).verdict.dat \in dats \cup {0}
        BY <2>1, <4>2 DEF Commits
      <4>4. row'[p] = Write(x, p).verdict
        BY <2>s, <2>t, <2>u, <3>2
      <4> QED
        BY <4>2, <4>3, <4>4 DEF Decided, Cacheable
    <3> QED
      BY <3>1, <3>2
  <2> HIDE DEF ps
  <2>4. DOMAIN row' = Paths /\ row' = [p \in Paths |-> row'[p]]
    BY <2>s, <2>u
  <2> QED
    BY <1>m, <2>1, <2>2, <2>3, <2>4, TablesKeepDats
<1>5. ASSUME NEW x \in Matchers, CommitFails(x) PROVE Tables'
  <2>1. lost' \in [Paths -> Fates] /\ UNCHANGED <<local, row>>
    BY <1>m, <1>5 DEF CommitFails, Fates
  <2> QED
    BY <1>m, <2>1, TablesKeepRows
<1>6. ASSUME NEW x \in Matchers, DropRow(x) PROVE Tables'
  <2>1. UNCHANGED local /\ UNCHANGED lost /\ DOMAIN row' = Paths /\ row' = [p \in Paths |-> row'[p]]
        /\ \A p \in Paths : row'[p] \in {row[p], NoRow}
    BY <1>m, <1>6 DEF DropRow
  <2> QED
    BY <1>m, <2>1, TablesKeepDats
<1>7. ASSUME NEW ps \in SUBSET Paths, JobRequest(ps) PROVE Tables'
  BY <1>m, <1>7, TablesKeepRows DEF JobRequest
<1>8. ASSUME NEW ps \in SUBSET Paths, Drain(ps) PROVE Tables'
  <2>1. Schedule(ps) /\ UNCHANGED <<local, row>>
    BY <1>8 DEF Drain
  <2> QED
    BY <1>m, <2>1, ScheduleGoes, TablesKeepRows
<1>9. ASSUME NEW p \in Paths, JobNext(p) PROVE Tables'
  BY <1>m, <1>9, TablesKeepRows DEF JobNext
<1>10. ASSUME JobVerdict PROVE Tables'
  <2>1. lost' \in [Paths -> Fates] /\ UNCHANGED <<local, row>>
    BY <1>m, <1>10 DEF JobVerdict, Fates
  <2> QED
    BY <1>m, <2>1, TablesKeepRows
<1>11. ASSUME JobCancel PROVE Tables'
  BY <1>m, <1>11, TablesKeepRows DEF JobCancel
<1>12. ASSUME JobEnd PROVE Tables'
  <2>1. lost' \in [Paths -> Fates] /\ UNCHANGED <<local, row>>
    BY <1>m, <1>12 DEF JobEnd, Stop, Fates
  <2> QED
    BY <1>m, <2>1, TablesKeepRows
<1>13. ASSUME NEW force \in BOOLEAN, ScanStart(force) PROVE Tables'
  BY <1>m, <1>13, TablesKeepRows DEF ScanStart
<1>14. ASSUME NEW p \in Paths, ScanTags(p) PROVE Tables'
  BY <1>m, <1>14, TablesKeepRows DEF ScanTags
<1>15. ASSUME NEW p \in Paths, ScanNext(p) PROVE Tables'
  BY <1>m, <1>15, TablesKeepRows DEF ScanNext
<1>16. ASSUME ScanLists PROVE Tables'
  BY <1>m, <1>16, TablesKeepRows DEF ScanLists
<1>17. ASSUME ScanAbandons PROVE Tables'
  BY <1>m, <1>17, TablesKeepRows DEF ScanAbandons
<1>18. ASSUME ScanPrimes PROVE Tables'
  BY <1>m, <1>18, TablesKeepRows DEF ScanPrimes
<1>19. ASSUME ScanVerdict PROVE Tables'
  <2>1. UNCHANGED local /\ UNCHANGED lost /\ DOMAIN row' = Paths /\ row' = [p \in Paths |-> row'[p]]
        /\ \A p \in Paths : row'[p] \in {row[p], NoRow}
    BY <1>m, <1>19 DEF ScanVerdict
  <2> QED
    BY <1>m, <2>1, TablesKeepDats
<1>20. ASSUME ScanCancel PROVE Tables'
  BY <1>m, <1>20, TablesKeepRows DEF ScanCancel
<1>21. ASSUME ScanEnd PROVE Tables'
  BY <1>m, <1>21, TablesKeepRows DEF ScanEnd
<1>22. ASSUME NEW ps \in SUBSET Paths, BatchStart(ps) PROVE Tables'
  BY <1>m, <1>22, TablesKeepRows DEF BatchStart
<1>23. ASSUME NEW p \in Paths, BatchNext(p) PROVE Tables'
  BY <1>m, <1>23, TablesKeepRows DEF BatchNext
<1>24. ASSUME BatchVerdict PROVE Tables'
  BY <1>m, <1>24, TablesKeepRows DEF BatchVerdict
<1>25. ASSUME BatchEnd PROVE Tables'
  BY <1>m, <1>25, TablesKeepRows DEF BatchEnd
<1>26. ASSUME UploadBegin PROVE Tables'
  BY <1>m, <1>26, TablesKeepRows DEF UploadBegin
<1>27. ASSUME SyncBegin PROVE Tables'
  BY <1>m, <1>27, TablesKeepRows DEF SyncBegin
<1>28. ASSUME SyncStops PROVE Tables'
  BY <1>m, <1>28, TablesKeepRows DEF SyncStops
<1>29. ASSUME SyncSnapshot PROVE Tables'
  BY <1>m, <1>29, TablesKeepRows DEF SyncSnapshot
<1>30. ASSUME SyncClear PROVE Tables'
  <2> DEFINE ds == change["sync"].old
  <2>1. dats' = dats \ ds /\ index' = Without(ds) /\ row' = Orphaned(ds) /\ UNCHANGED <<nextDat, lost>>
    BY <1>30 DEF SyncClear
  <2> HIDE DEF ds
  <2>2. index' \in [Hashes -> dats' \cup {0}] /\ dats' \subseteq Dats
    BY <2>1 DEF Without, Tables
  <2>3. DOMAIN row' = Paths /\ row' = [p \in Paths |-> row'[p]]
        /\ \A p \in Paths : (row'[p] = row[p] /\ row[p].dat \in dats' \cup {0}) \/ row'[p] = NoRow
    BY <2>1 DEF Orphaned, Tables
  <2>4. nextDat' \in 1..(MaxDats + 1) /\ lost' \in [Paths -> Fates]
    BY <1>m, <2>1 DEF Tables
  <2> QED
    BY <1>m, <2>2, <2>3, <2>4, TablesBy
<1>31. ASSUME NEW c \in Changers, NEW hs \in DatSets, Import(c, hs) PROVE Tables'
  <2>1. nextDat \in 1..MaxDats /\ nextDat' \in 1..(MaxDats + 1) /\ MaxDats \in Nat
    BY <1>31, MatchCacheAssumption DEF Import, Tables
  <2>2. dats' \subseteq Dats /\ dats' = dats \cup {nextDat}
    BY <1>31, <2>1 DEF Import, Tables, Dats
  <2>3. index' \in [Hashes -> dats' \cup {0}]
    BY <1>31, <2>2 DEF Import, Imported, Tables
  <2>4. DOMAIN row' = Paths /\ row' = [p \in Paths |-> row'[p]] /\ lost' \in [Paths -> Fates]
    BY <1>31 DEF Import, Invalidated, Fates
  <2>5. \A p \in Paths : (row'[p] = row[p] /\ row[p].dat \in dats' \cup {0}) \/ row'[p] = NoRow
    BY <1>31, <2>2 DEF Import, Invalidated, Tables
  <2> QED
    BY <1>m, <2>1, <2>2, <2>3, <2>4, <2>5, TablesBy
<1>32. ASSUME NEW d \in Dats, DeleteDat(d) PROVE Tables'
  <2> DEFINE ds == {d}
  <2>1. dats' = dats \ ds /\ index' = Without(ds) /\ row' = Orphaned(ds) /\ UNCHANGED <<nextDat, lost>>
    BY <1>32 DEF DeleteDat
  <2> HIDE DEF ds
  <2>2. index' \in [Hashes -> dats' \cup {0}] /\ dats' \subseteq Dats
    BY <2>1 DEF Without, Tables
  <2>3. DOMAIN row' = Paths /\ row' = [p \in Paths |-> row'[p]]
        /\ \A p \in Paths : (row'[p] = row[p] /\ row[p].dat \in dats' \cup {0}) \/ row'[p] = NoRow
    BY <2>1 DEF Orphaned, Tables
  <2>4. nextDat' \in 1..(MaxDats + 1) /\ lost' \in [Paths -> Fates]
    BY <1>m, <2>1 DEF Tables
  <2> QED
    BY <1>m, <2>2, <2>3, <2>4, TablesBy
<1>33. ASSUME NEW c \in Changers, ListSurvivors(c) PROVE Tables'
  BY <1>m, <1>33, TablesKeepRows DEF ListSurvivors
<1>34. ASSUME NEW c \in Changers, ScheduleRematch(c) PROVE Tables'
  <2>1. Schedule(change[c].paths) /\ UNCHANGED <<local, row>>
    BY <1>34 DEF ScheduleRematch
  <2> QED
    BY <1>m, <2>1, ScheduleGoes, TablesKeepRows
<1>35. ASSUME NEW p \in Paths, Edit(p) PROVE Tables'
  BY <1>m, <1>35, TablesKeepRows DEF Edit
<1>36. ASSUME PruneMissing PROVE Tables'
  <2>1. UNCHANGED local /\ UNCHANGED lost /\ DOMAIN row' = Paths /\ row' = [p \in Paths |-> row'[p]]
        /\ \A p \in Paths : row'[p] \in {row[p], NoRow}
    BY <1>m, <1>36 DEF PruneMissing
  <2> QED
    BY <1>m, <2>1, TablesKeepDats
<1>37. ASSUME SaveToggle PROVE Tables'
  BY <1>m, <1>37, TablesKeepRows DEF SaveToggle
<1>38. ASSUME ApplyToggle PROVE Tables'
  BY <1>m, <1>38, TablesKeepRows DEF ApplyToggle
<1>39. ASSUME Crash PROVE Tables'
  <2>1. lost' \in [Paths -> Fates] /\ UNCHANGED <<local, row>>
    BY <1>m, <1>39 DEF Crash, Fates
  <2> QED
    BY <1>m, <2>1, TablesKeepRows
<1>40. ASSUME NEW c \in Changers, SurvivorsUnread(c) PROVE Tables'
  <2>1. UNCHANGED <<local, row>> /\ lost' = Stop(Cached \ change[c].paths)
    BY <1>40 DEF SurvivorsUnread
  <2> QED
    BY <1>m, <2>1, StopTypes, LostTypes, TablesKeepRows
<1> QED
  BY <1>1, <1>2, <1>3, <1>4, <1>5, <1>6, <1>7, <1>8, <1>9, <1>10, <1>11, <1>12, <1>13,
     <1>14, <1>15, <1>16, <1>17, <1>18, <1>19, <1>20, <1>21, <1>22, <1>23, <1>24, <1>25,
     <1>26, <1>27, <1>28, <1>29, <1>30, <1>31, <1>32, <1>33, <1>34, <1>35, <1>36, <1>37,
     <1>38, <1>39, <1>40
     DEF MatchNext, Match, Job, Scan, Batch, Dat, World
-----------------------------------------------------------------------------
\* The tasks stay well formed.
LEMMA RematchKeeps ==
    ASSUME JobWell, NEW qs \in SUBSET Paths, Rematch(qs), UNCHANGED m, drains' \subseteq SUBSET Paths
    PROVE  JobWell'
<1>1. CASE job.on
  BY <1>1 DEF JobWell, Rematch
<1>2. CASE ~job.on /\ qs = {}
  BY <1>2 DEF JobWell, Rematch
<1>3. CASE ~job.on /\ qs # {}
  BY <1>3 DEF JobWell, Rematch, JobOf, JobStates
<1> QED
  BY <1>1, <1>2, <1>3
LEMMA ScheduleIs ==
    ASSUME ChangeWell, NEW c \in Changers, change[c].pc = "schedule"
    PROVE  change[c].paths \in SUBSET Paths
  BY DEF ChangeWell, ChangeStates
LEMMA JobStep ==
    ASSUME Tables, JobWell, ChangeWell, DOMAIN m = Matchers, MatchNext
    PROVE  JobWell'
<1>1. ASSUME NEW x \in Matchers, HashFile(x) PROVE JobWell'
  <2>1. UNCHANGED <<job, deferred, drains>> /\ m[x].pc # "idle"
    BY <1>1 DEF HashFile, tasks, queue
  <2>2. x # "job" => m'["job"] = m["job"]
    BY <1>1 DEF HashFile, Matchers
  <2> QED
    BY <2>1, <2>2 DEF JobWell
<1>2. ASSUME NEW x \in Matchers, Send(x) PROVE JobWell'
  <2>1. UNCHANGED <<job, deferred, drains>> /\ m[x].pc # "idle"
    BY <1>2 DEF Send, tasks, queue
  <2>2. x # "job" => m'["job"] = m["job"]
    BY <1>2 DEF Send, Matchers, Put
  <2> QED
    BY <2>1, <2>2 DEF JobWell
<1>3. ASSUME NEW x \in Matchers, Reply(x) PROVE JobWell'
  <2>1. UNCHANGED <<job, deferred, drains>> /\ m[x].pc # "idle"
    BY <1>3 DEF Reply, tasks, queue
  <2>2. x # "job" => m'["job"] = m["job"]
    BY <1>3 DEF Reply, Matchers
  <2> QED
    BY <2>1, <2>2 DEF JobWell
<1>4. ASSUME NEW x \in Matchers, Commit(x) PROVE JobWell'
  <2>1. UNCHANGED <<job, deferred, drains>> /\ m[x].pc # "idle"
    BY <1>4 DEF Commit, tasks, queue
  <2>2. x # "job" => m'["job"] = m["job"]
    BY <1>4 DEF Commit, Matchers
  <2> QED
    BY <2>1, <2>2 DEF JobWell
<1>5. ASSUME NEW x \in Matchers, CommitFails(x) PROVE JobWell'
  <2>1. UNCHANGED <<job, deferred, drains>> /\ m[x].pc # "idle"
    BY <1>5 DEF CommitFails, tasks, queue
  <2>2. x # "job" => m'["job"] = m["job"]
    BY <1>5 DEF CommitFails, Matchers
  <2> QED
    BY <2>1, <2>2 DEF JobWell
<1>6. ASSUME NEW x \in Matchers, DropRow(x) PROVE JobWell'
  <2>1. UNCHANGED <<job, deferred, drains>> /\ m[x].pc # "idle"
    BY <1>6 DEF DropRow, tasks, queue
  <2>2. x # "job" => m'["job"] = m["job"]
    BY <1>6 DEF DropRow, Matchers
  <2> QED
    BY <2>1, <2>2 DEF JobWell
<1>7. ASSUME NEW ps \in SUBSET Paths, JobRequest(ps) PROVE JobWell'
  BY <1>7 DEF JobRequest, JobWell, queue, JobStates, JobOf
<1>8. ASSUME NEW ps \in SUBSET Paths, Drain(ps) PROVE JobWell'
  <2>1. PICK kept \in SUBSET Paths : Rematch(kept)
    BY <1>8 DEF Drain, Schedule
  <2>2. UNCHANGED m /\ drains' \subseteq SUBSET Paths
    BY <1>8 DEF Drain, JobWell
  <2> QED
    BY <2>1, <2>2, RematchKeeps
<1>9. ASSUME NEW p \in Paths, JobNext(p) PROVE JobWell'
  <2>1. job' = [job EXCEPT !.todo = job.todo \ {p}] /\ job.on /\ UNCHANGED queue
    BY <1>9 DEF JobNext
  <2> QED
    BY <2>1 DEF JobWell, queue, JobStates
<1>10. ASSUME JobVerdict PROVE JobWell'
  <2>1. m["job"].pc = "done" /\ UNCHANGED queue
        /\ (job' = job \/ job' = [job EXCEPT !.stop = "crash"])
    BY <1>10 DEF JobVerdict
  <2> QED
    BY <2>1 DEF JobWell, queue, JobStates
<1>11. ASSUME JobCancel PROVE JobWell'
  BY <1>11 DEF JobCancel, JobWell, queue, JobStates
<1>12. ASSUME JobEnd PROVE JobWell'
  <2>1. job' = NoJob /\ deferred' = {} /\ m' = m /\ m["job"].pc = "idle"
        /\ (drains' = drains \/ drains' = (drains \cup {deferred}) \ {{}})
    BY <1>12 DEF JobEnd
  <2> QED
    BY <2>1 DEF JobWell, NoJob, JobStates
<1>13. ASSUME NEW force \in BOOLEAN, ScanStart(force) PROVE JobWell'
  BY <1>13 DEF ScanStart, JobWell, queue, tasks
<1>14. ASSUME NEW p \in Paths, ScanTags(p) PROVE JobWell'
  BY <1>14 DEF ScanTags, JobWell, queue, tasks
<1>15. ASSUME NEW p \in Paths, ScanNext(p) PROVE JobWell'
  <2>1. m' = m \/ OpenFile("scan", p)
    BY <1>15 DEF ScanNext
  <2>2. m'["job"] = m["job"]
    <3>1. CASE OpenFile("scan", p)
      <4>1. PICK r : m' = [m EXCEPT !["scan"] = r] /\ Goes(r, p)
        BY <3>1, OpenGoes DEF Matchers
      <4> QED
        BY <4>1 DEF Matchers
    <3> QED
      BY <2>1, <3>1
  <2>3. UNCHANGED <<job, deferred, drains>>
    BY <1>15 DEF ScanNext, queue
  <2> QED
    BY <2>2, <2>3 DEF JobWell
<1>16. ASSUME ScanLists PROVE JobWell'
  BY <1>16 DEF ScanLists, JobWell, queue, tasks
<1>17. ASSUME ScanAbandons PROVE JobWell'
  BY <1>17 DEF ScanAbandons, JobWell, queue, tasks
<1>18. ASSUME ScanPrimes PROVE JobWell'
  BY <1>18 DEF ScanPrimes, JobWell, queue, tasks
<1>19. ASSUME ScanVerdict PROVE JobWell'
  BY <1>19 DEF ScanVerdict, JobWell, queue, tasks
<1>20. ASSUME ScanCancel PROVE JobWell'
  BY <1>20 DEF ScanCancel, JobWell, queue, tasks
<1>21. ASSUME ScanEnd PROVE JobWell'
  BY <1>21 DEF ScanEnd, JobWell, queue, tasks
<1>22. ASSUME NEW ps \in SUBSET Paths, BatchStart(ps) PROVE JobWell'
  BY <1>22 DEF BatchStart, JobWell, queue, tasks
<1>23. ASSUME NEW p \in Paths, BatchNext(p) PROVE JobWell'
  <2>1. m' = m \/ OpenFile("batch", p)
    BY <1>23 DEF BatchNext
  <2>2. m'["job"] = m["job"]
    <3>1. CASE OpenFile("batch", p)
      <4>1. PICK r : m' = [m EXCEPT !["batch"] = r] /\ Goes(r, p)
        BY <3>1, OpenGoes DEF Matchers
      <4> QED
        BY <4>1 DEF Matchers
    <3> QED
      BY <2>1, <3>1
  <2>3. UNCHANGED <<job, deferred, drains>>
    BY <1>23 DEF BatchNext, queue
  <2> QED
    BY <2>2, <2>3 DEF JobWell
<1>24. ASSUME BatchVerdict PROVE JobWell'
  BY <1>24 DEF BatchVerdict, JobWell, queue, tasks
<1>25. ASSUME BatchEnd PROVE JobWell'
  BY <1>25 DEF BatchEnd, JobWell, queue, tasks
<1>26. ASSUME UploadBegin PROVE JobWell'
  BY <1>26 DEF UploadBegin, JobWell, queue, tasks
<1>27. ASSUME SyncBegin PROVE JobWell'
  BY <1>27 DEF SyncBegin, JobWell, queue, tasks
<1>28. ASSUME SyncStops PROVE JobWell'
  BY <1>28 DEF SyncStops, JobWell, queue, tasks
<1>29. ASSUME SyncSnapshot PROVE JobWell'
  BY <1>29 DEF SyncSnapshot, JobWell, queue, tasks
<1>30. ASSUME SyncClear PROVE JobWell'
  BY <1>30 DEF SyncClear, JobWell, queue, tasks
<1>31. ASSUME NEW c \in Changers, NEW hs \in DatSets, Import(c, hs) PROVE JobWell'
  BY <1>31 DEF Import, JobWell, queue, tasks
<1>32. ASSUME NEW d \in Dats, DeleteDat(d) PROVE JobWell'
  BY <1>32 DEF DeleteDat, JobWell, queue, tasks
<1>33. ASSUME NEW c \in Changers, ListSurvivors(c) PROVE JobWell'
  BY <1>33 DEF ListSurvivors, JobWell, queue, tasks
<1>34. ASSUME NEW c \in Changers, ScheduleRematch(c) PROVE JobWell'
  <2>1. change[c].pc = "schedule" /\ Schedule(change[c].paths) /\ UNCHANGED <<m, drains>>
    BY <1>34 DEF ScheduleRematch
  <2>2. PICK kept \in SUBSET Paths : Rematch(kept)
    BY <2>1, ScheduleIs DEF Schedule
  <2>3. drains' \subseteq SUBSET Paths
    BY <2>1 DEF JobWell
  <2> QED
    BY <2>1, <2>2, <2>3, RematchKeeps
<1>35. ASSUME NEW p \in Paths, Edit(p) PROVE JobWell'
  BY <1>35 DEF Edit, JobWell, queue, tasks
<1>36. ASSUME PruneMissing PROVE JobWell'
  BY <1>36 DEF PruneMissing, JobWell, queue, tasks
<1>37. ASSUME SaveToggle PROVE JobWell'
  BY <1>37 DEF SaveToggle, JobWell, queue, tasks
<1>38. ASSUME ApplyToggle PROVE JobWell'
  BY <1>38 DEF ApplyToggle, JobWell, queue, tasks
<1>39. ASSUME Crash PROVE JobWell'
  BY <1>39 DEF Crash, JobWell, NoJob, JobStates, NoMatch, Matchers
<1>40. ASSUME NEW c \in Changers, SurvivorsUnread(c) PROVE JobWell'
  BY <1>40 DEF SurvivorsUnread, JobWell, queue, tasks
<1> QED
  BY <1>1, <1>2, <1>3, <1>4, <1>5, <1>6, <1>7, <1>8, <1>9, <1>10, <1>11, <1>12, <1>13,
     <1>14, <1>15, <1>16, <1>17, <1>18, <1>19, <1>20, <1>21, <1>22, <1>23, <1>24, <1>25,
     <1>26, <1>27, <1>28, <1>29, <1>30, <1>31, <1>32, <1>33, <1>34, <1>35, <1>36, <1>37,
     <1>38, <1>39, <1>40
     DEF MatchNext, Match, Job, Scan, Batch, Dat, World
LEMMA ScanStep ==
    ASSUME Tables, scan \in ScanStates, MatchNext
    PROVE  scan' \in ScanStates
<1>1. ASSUME NEW x \in Matchers, HashFile(x) PROVE scan' \in ScanStates
  BY <1>1 DEF HashFile, tasks
<1>2. ASSUME NEW x \in Matchers, Send(x) PROVE scan' \in ScanStates
  BY <1>2 DEF Send, tasks
<1>3. ASSUME NEW x \in Matchers, Reply(x) PROVE scan' \in ScanStates
  BY <1>3 DEF Reply, tasks
<1>4. ASSUME NEW x \in Matchers, Commit(x) PROVE scan' \in ScanStates
  BY <1>4 DEF Commit, tasks
<1>5. ASSUME NEW x \in Matchers, CommitFails(x) PROVE scan' \in ScanStates
  BY <1>5 DEF CommitFails, ScanStates, tasks
<1>6. ASSUME NEW x \in Matchers, DropRow(x) PROVE scan' \in ScanStates
  BY <1>6 DEF DropRow, tasks
<1>7. ASSUME NEW ps \in SUBSET Paths, JobRequest(ps) PROVE scan' \in ScanStates
  BY <1>7 DEF JobRequest, tasks
<1>8. ASSUME NEW ps \in SUBSET Paths, Drain(ps) PROVE scan' \in ScanStates
  BY <1>8 DEF Drain, tasks
<1>9. ASSUME NEW p \in Paths, JobNext(p) PROVE scan' \in ScanStates
  BY <1>9 DEF JobNext, tasks
<1>10. ASSUME JobVerdict PROVE scan' \in ScanStates
  BY <1>10 DEF JobVerdict, tasks
<1>11. ASSUME JobCancel PROVE scan' \in ScanStates
  BY <1>11 DEF JobCancel, tasks
<1>12. ASSUME JobEnd PROVE scan' \in ScanStates
  BY <1>12 DEF JobEnd, tasks
<1>13. ASSUME NEW force \in BOOLEAN, ScanStart(force) PROVE scan' \in ScanStates
  BY <1>13 DEF ScanStart, NoScan, ScanStates
<1>14. ASSUME NEW p \in Paths, ScanTags(p) PROVE scan' \in ScanStates
  BY <1>14 DEF ScanTags, tasks
<1>15. ASSUME NEW p \in Paths, ScanNext(p) PROVE scan' \in ScanStates
  <2> DEFINE cs == {c \in scan.cached : c[1] # p}
  <2>1. scan' = [scan EXCEPT !.todo = scan.todo \ {p}, !.cached = cs]
    BY <1>15 DEF ScanNext
  <2>2. cs \in SUBSET (Paths \X Verdicts)
    BY DEF ScanStates
  <2> HIDE DEF cs
  <2> QED
    BY <2>1, <2>2 DEF ScanStates
<1>16. ASSUME ScanLists PROVE scan' \in ScanStates
  BY <1>16 DEF ScanLists, ScanStates, tasks
<1>17. ASSUME ScanAbandons PROVE scan' \in ScanStates
  BY <1>17 DEF ScanAbandons, ScanStates, tasks
<1>18. ASSUME ScanPrimes PROVE scan' \in ScanStates
  <2> DEFINE ps == IF Available THEN scan.todo ELSE {}
             cs == IF scan.force THEN {} ELSE {<<p, row[p]>> : p \in ps}
  <2>1. ps \in SUBSET Paths
    BY DEF ScanStates
  <2>2. cs \in SUBSET (Paths \X Verdicts)
    BY <2>1 DEF Tables
  <2>3. \/ scan' = [scan EXCEPT !.phase = "match", !.todo = ps, !.cached = cs]
        \/ scan' = [scan EXCEPT !.phase = "match", !.todo = {}]
    BY <1>18 DEF ScanPrimes
  <2> HIDE DEF ps, cs
  <2> QED
    BY <2>1, <2>2, <2>3 DEF ScanStates
<1>19. ASSUME ScanVerdict PROVE scan' \in ScanStates
  BY <1>19 DEF ScanVerdict, ScanStates, tasks
<1>20. ASSUME ScanCancel PROVE scan' \in ScanStates
  BY <1>20 DEF ScanCancel, ScanStates, tasks
<1>21. ASSUME ScanEnd PROVE scan' \in ScanStates
  BY <1>21 DEF ScanEnd, NoScan, ScanStates
<1>22. ASSUME NEW ps \in SUBSET Paths, BatchStart(ps) PROVE scan' \in ScanStates
  BY <1>22 DEF BatchStart, tasks
<1>23. ASSUME NEW p \in Paths, BatchNext(p) PROVE scan' \in ScanStates
  BY <1>23 DEF BatchNext, tasks
<1>24. ASSUME BatchVerdict PROVE scan' \in ScanStates
  BY <1>24 DEF BatchVerdict, tasks
<1>25. ASSUME BatchEnd PROVE scan' \in ScanStates
  BY <1>25 DEF BatchEnd, tasks
<1>26. ASSUME UploadBegin PROVE scan' \in ScanStates
  BY <1>26 DEF UploadBegin, tasks
<1>27. ASSUME SyncBegin PROVE scan' \in ScanStates
  BY <1>27 DEF SyncBegin, tasks
<1>28. ASSUME SyncStops PROVE scan' \in ScanStates
  BY <1>28 DEF SyncStops, tasks
<1>29. ASSUME SyncSnapshot PROVE scan' \in ScanStates
  BY <1>29 DEF SyncSnapshot, tasks
<1>30. ASSUME SyncClear PROVE scan' \in ScanStates
  BY <1>30 DEF SyncClear, tasks
<1>31. ASSUME NEW c \in Changers, NEW hs \in DatSets, Import(c, hs) PROVE scan' \in ScanStates
  BY <1>31 DEF Import, tasks
<1>32. ASSUME NEW d \in Dats, DeleteDat(d) PROVE scan' \in ScanStates
  BY <1>32 DEF DeleteDat, tasks
<1>33. ASSUME NEW c \in Changers, ListSurvivors(c) PROVE scan' \in ScanStates
  BY <1>33 DEF ListSurvivors, tasks
<1>34. ASSUME NEW c \in Changers, ScheduleRematch(c) PROVE scan' \in ScanStates
  BY <1>34 DEF ScheduleRematch, tasks
<1>35. ASSUME NEW p \in Paths, Edit(p) PROVE scan' \in ScanStates
  BY <1>35 DEF Edit, tasks
<1>36. ASSUME PruneMissing PROVE scan' \in ScanStates
  BY <1>36 DEF PruneMissing, tasks
<1>37. ASSUME SaveToggle PROVE scan' \in ScanStates
  BY <1>37 DEF SaveToggle, tasks
<1>38. ASSUME ApplyToggle PROVE scan' \in ScanStates
  BY <1>38 DEF ApplyToggle, tasks
<1>39. ASSUME Crash PROVE scan' \in ScanStates
  BY <1>39 DEF Crash, NoScan, ScanStates
<1>40. ASSUME NEW c \in Changers, SurvivorsUnread(c) PROVE scan' \in ScanStates
  BY <1>40 DEF SurvivorsUnread, tasks
<1> QED
  BY <1>1, <1>2, <1>3, <1>4, <1>5, <1>6, <1>7, <1>8, <1>9, <1>10, <1>11, <1>12, <1>13,
     <1>14, <1>15, <1>16, <1>17, <1>18, <1>19, <1>20, <1>21, <1>22, <1>23, <1>24, <1>25,
     <1>26, <1>27, <1>28, <1>29, <1>30, <1>31, <1>32, <1>33, <1>34, <1>35, <1>36, <1>37,
     <1>38, <1>39, <1>40
     DEF MatchNext, Match, Job, Scan, Batch, Dat, World
LEMMA BatchKeeps ==
    ASSUME BatchWell, batch' \in BatchStates, batch'.held = batch.held,
           \A p \in Paths : file'[p] = 1 => file[p] = 1
    PROVE  BatchWell'
<1>1. ASSUME NEW u \in batch'.held PROVE Sound(file', u[1], u[2]) /\ Cacheable(u[2])
  <2>1. u[1] \in Paths /\ Sound(file, u[1], u[2]) /\ Cacheable(u[2])
    BY <1>1 DEF BatchWell, BatchStates
  <2> QED
    BY <2>1, SoundStays
<1> QED
  BY <1>1 DEF BatchWell
LEMMA BatchStep ==
    ASSUME Tables, Matching, BatchWell, MatchNext
    PROVE  BatchWell'
<1>m. BatchWell /\ batch \in BatchStates /\ \A p \in Paths : file'[p] = 1 => file[p] = 1
  BY FilesStep DEF FilesWell, BatchWell
<1>1. ASSUME NEW x \in Matchers, HashFile(x) PROVE BatchWell'
  <2>1. batch' = batch
    BY <1>1 DEF HashFile, tasks
  <2> QED
    BY <2>1, <1>m, BatchKeeps
<1>2. ASSUME NEW x \in Matchers, Send(x) PROVE BatchWell'
  <2>1. batch' = batch
    BY <1>2 DEF Send, tasks
  <2> QED
    BY <2>1, <1>m, BatchKeeps
<1>3. ASSUME NEW x \in Matchers, Reply(x) PROVE BatchWell'
  <2>1. batch' = batch
    BY <1>3 DEF Reply, tasks
  <2> QED
    BY <2>1, <1>m, BatchKeeps
<1>4. ASSUME NEW x \in Matchers, Commit(x) PROVE BatchWell'
  <2>1. batch' = batch
    BY <1>4 DEF Commit, tasks
  <2> QED
    BY <2>1, <1>m, BatchKeeps
<1>5. ASSUME NEW x \in Matchers, CommitFails(x) PROVE BatchWell'
  <2>1. batch' = batch
    BY <1>5 DEF CommitFails, tasks
  <2> QED
    BY <2>1, <1>m, BatchKeeps
<1>6. ASSUME NEW x \in Matchers, DropRow(x) PROVE BatchWell'
  <2>1. batch' = batch
    BY <1>6 DEF DropRow, tasks
  <2> QED
    BY <2>1, <1>m, BatchKeeps
<1>7. ASSUME NEW ps \in SUBSET Paths, JobRequest(ps) PROVE BatchWell'
  <2>1. batch' = batch
    BY <1>7 DEF JobRequest, tasks
  <2> QED
    BY <2>1, <1>m, BatchKeeps
<1>8. ASSUME NEW ps \in SUBSET Paths, Drain(ps) PROVE BatchWell'
  <2>1. batch' = batch
    BY <1>8 DEF Drain, tasks
  <2> QED
    BY <2>1, <1>m, BatchKeeps
<1>9. ASSUME NEW p \in Paths, JobNext(p) PROVE BatchWell'
  <2>1. batch' = batch
    BY <1>9 DEF JobNext, tasks
  <2> QED
    BY <2>1, <1>m, BatchKeeps
<1>10. ASSUME JobVerdict PROVE BatchWell'
  <2>1. batch' = batch
    BY <1>10 DEF JobVerdict, tasks
  <2> QED
    BY <2>1, <1>m, BatchKeeps
<1>11. ASSUME JobCancel PROVE BatchWell'
  <2>1. batch' = batch
    BY <1>11 DEF JobCancel, tasks
  <2> QED
    BY <2>1, <1>m, BatchKeeps
<1>12. ASSUME JobEnd PROVE BatchWell'
  <2>1. batch' = batch
    BY <1>12 DEF JobEnd, tasks
  <2> QED
    BY <2>1, <1>m, BatchKeeps
<1>13. ASSUME NEW force \in BOOLEAN, ScanStart(force) PROVE BatchWell'
  <2>1. batch' = batch
    BY <1>13 DEF ScanStart, tasks
  <2> QED
    BY <2>1, <1>m, BatchKeeps
<1>14. ASSUME NEW p \in Paths, ScanTags(p) PROVE BatchWell'
  <2>1. batch' = batch
    BY <1>14 DEF ScanTags, tasks
  <2> QED
    BY <2>1, <1>m, BatchKeeps
<1>15. ASSUME NEW p \in Paths, ScanNext(p) PROVE BatchWell'
  <2>1. batch' = batch
    BY <1>15 DEF ScanNext, tasks
  <2> QED
    BY <2>1, <1>m, BatchKeeps
<1>16. ASSUME ScanLists PROVE BatchWell'
  <2>1. batch' = batch
    BY <1>16 DEF ScanLists, tasks
  <2> QED
    BY <2>1, <1>m, BatchKeeps
<1>17. ASSUME ScanAbandons PROVE BatchWell'
  <2>1. batch' = batch
    BY <1>17 DEF ScanAbandons, tasks
  <2> QED
    BY <2>1, <1>m, BatchKeeps
<1>18. ASSUME ScanPrimes PROVE BatchWell'
  <2>1. batch' = batch
    BY <1>18 DEF ScanPrimes, tasks
  <2> QED
    BY <2>1, <1>m, BatchKeeps
<1>19. ASSUME ScanVerdict PROVE BatchWell'
  <2>1. batch' = batch
    BY <1>19 DEF ScanVerdict, tasks
  <2> QED
    BY <2>1, <1>m, BatchKeeps
<1>20. ASSUME ScanCancel PROVE BatchWell'
  <2>1. batch' = batch
    BY <1>20 DEF ScanCancel, tasks
  <2> QED
    BY <2>1, <1>m, BatchKeeps
<1>21. ASSUME ScanEnd PROVE BatchWell'
  <2>1. batch' = batch
    BY <1>21 DEF ScanEnd, tasks
  <2> QED
    BY <2>1, <1>m, BatchKeeps
<1>22. ASSUME NEW ps \in SUBSET Paths, BatchStart(ps) PROVE BatchWell'
  <2>1. batch' \in BatchStates /\ batch'.held = {}
    BY <1>22 DEF BatchStart, NoBatch, BatchStates
  <2> QED
    BY <2>1 DEF BatchWell
<1>23. ASSUME NEW p \in Paths, BatchNext(p) PROVE BatchWell'
  <2>1. batch' = [batch EXCEPT !.todo = batch.todo \ {p}]
    BY <1>23 DEF BatchNext
  <2>2. batch' \in BatchStates /\ batch'.held = batch.held
    BY <2>1 DEF BatchWell, BatchStates
  <2> QED
    BY <2>2, <1>m, BatchKeeps
<1>24. ASSUME BatchVerdict PROVE BatchWell'
  <2> DEFINE p == m["batch"].p
             v == m["batch"].verdict
             todo == IF v.v = "stuck" THEN {} ELSE batch.todo
             held == IF Cacheable(v) THEN batch.held \cup {<<p, v>>} ELSE batch.held
  <2>1. m["batch"].pc = "done" /\ file' = file
        /\ batch' = [batch EXCEPT !.todo = todo, !.held = held]
    BY <1>24 DEF BatchVerdict
  <2>2. p \in Paths /\ v \in Verdicts /\ Sound(file, p, v)
    BY <2>1, AtDone DEF Matching, Matchers
  <2>3. held \in SUBSET (Paths \X Verdicts)
        /\ \A u \in held : Sound(file, u[1], u[2]) /\ Cacheable(u[2])
    BY <2>2 DEF BatchWell, BatchStates
  <2>4. todo \in SUBSET Paths
    BY DEF BatchWell, BatchStates
  <2> HIDE DEF p, v, todo, held
  <2>5. batch' \in BatchStates /\ batch'.held = held
    BY <2>1, <2>3, <2>4 DEF BatchWell, BatchStates
  <2> QED
    BY <2>1, <2>3, <2>5 DEF BatchWell
<1>25. ASSUME BatchEnd PROVE BatchWell'
  <2>1. batch' \in BatchStates /\ batch'.held = {}
    BY <1>25 DEF BatchEnd, NoBatch, BatchStates
  <2> QED
    BY <2>1 DEF BatchWell
<1>26. ASSUME UploadBegin PROVE BatchWell'
  <2>1. batch' = batch
    BY <1>26 DEF UploadBegin, tasks
  <2> QED
    BY <2>1, <1>m, BatchKeeps
<1>27. ASSUME SyncBegin PROVE BatchWell'
  <2>1. batch' = batch
    BY <1>27 DEF SyncBegin, tasks
  <2> QED
    BY <2>1, <1>m, BatchKeeps
<1>28. ASSUME SyncStops PROVE BatchWell'
  <2>1. batch' = batch
    BY <1>28 DEF SyncStops, tasks
  <2> QED
    BY <2>1, <1>m, BatchKeeps
<1>29. ASSUME SyncSnapshot PROVE BatchWell'
  <2>1. batch' = batch
    BY <1>29 DEF SyncSnapshot, tasks
  <2> QED
    BY <2>1, <1>m, BatchKeeps
<1>30. ASSUME SyncClear PROVE BatchWell'
  <2>1. batch' = batch
    BY <1>30 DEF SyncClear, tasks
  <2> QED
    BY <2>1, <1>m, BatchKeeps
<1>31. ASSUME NEW c \in Changers, NEW hs \in DatSets, Import(c, hs) PROVE BatchWell'
  <2>1. batch' = batch
    BY <1>31 DEF Import, tasks
  <2> QED
    BY <2>1, <1>m, BatchKeeps
<1>32. ASSUME NEW d \in Dats, DeleteDat(d) PROVE BatchWell'
  <2>1. batch' = batch
    BY <1>32 DEF DeleteDat, tasks
  <2> QED
    BY <2>1, <1>m, BatchKeeps
<1>33. ASSUME NEW c \in Changers, ListSurvivors(c) PROVE BatchWell'
  <2>1. batch' = batch
    BY <1>33 DEF ListSurvivors, tasks
  <2> QED
    BY <2>1, <1>m, BatchKeeps
<1>34. ASSUME NEW c \in Changers, ScheduleRematch(c) PROVE BatchWell'
  <2>1. batch' = batch
    BY <1>34 DEF ScheduleRematch, tasks
  <2> QED
    BY <2>1, <1>m, BatchKeeps
<1>35. ASSUME NEW p \in Paths, Edit(p) PROVE BatchWell'
  <2>1. batch' = batch
    BY <1>35 DEF Edit, tasks
  <2> QED
    BY <2>1, <1>m, BatchKeeps
<1>36. ASSUME PruneMissing PROVE BatchWell'
  <2>1. batch' = batch
    BY <1>36 DEF PruneMissing, tasks
  <2> QED
    BY <2>1, <1>m, BatchKeeps
<1>37. ASSUME SaveToggle PROVE BatchWell'
  <2>1. batch' = batch
    BY <1>37 DEF SaveToggle, tasks
  <2> QED
    BY <2>1, <1>m, BatchKeeps
<1>38. ASSUME ApplyToggle PROVE BatchWell'
  <2>1. batch' = batch
    BY <1>38 DEF ApplyToggle, tasks
  <2> QED
    BY <2>1, <1>m, BatchKeeps
<1>39. ASSUME Crash PROVE BatchWell'
  <2>1. batch' \in BatchStates /\ batch'.held = {}
    BY <1>39 DEF Crash, NoBatch, BatchStates
  <2> QED
    BY <2>1 DEF BatchWell
<1>40. ASSUME NEW c \in Changers, SurvivorsUnread(c) PROVE BatchWell'
  <2>1. batch' = batch
    BY <1>40 DEF SurvivorsUnread, tasks
  <2> QED
    BY <2>1, <1>m, BatchKeeps
<1> QED
  BY <1>1, <1>2, <1>3, <1>4, <1>5, <1>6, <1>7, <1>8, <1>9, <1>10, <1>11, <1>12, <1>13,
     <1>14, <1>15, <1>16, <1>17, <1>18, <1>19, <1>20, <1>21, <1>22, <1>23, <1>24, <1>25,
     <1>26, <1>27, <1>28, <1>29, <1>30, <1>31, <1>32, <1>33, <1>34, <1>35, <1>36, <1>37,
     <1>38, <1>39, <1>40
     DEF MatchNext, Match, Job, Scan, Batch, Dat, World
LEMMA CachedIn == Cached \in SUBSET Paths
  BY DEF Cached
LEMMA StagingIs ==
    ASSUME ChangeWell, NEW c \in Changers, change[c].pc = "staging"
    PROVE  change[c].old \in SUBSET Dats
  BY DEF ChangeWell, ChangeStates
LEMMA ListedIs ==
    ASSUME ChangeWell, NEW c \in Changers, change[c].pc \in {"listed", "imported", "cleared"}
    PROVE  change[c] \in [pc : {"listed", "imported", "cleared"}, paths : SUBSET Paths, old : SUBSET Dats]
           /\ change[c].paths \in SUBSET Paths
  BY DEF ChangeWell, ChangeStates
LEMMA ChangeStep ==
    ASSUME Tables, ChangeWell, MatchNext
    PROVE  ChangeWell'
<1>1. ASSUME NEW x \in Matchers, HashFile(x) PROVE ChangeWell'
  BY <1>1 DEF HashFile, ChangeWell
<1>2. ASSUME NEW x \in Matchers, Send(x) PROVE ChangeWell'
  BY <1>2 DEF Send, ChangeWell
<1>3. ASSUME NEW x \in Matchers, Reply(x) PROVE ChangeWell'
  BY <1>3 DEF Reply, ChangeWell
<1>4. ASSUME NEW x \in Matchers, Commit(x) PROVE ChangeWell'
  BY <1>4 DEF Commit, ChangeWell
<1>5. ASSUME NEW x \in Matchers, CommitFails(x) PROVE ChangeWell'
  BY <1>5 DEF CommitFails, ChangeWell
<1>6. ASSUME NEW x \in Matchers, DropRow(x) PROVE ChangeWell'
  BY <1>6 DEF DropRow, ChangeWell
<1>7. ASSUME NEW ps \in SUBSET Paths, JobRequest(ps) PROVE ChangeWell'
  BY <1>7 DEF JobRequest, ChangeWell
<1>8. ASSUME NEW ps \in SUBSET Paths, Drain(ps) PROVE ChangeWell'
  BY <1>8 DEF Drain, ChangeWell
<1>9. ASSUME NEW p \in Paths, JobNext(p) PROVE ChangeWell'
  BY <1>9 DEF JobNext, ChangeWell
<1>10. ASSUME JobVerdict PROVE ChangeWell'
  BY <1>10 DEF JobVerdict, ChangeWell
<1>11. ASSUME JobCancel PROVE ChangeWell'
  BY <1>11 DEF JobCancel, ChangeWell
<1>12. ASSUME JobEnd PROVE ChangeWell'
  BY <1>12 DEF JobEnd, ChangeWell
<1>13. ASSUME NEW force \in BOOLEAN, ScanStart(force) PROVE ChangeWell'
  BY <1>13 DEF ScanStart, ChangeWell
<1>14. ASSUME NEW p \in Paths, ScanTags(p) PROVE ChangeWell'
  BY <1>14 DEF ScanTags, ChangeWell
<1>15. ASSUME NEW p \in Paths, ScanNext(p) PROVE ChangeWell'
  BY <1>15 DEF ScanNext, ChangeWell
<1>16. ASSUME ScanLists PROVE ChangeWell'
  BY <1>16 DEF ScanLists, ChangeWell
<1>17. ASSUME ScanAbandons PROVE ChangeWell'
  BY <1>17 DEF ScanAbandons, ChangeWell
<1>18. ASSUME ScanPrimes PROVE ChangeWell'
  BY <1>18 DEF ScanPrimes, ChangeWell
<1>19. ASSUME ScanVerdict PROVE ChangeWell'
  BY <1>19 DEF ScanVerdict, ChangeWell
<1>20. ASSUME ScanCancel PROVE ChangeWell'
  BY <1>20 DEF ScanCancel, ChangeWell
<1>21. ASSUME ScanEnd PROVE ChangeWell'
  BY <1>21 DEF ScanEnd, ChangeWell
<1>22. ASSUME NEW ps \in SUBSET Paths, BatchStart(ps) PROVE ChangeWell'
  BY <1>22 DEF BatchStart, ChangeWell
<1>23. ASSUME NEW p \in Paths, BatchNext(p) PROVE ChangeWell'
  BY <1>23 DEF BatchNext, ChangeWell
<1>24. ASSUME BatchVerdict PROVE ChangeWell'
  BY <1>24 DEF BatchVerdict, ChangeWell
<1>25. ASSUME BatchEnd PROVE ChangeWell'
  BY <1>25 DEF BatchEnd, ChangeWell
<1>26. ASSUME UploadBegin PROVE ChangeWell'
  <2> DEFINE r == [pc |-> "listed", paths |-> Cached, old |-> {}]
  <2>1. change' = [change EXCEPT !["upload"] = r]
    BY <1>26 DEF UploadBegin
  <2>2. r \in ChangeStates /\ ("upload" = "upload" => r.pc # "imported")
    BY <1>26, CachedIn, StagingIs DEF UploadBegin, ChangeStates, Tables
  <2> HIDE DEF r
  <2> QED
    BY <2>1, <2>2 DEF ChangeWell, Changers
<1>27. ASSUME SyncBegin PROVE ChangeWell'
  <2> DEFINE r == [pc |-> "staging", old |-> dats]
  <2>1. change' = [change EXCEPT !["sync"] = r]
    BY <1>27 DEF SyncBegin
  <2>2. r \in ChangeStates /\ ("sync" = "upload" => r.pc # "imported")
    BY <1>27, CachedIn, StagingIs DEF SyncBegin, ChangeStates, Tables
  <2> HIDE DEF r
  <2> QED
    BY <2>1, <2>2 DEF ChangeWell, Changers
<1>28. ASSUME SyncStops PROVE ChangeWell'
  BY <1>28 DEF SyncStops, ChangeWell, NoChange, ChangeStates, Changers
<1>29. ASSUME SyncSnapshot PROVE ChangeWell'
  <2>0. PICK ps \in {Cached, {}} : change' =
            [change EXCEPT !["sync"] = [pc |-> "listed", paths |-> ps, old |-> change["sync"].old]]
    BY <1>29 DEF SyncSnapshot
  <2> DEFINE r == [pc |-> "listed", paths |-> ps, old |-> change["sync"].old]
  <2>1. change' = [change EXCEPT !["sync"] = r] /\ change["sync"].pc = "staging" /\ "sync" \in Changers
    BY <1>29, <2>0 DEF SyncSnapshot, Changers
  <2>2. r \in ChangeStates
    BY <2>1, CachedIn, StagingIs DEF ChangeStates
  <2> HIDE DEF r
  <2> QED
    BY <2>1, <2>2 DEF ChangeWell, Changers
<1>30. ASSUME SyncClear PROVE ChangeWell'
  <2> DEFINE to == "cleared"
             r  == [change["sync"] EXCEPT !.pc = to]
  <2>1. change' = [change EXCEPT !["sync"] = r] /\ change["sync"].pc \in {"listed", "imported", "cleared"}
    BY <1>30 DEF SyncClear
  <2>2. change["sync"] \in [pc : {"listed", "imported", "cleared"}, paths : SUBSET Paths, old : SUBSET Dats]
    BY <2>1, ListedIs DEF Changers
  <2>3. r \in [pc : {"listed", "imported", "cleared"}, paths : SUBSET Paths, old : SUBSET Dats]
        /\ r.pc = to /\ ("sync" = "upload" => to # "imported")
    BY <2>2
  <2> HIDE DEF r, to
  <2>4. r \in ChangeStates
    BY <2>3 DEF ChangeStates
  <2> QED
    BY <2>1, <2>3, <2>4 DEF ChangeWell, Changers
<1>31. ASSUME NEW c \in Changers, NEW hs \in DatSets, Import(c, hs) PROVE ChangeWell'
  <2> DEFINE to == IF c = "sync" THEN "imported" ELSE "cleared"
             r  == [change[c] EXCEPT !.pc = to]
  <2>1. change' = [change EXCEPT ![c] = r] /\ change[c].pc \in {"listed", "imported", "cleared"}
    BY <1>31 DEF Import
  <2>2. change[c] \in [pc : {"listed", "imported", "cleared"}, paths : SUBSET Paths, old : SUBSET Dats]
    BY <2>1, ListedIs DEF Changers
  <2>3. r \in [pc : {"listed", "imported", "cleared"}, paths : SUBSET Paths, old : SUBSET Dats]
        /\ r.pc = to /\ (c = "upload" => to # "imported")
    BY <2>2
  <2> HIDE DEF r, to
  <2>4. r \in ChangeStates
    BY <2>3 DEF ChangeStates
  <2> QED
    BY <2>1, <2>3, <2>4 DEF ChangeWell, Changers
<1>32. ASSUME NEW d \in Dats, DeleteDat(d) PROVE ChangeWell'
  BY <1>32 DEF DeleteDat, ChangeWell
<1>33. ASSUME NEW c \in Changers, ListSurvivors(c) PROVE ChangeWell'
  <2> DEFINE r == [pc |-> "schedule", paths |-> NeedRematch(c)]
  <2>1. change' = [change EXCEPT ![c] = r] /\ change[c].pc = "cleared"
    BY <1>33 DEF ListSurvivors
  <2>2. change[c].paths \in SUBSET Paths
    BY <2>1, ListedIs
  <2>3. r \in ChangeStates /\ r.pc = "schedule"
    BY <2>2, CachedIn DEF NeedRematch, ChangeStates
  <2> HIDE DEF r
  <2> QED
    BY <2>1, <2>3 DEF ChangeWell, Changers
<1>34. ASSUME NEW c \in Changers, ScheduleRematch(c) PROVE ChangeWell'
  BY <1>34 DEF ScheduleRematch, ChangeWell, NoChange, ChangeStates, Changers
<1>35. ASSUME NEW p \in Paths, Edit(p) PROVE ChangeWell'
  BY <1>35 DEF Edit, ChangeWell
<1>36. ASSUME PruneMissing PROVE ChangeWell'
  BY <1>36 DEF PruneMissing, ChangeWell
<1>37. ASSUME SaveToggle PROVE ChangeWell'
  BY <1>37 DEF SaveToggle, ChangeWell
<1>38. ASSUME ApplyToggle PROVE ChangeWell'
  BY <1>38 DEF ApplyToggle, ChangeWell
<1>39. ASSUME Crash PROVE ChangeWell'
  BY <1>39 DEF Crash, ChangeWell, NoChange, ChangeStates, Changers
<1>40. ASSUME NEW c \in Changers, SurvivorsUnread(c) PROVE ChangeWell'
  <2> DEFINE r == [pc |-> "schedule", paths |-> change[c].paths]
  <2>1. change' = [change EXCEPT ![c] = r] /\ change[c].pc = "cleared"
    BY <1>40 DEF SurvivorsUnread
  <2>2. change[c].paths \in SUBSET Paths
    BY <2>1, ListedIs
  <2>3. r \in ChangeStates /\ r.pc = "schedule"
    BY <2>2 DEF ChangeStates
  <2> HIDE DEF r
  <2> QED
    BY <2>1, <2>3 DEF ChangeWell, Changers
<1> QED
  BY <1>1, <1>2, <1>3, <1>4, <1>5, <1>6, <1>7, <1>8, <1>9, <1>10, <1>11, <1>12, <1>13,
     <1>14, <1>15, <1>16, <1>17, <1>18, <1>19, <1>20, <1>21, <1>22, <1>23, <1>24, <1>25,
     <1>26, <1>27, <1>28, <1>29, <1>30, <1>31, <1>32, <1>33, <1>34, <1>35, <1>36, <1>37,
     <1>38, <1>39, <1>40
     DEF MatchNext, Match, Job, Scan, Batch, Dat, World
-----------------------------------------------------------------------------
\* The rematch that a row owes.

\* The job is at a path, or about to write it.
AtJob(r, p) ==
    \/ r.pc \in {"hash", "send", "sent", "done", "drop"} /\ r.p = p
    \/ r.pc = "commit" /\ \E w \in r.writes : w.p = p
LEMMA PendingIs == \A p \in Paths : Pending(p) <=> Elsewhere(p) \/ AtJob(m["job"], p)
  BY DEF Pending, Elsewhere, JobWill, AtJob
LEMMA YieldsIs == RemoteYields <=> \A p \in Paths : Owed(p) => Elsewhere(p) \/ AtJob(m["job"], p)
  BY PendingIs DEF RemoteYields, Owed
LEMMA PendingNext == \A p \in Paths : Pending(p)' <=> Elsewhere(p)' \/ AtJob(m["job"], p)'
  BY DEF Pending, Elsewhere, JobWill, AtJob
LEMMA YieldsNext == RemoteYields' <=> \A p \in Paths : Owed(p)' => Elsewhere(p)' \/ AtJob(m["job"], p)'
  BY PendingNext DEF RemoteYields, Owed
LEMMA YieldBy ==
    ASSUME Matching, Yielding,
           \A p \in Paths : Owed(p)' /\ ~Elsewhere(p)' =>
               Owed(p) /\ ~Elsewhere(p) /\ (AtJob(m["job"], p) => AtJob(m["job"], p)'),
           Overtaken(m["job"])' /\ Owed(m["job"].p)' =>
               \/ Elsewhere(m["job"].p)'
               \/ Overtaken(m["job"]) /\ m'["job"].p = m["job"].p
    PROVE  Yielding'
<1>1. RemoteYields'
  BY YieldsIs, YieldsNext DEF Yielding
<1>2. ASSUME Overtaken(m["job"]) PROVE m["job"].p \in Paths
  <2>1. Fine(file, m["job"]) /\ m["job"].pc \in {"send", "sent", "done"}
    BY <1>2 DEF Matching, Matchers, Overtaken
  <2> QED
    BY <2>1, AtRemote, AtDone DEF RemoteStates
<1>3. ASSUME Overtaken(m["job"])', Owed(m["job"].p)', ~Elsewhere(m["job"].p)' PROVE FALSE
  <2>1. Overtaken(m["job"]) /\ m'["job"].p = m["job"].p
    BY <1>3
  <2>2. PICK p \in Paths : p = m["job"].p /\ p = m'["job"].p
    BY <1>2, <2>1
  <2>3. Owed(p)' /\ ~Elsewhere(p)'
    BY <1>3, <2>2
  <2>4. Owed(p) /\ ~Elsewhere(p)
    BY <2>3
  <2> QED
    BY <2>1, <2>2, <2>4 DEF Yielding
<1> QED
  BY <1>1, <1>3 DEF Yielding

\* The job's match stays where it is, and no DAT comes in.
LEMMA YieldRest ==
    ASSUME Matching, Yielding, m'["job"] = m["job"],
           \A h \in Hashes : index'[h] # 0 => index[h] # 0,
           \A p \in Paths : Owed(p)' => Owed(p) /\ (Elsewhere(p) => Elsewhere(p)')
    PROVE  Yielding'
<1>1. ASSUME Overtaken(m["job"])' PROVE Overtaken(m["job"])
  <2>1. m["job"].pc \in {"send", "sent"} => m["job"].cands \subseteq Hashes
    BY AtRemote DEF Matching, Matchers, RemoteStates
  <2>2. m["job"].pc = "done" => m["job"].verdict.cands \subseteq Hashes
    BY AtDone DEF Matching, Matchers, Verdicts
  <2> QED
    BY <1>1, <2>1, <2>2 DEF Overtaken, Covered
<1>2. \A p \in Paths : AtJob(m["job"], p) => AtJob(m["job"], p)'
  BY DEF AtJob
<1> QED
  BY <1>1, <1>2, YieldBy
LEMMA OwedStays ==
    ASSUME Tables, NEW p \in Paths, Owed(p)', \A h \in Hashes : index'[h] # 0 => index[h] # 0,
           row'[p] \in {row[p], NoRow}, lost'[p] = "no" => lost[p] = "no"
    PROVE  Owed(p)
<1>1. row'[p] = row[p]
  BY NoRowIs DEF Owed, RemoteHit
<1>2. Matched(row[p]) /\ row[p] \in Verdicts /\ Sound(file, p, row[p])
  BY <1>1 DEF Owed, Tables, RemoteHit, Matched
<1>3. row[p].hash \in Hashes
  BY <1>2 DEF Sound, Verdicts
<1> QED
  BY <1>1, <1>3 DEF Owed
LEMMA YieldSame ==
    ASSUME Matching, Yielding, m'["job"] = m["job"], UNCHANGED <<row, index, lost>>,
           \A p \in Paths : Elsewhere(p) => Elsewhere(p)'
    PROVE  Yielding'
<1>1. \A p \in Paths : Owed(p)' => Owed(p)
  BY DEF Owed
<1> QED
  BY <1>1, YieldRest
LEMMA ElsewhereSame ==
    ASSUME UNCHANGED <<deferred, drains, change>>, job'.todo = job.todo
    PROVE  \A p \in Paths : Elsewhere(p)' <=> Elsewhere(p)
  BY DEF Elsewhere, ChangeWill

\* The job's match goes on at its path.
LEMMA YieldMove ==
    ASSUME Matching, Yielding, UNCHANGED <<row, index, lost, deferred, drains, change, job>>,
           NEW r, m'["job"] = r, r.pc \in {"hash", "send", "sent", "done", "drop"},
           m["job"].pc \in {"hash", "send", "sent", "done", "drop"}, r.p = m["job"].p,
           Overtaken(r) => Overtaken(m["job"])
    PROVE  Yielding'
<1>1. \A p \in Paths : Owed(p)' => Owed(p)
  BY DEF Owed
<1>2. \A p \in Paths : AtJob(m["job"], p) => AtJob(m["job"], p)'
  BY DEF AtJob
<1>3. Overtaken(m["job"])' => Overtaken(m["job"])
  BY DEF Overtaken, Covered
<1> QED
  BY <1>1, <1>2, <1>3, ElsewhereSame, YieldBy
\* The job's match is over.
LEMMA YieldDone ==
    ASSUME Matching, Yielding, UNCHANGED <<index, deferred, drains, change>>, job'.todo = job.todo,
           m'["job"] = NoMatch,
           \A p \in Paths : Owed(p)' => Owed(p) /\ ~AtJob(m["job"], p)
    PROVE  Yielding'
<1>1. ~Overtaken(m["job"])'
  BY IdleIs DEF Overtaken
<1> QED
  BY <1>1, ElsewhereSame, YieldBy
LEMMA RematchAdds ==
    ASSUME JobWell, NEW qs, Rematch(qs)
    PROVE  \A p \in Paths : p \in deferred \cup job.todo \cup qs => p \in deferred' \cup job'.todo
  BY DEF Rematch, JobWell, JobOf

\* A verdict that leaves the row as it is settled what the row owes, or came too
\* late for DATs that brought a rematch of their own.
LEMMA VerdictYields ==
    ASSUME Tables, Matching, Yielding, JobVerdict, UNCHANGED <<row, index, deferred, drains, change>>,
           job'.todo = job.todo, m["job"].pc = "done"
    PROVE  Yielding'
<1>1. Fine(file, m["job"])
  BY DEF Matching, Matchers
<1>2. PICK p \in Paths, v \in Verdicts : p = m["job"].p /\ v = m["job"].verdict /\ Sound(file, p, v)
  BY <1>1, AtDone
<1> DEFINE held == {<<p, v>>}
           r == IF v.v = "stuck" THEN NoMatch
                ELSE IF Cacheable(v) THEN Writing(held) ELSE Dropping(p, v)
<1>3. m'["job"] = r
  BY <1>2 DEF JobVerdict, Matching, Matchers
<1>4. lost' = IF ~Matched(v) /\ Unjudged(p, v) THEN [lost EXCEPT ![p] = "stopped"] ELSE lost
  BY <1>2 DEF JobVerdict
<1>5. row[p] \in Verdicts /\ Sound(file, p, row[p]) /\ dats \subseteq Dats /\ lost \in [Paths -> Fates]
  BY <1>2, LostTypes DEF Tables
<1>6. ASSUME NEW q \in Paths, Owed(q)' PROVE Owed(q)
  BY <1>4, <1>2, <1>5, <1>6 DEF Owed
<1>7. ASSUME Owed(p)', ~Elsewhere(p) PROVE AtJob(r, p)
  <2>1. Owed(p) /\ ~Overtaken(m["job"]) /\ (v.v # "dat" => ~Covered(v.cands))
    BY <1>2, <1>6, <1>7 DEF Yielding, Overtaken
  <2>2. ~(~Matched(v) /\ Unjudged(p, v))
    BY <1>4, <1>2, <1>5, <1>7 DEF Owed
  <2>3. RemoteHit(row[p]) /\ row[p].hash \in Hashes /\ index[row[p].hash] # 0
    BY <1>5, <2>1 DEF Owed, Sound, Verdicts, RemoteHit, Matched
  <2>4. ASSUME ~Matched(v) PROVE ProvesChanged(row[p], v)
    <3>1. PICK h \in v.cands : h[2] = row[p].hash[2]
      BY <2>2, <2>3, <2>4 DEF Unjudged
    <3>2. row[p].hash \notin v.cands
      BY <2>1, <2>3, <2>4 DEF Covered, Matched
    <3> QED
      BY <2>3, <3>1, <3>2 DEF ProvesChanged, RemoteHit, Matched
  <2>5. CASE v.v = "stuck"
    <3>1. ProvesChanged(row[p], v)
      BY <2>4, <2>5 DEF Matched
    <3> QED
      BY <1>2, <2>5, <3>1 DEF Sound, ProvesChanged
  <2>6. CASE v.v # "stuck" /\ Cacheable(v)
    <3>1. ~Downgrades(row[p], v)
      BY <2>4 DEF Downgrades
    <3>2. ~CoveredNow(v)
      <4>1. CASE v.v = "dat"
        BY <1>2, <4>1 DEF Sound, CoveredNow, ByRemote
      <4> QED
        BY <2>1, <4>1 DEF CoveredNow
    <3>3. ~SamePayload(row[p], Linked(v))
      <4>1. Linked(v).v = v.v /\ Linked(v).hash = v.hash
        BY <1>2, <1>5, LinkedIs
      <4>2. ASSUME v.v = "remote" PROVE v.hash # row[p].hash
        BY <1>2, <2>1, <2>3, <4>2 DEF Sound, Covered
      <4> QED
        BY <2>3, <4>1, <4>2 DEF SamePayload, RemoteHit
    <3>4. held \in SUBSET (Paths \X Verdicts)
          /\ \A u \in held : Sound(file, u[1], u[2]) /\ Cacheable(u[2])
      BY <1>2, <2>6
    <3> DEFINE a == <<p, v>>
               w == [p |-> a[1], verdict |-> Linked(a[2]), seen |-> row[a[1]], clear |-> ~Covered(a[2].cands)]
    <3>5. w \in Writes(held) /\ w.p = p
      <4>1. a \in {u \in held : /\ ~CoveredNow(u[2]) /\ ~Downgrades(row[u[1]], u[2])
                                      /\ ~SamePayload(row[u[1]], Linked(u[2]))}
        BY <3>1, <3>2, <3>3
      <4> QED
        BY <4>1 DEF Writes
    <3> HIDE DEF w, held
    <3>6. Writing(held).pc = "commit" /\ Writing(held).writes = Writes(held)
      BY <3>4, <3>5, WritingIs
    <3>7. r = Writing(held)
      BY <2>6
    <3> QED
      BY <3>5, <3>6, <3>7 DEF AtJob
  <2>7. CASE v.v # "stuck" /\ ~Cacheable(v)
    <3>1. ProvesChanged(row[p], v)
      BY <2>4, <2>7 DEF Cacheable, Matched
    <3>2. Dropping(p, v).pc = "drop" /\ Dropping(p, v).p = p
      BY <1>2, <3>1, DroppingIs
    <3> QED
      BY <2>7, <3>2 DEF AtJob
  <2> QED
    BY <2>5, <2>6, <2>7
<1>8. r.pc \in {"idle", "commit", "drop"}
  BY <1>1, <1>2, VerdictGoes DEF Matchers
<1> HIDE DEF r
<1>9. ~Overtaken(m["job"])'
  BY <1>3, <1>8 DEF Overtaken
<1>10. \A q \in Paths : Owed(q)' /\ ~Elsewhere(q)' =>
           Owed(q) /\ ~Elsewhere(q) /\ (AtJob(m["job"], q) => AtJob(m["job"], q)')
  <2> SUFFICES ASSUME NEW q \in Paths, Owed(q)', ~Elsewhere(q)'
               PROVE  Owed(q) /\ ~Elsewhere(q) /\ (AtJob(m["job"], q) => AtJob(m["job"], q)')
    OBVIOUS
  <2>1. ~Elsewhere(q)
    BY ElsewhereSame
  <2>2. ASSUME AtJob(m["job"], q) PROVE AtJob(m["job"], q)'
    <3>1. q = p
      BY <1>2, <2>2 DEF AtJob
    <3>2. AtJob(r, p)
      BY <1>7, <2>1, <3>1
    <3> QED
      BY <1>3, <3>1, <3>2 DEF AtJob
  <2> QED
    BY <1>6, <2>1, <2>2
<1> QED
  BY <1>9, <1>10, YieldBy
LEMMA YieldStep ==
    ASSUME Tables, Tasks, Matching, Yielding, MatchNext
    PROVE  Yielding'
<1>m. JobWell /\ ChangeWell /\ job \in JobStates
  BY DEF Tasks, JobWell
<1>1. ASSUME NEW x \in Matchers, HashFile(x) PROVE Yielding'
  <2>1. UNCHANGED <<row, index, lost, deferred, drains, change, job>> /\ m[x].pc = "hash"
    BY <1>1 DEF HashFile, local, queue, tasks
  <2>2. Fine(file, m[x])
    BY DEF Matching
  <2>3. PICK r : m' = [m EXCEPT ![x] = r] /\ r.p = m[x].p /\ r.pc \in {"hash", "send", "sent", "done"}
                 /\ (Overtaken(r) => Overtaken(m[x]))
    BY <1>1, <2>2, HashGoes DEF Matching, Goes, Overtaken
  <2>4. CASE x = "job"
    BY <2>1, <2>3, <2>4, YieldMove DEF Matching, Matchers
  <2>5. CASE x # "job"
    <3>1. m'["job"] = m["job"]
      BY <2>3, <2>5 DEF Matchers
    <3> QED
      BY <2>1, <3>1, ElsewhereSame, YieldSame
  <2> QED
    BY <2>4, <2>5
<1>2. ASSUME NEW x \in Matchers, Send(x) PROVE Yielding'
  <2>1. UNCHANGED <<row, index, lost, deferred, drains, change, job>> /\ m[x].pc = "send"
    BY <1>2 DEF Send, local, queue, tasks
  <2>2. Fine(file, m[x])
    BY DEF Matching
  <2>3. PICK r : m' = [m EXCEPT ![x] = r] /\ r.p = m[x].p /\ r.pc \in {"hash", "send", "sent", "done"}
                 /\ (Overtaken(r) => Overtaken(m[x]))
    BY <1>2, <2>2, SendGoes DEF Matching
  <2>4. CASE x = "job"
    BY <2>1, <2>3, <2>4, YieldMove DEF Matching, Matchers
  <2>5. CASE x # "job"
    <3>1. m'["job"] = m["job"]
      BY <2>3, <2>5 DEF Matchers
    <3> QED
      BY <2>1, <3>1, ElsewhereSame, YieldSame
  <2> QED
    BY <2>4, <2>5
<1>3. ASSUME NEW x \in Matchers, Reply(x) PROVE Yielding'
  <2>1. UNCHANGED <<row, index, lost, deferred, drains, change, job>> /\ m[x].pc = "sent"
    BY <1>3 DEF Reply, local, queue, tasks
  <2>2. Fine(file, m[x])
    BY DEF Matching
  <2>3. PICK r : m' = [m EXCEPT ![x] = r] /\ r.p = m[x].p /\ r.pc \in {"hash", "send", "sent", "done"}
                 /\ (Overtaken(r) => Overtaken(m[x]))
    BY <1>3, <2>2, ReplyGoes DEF Matching
  <2>4. CASE x = "job"
    BY <2>1, <2>3, <2>4, YieldMove DEF Matching, Matchers
  <2>5. CASE x # "job"
    <3>1. m'["job"] = m["job"]
      BY <2>3, <2>5 DEF Matchers
    <3> QED
      BY <2>1, <3>1, ElsewhereSame, YieldSame
  <2> QED
    BY <2>4, <2>5
<1>4. ASSUME NEW x \in Matchers, Commit(x) PROVE Yielding'
  <2> DEFINE ps == {w.p : w \in m[x].writes}
  <2>1. m[x].pc = "commit" /\ Fine(file, m[x]) /\ m' = [m EXCEPT ![x] = NoMatch]
        /\ UNCHANGED <<index, deferred, drains, change, job>>
    BY <1>4 DEF Commit, Matching, local, queue, tasks
  <2>2. ASSUME NEW p \in Paths, Owed(p)' PROVE p \notin ps /\ Owed(p)
    <3>1. CASE p \in ps
      <4>1. PICK w \in m[x].writes : w.p = p
        BY <3>1
      <4>2. Decided(file, Write(x, p)) /\ Write(x, p).verdict \in Verdicts
        BY <2>1, <4>1, WriteIs
      <4>3. row'[p] = Write(x, p).verdict /\ lost'[p] = (IF Raced(Write(x, p)) THEN "raced" ELSE "no")
        BY <1>4, <3>1 DEF Commit
      <4>4. RemoteHit(Write(x, p).verdict) /\ index[Write(x, p).verdict.hash] # 0 /\ ~Raced(Write(x, p))
        BY <2>1, <2>2, <4>3 DEF Owed
      <4>5. Write(x, p).clear /\ Write(x, p).verdict.hash \in Write(x, p).verdict.cands
            /\ ByRemote(Write(x, p).verdict)
        BY <4>2, <4>4 DEF Decided, Sound, RemoteHit, ByRemote
      <4> QED
        BY <4>4, <4>5 DEF Raced, Covered
    <3>2. CASE p \notin ps
      <4>1. row'[p] = row[p] /\ lost'[p] = lost[p]
        BY <1>4, <3>2 DEF Commit
      <4> QED
        BY <2>1, <2>2, <3>2, <4>1 DEF Owed
    <3> QED
      BY <3>1, <3>2
  <2>3. CASE x = "job"
    <3>1. m'["job"] = NoMatch
      BY <2>1, <2>3 DEF Matching, Matchers
    <3>2. \A p \in Paths : Owed(p)' => Owed(p) /\ ~AtJob(m["job"], p)
      BY <2>1, <2>2, <2>3 DEF AtJob
    <3> QED
      BY <2>1, <3>1, <3>2, YieldDone
  <2>4. CASE x # "job"
    <3>1. m'["job"] = m["job"]
      BY <2>1, <2>4 DEF Matchers
    <3>2. \A p \in Paths : Owed(p)' => Owed(p) /\ (Elsewhere(p) => Elsewhere(p)')
      BY <2>1, <2>2, ElsewhereSame
    <3> QED
      BY <2>1, <3>1, <3>2, YieldRest
  <2> QED
    BY <2>3, <2>4
<1>5. ASSUME NEW x \in Matchers, CommitFails(x) PROVE Yielding'
  <2>1. m[x].pc = "commit" /\ m' = [m EXCEPT ![x] = NoMatch]
        /\ UNCHANGED <<row, index, deferred, drains, change, job>>
    BY <1>5 DEF CommitFails, local, queue
  <2>2. CASE x = "job"
    <3>1. m'["job"] = NoMatch
      BY <2>1, <2>2 DEF Matching, Matchers
    <3>2. ASSUME NEW p \in Paths, Owed(p)' PROVE Owed(p) /\ ~AtJob(m["job"], p)
      <4>1. lost'[p] = IF \E w \in m["job"].writes : w.p = p THEN "stopped" ELSE lost[p]
        BY <1>5, <2>2 DEF CommitFails
      <4> QED
        BY <2>1, <2>2, <3>2, <4>1 DEF Owed, AtJob
    <3> QED
      BY <2>1, <3>1, <3>2, YieldDone
  <2>3. CASE x # "job"
    <3>1. m'["job"] = m["job"] /\ lost' = lost
      BY <1>5, <2>1, <2>3 DEF Matchers, CommitFails
    <3> QED
      BY <2>1, <3>1, ElsewhereSame, YieldSame
  <2> QED
    BY <2>2, <2>3
<1>6. ASSUME NEW x \in Matchers, DropRow(x) PROVE Yielding'
  <2>1. m[x].pc = "drop" /\ m' = [m EXCEPT ![x] = NoMatch] /\ row' = [row EXCEPT ![m[x].p] = NoRow]
        /\ UNCHANGED <<index, lost, deferred, drains, change, job>>
    BY <1>6 DEF DropRow, local, queue, tasks
  <2>2. ASSUME NEW p \in Paths, Owed(p)' PROVE Owed(p) /\ p # m[x].p
    <3>1. row'[p] \in {row[p], NoRow} /\ (p = m[x].p => row'[p] = NoRow)
      BY <2>1 DEF Tables
    <3> QED
      BY <2>1, <2>2, <3>1, OwedStays, NoRowIs DEF Owed, RemoteHit
  <2>3. CASE x = "job"
    <3>1. m'["job"] = NoMatch
      BY <2>1, <2>3 DEF Matching, Matchers
    <3>2. \A p \in Paths : Owed(p)' => Owed(p) /\ ~AtJob(m["job"], p)
      BY <2>1, <2>2, <2>3 DEF AtJob
    <3> QED
      BY <2>1, <3>1, <3>2, YieldDone
  <2>4. CASE x # "job"
    <3>1. m'["job"] = m["job"]
      BY <2>1, <2>4 DEF Matchers
    <3>2. \A p \in Paths : Owed(p)' => Owed(p) /\ (Elsewhere(p) => Elsewhere(p)')
      BY <2>1, <2>2, ElsewhereSame
    <3> QED
      BY <2>1, <3>1, <3>2, YieldRest
  <2> QED
    BY <2>3, <2>4
<1>7. ASSUME NEW ps \in SUBSET Paths, JobRequest(ps) PROVE Yielding'
  <2>1. ~job.on /\ job.todo = {} /\ UNCHANGED <<m, row, index, lost, deferred, drains, change>>
    BY <1>m, <1>7 DEF JobRequest, local, queue, JobWell
  <2>2. \A p \in Paths : Elsewhere(p) => Elsewhere(p)'
    BY <2>1 DEF Elsewhere, ChangeWill
  <2> QED
    BY <2>1, <2>2, YieldSame
<1>8. ASSUME NEW ps \in SUBSET Paths, Drain(ps) PROVE Yielding'
  <2>1. UNCHANGED <<m, row, index, change>> /\ drains' = drains \ {ps} /\ Schedule(ps)
    BY <1>8 DEF Drain, local
  <2>2. PICK kept \in SUBSET ps : /\ Rematch(kept)
            /\ \A p \in Paths : lost'[p] = "no" => lost[p] = "no" /\ (p \in ps => p \in kept)
    BY <1>m, <2>1, ScheduleGoes
  <2>3. \A p \in Paths : p \in deferred \cup job.todo \cup kept => p \in deferred' \cup job'.todo
    BY <1>m, <2>2, RematchAdds
  <2>4. \A p \in Paths : p \in (UNION drains) => p \in (UNION drains') \/ p \in ps
    BY <2>1
  <2>5. \A p \in Paths : Owed(p)' => Owed(p) /\ (p \in ps => p \in kept)
    BY <2>1, <2>2 DEF Owed
  <2>6. \A p \in Paths : Owed(p)' => Owed(p) /\ (Elsewhere(p) => Elsewhere(p)')
    BY <2>1, <2>3, <2>4, <2>5 DEF Elsewhere, ChangeWill
  <2> QED
    BY <2>1, <2>6, YieldRest
<1>9. ASSUME NEW p \in Paths, JobNext(p) PROVE Yielding'
  <2>1. UNCHANGED <<row, index, lost, deferred, drains, change>> /\ m["job"].pc = "idle"
        /\ job' = [job EXCEPT !.todo = job.todo \ {p}]
    BY <1>9 DEF JobNext, local, queue
  <2>2. PICK r : m' = [m EXCEPT !["job"] = r] /\ Goes(r, p)
    BY <1>9, OpenGoes DEF JobNext, Matchers
  <2>3. m'["job"] = r
    BY <2>2 DEF Matching, Matchers
  <2>4. job'.todo = job.todo \ {p}
    BY <2>1 DEF JobWell, JobStates
  <2>5. AtJob(m["job"], p)' /\ ~Overtaken(m["job"])'
    BY <2>1, <2>2, <2>3 DEF Goes, AtJob, Overtaken, Covered
  <2>6. ASSUME NEW q \in Paths, Owed(q)' PROVE Elsewhere(q)' \/ AtJob(m["job"], q)'
    <3>1. Owed(q)
      BY <2>1, <2>6 DEF Owed
    <3>2. Elsewhere(q)
      BY <2>1, <3>1, YieldsIs DEF Yielding, AtJob
    <3>3. CASE q = p
      BY <2>5, <3>3
    <3>4. CASE q # p
      BY <2>1, <2>4, <3>2, <3>4 DEF Elsewhere, ChangeWill
    <3> QED
      BY <3>3, <3>4
  <2> QED
    BY <2>5, <2>6, YieldsNext DEF Yielding
<1>10. ASSUME JobVerdict PROVE Yielding'
  <2>1. UNCHANGED <<row, index, deferred, drains, change>> /\ m["job"].pc = "done"
    BY <1>10 DEF JobVerdict, local, queue
  <2>2. job'.todo = job.todo
    BY <1>10 DEF JobVerdict, JobWell, JobStates
  <2> QED
    BY <1>10, <2>1, <2>2, VerdictYields
<1>11. ASSUME JobCancel PROVE Yielding'
  <2>1. m'["job"] = m["job"] /\ UNCHANGED <<row, index, lost, deferred, drains, change>>
        /\ job'.todo = job.todo
    BY <1>11 DEF JobCancel, local, queue, tasks, Matchers
  <2> QED
    BY <2>1, ElsewhereSame, YieldSame
<1>12. ASSUME JobEnd PROVE Yielding'
  <2>1. UNCHANGED <<m, row, index, change>> /\ job' = NoJob /\ deferred' = {}
    BY <1>12 DEF JobEnd, local
  <2>2. ASSUME NEW p \in Paths, Owed(p)' PROVE Owed(p) /\ (Elsewhere(p) => Elsewhere(p)')
    <3>1. CASE job.stop = "no"
      <4>1. job.todo = {} /\ drains' = (drains \cup {deferred}) \ {{}} /\ lost' = lost
        BY <1>12, <3>1 DEF JobEnd
      <4>2. p \in deferred \cup (UNION drains) => p \in (UNION drains')
        BY <4>1
      <4> QED
        BY <2>1, <2>2, <4>1, <4>2 DEF Owed, Elsewhere, ChangeWill
    <3>2. CASE job.stop # "no"
      <4>1. drains' = drains /\ lost' = Stop(deferred \cup job.todo)
        BY <1>12, <3>2 DEF JobEnd
      <4>2. p \notin deferred \cup job.todo /\ lost[p] = "no"
        BY <2>2, <4>1 DEF Owed, Stop
      <4> QED
        BY <2>1, <2>2, <4>1, <4>2 DEF Owed, Elsewhere, ChangeWill
    <3> QED
      BY <3>1, <3>2
  <2> QED
    BY <2>1, <2>2, YieldRest
<1>13. ASSUME NEW force \in BOOLEAN, ScanStart(force) PROVE Yielding'
  <2>1. m'["job"] = m["job"] /\ UNCHANGED <<row, index, lost, deferred, drains, change>>
        /\ job'.todo = job.todo
    BY <1>13 DEF ScanStart, local, queue, tasks, Matchers
  <2> QED
    BY <2>1, ElsewhereSame, YieldSame
<1>14. ASSUME NEW p \in Paths, ScanTags(p) PROVE Yielding'
  <2>1. m'["job"] = m["job"] /\ UNCHANGED <<row, index, lost, deferred, drains, change>>
        /\ job'.todo = job.todo
    BY <1>14 DEF ScanTags, local, queue, tasks, Matchers
  <2> QED
    BY <2>1, ElsewhereSame, YieldSame
<1>15. ASSUME NEW p \in Paths, ScanNext(p) PROVE Yielding'
  <2>1. m'["job"] = m["job"]
    <3>1. CASE OpenFile("scan", p)
      <4>1. PICK r : m' = [m EXCEPT !["scan"] = r] /\ Goes(r, p)
        BY <3>1, OpenGoes DEF Matchers
      <4> QED
        BY <4>1 DEF Matchers
    <3> QED
      BY <1>15, <3>1 DEF ScanNext
  <2>2. UNCHANGED <<row, index, lost, deferred, drains, change>> /\ job' = job
    BY <1>15 DEF ScanNext, local, queue
  <2> QED
    BY <2>1, <2>2, ElsewhereSame, YieldSame
<1>16. ASSUME ScanLists PROVE Yielding'
  <2>1. m'["job"] = m["job"] /\ UNCHANGED <<row, index, lost, deferred, drains, change>>
        /\ job'.todo = job.todo
    BY <1>16 DEF ScanLists, local, queue, tasks, Matchers
  <2> QED
    BY <2>1, ElsewhereSame, YieldSame
<1>17. ASSUME ScanAbandons PROVE Yielding'
  <2>1. m'["job"] = m["job"] /\ UNCHANGED <<row, index, lost, deferred, drains, change>>
        /\ job'.todo = job.todo
    BY <1>17 DEF ScanAbandons, local, queue, tasks, Matchers
  <2> QED
    BY <2>1, ElsewhereSame, YieldSame
<1>18. ASSUME ScanPrimes PROVE Yielding'
  <2>1. m'["job"] = m["job"] /\ UNCHANGED <<row, index, lost, deferred, drains, change>>
        /\ job'.todo = job.todo
    BY <1>18 DEF ScanPrimes, local, queue, tasks, Matchers
  <2> QED
    BY <2>1, ElsewhereSame, YieldSame
<1>19. ASSUME ScanVerdict PROVE Yielding'
  <2>1. m'["job"] = m["job"] /\ UNCHANGED <<index, lost, deferred, drains, change, job>>
        /\ \A p \in Paths : row'[p] \in {row[p], NoRow}
    BY <1>19 DEF ScanVerdict, local, queue, tasks, Matchers, Tables
  <2>2. \A p \in Paths : Owed(p)' => Owed(p) /\ (Elsewhere(p) => Elsewhere(p)')
    BY <2>1, OwedStays, ElsewhereSame
  <2> QED
    BY <2>1, <2>2, YieldRest
<1>20. ASSUME ScanCancel PROVE Yielding'
  <2>1. m'["job"] = m["job"] /\ UNCHANGED <<row, index, lost, deferred, drains, change>>
        /\ job'.todo = job.todo
    BY <1>20 DEF ScanCancel, local, queue, tasks, Matchers
  <2> QED
    BY <2>1, ElsewhereSame, YieldSame
<1>21. ASSUME ScanEnd PROVE Yielding'
  <2>1. m'["job"] = m["job"] /\ UNCHANGED <<row, index, lost, deferred, drains, change>>
        /\ job'.todo = job.todo
    BY <1>21 DEF ScanEnd, local, queue, tasks, Matchers
  <2> QED
    BY <2>1, ElsewhereSame, YieldSame
<1>22. ASSUME NEW ps \in SUBSET Paths, BatchStart(ps) PROVE Yielding'
  <2>1. m'["job"] = m["job"] /\ UNCHANGED <<row, index, lost, deferred, drains, change>>
        /\ job'.todo = job.todo
    BY <1>22 DEF BatchStart, local, queue, tasks, Matchers
  <2> QED
    BY <2>1, ElsewhereSame, YieldSame
<1>23. ASSUME NEW p \in Paths, BatchNext(p) PROVE Yielding'
  <2>1. m'["job"] = m["job"]
    <3>1. CASE OpenFile("batch", p)
      <4>1. PICK r : m' = [m EXCEPT !["batch"] = r] /\ Goes(r, p)
        BY <3>1, OpenGoes DEF Matchers
      <4> QED
        BY <4>1 DEF Matchers
    <3> QED
      BY <1>23, <3>1 DEF BatchNext
  <2>2. UNCHANGED <<row, index, lost, deferred, drains, change>> /\ job' = job
    BY <1>23 DEF BatchNext, local, queue
  <2> QED
    BY <2>1, <2>2, ElsewhereSame, YieldSame
<1>24. ASSUME BatchVerdict PROVE Yielding'
  <2>1. m'["job"] = m["job"] /\ UNCHANGED <<row, index, lost, deferred, drains, change>>
        /\ job'.todo = job.todo
    BY <1>24 DEF BatchVerdict, local, queue, tasks, Matchers
  <2> QED
    BY <2>1, ElsewhereSame, YieldSame
<1>25. ASSUME BatchEnd PROVE Yielding'
  <2>1. m'["job"] = m["job"] /\ UNCHANGED <<row, index, lost, deferred, drains, change>>
        /\ job'.todo = job.todo
    BY <1>25 DEF BatchEnd, local, queue, tasks, Matchers
  <2> QED
    BY <2>1, ElsewhereSame, YieldSame
<1>26. ASSUME UploadBegin PROVE Yielding'
  <2>1. UNCHANGED <<m, row, index, lost, deferred, drains, job>> /\ change["upload"].pc \in {"idle", "staging"}
        /\ \A d \in Changers : d # "upload" => change'[d] = change[d]
    BY <1>26 DEF UploadBegin, local, queue, tasks, ChangeWell
  <2>2. \A p \in Paths : Elsewhere(p) => Elsewhere(p)'
    BY <2>1 DEF Elsewhere, ChangeWill
  <2> QED
    BY <2>1, <2>2, YieldSame
<1>27. ASSUME SyncBegin PROVE Yielding'
  <2>1. UNCHANGED <<m, row, index, lost, deferred, drains, job>> /\ change["sync"].pc \in {"idle", "staging"}
        /\ \A d \in Changers : d # "sync" => change'[d] = change[d]
    BY <1>27 DEF SyncBegin, local, queue, tasks, ChangeWell
  <2>2. \A p \in Paths : Elsewhere(p) => Elsewhere(p)'
    BY <2>1 DEF Elsewhere, ChangeWill
  <2> QED
    BY <2>1, <2>2, YieldSame
<1>28. ASSUME SyncStops PROVE Yielding'
  <2>1. UNCHANGED <<m, row, index, lost, deferred, drains, job>> /\ change["sync"].pc \in {"idle", "staging"}
        /\ \A d \in Changers : d # "sync" => change'[d] = change[d]
    BY <1>28 DEF SyncStops, local, queue, tasks, ChangeWell
  <2>2. \A p \in Paths : Elsewhere(p) => Elsewhere(p)'
    BY <2>1 DEF Elsewhere, ChangeWill
  <2> QED
    BY <2>1, <2>2, YieldSame
<1>29. ASSUME SyncSnapshot PROVE Yielding'
  <2>1. UNCHANGED <<m, row, index, lost, deferred, drains, job>> /\ change["sync"].pc \in {"idle", "staging"}
        /\ \A d \in Changers : d # "sync" => change'[d] = change[d]
    BY <1>29 DEF SyncSnapshot, local, queue, tasks, ChangeWell
  <2>2. \A p \in Paths : Elsewhere(p) => Elsewhere(p)'
    BY <2>1 DEF Elsewhere, ChangeWill
  <2> QED
    BY <2>1, <2>2, YieldSame
<1>30. ASSUME SyncClear PROVE Yielding'
  <2> DEFINE ds == change["sync"].old
  <2>1. index' = Without(ds) /\ row' = Orphaned(ds) /\ UNCHANGED <<m, lost, deferred, drains, job>>
    BY <1>30 DEF SyncClear, queue, tasks
  <2>2. \A h \in Hashes : index'[h] # 0 => index[h] # 0
    BY <2>1 DEF Without
  <2>3. \A p \in Paths : row'[p] \in {row[p], NoRow}
    BY <2>1 DEF Orphaned
  <2> HIDE DEF ds
  <2>4. \A p \in Paths : Elsewhere(p) => Elsewhere(p)'
    <3>1. change["sync"].pc = "imported" /\ change' = [change EXCEPT !["sync"].pc = "cleared"]
          /\ "sync" \in Changers
      BY <1>30 DEF SyncClear, Changers
    <3>2. change'["sync"].pc = "cleared"
      BY <1>m, <3>1, ListedIs DEF ChangeWell
    <3> QED
      BY <3>1, <3>2 DEF Elsewhere, ChangeWill
  <2>5. \A p \in Paths : Owed(p)' => Owed(p)
    BY <2>1, <2>2, <2>3, OwedStays
  <2> QED
    BY <2>1, <2>2, <2>4, <2>5, YieldRest
<1>31. ASSUME NEW c \in Changers, NEW hs \in DatSets, Import(c, hs) PROVE Yielding'
  <2>1. UNCHANGED m /\ change[c].pc = "listed"
        /\ change' = [change EXCEPT ![c].pc = IF c = "sync" THEN "imported" ELSE "cleared"]
    BY <1>31 DEF Import
  <2>2. change'[c].pc \in {"imported", "cleared"}
    BY <1>m, <2>1, ListedIs DEF ChangeWell
  <2>3. \A p : Elsewhere(p)'
    BY <2>2 DEF Elsewhere, ChangeWill
  <2> QED
    BY <2>3, YieldBy
<1>32. ASSUME NEW d \in Dats, DeleteDat(d) PROVE Yielding'
  <2> DEFINE ds == {d}
  <2>1. index' = Without(ds) /\ row' = Orphaned(ds) /\ UNCHANGED <<m, lost, deferred, drains, job>>
    BY <1>32 DEF DeleteDat, queue, tasks
  <2>2. \A h \in Hashes : index'[h] # 0 => index[h] # 0
    BY <2>1 DEF Without
  <2>3. \A p \in Paths : row'[p] \in {row[p], NoRow}
    BY <2>1 DEF Orphaned
  <2> HIDE DEF ds
  <2>4. \A p \in Paths : Elsewhere(p) => Elsewhere(p)'
    <3>1. UNCHANGED change
      BY <1>32 DEF DeleteDat
    <3> QED
      BY <2>1, <3>1, ElsewhereSame
  <2>5. \A p \in Paths : Owed(p)' => Owed(p)
    BY <2>1, <2>2, <2>3, OwedStays
  <2> QED
    BY <2>1, <2>2, <2>4, <2>5, YieldRest
<1>33. ASSUME NEW c \in Changers, ListSurvivors(c) PROVE Yielding'
  <2> DEFINE r == [pc |-> "schedule", paths |-> NeedRematch(c)]
  <2>1. UNCHANGED <<m, row, index, lost, deferred, drains, job>> /\ change' = [change EXCEPT ![c] = r]
    BY <1>33 DEF ListSurvivors, local, queue, tasks
  <2>2. change'[c] = r /\ \A d \in Changers : d # c => change'[d] = change[d]
    BY <1>m, <2>1 DEF ChangeWell
  <2>3. r.pc = "schedule" /\ r.paths = change[c].paths \cup Cached
    BY DEF NeedRematch
  <2> HIDE DEF r
  <2>4. ASSUME NEW p \in Paths, Owed(p)' PROVE Owed(p) /\ (Elsewhere(p) => Elsewhere(p)')
    <3>1. Owed(p)
      BY <2>1, <2>4 DEF Owed
    <3>2. p \in Cached
      BY <3>1, NoRowIs DEF Owed, RemoteHit, Cached
    <3>3. ChangeWill(c, p)'
      BY <2>2, <2>3, <3>2 DEF ChangeWill
    <3> QED
      BY <3>1, <3>3 DEF Elsewhere
  <2> QED
    BY <2>1, <2>4, YieldRest
<1>34. ASSUME NEW c \in Changers, ScheduleRematch(c) PROVE Yielding'
  <2>1. UNCHANGED <<m, row, index, drains>> /\ Schedule(change[c].paths) /\ change[c].pc = "schedule"
        /\ change' = [change EXCEPT ![c] = NoChange]
    BY <1>34 DEF ScheduleRematch, local
  <2>2. PICK kept \in SUBSET change[c].paths : /\ Rematch(kept)
            /\ \A p \in Paths : lost'[p] = "no" => lost[p] = "no" /\ (p \in change[c].paths => p \in kept)
    BY <1>m, <2>1, ScheduleGoes
  <2>3. \A p \in Paths : p \in deferred \cup job.todo \cup kept => p \in deferred' \cup job'.todo
    BY <1>m, <2>2, RematchAdds
  <2>4. \A d \in Changers : d # c => change'[d] = change[d]
    BY <2>1 DEF ChangeWell
  <2>5. \A p \in Paths : Owed(p)' => Owed(p) /\ (p \in change[c].paths => p \in kept)
    BY <2>1, <2>2 DEF Owed
  <2>6. \A p \in Paths : Owed(p)' => Owed(p) /\ (Elsewhere(p) => Elsewhere(p)')
    BY <2>1, <2>3, <2>4, <2>5 DEF Elsewhere, ChangeWill
  <2> QED
    BY <2>1, <2>6, YieldRest
<1>35. ASSUME NEW p \in Paths, Edit(p) PROVE Yielding'
  <2>1. m'["job"] = m["job"] /\ UNCHANGED <<row, index, lost, deferred, drains, change>>
        /\ job'.todo = job.todo
    BY <1>35 DEF Edit, local, queue, tasks, Matchers
  <2> QED
    BY <2>1, ElsewhereSame, YieldSame
<1>36. ASSUME PruneMissing PROVE Yielding'
  <2>1. m'["job"] = m["job"] /\ UNCHANGED <<index, lost, deferred, drains, change, job>>
        /\ \A p \in Paths : row'[p] \in {row[p], NoRow}
    BY <1>36 DEF PruneMissing, local, queue, tasks, Matchers, Tables
  <2>2. \A p \in Paths : Owed(p)' => Owed(p) /\ (Elsewhere(p) => Elsewhere(p)')
    BY <2>1, OwedStays, ElsewhereSame
  <2> QED
    BY <2>1, <2>2, YieldRest
<1>37. ASSUME SaveToggle PROVE Yielding'
  <2>1. m'["job"] = m["job"] /\ UNCHANGED <<row, index, lost, deferred, drains, change>>
        /\ job'.todo = job.todo
    BY <1>37 DEF SaveToggle, local, queue, tasks, Matchers
  <2> QED
    BY <2>1, ElsewhereSame, YieldSame
<1>38. ASSUME ApplyToggle PROVE Yielding'
  <2>1. m'["job"] = m["job"] /\ UNCHANGED <<row, index, lost, deferred, drains, change>>
        /\ job'.todo = job.todo
    BY <1>38 DEF ApplyToggle, local, queue, tasks, Matchers
  <2> QED
    BY <2>1, ElsewhereSame, YieldSame
<1>39. ASSUME Crash PROVE Yielding'
  <2>1. m'["job"] = NoMatch /\ UNCHANGED <<row, index>>
        /\ lost' = [p \in Paths |-> IF Pending(p) THEN "stopped" ELSE lost[p]]
    BY <1>39 DEF Crash, Matchers, local
  <2>2. ASSUME NEW p \in Paths, Owed(p)' PROVE FALSE
    <3>1. Owed(p) /\ ~Pending(p)
      BY <2>1, <2>2 DEF Owed
    <3> QED
      BY <3>1 DEF Yielding, RemoteYields, Owed
  <2>3. ~Overtaken(m["job"])'
    BY <2>1, IdleIs DEF Overtaken
  <2> QED
    BY <2>2, <2>3, YieldsNext DEF Yielding
<1>40. ASSUME NEW c \in Changers, SurvivorsUnread(c) PROVE Yielding'
  <2> DEFINE r == [pc |-> "schedule", paths |-> change[c].paths]
  <2>1. UNCHANGED <<m, row, index, deferred, drains, job>> /\ change' = [change EXCEPT ![c] = r]
        /\ lost' = Stop(Cached \ change[c].paths)
    BY <1>40 DEF SurvivorsUnread, local, queue, tasks
  <2>2. change'[c] = r /\ \A d \in Changers : d # c => change'[d] = change[d]
    BY <1>m, <2>1 DEF ChangeWell
  <2>3. r.pc = "schedule" /\ r.paths = change[c].paths
    OBVIOUS
  <2> HIDE DEF r
  <2>4. ASSUME NEW p \in Paths, Owed(p)' PROVE Owed(p) /\ (Elsewhere(p) => Elsewhere(p)')
    <3>1. p \notin Cached \ change[c].paths /\ lost'[p] = lost[p]
      BY <2>1, <2>4, StopTypes, LostTypes DEF Owed
    <3>2. Owed(p)
      BY <2>1, <2>4, <3>1 DEF Owed
    <3>3. p \in change[c].paths
      BY <3>1, <3>2, NoRowIs DEF Owed, RemoteHit, Cached
    <3>4. ChangeWill(c, p)'
      BY <2>2, <2>3, <3>3 DEF ChangeWill
    <3> QED
      BY <3>2, <3>4 DEF Elsewhere
  <2> QED
    BY <2>1, <2>4, YieldRest
<1> QED
  BY <1>1, <1>2, <1>3, <1>4, <1>5, <1>6, <1>7, <1>8, <1>9, <1>10, <1>11, <1>12, <1>13,
     <1>14, <1>15, <1>16, <1>17, <1>18, <1>19, <1>20, <1>21, <1>22, <1>23, <1>24, <1>25,
     <1>26, <1>27, <1>28, <1>29, <1>30, <1>31, <1>32, <1>33, <1>34, <1>35, <1>36, <1>37,
     <1>38, <1>39, <1>40
     DEF MatchNext, Match, Job, Scan, Batch, Dat, World
-----------------------------------------------------------------------------
\* The invariant.
LEMMA FirstHashesAre ==
    ASSUME NEW p \in Paths
    PROVE  FirstHashes(p) \in SUBSET Hashes /\ \A h \in FirstHashes(p) : h[1] = 1
<1>1. Kinds[p] \subseteq {"embedded", "file"} /\ 1 \in Versions
  BY MatchCacheAssumption DEF Versions
<1> QED
  BY <1>1 DEF FirstHashes, Hashes
LEMMA BeforeIs ==
    ASSUME NEW p \in Paths, index \in [Hashes -> {0, 1}], NEW r \in Before(p)
    PROVE  /\ r \in Verdicts /\ r.dat \in {0, 1} /\ r.v \in {"none", "dat", "remote"}
           /\ \A f : Sound(f, p, r)
           /\ RemoteHit(r) => r.hash \in FirstHashes(p)
<1> DEFINE hs == FirstHashes(p)
<1>1. hs \in SUBSET Hashes /\ \A h \in hs : h[1] = 1
  BY FirstHashesAre
<1>2. CASE r = NoRow
  BY <1>2, NoRowIs DEF RemoteHit
<1>3. CASE r # NoRow
  <2>1. PICK h \in hs : r = IF index[h] = 0 THEN Remote(hs, h) ELSE Hit(p, h)
    BY <1>3 DEF Before
  <2>2. h \in Hashes /\ index[h] \in {0, 1} /\ \A f : FirstOnly(f, p, hs) /\ FirstOnly(f, p, {h})
    BY <1>1, <2>1 DEF FirstOnly
  <2> HIDE DEF hs
  <2>3. CASE index[h] = 0
    <3>1. r = Remote(hs, h)
      BY <2>1, <2>3
    <3>2. r \in Verdicts /\ r.v = "remote" /\ r.hash = h /\ r.dat = 0
      BY <1>1, <2>2, <3>1, RemoteIs
    <3>3. \A f : Sound(f, p, r)
      BY <1>1, <2>2, <3>1, RemoteSound
    <3> QED
      BY <2>1, <3>2, <3>3 DEF hs
  <2>4. CASE index[h] # 0
    <3>1. r = Hit(p, h) /\ index[h] = 1 /\ index[h] \in Dats \cup {0}
      BY <2>1, <2>2, <2>4, MatchCacheAssumption DEF Dats
    <3>2. r \in Verdicts /\ r.v = "dat"
      BY <2>2, <3>1, HitIs
    <3>3. r.dat = 1
      BY <3>1 DEF Hit, Verdict
    <3>4. \A f : Sound(f, p, r)
      BY <2>2, <3>1, HitSound
    <3> QED
      BY <3>2, <3>3, <3>4 DEF RemoteHit
  <2> QED
    BY <2>3, <2>4
<1> QED
  BY <1>2, <1>3
LEMMA CacheInit == MatchInit => CacheIInv
<1> SUFFICES ASSUME MatchInit PROVE CacheIInv
  OBVIOUS
<1>1. events = 0 /\ nextDat = 2 /\ dats = {1} /\ MaxEvents \in Nat /\ MaxDats \in Nat \ {0}
  BY MatchCacheAssumption DEF MatchInit
<1>2. index \in [Hashes -> {0, 1}]
  BY DEF MatchInit
<1>3. file \in [Paths -> Nat] /\ \A p \in Paths : file[p] <= events + 2
  <2>1. file \in [Paths -> {1, 2}]
    BY DEF MatchInit
  <2> QED
    BY <1>1, <2>1
<1>4. ASSUME NEW p \in Paths
      PROVE  /\ row[p] \in Verdicts /\ row[p].dat \in {0, 1} /\ row[p].v \in {"none", "dat", "remote"}
             /\ Sound(file, p, row[p]) /\ ~Owed(p)
  <2>1. row[p] \in Before(p) /\ (RemoteHit(row[p]) => ~Covered(FirstHashes(p)))
    BY DEF MatchInit
  <2>2. ~Owed(p)
    BY <1>2, <2>1, BeforeIs DEF Owed, Covered
  <2> QED
    BY <1>2, <2>1, <2>2, BeforeIs
<1>5. Tables
  <2>1. DOMAIN row = Paths /\ row = [p \in Paths |-> row[p]]
    BY DEF MatchInit
  <2>2. row \in [Paths -> Verdicts]
    BY <1>4, <2>1
  <2>3. lost \in [Paths -> {"no", "raced", "stopped"}]
    BY DEF MatchInit
  <2>4. nextDat \in 1..(MaxDats + 1) /\ dats \subseteq Dats
    BY <1>1 DEF Dats
  <2> QED
    BY <1>1, <1>2, <1>3, <1>4, <2>2, <2>3, <2>4 DEF Tables
<1>6. JobWell
  <2>1. job = NoJob /\ deferred = {} /\ drains = {} /\ m["job"] = NoMatch
    BY DEF MatchInit, Matchers
  <2> QED
    BY <2>1 DEF JobWell, NoJob, JobStates, NoMatch
<1>7. scan \in ScanStates
  BY DEF MatchInit, NoScan, ScanStates
<1>8. BatchWell
  BY DEF MatchInit, NoBatch, BatchWell, BatchStates
<1>9. ChangeWell
  BY DEF MatchInit, NoChange, ChangeWell, ChangeStates, Changers
<1>10. Matching
  BY IdleIs DEF MatchInit, Matching
<1>11. Yielding
  <2>1. RemoteYields
    BY <1>4, YieldsIs
  <2>2. ~Overtaken(m["job"])
    BY IdleIs DEF MatchInit, Matchers, Overtaken
  <2> QED
    BY <2>1, <2>2 DEF Yielding
<1> QED
  BY <1>5, <1>6, <1>7, <1>8, <1>9, <1>10, <1>11 DEF CacheIInv, Tasks
LEMMA CacheStutter == CacheIInv /\ UNCHANGED matchVars => CacheIInv'
<1> SUFFICES ASSUME CacheIInv, UNCHANGED matchVars PROVE CacheIInv'
  OBVIOUS
<1>1. UNCHANGED <<file, dats, index, row, m, job, scan, batch, deferred, drains, change, lost, nextDat, events>>
  BY DEF matchVars
<1>2. Tables'
  BY <1>1 DEF CacheIInv, Tables
<1>3. Tasks'
  BY <1>1 DEF CacheIInv, Tasks, JobWell, BatchWell, ChangeWell
<1>4. Matching'
  BY <1>1 DEF CacheIInv, Matching
<1>5. Yielding'
  <2>1. \A p \in Paths : Elsewhere(p) => Elsewhere(p)'
    BY <1>1 DEF Elsewhere, ChangeWill
  <2> QED
    BY <1>1, <2>1, YieldSame DEF CacheIInv
<1> QED
  BY <1>2, <1>3, <1>4, <1>5 DEF CacheIInv
LEMMA CacheStep == CacheIInv /\ MatchNext => CacheIInv'
<1> SUFFICES ASSUME CacheIInv, MatchNext PROVE CacheIInv'
  OBVIOUS
<1>1. Tables /\ Tasks /\ Matching /\ Yielding /\ JobWell /\ scan \in ScanStates /\ BatchWell /\ ChangeWell
  BY DEF CacheIInv, Tasks
<1>2. Tables' /\ Matching' /\ Yielding'
  BY <1>1, TablesStep, MatchingStep, YieldStep
<1>3. JobWell' /\ scan' \in ScanStates /\ BatchWell' /\ ChangeWell'
  BY <1>1, JobStep, ScanStep, BatchStep, ChangeStep DEF Matching
<1> QED
  BY <1>2, <1>3 DEF CacheIInv, Tasks

\* The tables, the tasks, the matches under way and the rematches owed, in
\* every state that the match cache reaches (the store of dat_store.py, the
\* matchers of routes/dat.py and routes/info.py).
THEOREM CacheInvariant == MatchSpec => []CacheIInv
  BY CacheInit, CacheStutter, CacheStep, PTL DEF MatchSpec
-----------------------------------------------------------------------------
LEMMA CacheLocalWins == CacheIInv => LocalWins
<1> SUFFICES ASSUME CacheIInv PROVE LocalWins
  OBVIOUS
<1>1. Tables /\ JobWell /\ scan \in ScanStates /\ BatchWell /\ ChangeWell /\ Matching /\ RemoteYields
  BY DEF CacheIInv, Tasks, Yielding
<1>2. file \in [Paths -> Versions \cup {0}]
  <2>1. file \in [Paths -> Nat] /\ events \in Nat /\ events <= MaxEvents /\ MaxEvents \in Nat
        /\ \A p \in Paths : file[p] <= events + 2
    BY <1>1, MatchCacheAssumption DEF Tables
  <2>2. \A p \in Paths : file[p] \in Versions \cup {0}
    BY <2>1 DEF Versions
  <2> QED
    BY <2>1, <2>2
<1>3. ASSUME NEW p \in Paths
      PROVE  /\ row[p].v \in {"none", "miss", "dat", "remote"} /\ row[p].dat \in dats \cup {0}
             /\ Matched(row[p]) <=> row[p].hash \in Hashes
             /\ row[p].stamp => row[p].asked = row[p].cands /\ row[p].cands # {}
  <2>1. row[p] \in Verdicts /\ Sound(file, p, row[p]) /\ row[p].dat \in dats \cup {0}
        /\ row[p].v \in {"none", "miss", "dat", "remote"}
    BY <1>1 DEF Tables
  <2>2. row[p].hash \in Hashes \cup {<<>>}
    BY <2>1 DEF Verdicts
  <2> QED
    BY <2>1, <2>2, NotAHash DEF Sound
<1>4. dats \subseteq Dats /\ index \in [Hashes -> dats \cup {0}]
  BY <1>1 DEF Tables
<1>5. DOMAIN m = Matchers /\ DOMAIN change = Changers
  BY <1>1 DEF Matching, ChangeWell
<1>6. job.todo \subseteq Paths /\ scan.todo \subseteq Paths /\ batch.todo \subseteq Paths
      /\ deferred \subseteq Paths /\ drains \subseteq SUBSET Paths
  <2>1. job.todo \subseteq Paths
    BY <1>1 DEF JobWell, JobStates
  <2>2. scan.todo \subseteq Paths
    BY <1>1 DEF ScanStates
  <2>3. batch.todo \subseteq Paths
    BY <1>1 DEF BatchWell, BatchStates
  <2> QED
    BY <1>1, <2>1, <2>2, <2>3 DEF JobWell
<1>7. MatchTypeOK
  BY <1>2, <1>3, <1>4, <1>5, <1>6 DEF MatchTypeOK
<1>8. NothingStranded
  BY <1>1 DEF NothingStranded, JobWell
<1> QED
  BY <1>1, <1>3, <1>7, <1>8 DEF LocalWins, StampHonest

\* The DATs have the last word over every row (rematch_after_dat_change,
\* _deferred_rematch_paths, _local_index_now_covers), no rematch waits for a job
\* that is over, and a row that says the server was asked says so rightly
\* (checked_remote) -- for any files, DATs and number of events.
THEOREM LocalWinsAlways == MatchSpec => []LocalWins
  BY CacheInvariant, CacheLocalWins, PTL

LEMMA SentStep ==
    ASSUME CacheIInv, MatchNext
    PROVE  /\ \A x \in Matchers : m[x].pc # "sent" /\ m'[x].pc = "sent" => enabled /\ ~Stopped(x)
           /\ \A x \in Matchers : m[x].pc # "send" /\ m'[x].pc = "send" => ~Covered(m'[x].cands)
<1>1. \A x \in Matchers : Moved(x)
  BY MovesStep DEF CacheIInv
<1> QED
  BY <1>1 DEF Moved, Stopped

\* Whatever happened while a match waited, no hash is sent to the server once
\* the operator switched it off or cancelled, nor while the DATs know one of the
\* file's hashes (_remote_pass_stopped, _remote_lookup_match).
THEOREM SentRightlyAlways == MatchSpec => SentRightly
<1> DEFINE On == \A x \in Matchers : m[x].pc # "sent" /\ m'[x].pc = "sent" => enabled /\ ~Stopped(x)
           Unknown == \A x \in Matchers : m[x].pc # "send" /\ m'[x].pc = "send" => ~Covered(m'[x].cands)
<1>1. CacheIInv /\ [MatchNext]_matchVars => [On]_matchVars /\ [Unknown]_matchVars
  BY SentStep
<1> QED
  BY <1>1, CacheInvariant, PTL DEF MatchSpec, SentRightly, SentOnlyWhileOn, LocalFirst

LEMMA KeepsStep ==
    ASSUME CacheIInv, MatchNext, NEW p \in Paths, RemoteHit(row[p]), row'[p] # row[p], file[p] = 1
    PROVE  Matched(row'[p]) \/ row'[p].stamp \/ Blind(p)
<1>m. row \in [Paths -> Verdicts] /\ row[p].dat = 0 /\ DOMAIN m = Matchers /\ ChangeWell
      /\ \A x \in Matchers : Fine(file, m[x])
  BY DEF CacheIInv, Tables, Tasks, Matching, Sound, RemoteHit
<1>1. ASSUME NEW x \in Matchers, Commit(x) PROVE Matched(row'[p]) \/ row'[p].stamp \/ Blind(p)
  <2> DEFINE ps == {w.p : w \in m[x].writes}
  <2>1. m[x].pc = "commit" /\ row' = [q \in Paths |-> IF q \in ps THEN Write(x, q).verdict ELSE row[q]]
    BY <1>1 DEF Commit
  <2>2. p \in ps
    BY <2>1
  <2>3. PICK w \in m[x].writes : w.p = p
    BY <2>2
  <2>4. Write(x, p) \in m[x].writes /\ Write(x, p).p = p /\ Decided(file, Write(x, p))
    BY <1>m, <2>1, <2>3, WriteIs
  <2>5. row'[p] = Write(x, p).verdict
    BY <2>1, <2>2
  <2>6. CASE Write(x, p).seen = row[p]
    BY <2>4, <2>5, <2>6 DEF Decided
  <2>7. CASE Write(x, p).seen # row[p]
    BY <2>1, <2>4, <2>7 DEF Blind
  <2> QED
    BY <2>6, <2>7
<1>2. ASSUME NEW x \in Matchers, DropRow(x) PROVE FALSE
  <2>1. file[m[x].p] # 1 /\ row' = [row EXCEPT ![m[x].p] = NoRow]
    BY <1>m, <1>2, AtDrop DEF DropRow
  <2> QED
    BY <1>m, <2>1
<1>3. ASSUME ScanVerdict PROVE Blind(p)
  <2>1. m["scan"].pc = "done" /\ NoEvidence(m["scan"].verdict) /\ row' = [row EXCEPT ![m["scan"].p] = NoRow]
    BY <1>3 DEF ScanVerdict
  <2>2. p = m["scan"].p
    BY <1>m, <2>1
  <2> QED
    BY <2>1, <2>2 DEF Blind, Matchers
<1>4. ASSUME NEW c \in Changers, NEW hs \in DatSets, Import(c, hs) PROVE FALSE
  BY <1>4 DEF Import, Invalidated
<1>5. ASSUME SyncClear PROVE FALSE
  <2>1. row' = Orphaned(change["sync"].old) /\ change["sync"].old \subseteq Dats
    BY <1>m, <1>5, ListedIs DEF SyncClear, Changers
  <2> QED
    BY <1>m, <2>1 DEF Orphaned, Dats
<1>6. ASSUME NEW d \in Dats, DeleteDat(d) PROVE FALSE
  BY <1>m, <1>6 DEF DeleteDat, Orphaned, Dats
<1>7. ASSUME PruneMissing PROVE FALSE
  BY <1>7 DEF PruneMissing
<1>8. ASSUME NEW x \in Matchers, HashFile(x) PROVE FALSE
  BY <1>8 DEF HashFile
<1>9. ASSUME NEW x \in Matchers, Send(x) PROVE FALSE
  BY <1>9 DEF Send
<1>10. ASSUME NEW x \in Matchers, Reply(x) PROVE FALSE
  BY <1>10 DEF Reply
<1>11. ASSUME NEW x \in Matchers, CommitFails(x) PROVE FALSE
  BY <1>11 DEF CommitFails
<1>12. ASSUME NEW ps \in SUBSET Paths, JobRequest(ps) PROVE FALSE
  BY <1>12 DEF JobRequest
<1>13. ASSUME NEW ps \in SUBSET Paths, Drain(ps) PROVE FALSE
  BY <1>13 DEF Drain
<1>14. ASSUME NEW q \in Paths, JobNext(q) PROVE FALSE
  BY <1>14 DEF JobNext
<1>15. ASSUME JobVerdict PROVE FALSE
  BY <1>15 DEF JobVerdict
<1>16. ASSUME JobCancel PROVE FALSE
  BY <1>16 DEF JobCancel
<1>17. ASSUME JobEnd PROVE FALSE
  BY <1>17 DEF JobEnd
<1>18. ASSUME NEW force \in BOOLEAN, ScanStart(force) PROVE FALSE
  BY <1>18 DEF ScanStart
<1>19. ASSUME NEW q \in Paths, ScanTags(q) PROVE FALSE
  BY <1>19 DEF ScanTags
<1>20. ASSUME NEW q \in Paths, ScanNext(q) PROVE FALSE
  BY <1>20 DEF ScanNext
<1>21. ASSUME ScanLists PROVE FALSE
  BY <1>21 DEF ScanLists
<1>22. ASSUME ScanAbandons PROVE FALSE
  BY <1>22 DEF ScanAbandons
<1>23. ASSUME ScanPrimes PROVE FALSE
  BY <1>23 DEF ScanPrimes
<1>24. ASSUME ScanCancel PROVE FALSE
  BY <1>24 DEF ScanCancel
<1>25. ASSUME ScanEnd PROVE FALSE
  BY <1>25 DEF ScanEnd
<1>26. ASSUME NEW ps \in SUBSET Paths, BatchStart(ps) PROVE FALSE
  BY <1>26 DEF BatchStart
<1>27. ASSUME NEW q \in Paths, BatchNext(q) PROVE FALSE
  BY <1>27 DEF BatchNext
<1>28. ASSUME BatchVerdict PROVE FALSE
  BY <1>28 DEF BatchVerdict
<1>29. ASSUME BatchEnd PROVE FALSE
  BY <1>29 DEF BatchEnd
<1>30. ASSUME UploadBegin PROVE FALSE
  BY <1>30 DEF UploadBegin
<1>31. ASSUME SyncBegin PROVE FALSE
  BY <1>31 DEF SyncBegin
<1>32. ASSUME SyncStops PROVE FALSE
  BY <1>32 DEF SyncStops
<1>33. ASSUME SyncSnapshot PROVE FALSE
  BY <1>33 DEF SyncSnapshot
<1>34. ASSUME NEW c \in Changers, ListSurvivors(c) PROVE FALSE
  BY <1>34 DEF ListSurvivors
<1>35. ASSUME NEW c \in Changers, ScheduleRematch(c) PROVE FALSE
  BY <1>35 DEF ScheduleRematch
<1>36. ASSUME NEW q \in Paths, Edit(q) PROVE FALSE
  BY <1>36 DEF Edit
<1>37. ASSUME SaveToggle PROVE FALSE
  BY <1>37 DEF SaveToggle
<1>38. ASSUME ApplyToggle PROVE FALSE
  BY <1>38 DEF ApplyToggle
<1>39. ASSUME Crash PROVE FALSE
  BY <1>39 DEF Crash
<1>40. ASSUME NEW c \in Changers, SurvivorsUnread(c) PROVE FALSE
  BY <1>40 DEF SurvivorsUnread
<1> QED
  BY <1>1, <1>2, <1>3, <1>4, <1>5, <1>6, <1>7, <1>8, <1>9, <1>10, <1>11, <1>12,
     <1>13, <1>14, <1>15, <1>16, <1>17, <1>18, <1>19, <1>20, <1>21, <1>22, <1>23, <1>24,
     <1>25, <1>26, <1>27, <1>28, <1>29, <1>30, <1>31, <1>32, <1>33, <1>34, <1>35, <1>36,
     <1>37, <1>38, <1>39, <1>40
     DEF MatchNext, Match, Job, Scan, Batch, Dat, World

\* The game the server named for a file that nobody touched gives way to another
\* name or to a miss the server was asked about only, but for a scan that read
\* nothing and a writer that had read another row (_would_downgrade_remote_hit,
\* drop_if_content_changed).
THEOREM KeepsIdentityAlways == MatchSpec => KeepsIdentity
<1>1. CacheIInv /\ [MatchNext]_matchVars
        => [\A p \in Paths : RemoteHit(row[p]) /\ row'[p] # row[p] /\ file[p] = 1 =>
               Matched(row'[p]) \/ row'[p].stamp \/ Blind(p)]_matchVars
  BY KeepsStep
<1> QED
  BY <1>1, CacheInvariant, PTL DEF MatchSpec, KeepsIdentity
=============================================================================
