------------------------ MODULE SourceDeleteProofs ------------------------
(***************************************************************************)
(* Theorems about SourceDelete for any jobs, files and contents of         *)
(* descriptors, and any number of edits: what is removed is what was       *)
(* converted, and a removal costs nothing it may not cost.                 *)
(***************************************************************************)
EXTENDS SourceDelete, TLAPS

-----------------------------------------------------------------------------
\* The inductive invariant.

\* The files a version of j's descriptor makes.
SetOf(j, v) == {Desc[j]} \cup Refs[Desc[j]][v]

\* Versions grow: what was recorded of a file is not newer than what the disk
\* holds, and a snapshot not newer than what the converter read.
RecordsOld ==
    /\ \A f \in Files : disk[f] <= clock
    /\ \A j \in Jobs :
          /\ \A f \in DOMAIN snap[j] : snap[j][f] <= clock /\ (disk[f] # 0 => snap[j][f] <= disk[f])
          /\ \A f \in DOMAIN read[j] : read[j][f] <= clock /\ (disk[f] # 0 => read[j][f] <= disk[f])
          /\ \A f \in DOMAIN snap[j] \cap DOMAIN read[j] : snap[j][f] <= read[j][f]

Past == {"verify", "verdict", "replan", "check"}

\* The snapshot and the conversion are of whole sets.
SnapWhole(j) ==
    /\ pc[j] \in {"none", "stat", "queued"} => DOMAIN read[j] = {}
    /\ pc[j] = "none" => DOMAIN snap[j] = {}
    /\ pc[j] = "stat" => Desc[j] \in DOMAIN snap[j] \cup left[j]
    /\ pc[j] \in {"queued", "done"} \cup Running => Desc[j] \in DOMAIN snap[j]
ReadWhole(j) ==
    /\ pc[j] \in {"read"} \cup Past => Desc[j] \in DOMAIN read[j]
    /\ pc[j] = "read" => /\ Desc[j] \notin left[j]
                         /\ DOMAIN read[j] \cup left[j] = SetOf(j, read[j][Desc[j]])
    /\ pc[j] \in Past => DOMAIN read[j] = SetOf(j, read[j][Desc[j]])

\* A file that was checked was read as the snapshot has it; so was the set, if
\* its descriptor is still what the snapshot says.
CheckedRight(j) ==
    pc[j] = "check" =>
       /\ \A f \in DOMAIN snap[j] \ left[j] : f \in DOMAIN read[j] => read[j][f] = snap[j][f]
       /\ Desc[j] \notin left[j] \/ disk[Desc[j]] = snap[j][Desc[j]]
            => DOMAIN snap[j] = SetOf(j, snap[j][Desc[j]])

\* What is removed and what is left of a set.
RemovesInOrder(j) ==
    /\ pc[j] \notin {"remove", "done", "failed"} => gone[j] = {}
    /\ pc[j] = "remove" => /\ gone[j] \cup left[j] = DOMAIN snap[j]
                           /\ Desc[j] \in left[j] \ gone[j]
    /\ j \in inTime => pc[j] \notin {"none", "stat", "replan", "check", "remove", "done"} /\ gone[j] = {}

\* The files job j has found to be nobody else's.
Passed(j) == CASE pc[j] = "check"  -> DOMAIN snap[j] \ left[j]
               [] pc[j] = "remove" -> DOMAIN snap[j]
               [] OTHER            -> {}
PassedApart ==
    \A j, k \in Jobs : j # k => ~(Desc[j] \in Passed(k) /\ Desc[k] \in Passed(j))

\* All that holds of one job.
Right(j) ==
    /\ SnapWhole(j) /\ ReadWhole(j) /\ CheckedRight(j) /\ RemovesInOrder(j)
    /\ pc[j] \in {"remove", "done"} => read[j] = snap[j]
    /\ Desc[j] \in gone[j] => gone[j] = DOMAIN snap[j]

IInv == TypeOK /\ RecordsOld /\ PassedApart /\ \A j \in Jobs : Right(j)

-----------------------------------------------------------------------------
\* Records of files.

\* A record is a function from files to versions.
LEMMA MapIsFunction ==
    ASSUME NEW m \in Maps
    PROVE  DOMAIN m \subseteq Files /\ m \in [DOMAIN m -> Versions]
BY DEF Maps

\* Two records of the same files in the same versions are the same.
LEMMA MapsEqual ==
    ASSUME NEW m \in Maps, NEW n \in Maps, DOMAIN m = DOMAIN n, \A f \in DOMAIN m : m[f] = n[f]
    PROVE  m = n
BY MapIsFunction

\* A record with one more file in it.
Extended(m, f, v) == [g \in DOMAIN m \cup {f} |-> IF g = f THEN v ELSE m[g]]
LEMMA MapExtended ==
    ASSUME NEW m \in Maps, NEW f \in Files, NEW v \in Versions
    PROVE  Extended(m, f, v) \in Maps
<1>1. Extended(m, f, v) \in [DOMAIN m \cup {f} -> Versions]  BY MapIsFunction DEF Extended
<1>2. DOMAIN m \cup {f} \in SUBSET Files  BY MapIsFunction
<1> QED  BY <1>1, <1>2 DEF Maps

\* What an action of job j makes of the records of all.
LEMMA Recorded ==
    ASSUME NEW r \in [Jobs -> Maps], NEW j \in Jobs, NEW f \in Files, NEW v \in Versions
    PROVE  [r EXCEPT ![j] = Extended(r[j], f, v)] \in [Jobs -> Maps]
<1>1. Extended(r[j], f, v) \in Maps  BY MapExtended
<1> QED  BY <1>1

LEMMA FirstRecord == Nothing \in Maps /\ DOMAIN Nothing = {}
<1>1. Nothing \in [{} -> Versions]  BY DEF Nothing
<1> QED  BY <1>1 DEF Maps, Nothing

-----------------------------------------------------------------------------
\* Types.

LEMMA TypeInit == Init => TypeOK
<1> SUFFICES ASSUME Init PROVE TypeOK  OBVIOUS
<1>1. 1 \in Versions /\ 0 \in 0..MaxVersion /\ 1 \in 0..MaxVersion
  BY VersionsAssumption DEF Versions
<1> QED  BY <1>1, FirstRecord DEF Init, TypeOK, Phases, Versions

LEMMA TypeStep == TypeOK /\ [Next]_vars => TypeOK'
<1> SUFFICES ASSUME TypeOK, [Next]_vars PROVE TypeOK'  OBVIOUS
<1> USE DEF Versions
<1>0. /\ disk \in [Files -> 0..MaxVersion] /\ clock \in Versions /\ MaxVersion \in Nat
      /\ pc \in [Jobs -> Phases] /\ left \in [Jobs -> SUBSET Files]
      /\ snap \in [Jobs -> Maps] /\ read \in [Jobs -> Maps] /\ gone \in [Jobs -> SUBSET Files]
      /\ cancel \subseteq Jobs /\ inTime \subseteq cancel /\ request \subseteq Files
      /\ \A j \in Jobs : /\ pc[j] \in {"check", "remove"} => left[j] \subseteq DOMAIN snap[j]
                         /\ gone[j] \subseteq DOMAIN snap[j]
  BY VersionsAssumption DEF TypeOK
<1>1. ASSUME NEW j \in Jobs, Parse(j) PROVE TypeOK'
  <2>1. Plan(Desc[j]) \subseteq Files  BY <1>0, FilesAssumption DEF Plan
  <2> QED  BY <1>0, <1>1, <2>1 DEF TypeOK, Parse, Goto, Phases, userVars
<1>2. ASSUME NEW j \in Jobs, NEW f \in Files, Stat(j, f) PROVE TypeOK'
  <2>1. CASE Vanished(f)
    BY <1>0, <1>2, <2>1 DEF TypeOK, Stat, Goto, Phases, Ended, userVars
  <2>2. CASE ~Vanished(f)
    <3>1. disk[f] \in Versions  BY <1>0, <2>2 DEF Vanished
    <3>2. snap' = [snap EXCEPT ![j] = Extended(snap[j], f, disk[f])]
      BY <1>0, <1>2, <2>2 DEF Stat, Extended
    <3>3. snap' \in [Jobs -> Maps]  BY <1>0, <3>1, <3>2, Recorded
    <3>4. \A k \in Jobs : DOMAIN snap[k] \subseteq DOMAIN snap'[k]
      BY <1>0, <3>2 DEF Extended
    <3> QED  BY <1>0, <1>2, <2>2, <3>3, <3>4 DEF TypeOK, Stat, Goto, Visit, Phases, userVars
  <2> QED  BY <2>1, <2>2
<1>3. ASSUME NEW j \in Jobs, Queue(j) PROVE TypeOK'
  BY <1>0, <1>3 DEF TypeOK, Queue, Goto, Phases, userVars
<1>4. ASSUME NEW j \in Jobs, Start(j) PROVE TypeOK'
  <2>1. Plan(Desc[j]) \subseteq Files  BY <1>0, FilesAssumption DEF Plan
  <2>2. [g \in {Desc[j]} |-> disk[g]] \in Maps
    <3>1. Desc[j] \in Files  BY FilesAssumption
    <3>2. disk[Desc[j]] \in Versions  BY <1>0, <1>4, <3>1 DEF Start
    <3>3. [g \in {Desc[j]} |-> disk[g]] \in [{Desc[j]} -> Versions]  BY <3>2
    <3> QED  BY <3>1, <3>3 DEF Maps
  <2>3. read' \in [Jobs -> Maps]  BY <1>0, <1>4, <2>2 DEF Start
  <2> QED  BY <1>0, <1>4, <2>1, <2>3 DEF TypeOK, Start, Goto, Phases, Running, userVars
<1>5. ASSUME NEW j \in Jobs, NEW f \in Files, Read(j, f) PROVE TypeOK'
  <2>1. disk[f] \in Versions  BY <1>0, <1>5 DEF Read
  <2>2. read' = [read EXCEPT ![j] = Extended(read[j], f, disk[f])]
    BY <1>0, <1>5 DEF Read, Extended
  <2>3. read' \in [Jobs -> Maps]  BY <1>0, <2>1, <2>2, Recorded
  <2> QED  BY <1>0, <1>5, <2>3 DEF TypeOK, Read, Goto, Visit, Phases, userVars
<1>6. ASSUME NEW j \in Jobs, Converted(j) PROVE TypeOK'
  <2>1. Out[j] \in Files  BY FilesAssumption
  <2>2. disk' \in [Files -> 0..MaxVersion] /\ clock' \in Versions
    BY <1>0, <1>6, <2>1 DEF Converted, Write
  <2> QED  BY <1>0, <1>6, <2>2 DEF TypeOK, Converted, Goto, Phases, Running, userVars
<1>7. ASSUME NEW j \in Jobs, Verified(j) \/ StopCancelled(j) \/ Fail(j) \/ Decide(j) PROVE TypeOK'
  BY <1>0, <1>7 DEF TypeOK, Verified, StopCancelled, Fail, Decide, DeleteOrKeep, Goto, Phases,
                    Running, Ended, userVars
<1>8. ASSUME NEW j \in Jobs, Replan(j) PROVE TypeOK'
  <2>1. Expected(j) \subseteq Files  BY <1>0, MapIsFunction DEF Expected
  <2> QED  BY <1>0, <1>8, <2>1 DEF TypeOK, Replan, Expected, Goto, Phases, Running, Ended, userVars
<1>9. ASSUME NEW j \in Jobs, NEW f \in Files, Check(j, f) PROVE TypeOK'
  <2>1. Expected(j) \subseteq Files  BY <1>0, MapIsFunction DEF Expected
  <2> QED
    BY <1>0, <1>9, <2>1 DEF TypeOK, Check, Expected, Goto, Visit, Phases, Running, Ended, userVars
<1>10. ASSUME NEW j \in Jobs, NEW f \in Files, Remove(j, f) PROVE TypeOK'
  BY <1>0, <1>10 DEF TypeOK, Remove, InOrder, Unlink, Goto, Visit, Phases, Running, Ended, userVars
<1>11. ASSUME NEW j \in Jobs, Cancel(j) PROVE TypeOK'
  BY <1>0, <1>11 DEF TypeOK, Cancel, Goto, Phases, Ended
<1>12. ASSUME NEW f \in Files, AskDelete(f) \/ RouteRemove(f) \/ Edit(f) PROVE TypeOK'
  BY <1>0, <1>12 DEF TypeOK, AskDelete, RouteRemove, Edit, Unlink, Write, userVars
<1>13. CASE UNCHANGED vars
  BY <1>0, <1>13 DEF TypeOK, vars
<1> QED
  BY <1>1, <1>2, <1>3, <1>4, <1>5, <1>6, <1>7, <1>8, <1>9, <1>10, <1>11, <1>12, <1>13
     DEF Next, Convert

\* Types hold for every instance.
THEOREM TypeCorrect == Spec => []TypeOK
BY TypeInit, TypeStep, PTL DEF Spec

-----------------------------------------------------------------------------
\* Versions grow.

LEMMA RecordsInit == Init => RecordsOld
BY FirstRecord DEF Init, RecordsOld

\* Writing or removing a file makes no record newer than the disk.
LEMMA RecordsKept ==
    ASSUME TypeOK, RecordsOld, UNCHANGED <<snap, read>>, NEW f \in Files, Write(f) \/ Unlink(f)
    PROVE  RecordsOld'
<1>1. /\ disk \in [Files -> 0..MaxVersion] /\ clock \in Nat /\ MaxVersion \in Nat
      /\ snap \in [Jobs -> Maps] /\ read \in [Jobs -> Maps]
  BY VersionsAssumption DEF TypeOK, Versions
<1>2. \A j \in Jobs : /\ \A g \in DOMAIN snap[j] : g \in Files /\ snap[j][g] \in Nat
                      /\ \A g \in DOMAIN read[j] : g \in Files /\ read[j][g] \in Nat
  BY <1>1, MapIsFunction DEF Versions
<1>3. clock' >= clock /\ clock' \in Nat  BY <1>1 DEF Write, Unlink
<1>5. \A g \in Files : disk[g] \in Nat /\ disk[g] <= clock  BY <1>1 DEF RecordsOld
<1>4. \A g \in Files : disk'[g] \in {disk[g], 0, clock'} /\ disk'[g] <= clock'
  <2>1. CASE Write(f)  BY <1>1, <1>5, <2>1 DEF Write
  <2>2. CASE Unlink(f)  BY <1>1, <1>5, <2>2 DEF Unlink
  <2> QED  BY <2>1, <2>2
<1>6. \A g \in Files, v \in Nat : /\ v <= clock => v <= clock'
                                  /\ v <= clock /\ (disk[g] # 0 => v <= disk[g]) => (disk'[g] # 0 => v <= disk'[g])
  BY <1>1, <1>3, <1>4
<1>7. ASSUME NEW j \in Jobs
      PROVE  /\ \A g \in DOMAIN snap[j] : snap[j][g] <= clock' /\ (disk'[g] # 0 => snap[j][g] <= disk'[g])
             /\ \A g \in DOMAIN read[j] : read[j][g] <= clock' /\ (disk'[g] # 0 => read[j][g] <= disk'[g])
  BY <1>2, <1>6 DEF RecordsOld
<1> QED  BY <1>4, <1>7 DEF RecordsOld

LEMMA RecordsStep == IInv /\ [Next]_vars => RecordsOld'
<1> SUFFICES ASSUME IInv, [Next]_vars PROVE RecordsOld'  OBVIOUS
<1>0. /\ TypeOK /\ RecordsOld /\ \A j \in Jobs : SnapWhole(j)
      /\ disk \in [Files -> 0..MaxVersion] /\ clock \in Nat /\ MaxVersion \in Nat
      /\ snap \in [Jobs -> Maps] /\ read \in [Jobs -> Maps]
  BY VersionsAssumption DEF IInv, Right, TypeOK, Versions
<1>1. ASSUME UNCHANGED <<disk, clock, snap, read>> PROVE RecordsOld'
  BY <1>0, <1>1 DEF RecordsOld
<1>2. \A j \in Jobs : /\ \A g \in DOMAIN snap[j] : g \in Files /\ snap[j][g] \in Nat
                      /\ \A g \in DOMAIN read[j] : g \in Files /\ read[j][g] \in Nat
  BY <1>0, MapIsFunction DEF Versions
<1>3. ASSUME NEW j \in Jobs, NEW f \in Files, Stat(j, f) PROVE RecordsOld'
  <2>1. CASE Vanished(f)  BY <1>1, <1>3, <2>1 DEF Stat
  <2>2. CASE ~Vanished(f)
    <3>1. snap' = [snap EXCEPT ![j] = Extended(snap[j], f, disk[f])] /\ UNCHANGED <<disk, clock, read>>
      BY <1>0, <1>3, <2>2 DEF Stat, Extended
    <3>2. DOMAIN read[j] = {}  BY <1>0, <1>3 DEF SnapWhole, Stat
    <3>3. \A g \in DOMAIN snap'[j] : snap'[j][g] = IF g = f THEN disk[f] ELSE snap[j][g]
      BY <1>0, <3>1 DEF Extended
    <3>4. \A k \in Jobs \ {j} : snap'[k] = snap[k]  BY <1>0, <3>1
    <3>5. DOMAIN snap'[j] = DOMAIN snap[j] \cup {f}  BY <1>0, <3>1 DEF Extended
    <3>6. \A g \in Files : disk[g] \in Nat /\ disk[g] <= clock  BY <1>0 DEF RecordsOld
    <3>7. \A g \in DOMAIN snap'[j] : snap'[j][g] <= clock /\ (disk[g] # 0 => snap'[j][g] <= disk[g])
      BY <1>0, <3>3, <3>5, <3>6 DEF RecordsOld
    <3> QED  BY <1>0, <3>1, <3>2, <3>4, <3>7 DEF RecordsOld
  <2> QED  BY <2>1, <2>2
<1>4. ASSUME NEW j \in Jobs, NEW f \in Files, disk[f] # 0,
             \/ read' = [read EXCEPT ![j] = Extended(read[j], f, disk[f])]
             \/ read' = [read EXCEPT ![j] = [g \in {f} |-> disk[g]]],
             UNCHANGED <<disk, clock, snap>>
      PROVE  RecordsOld'
  <2>1. \A g \in DOMAIN read'[j] : \/ g = f /\ read'[j][g] = disk[f]
                                   \/ g \in DOMAIN read[j] /\ read'[j][g] = read[j][g]
    BY <1>0, <1>4 DEF Extended
  <2>2. \A k \in Jobs \ {j} : read'[k] = read[k]  BY <1>0, <1>4
  <2> QED  BY <1>0, <1>2, <1>4, <2>1, <2>2 DEF RecordsOld
<1>5. ASSUME NEW j \in Jobs, Start(j) PROVE RecordsOld'
  <2>1. Desc[j] \in Files  BY FilesAssumption
  <2>2. read' = [read EXCEPT ![j] = [g \in {Desc[j]} |-> disk[g]]] /\ UNCHANGED <<disk, clock, snap>>
    BY <1>5 DEF Start
  <2>3. disk[Desc[j]] # 0  BY <1>5 DEF Start
  <2> QED  BY <1>4, <2>1, <2>2, <2>3
<1>6. ASSUME NEW j \in Jobs, NEW f \in Files, Read(j, f) PROVE RecordsOld'
  <2>1. read' = [read EXCEPT ![j] = Extended(read[j], f, disk[f])] /\ UNCHANGED <<disk, clock, snap>>
    BY <1>0, <1>6 DEF Read, Extended
  <2> QED  BY <1>4, <1>6, <2>1 DEF Read
<1>7. ASSUME NEW j \in Jobs, Converted(j) PROVE RecordsOld'
  <2>1. Out[j] \in Files  BY FilesAssumption
  <2> QED  BY <1>0, <1>7, <2>1, RecordsKept DEF Converted
<1>8. ASSUME NEW j \in Jobs, NEW f \in Files, Remove(j, f) PROVE RecordsOld'
  BY <1>0, <1>8, RecordsKept DEF Remove
<1>9. ASSUME NEW f \in Files, RouteRemove(f) \/ Edit(f) PROVE RecordsOld'
  BY <1>0, <1>1, <1>9, RecordsKept DEF RouteRemove, Edit
<1>10. ASSUME NEW j \in Jobs,
              \/ Parse(j) \/ Queue(j) \/ Verified(j) \/ StopCancelled(j) \/ Fail(j) \/ Decide(j)
              \/ Replan(j) \/ Cancel(j) \/ \E f \in Files : Check(j, f)
       PROVE  RecordsOld'
  BY <1>1, <1>10 DEF Parse, Queue, Verified, StopCancelled, Fail, Decide, Replan, Cancel, Check
<1>11. CASE UNCHANGED vars \/ \E f \in Files : AskDelete(f)
  BY <1>1, <1>11 DEF vars, AskDelete
<1> QED
  BY <1>3, <1>5, <1>6, <1>7, <1>8, <1>9, <1>10, <1>11 DEF Next, Convert

-----------------------------------------------------------------------------
\* What holds of a job.

\* What holds of a job whose own variables do not move goes on holding,
\* whatever becomes of the disk.
Still(j) ==
    /\ pc'[j] = pc[j] /\ left'[j] = left[j] /\ snap'[j] = snap[j] /\ read'[j] = read[j]
    /\ gone'[j] = gone[j] /\ (j \in inTime' => j \in inTime)
DiskMoves == \A f \in Files : disk'[f] \in {disk[f], 0, clock + 1}

LEMMA RightKept ==
    ASSUME IInv, NEW j \in Jobs, Still(j), DiskMoves
    PROVE  Right(j)'
<1>1. /\ Right(j) /\ clock \in Nat /\ Desc[j] \in Files
      /\ \A f \in DOMAIN snap[j] : snap[j][f] \in Nat /\ snap[j][f] # 0 /\ snap[j][f] <= clock
  <2>1. snap[j] \in Maps /\ clock \in Nat /\ RecordsOld /\ Right(j)
    BY VersionsAssumption DEF IInv, TypeOK, Versions
  <2>2. snap[j] \in [DOMAIN snap[j] -> Versions]  BY <2>1, MapIsFunction
  <2> QED  BY <2>1, <2>2, FilesAssumption, VersionsAssumption DEF RecordsOld, Versions
<1>2. SnapWhole(j)' /\ ReadWhole(j)' /\ RemovesInOrder(j)'
  BY <1>1 DEF Right, Still, SnapWhole, ReadWhole, RemovesInOrder, SetOf
<1>3. CheckedRight(j)'
  <2>1. SUFFICES ASSUME pc[j] = "check" PROVE CheckedRight(j)'
    BY <1>1 DEF CheckedRight, Still
  <2>2. Desc[j] \in DOMAIN snap[j]  BY <1>1, <2>1 DEF Right, SnapWhole, Running
  <2>3. disk'[Desc[j]] = snap[j][Desc[j]] => disk[Desc[j]] = snap[j][Desc[j]]
    BY <1>1, <2>2 DEF DiskMoves
  <2> QED  BY <1>1, <2>1, <2>3 DEF Right, CheckedRight, Still, SetOf
<1> QED  BY <1>1, <1>2, <1>3 DEF Right, Still

LEMMA MovesOfDisk ==
    ASSUME IInv, NEW f \in Files, Write(f) \/ Unlink(f) \/ UNCHANGED disk
    PROVE  DiskMoves
BY DEF IInv, TypeOK, DiskMoves, Write, Unlink

LEMMA RightInit == Init => \A j \in Jobs : Right(j)
<1> SUFFICES ASSUME Init, NEW j \in Jobs PROVE Right(j)  OBVIOUS
<1> QED
  BY FirstRecord DEF Init, Right, SnapWhole, ReadWhole, CheckedRight, RemovesInOrder, Running, Past

\* Every action of a job keeps what holds of that job.
LEMMA RightOwn ==
    ASSUME IInv, NEW j \in Jobs, Convert(j) \/ Cancel(j)
    PROVE  Right(j)'
<1>0. /\ TypeOK /\ RecordsOld /\ Right(j) /\ Desc[j] \in Files
      /\ disk \in [Files -> 0..MaxVersion] /\ clock \in Nat /\ MaxVersion \in Nat
      /\ pc \in [Jobs -> Phases] /\ left \in [Jobs -> SUBSET Files] /\ gone \in [Jobs -> SUBSET Files]
      /\ snap \in [Jobs -> Maps] /\ read \in [Jobs -> Maps] /\ inTime \subseteq cancel
      /\ gone[j] \subseteq DOMAIN snap[j] /\ (pc[j] \in {"check", "remove"} => left[j] \subseteq DOMAIN snap[j])
  BY VersionsAssumption, FilesAssumption DEF IInv, TypeOK, Versions
<1> USE DEF Running, Past
<1>1. CASE Parse(j)
  BY <1>0, <1>1 DEF Parse, Goto, Plan, Right, SnapWhole, ReadWhole, CheckedRight, RemovesInOrder, userVars
<1>2. ASSUME NEW f \in Files, Stat(j, f) PROVE Right(j)'
  <2>1. CASE Vanished(f)
    BY <1>0, <1>2, <2>1 DEF Stat, Goto, Right, SnapWhole, ReadWhole, CheckedRight, RemovesInOrder, userVars
  <2>2. CASE ~Vanished(f)
    <3>1. snap'[j] = Extended(snap[j], f, disk[f])
      BY <1>0, <1>2, <2>2 DEF Stat, Extended
    <3>2. DOMAIN snap'[j] = DOMAIN snap[j] \cup {f}  BY <3>1 DEF Extended
    <3>3. /\ pc'[j] = "stat" /\ left'[j] = left[j] \ {f} /\ pc[j] = "stat"
          /\ UNCHANGED <<read, gone, inTime>>
      BY <1>0, <1>2, <2>2 DEF Stat, Visit, Goto, userVars
    <3>4. gone[j] = {}  BY <1>0, <3>3 DEF Right, RemovesInOrder
    <3> QED
      BY <1>0, <3>2, <3>3, <3>4 DEF Right, SnapWhole, ReadWhole, CheckedRight, RemovesInOrder
  <2> QED  BY <2>1, <2>2
<1>3. CASE Queue(j)
  BY <1>0, <1>3 DEF Queue, Goto, Right, SnapWhole, ReadWhole, CheckedRight, RemovesInOrder, userVars
<1>4. CASE Start(j)
  <2>1. /\ pc[j] = "queued" /\ pc'[j] = "read" /\ UNCHANGED <<snap, gone, inTime>>
        /\ left'[j] = Plan(Desc[j]) \ {Desc[j]} /\ disk[Desc[j]] # 0
    BY <1>0, <1>4 DEF Start, Goto, userVars
  <2>2. DOMAIN read'[j] = {Desc[j]} /\ read'[j][Desc[j]] = disk[Desc[j]]
    BY <1>0, <1>4 DEF Start
  <2>3. Plan(Desc[j]) = SetOf(j, disk[Desc[j]])  BY <2>1 DEF Plan, SetOf
  <2>4. ReadWhole(j)'  BY <2>1, <2>2, <2>3 DEF ReadWhole, SetOf
  <2> QED  BY <1>0, <2>1, <2>4 DEF Right, SnapWhole, CheckedRight, RemovesInOrder
<1>5. ASSUME NEW f \in Files, Read(j, f) PROVE Right(j)'
  <2>1. /\ pc[j] = "read" /\ pc'[j] = "read" /\ left'[j] = left[j] \ {f} /\ f \in left[j]
        /\ UNCHANGED <<snap, gone, inTime>>
    BY <1>0, <1>5 DEF Read, Visit, Goto, userVars
  <2>2. read'[j] = Extended(read[j], f, disk[f])  BY <1>0, <1>5 DEF Read, Extended
  <2>3. Desc[j] \in DOMAIN read[j] /\ f # Desc[j]  BY <1>0, <2>1 DEF Right, ReadWhole
  <2>4. DOMAIN read'[j] = DOMAIN read[j] \cup {f} /\ read'[j][Desc[j]] = read[j][Desc[j]]
    BY <2>2, <2>3 DEF Extended
  <2>5. ReadWhole(j)'  BY <1>0, <2>1, <2>4 DEF Right, ReadWhole, SetOf
  <2> QED  BY <1>0, <2>1, <2>5 DEF Right, SnapWhole, CheckedRight, RemovesInOrder
<1>6. CASE Converted(j)
  <2>1. /\ pc[j] = "read" /\ left[j] = {} /\ pc'[j] = "verify"
        /\ UNCHANGED <<snap, read, gone, inTime>>
    BY <1>0, <1>6 DEF Converted, Goto, userVars
  <2>2. ReadWhole(j)'  BY <1>0, <2>1 DEF Right, ReadWhole, SetOf
  <2> QED  BY <1>0, <2>1, <2>2 DEF Right, SnapWhole, CheckedRight, RemovesInOrder
<1>7. CASE Verified(j) \/ StopCancelled(j) \/ Fail(j) \/ Decide(j)
  <2>1. /\ UNCHANGED <<snap, read, gone, inTime>>
        /\ \/ pc[j] = "verify" /\ pc'[j] = "verdict"
           \/ pc[j] = "verdict" /\ j \notin cancel /\ pc'[j] = "replan"
           \/ pc[j] = "verdict" /\ pc'[j] = "kept"
           \/ pc[j] \in {"queued"} \cup Running /\ pc'[j] \in {"cancelled", "failed"}
        /\ pc'[j] = "cancelled" => pc[j] \in {"read", "verify"}
    BY <1>0, <1>7 DEF Verified, StopCancelled, Fail, Decide, DeleteOrKeep, Goto, userVars
  <2>2. ReadWhole(j)'  BY <1>0, <2>1 DEF Right, ReadWhole, SetOf
  <2> QED  BY <1>0, <2>1, <2>2 DEF Right, SnapWhole, CheckedRight, RemovesInOrder
<1>8. CASE Replan(j)
  <2>1. /\ pc[j] = "replan" /\ UNCHANGED <<disk, snap, read, gone, inTime>>
    BY <1>8 DEF Replan, userVars
  <2>2. CASE PlanIsSafe(Desc[j]) /\ Plan(Desc[j]) = Expected(j)
    <3>1. pc'[j] = "check" /\ left'[j] = DOMAIN snap[j]
      BY <1>0, <1>8, <2>2 DEF Replan, Goto, Expected
    <3>2. disk[Desc[j]] # 0  BY <2>2 DEF PlanIsSafe, Plan
    <3>3. DOMAIN snap[j] = SetOf(j, disk[Desc[j]])  BY <2>2, <3>2 DEF Plan, Expected, SetOf
    <3>4. Desc[j] \in DOMAIN snap[j]  BY <1>0, <2>1 DEF Right, SnapWhole
    <3>5. CheckedRight(j)'  BY <2>1, <3>1, <3>3, <3>4 DEF CheckedRight, SetOf
    <3>6. ReadWhole(j)'  BY <1>0, <2>1, <3>1 DEF Right, ReadWhole, SetOf
    <3> QED  BY <1>0, <2>1, <3>1, <3>5, <3>6 DEF Right, SnapWhole, RemovesInOrder
  <2>3. CASE ~(PlanIsSafe(Desc[j]) /\ Plan(Desc[j]) = Expected(j))
    <3>1. pc'[j] = "failed"  BY <1>0, <1>8, <2>3 DEF Replan, Goto
    <3> QED
      BY <1>0, <2>1, <3>1 DEF Right, SnapWhole, ReadWhole, CheckedRight, RemovesInOrder
  <2> QED  BY <2>2, <2>3
<1>9. ASSUME NEW f \in Files, Check(j, f) PROVE Right(j)'
  <2>1. /\ pc[j] = "check" /\ f \in left[j] /\ UNCHANGED <<disk, snap, read, gone, inTime>>
        /\ left[j] \subseteq DOMAIN snap[j] /\ Desc[j] \in DOMAIN snap[j]
        /\ Desc[j] \in DOMAIN read[j] /\ DOMAIN read[j] = SetOf(j, read[j][Desc[j]])
    BY <1>0, <1>9 DEF Check, Right, SnapWhole, ReadWhole, userVars
  <2>2. CASE InUseByOther(j, f) \/ ~Unchanged(j, f)
    <3>1. pc'[j] = "failed"  BY <1>0, <1>9, <2>2 DEF Check, Goto
    <3> QED
      BY <1>0, <2>1, <3>1 DEF Right, SnapWhole, ReadWhole, CheckedRight, RemovesInOrder
  <2>3. CASE ~InUseByOther(j, f) /\ Unchanged(j, f)
    <3>1. \A g \in DOMAIN snap[j] \cap DOMAIN read[j] :
             snap[j][g] \in Versions /\ read[j][g] \in Versions
      BY <1>0, MapIsFunction
    <3>2. f \in DOMAIN read[j] => read[j][f] = snap[j][f]
      <4>1. SUFFICES ASSUME f \in DOMAIN read[j] PROVE read[j][f] = snap[j][f]  OBVIOUS
      <4>2. disk[f] = snap[j][f] /\ f \in DOMAIN snap[j]  BY <2>1, <2>3 DEF Unchanged
      <4>3. snap[j][f] \in Versions /\ read[j][f] \in Versions  BY <3>1, <4>1, <4>2
      <4>4. disk[f] # 0  BY <4>2, <4>3 DEF Versions
      <4>5. snap[j][f] <= read[j][f] /\ read[j][f] <= disk[f]
        BY <1>0, <4>1, <4>2, <4>4 DEF RecordsOld
      <4> QED  BY <1>0, <4>2, <4>3, <4>5 DEF Versions
    <3>3. \A g \in (DOMAIN snap[j] \ left[j]) \cup {f} : g \in DOMAIN read[j] => read[j][g] = snap[j][g]
      BY <1>0, <2>1, <3>2 DEF Right, CheckedRight
    <3>4. Desc[j] \notin left[j] \ {f} => DOMAIN snap[j] = SetOf(j, snap[j][Desc[j]])
      BY <1>0, <2>1, <2>3 DEF Right, CheckedRight, Unchanged
    <3>5. CASE left[j] # {f}
      <4>1. pc'[j] = "check" /\ left'[j] = left[j] \ {f}
        BY <1>0, <1>9, <2>3, <3>5 DEF Check, Visit, Goto
      <4>2. CheckedRight(j)'
        BY <1>0, <2>1, <3>3, <3>4, <4>1 DEF Right, CheckedRight, SetOf
      <4>3. ReadWhole(j)'  BY <2>1, <4>1 DEF ReadWhole, SetOf
      <4> QED  BY <1>0, <2>1, <4>1, <4>2, <4>3 DEF Right, SnapWhole, RemovesInOrder
    <3>6. CASE left[j] = {f}
      <4>1. pc'[j] = "remove" /\ left'[j] = DOMAIN snap[j]
        BY <1>0, <1>9, <2>3, <3>6 DEF Check, Expected, Goto
      <4>2. DOMAIN snap[j] = SetOf(j, snap[j][Desc[j]]) /\ read[j][Desc[j]] = snap[j][Desc[j]]
        BY <2>1, <3>3, <3>4, <3>6
      <4>3. read[j] = snap[j]
        <5>1. DOMAIN read[j] = DOMAIN snap[j]  BY <2>1, <4>2
        <5>2. \A g \in DOMAIN snap[j] : read[j][g] = snap[j][g]  BY <3>3, <3>6, <5>1
        <5> QED  BY <1>0, <5>1, <5>2, MapsEqual
      <4>4. gone[j] = {} /\ j \notin inTime  BY <1>0, <2>1 DEF Right, RemovesInOrder
      <4> QED
        BY <1>0, <2>1, <4>1, <4>3, <4>4 DEF Right, SnapWhole, ReadWhole, CheckedRight, RemovesInOrder
    <3> QED  BY <3>5, <3>6
  <2> QED  BY <2>2, <2>3
<1>10. ASSUME NEW f \in Files, Remove(j, f) PROVE Right(j)'
  <2>1. /\ pc[j] = "remove" /\ f \in left[j] /\ (f = Desc[j] => left[j] = {f})
        /\ gone'[j] = gone[j] \cup {f} /\ UNCHANGED <<snap, read, inTime>>
        /\ IF left[j] = {f} THEN pc'[j] = "done" ELSE pc'[j] = "remove" /\ left'[j] = left[j] \ {f}
    BY <1>0, <1>10 DEF Remove, InOrder, Visit, Goto, userVars
  <2>2. /\ gone[j] \cup left[j] = DOMAIN snap[j] /\ Desc[j] \in left[j] /\ Desc[j] \notin gone[j]
        /\ j \notin inTime /\ Desc[j] \in DOMAIN snap[j] /\ read[j] = snap[j]
    BY <1>0, <2>1 DEF Right, SnapWhole, RemovesInOrder
  <2> QED
    BY <2>1, <2>2 DEF Right, SnapWhole, ReadWhole, CheckedRight, RemovesInOrder
<1>11. CASE Cancel(j)
  <2>1. /\ UNCHANGED <<disk, snap, read, gone>> /\ IsActive(j)
        /\ IF pc[j] = "queued" THEN pc'[j] = "cancelled" ELSE UNCHANGED <<pc, left>>
        /\ j \in inTime' => j \in inTime \/ pc[j] \in {"queued", "read", "verify", "verdict"}
    BY <1>0, <1>11 DEF Cancel, Goto
  <2>2. gone[j] = {} \/ pc[j] \in {"remove", "replan", "check"}
    BY <1>0, <2>1 DEF Right, RemovesInOrder, IsActive
  <2>3. CASE pc[j] = "queued"
    BY <1>0, <2>1, <2>3 DEF Right, SnapWhole, ReadWhole, CheckedRight, RemovesInOrder
  <2>4. CASE pc[j] # "queued"
    <3>1. ReadWhole(j)'  BY <1>0, <2>1, <2>4 DEF Right, ReadWhole, SetOf
    <3>2. CheckedRight(j)'  BY <1>0, <2>1, <2>4 DEF Right, CheckedRight, SetOf
    <3> QED
      BY <1>0, <2>1, <2>2, <2>4, <3>1, <3>2 DEF Right, SnapWhole, RemovesInOrder
  <2> QED  BY <2>3, <2>4
<1> QED
  BY <1>1, <1>2, <1>3, <1>4, <1>5, <1>6, <1>7, <1>8, <1>9, <1>10, <1>11 DEF Convert

LEMMA RightStep == IInv /\ [Next]_vars => \A k \in Jobs : Right(k)'
<1> SUFFICES ASSUME IInv, [Next]_vars, NEW k \in Jobs PROVE Right(k)'  OBVIOUS
<1>0. /\ pc \in [Jobs -> Phases] /\ left \in [Jobs -> SUBSET Files] /\ gone \in [Jobs -> SUBSET Files]
      /\ snap \in [Jobs -> Maps] /\ read \in [Jobs -> Maps]
  BY DEF IInv, TypeOK
<1>1. ASSUME NEW j \in Jobs, Convert(j) \/ Cancel(j), k # j PROVE Right(k)'
  <2>1. Still(k)
    BY <1>0, <1>1 DEF Still, Convert, Parse, Queue, Start, Converted, Verified, StopCancelled, Fail,
       Decide, DeleteOrKeep, Replan, Stat, Read, Check, Remove, Cancel, Goto, Visit, userVars
  <2>2. \E f \in Files : Write(f) \/ Unlink(f) \/ UNCHANGED disk
    BY <1>1, FilesAssumption DEF Convert, Parse, Queue, Start, Converted, Verified, StopCancelled,
       Fail, Decide, Replan, Stat, Read, Check, Remove, Cancel
  <2> QED  BY <2>1, <2>2, MovesOfDisk, RightKept
<1>2. ASSUME NEW f \in Files, AskDelete(f) \/ RouteRemove(f) \/ Edit(f) PROVE Right(k)'
  <2>1. Still(k)  BY <1>2 DEF Still, AskDelete, RouteRemove, Edit, userVars
  <2>2. Write(f) \/ Unlink(f) \/ UNCHANGED disk  BY <1>2 DEF AskDelete, RouteRemove, Edit
  <2> QED  BY <2>1, <2>2, MovesOfDisk, RightKept
<1>3. CASE UNCHANGED vars
  <2>1. Still(k) /\ UNCHANGED disk  BY <1>3 DEF Still, vars
  <2>2. DiskMoves  BY <2>1 DEF DiskMoves
  <2> QED  BY <2>1, <2>2, RightKept
<1> QED  BY <1>1, <1>2, <1>3, RightOwn DEF Next

-----------------------------------------------------------------------------
\* Two jobs that convert a file of the other's.

LEMMA PassedStep == IInv /\ [Next]_vars => PassedApart'
<1> SUFFICES ASSUME IInv, [Next]_vars PROVE PassedApart'  OBVIOUS
<1>0. /\ pc \in [Jobs -> Phases] /\ left \in [Jobs -> SUBSET Files] /\ snap \in [Jobs -> Maps]
      /\ PassedApart
  BY DEF IInv, TypeOK
<1>1. ASSUME \A j \in Jobs : Passed(j)' \subseteq Passed(j) PROVE PassedApart'
  BY <1>0, <1>1 DEF PassedApart
<1>2. ASSUME NEW j \in Jobs, NEW f \in Files, Check(j, f), \A k \in Jobs \ {j} : Passed(k)' = Passed(k)
      PROVE  PassedApart'
  <2>1. CASE InUseByOther(j, f) \/ ~Unchanged(j, f)
    <3>1. Passed(j)' = {}  BY <1>0, <1>2, <2>1 DEF Check, Goto, Passed
    <3> QED  BY <1>0, <1>1, <1>2, <3>1
  <2>2. CASE ~InUseByOther(j, f)
    <3>1. ASSUME NEW k \in Jobs \ {j}, Desc[k] = f PROVE Passed(k) = {}
      <4>1. ~IsActive(k)  BY <2>2, <3>1 DEF InUseByOther, Candidates, Plan
      <4> QED  BY <4>1 DEF IsActive, Running, Passed
    <3>2. Passed(j)' \subseteq Passed(j) \cup {f}
      BY <1>0, <1>2 DEF Check, Goto, Visit, Passed, Expected
    <3> QED  BY <1>0, <1>2, <3>1, <3>2 DEF PassedApart
  <2> QED  BY <2>1, <2>2
<1>3. ASSUME NEW j \in Jobs, Convert(j) \/ Cancel(j) PROVE PassedApart'
  <2>1. \A k \in Jobs \ {j} : pc'[k] = pc[k] /\ left'[k] = left[k] /\ snap'[k] = snap[k]
    BY <1>0, <1>3 DEF Convert, Parse, Queue, Start, Converted, Verified, StopCancelled, Fail,
       Decide, DeleteOrKeep, Replan, Stat, Read, Check, Remove, Cancel, Goto, Visit
  <2>2. \A k \in Jobs \ {j} : Passed(k)' = Passed(k)  BY <2>1 DEF Passed
  <2>3. CASE \E f \in Files : Check(j, f)  BY <1>2, <2>2, <2>3
  <2>4. CASE ~\E f \in Files : Check(j, f)
    <3>1. Passed(j)' \subseteq Passed(j)
      <4>1. CASE Parse(j) \/ Queue(j) \/ Start(j) \/ Converted(j) \/ Verified(j) \/ StopCancelled(j)
                 \/ Fail(j) \/ Decide(j) \/ \E f \in Files : Stat(j, f) \/ Read(j, f)
        BY <1>0, <4>1 DEF Parse, Queue, Start, Converted, Verified, StopCancelled, Fail, Decide,
           DeleteOrKeep, Stat, Read, Goto, Visit, Passed
      <4>2. CASE Replan(j)  BY <1>0, <4>2 DEF Replan, Goto, Expected, Passed
      <4>3. CASE \E f \in Files : Remove(j, f)
        BY <1>0, <4>3 DEF Remove, Goto, Visit, Passed
      <4>4. CASE Cancel(j)
        BY <1>0, <4>4 DEF Cancel, Goto, Passed
      <4> QED  BY <1>3, <2>4, <4>1, <4>2, <4>3, <4>4 DEF Convert
    <3> QED  BY <1>1, <2>2, <3>1
  <2> QED  BY <2>3, <2>4
<1>4. CASE UNCHANGED vars \/ \E f \in Files : AskDelete(f) \/ RouteRemove(f) \/ Edit(f)
  <2>1. UNCHANGED <<pc, left, snap>>  BY <1>4 DEF vars, AskDelete, RouteRemove, Edit
  <2>2. \A j \in Jobs : Passed(j)' = Passed(j)  BY <2>1 DEF Passed
  <2> QED  BY <1>1, <2>2
<1> QED  BY <1>3, <1>4 DEF Next

-----------------------------------------------------------------------------
\* The theorems.

LEMMA Inductive == Spec => []IInv
<1>1. Init => IInv
  <2>1. Init => PassedApart  BY DEF Init, PassedApart, Passed
  <2> QED  BY <2>1, TypeInit, RecordsInit, RightInit DEF IInv
<1>2. IInv /\ [Next]_vars => IInv'
  <2>1. IInv => TypeOK  BY DEF IInv
  <2> QED  BY <2>1, TypeStep, RecordsStep, RightStep, PassedStep DEF IInv
<1> QED  BY <1>1, <1>2, PTL DEF Spec

\* Whatever is edited, and when, a job removes only files it has converted, in
\* the versions it has converted, and the whole set or a part of it.
THEOREM ConvertedOnly == Spec => []OnlyConvertedRemoved
<1>1. IInv => OnlyConvertedRemoved  BY DEF IInv, Right, OnlyConvertedRemoved
<1> QED  BY <1>1, Inductive, PTL

\* No removal costs a set its descriptor before its tracks, a job cancelled in
\* time any file, or two jobs that convert of one another the same file.
THEOREM RemovalsSafe == Spec => []RemovalSafe
<1>1. ASSUME IInv PROVE RemovalSafe
  <2>1. DescriptorLast  BY <1>1 DEF IInv, Right, DescriptorLast
  <2>2. CancelKeepsSource
    BY <1>1 DEF IInv, TypeOK, Right, RemovesInOrder, CancelKeepsSource
  <2>3. OneRemover  BY <1>1 DEF IInv, PassedApart, Passed, OneRemover
  <2> QED  BY <2>1, <2>2, <2>3 DEF RemovalSafe
<1> QED  BY <1>1, Inductive, PTL

=============================================================================
