-------------------------- MODULE OutputOwnership --------------------------
(***************************************************************************)
(* What the conversion queue promises about the files it makes, without    *)
(* queue, tickets, locks or coroutines: a destination has one owner at a   *)
(* time, a folder is packed only while nobody else owns a destination in   *)
(* it and no folder that nests with it is packed, and a destination is     *)
(* written and cleared by its owner alone.  JobQueue implements it.        *)
(***************************************************************************)
CONSTANTS
    Jobs,     \* the jobs
    Outs,     \* their destinations
    Out,      \* Out[j]: the destination of job j
    Dirs,     \* the jobs that pack a folder
    Inside,   \* Inside[d]: the destinations that lie in the folder of d
    Nested    \* pairs of folder jobs whose folders contain one another

VARIABLES
    owners,   \* the jobs that own their destination
    packers,  \* those that pack their folder
    files     \* the destinations at which a file exists

vars == <<owners, packers, files>>

Init == owners = {} /\ packers = {} /\ files \in SUBSET Outs

\* A job comes to own its destination.
Own(j) ==
    /\ j \notin owners
    /\ \A k \in owners : Out[k] # Out[j]
    /\ \A d \in packers : Out[j] \notin Inside[d]
    /\ owners' = owners \cup {j}
    /\ UNCHANGED <<packers, files>>

\* An owner begins to pack its folder.
Pack(d) ==
    /\ d \in owners \cap Dirs
    /\ \A j \in owners : Out[j] \notin Inside[d]
    /\ \A e \in packers : <<d, e>> \notin Nested
    /\ packers' = packers \cup {d}
    /\ UNCHANGED <<owners, files>>

\* An owner puts a file at its destination.
Write(j) ==
    /\ j \in owners
    /\ files' = files \cup {Out[j]}
    /\ UNCHANGED <<owners, packers>>

\* An owner gives up what it has, and may take its file away.
Leave(j) ==
    /\ j \in owners
    /\ owners' = owners \ {j} /\ packers' = packers \ {j}
    /\ files' \in {files, files \ {Out[j]}}

Next == \E j \in Jobs : Own(j) \/ Pack(j) \/ Write(j) \/ Leave(j)

Spec == Init /\ [][Next]_vars
=============================================================================
