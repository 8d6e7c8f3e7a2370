----------------------------- MODULE MCJobQueue -----------------------------
(***************************************************************************)
(* Small instances of JobQueue: a file job a, folder jobs d and e, and one *)
(* ticket key f of another process.  e's folder lies in d's folder, and so *)
(* does the destination oA that both a and e write; a's source lies in e's *)
(* folder.  In the liveness run e writes a destination oE of its own, so   *)
(* that all three jobs may be active at once, and the operator cancels     *)
(* folder jobs only.                                                       *)
(***************************************************************************)
EXTENDS JobQueue

CONSTANTS a, d, e, f, oA, oD, oE

ThreeJobs == {a, d, e}
TwoJobs   == {a, d}
Packs     == {d, e}
Folders   == {d, e} \cap Jobs
Dest      == [j \in Jobs |-> IF j = d THEN oD ELSE oA]
DestOwn   == [j \in Jobs |-> IF j = d THEN oD ELSE IF j = e THEN oE ELSE oA]
DestIn    == [x \in Folders |-> IF x = d THEN {oA} ELSE {}]
\* Each of d and e writes into the folder of the other.
DestCross == [x \in Folders |-> IF x = d THEN {oE} ELSE {oD}]
SourceIn  == [x \in Folders |-> IF x = e THEN {a} \cap Jobs ELSE {}]
Nests     == {p \in {<<d, e>>, <<e, d>>} : p[1] \in Jobs /\ p[2] \in Jobs}

\* No destination exists beforehand: the jobs of the run make them.  Once e is
\* cancelled the other process has no ticket and no slot.
Fresh    == Init /\ exists = {}
Alone    == f \notin slots' /\ \A i \in DOMAIN tickets' : tickets'[i] # f
MainSpec == Fresh /\ [][Next /\ (e \in cancelled' \/ status'[e] = "cancelled" => Alone)]_vars
LiveSpec == Fresh /\ [][Next /\ a \notin cancelled']_vars /\ Fairness
=============================================================================
