--------------------------- MODULE MCSourceDelete ---------------------------
(***************************************************************************)
(* Two conversions of one disc: a descriptor whose first version names one *)
(* track, whose other versions name another (or none, in the run without   *)
(* that file), and an output for each job.  A job's output bears the job's *)
(* name, so that the two jobs are interchangeable.                         *)
(***************************************************************************)
EXTENDS SourceDelete, TLC

CONSTANTS j, k, cue, bin, wav

OneJob  == {j}
TwoJobs == {j, k}
Disc    == {cue, bin, wav, j}
Shared  == {cue, bin, j, k}
Input   == [x \in Jobs |-> cue]
Result  == [x \in Jobs |-> x]
Tracks  == [x \in Files |-> [v \in 1..MaxVersion |->
               IF x # cue THEN {} ELSE Files \cap (IF v = 1 THEN {bin} ELSE {wav})]]

Exchange == Permutations(Jobs)
=============================================================================
