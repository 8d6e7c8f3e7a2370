----------------------------- MODULE MCRommSweep -----------------------------
(***************************************************************************)
(* Two ROMs of one platform, with outputs of their own or one output for   *)
(* both, under rules that differ in policy, target and directory.                     *)
(***************************************************************************)
EXTENDS RommSweep

CONSTANTS a, b

Rl(policy, target, dir, on, deletes) ==
    [policy |-> policy, target |-> target, dir |-> dir, on |-> on, deletes |-> deletes]

Apart    == [r \in Roms |-> r]
Together == [r \in Roms |-> a]

Overwriting == {Rl("overwrite", "rvz", "named", "on", TRUE)}
Mixed == Overwriting \cup {Rl("rename", "rvz", "beside", "on", FALSE),
                           Rl("skip", "gcz", "beside", "off", FALSE)}

Symmetry == Permutations(Roms)
=============================================================================
