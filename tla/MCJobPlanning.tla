--------------------------- MODULE MCJobPlanning ---------------------------
(***************************************************************************)
(* A disc image that extracts to Game.cue and Game.bin, submitted through  *)
(* a link, with a second that extracts to Game_1.cue and Game_1.bin, where *)
(* the first is renamed to; an archive that restores Game.bin; and a track *)
(* sheet with its track, which are one disc and compress to Game.chd.      *)
(***************************************************************************)
EXTENDS JobPlanning, TLC

Spellings == {"via", "viabin", "via_1", "viabin_1", "cue_1", "bin", "bin_1", "chd"}
Spelt == [n \in Names |-> CASE n = "via" -> "cue" [] n = "viabin" -> "bin"
                           [] n = "via_1" -> "cue_1" [] n = "viabin_1" -> "bin_1" [] OTHER -> n]
To    == [x \in Inputs |-> CASE x = "link" -> "via" [] x = "second" -> "cue_1"
                            [] x = "rom" -> "bin" [] OTHER -> "chd"]
Bin   == [n \in Names |-> CASE n = "via" -> {"viabin"} [] n = "via_1" -> {"viabin_1"}
                           [] n = "cue_1" -> {"bin_1"} [] OTHER -> {}]
Beside == [x \in Inputs |-> IF x \in {"link", "second"} THEN Bin ELSE [n \in Names |-> {}]]
Number == [n \in Names |-> CASE n = "via" -> <<"via_1">> [] n = "bin" -> <<"bin_1">> [] OTHER -> <<>>]
Rank  == [x \in Inputs |-> CASE x = "sheet" -> 4 [] x = "track" -> 1 [] OTHER -> 0]
Asked == {<<"sheet", "track">>, <<"link", "second">>, <<"rom">>}
Ways  == {<<"skip", FALSE>>, <<"overwrite", FALSE>>, <<"rename", FALSE>>, <<"overwrite", TRUE>>}
Before == {{}}
Exchange == Permutations(Jobs) \cup Permutations(Requests)
=============================================================================
