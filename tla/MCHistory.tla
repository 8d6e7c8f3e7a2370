----------------------------- MODULE MCHistory -----------------------------
(***************************************************************************)
(* Instances of HistoryOverflow, with up to two refreshes under way.       *)
(***************************************************************************)
EXTENDS HistoryOverflow

CONSTANTS r1, r2
=============================================================================
