---------------------------- MODULE MCVerifyLane ----------------------------
(***************************************************************************)
(* A lane of one slot shared by a plain request, a stream and a batch.     *)
(***************************************************************************)
EXTENDS VerifyLane

CONSTANTS sync, events, batch
=============================================================================
