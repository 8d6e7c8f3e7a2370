---------------------------- MODULE MCSharedSlots ----------------------------
(* Two processes; the first queues two jobs and the second one. *)
EXTENDS SharedSlots, TLC

CONSTANTS left, right, left1, left2, right1

OwnerOf == (left1 :> left @@ left2 :> left @@ right1 :> right)
RankOf == (left1 :> 2 @@ left2 :> 3 @@ right1 :> 1)
==============================================================================
