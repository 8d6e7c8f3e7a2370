---------------------------- MODULE MCRepinLedger ----------------------------
(***************************************************************************)
(* Two tabs and a sweep plan conversions of two sources to one output.     *)
(***************************************************************************)
EXTENDS RepinLedger

CONSTANTS t, u, w, iso, wbfs

Converts == [c \in Clients |-> IF c = u THEN wbfs ELSE iso]
=============================================================================
