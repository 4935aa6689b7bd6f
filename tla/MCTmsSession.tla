---------------------------- MODULE MCTmsSession ----------------------------
(* Small instances of TmsSession. *)
EXTENDS TmsSession

CONSTANTS t1, t2, t3, u1, u2
=============================================================================
