------------------------- MODULE MCApprovedActions -------------------------
(* ApprovedActions for TLC: one address opens with a harmless control, the   *)
(* other with a sensitive one.                                               *)
EXTENDS ApprovedActions

CONSTANTS home, read, send

MCOpening == [u \in Urls |-> IF u = home THEN read ELSE send]
=============================================================================
