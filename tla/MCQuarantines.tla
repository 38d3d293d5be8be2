--------------------------- MODULE MCQuarantines ----------------------------
(* A small instance of Quarantines for TLC. *)
EXTENDS Quarantines, TLC

CONSTANTS a1, a2, w1, w2, i1, i2, i3, i4
=============================================================================
