-------------------------- MODULE MCAuthHelperGate --------------------------
(* Small instances of AuthHelperGate for TLC. *)
EXTENDS AuthHelperGate, TLC

CONSTANTS p1, p2, p3, c1

(* Without entries for a helper that is busy. *)
MCNegativeTTL == ("busy" :> 0) @@ ("unavailable" :> 1) @@ ("error" :> 1)
=============================================================================
