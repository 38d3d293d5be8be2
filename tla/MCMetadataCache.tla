-------------------------- MODULE MCMetadataCache --------------------------
(* Small instances of MetadataCache for TLC. *)
EXTENDS MetadataCache, TLC

CONSTANTS p1, p2, plain, signed, lapsed, w1, w2

(* `plain` has no signed URL, the URLs of `signed` expire at time 3 and    *)
(* those of `lapsed` were about to expire when they were scraped.          *)
MCSignedExpiry == (plain :> None) @@ (signed :> 3) @@ (lapsed :> 0)

(* The workers are interchangeable.                                        *)
WorkerSymmetry == Permutations(Workers)
=============================================================================
