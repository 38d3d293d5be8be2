------------------------------ MODULE MCGuards ------------------------------
(* Small instances of Guards for TLC. *)
EXTENDS Guards, MCQuarantines, MCEmbedPage

CONSTANTS a, p1, p2, s1, s2, c1, c2

MCPerIP == ("embed" :> 1) @@ ("invalid" :> 1) @@ ("miss" :> 1)
MCGlobal == ("embed" :> 2) @@ ("invalid" :> 0) @@ ("miss" :> 1)

MCLegacyItems == [medias : {0, 1}, named : BOOLEAN, video : BOOLEAN]
MCLegacyRequests ==
  [client : {"telegram", "preview", "bot"}, path : {"p", "reel"}, plain : BOOLEAN, number : {0}]
  \cup {[client |-> "browser", path |-> "p", plain |-> TRUE, number |-> 0],
        [client |-> "telegram", path |-> "story", plain |-> TRUE, number |-> 2]}

(* Posts, and slots with their threads, are interchangeable.               *)
GuardsSymmetry == Permutations(Posts) \cup Permutations(Slots) \cup Permutations(Callers)
=============================================================================
