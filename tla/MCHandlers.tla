----------------------------- MODULE MCHandlers -----------------------------
(* Small instances of Handlers for TLC. *)
EXTENDS Handlers, TLC

CONSTANTS a, b, r1, r2, r3, t1, t2, sd, hd, v1, v2, x, y, z, f1

MCKind == (r1 :> "messenger") @@ (r2 :> "fallback")
MCPost == (r1 :> a) @@ (r2 :> b)

MCStripe == [p \in OffPosts |-> 1]
MCOffItems == {[n |-> 1, playable |-> {1}], [n |-> 2, playable |-> {1}],
               [n |-> 2, playable |-> {2}]}

(* One proxy's URL does not parse.                                         *)
MCProxies == <<x, y, z>>

MCSize == (sd :> 4) @@ (hd :> 5)
MCRanges == {[from |-> 1, to |-> None], [from |-> 1, to |-> 3]}

Track(kind, length, area, bandwidth) ==
  [kind |-> kind, length |-> length, allowed |-> TRUE, area |-> area, bandwidth |-> bandwidth]
LowAudio == Track("audio", 1, 0, 1)
HighAudio == Track("audio", 2, 0, 2)

(* Manifests in which area and bandwidth rank the videos differently, one  *)
(* where the best video fits with the lower audio only, one where none     *)
(* fits, one with a track that may not be used; and an answer that says    *)
(* there is no audio.                                                      *)
MCBodies ==
  {[silent |-> FALSE, tracks |-> t] : t \in {
     <<Track("video", 1, 1, 2), Track("video", 2, 2, 1), LowAudio>>,
     <<Track("video", 2, 2, 1), Track("video", 1, 1, 2), HighAudio, LowAudio>>,
     <<Track("video", 1, 1, 1), Track("video", 1, 1, 2), LowAudio, HighAudio>>,
     <<HighAudio, Track("video", 3, 1, 1)>>,
     <<LowAudio, Track("video", 1, 1, 1), [Track("video", 1, 2, 1) EXCEPT !.allowed = FALSE]>>}}
  \cup {[silent |-> TRUE, tracks |-> <<>>]}
=============================================================================
