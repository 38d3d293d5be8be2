----------------------------- MODULE MCResolver -----------------------------
(* Small instances of Resolver for TLC. *)
EXTENDS Resolver, TLC

CONSTANTS p1, c1, c2

MCItem(media, named, stats) == [media |-> media, named |-> named, stats |-> stats]

(* What logged-out sources give: a carousel with everything or a nameless  *)
(* video; and what the auth helper gives.                                  *)
Carousel == MCItem("gallery", TRUE, TRUE)
Reel == MCItem("video", FALSE, FALSE)
Thumbnail == MCItem("image", TRUE, FALSE)
AuthReel == MCItem("video", TRUE, FALSE)

AnyPublic == {Carousel, Reel}
OnlyReel == {Reel}
AnyAuth == {Thumbnail, AuthReel}
OnlyThumbnail == {Thumbnail}

AllItems == Metadata
Unsigned == [i \in Metadata |-> None]

CallerSymmetry == Permutations(Callers)
=============================================================================
