--------------------------- MODULE CompactSources ---------------------------
(***************************************************************************)
(* Which separate video and audio tracks of a Reel are joined into a       *)
(* compact MP4 (ResolveCompactPreviewAV): the sources that are asked one   *)
(* after the other, what their answers say, and the choice among the       *)
(* tracks of a DASH manifest.  No state; CompactAV and EmbedPage ask.      *)
(*                                                                         *)
(* A track is [kind, length, allowed, area, bandwidth]; `length' is 0 when *)
(* the manifest does not tell it, `allowed' holds for an MP4 on            *)
(* Instagram's CDN.                                                        *)
(***************************************************************************)
EXTENDS Absent, Integers, Sequences

CONSTANTS
  AVSources,  \* the sources asked: 4 with a direct refresh, else 2
  AVLimit,    \* MaxInlineVideoBytes
  AVReserve,  \* compactMuxOverheadReserve
  AVBodies    \* answers: [silent |-> no audio is said, tracks |-> manifest]

Tracks ==
  [kind : STRING, length : Int, allowed : BOOLEAN, area : Int, bandwidth : Int]

ASSUME SourcesAssumption ==
  /\ AVSources \in Nat /\ AVLimit \in Nat /\ AVReserve \in Nat
  /\ None \notin AVBodies /\ None \notin [video : Tracks, audio : Tracks]
  /\ AVBodies \subseteq [silent : BOOLEAN, tracks : Seq(Tracks)]

(* The tracks of a manifest that are kept as videos and as audios.         *)
Usable(track, kind) == track.kind = kind /\ track.length > 0 /\ track.allowed

Fits(video, audio) == video.length + audio.length + AVReserve <= AVLimit

(* Mutant: the bandwidth counts before the area.                           *)
BetterBandwidth(video, audio, best) ==
  \/ best = None
  \/ video.area > best.video.area
  \/ video.bandwidth > best.video.bandwidth
  \/ /\ video.area = best.video.area
     /\ video.bandwidth = best.video.bandwidth
     /\ audio.bandwidth > best.audio.bandwidth

Better(video, audio, best) ==
  \/ best = None
  \/ video.area > best.video.area
  \/ /\ video.area = best.video.area
     /\ video.bandwidth > best.video.bandwidth
  \/ /\ video.area = best.video.area
     /\ video.bandwidth = best.video.bandwidth
     /\ audio.bandwidth > best.audio.bandwidth

(* The body of the loop over pairs, ...                                    *)
KeepBetter(best, video, audio) ==
  IF /\ Usable(video, "video") /\ Usable(audio, "audio")
     /\ Fits(video, audio) /\ Better(video, audio, best)
  THEN [video |-> video, audio |-> audio] ELSE best

(* ... the loop over the audios for a video, ...                           *)
WithAudios(tracks, best, video) ==
  LET after[n \in 0..Len(tracks)] ==
        IF n = 0 THEN best ELSE KeepBetter(after[n - 1], video, tracks[n])
  IN  after[Len(tracks)]

(* ... and compactAVFromDASHManifest: None is its error.                   *)
BestPair(tracks) ==
  LET after[n \in 0..Len(tracks)] ==
        IF n = 0 THEN None ELSE WithAudios(tracks, after[n - 1], tracks[n])
  IN  after[Len(tracks)]

---------------------------------------------------------------------------
(* Where a resolution stands: sources asked, what they said, the pair.     *)
NothingAsked == [tried |-> 0, silent |-> FALSE, failed |-> FALSE, pair |-> None]

(* compactAVSourcesFromGraphQLBody; `body' is None when the fetch failed,  *)
(* which says nothing about audio.                                         *)
Ask(at, body) ==
  IF body = None THEN [at EXCEPT !.tried = @ + 1]
  ELSE IF body.silent THEN [at EXCEPT !.tried = @ + 1, !.silent = TRUE]
  ELSE LET pair == BestPair(body.tracks) IN
       IF pair = None THEN [at EXCEPT !.tried = @ + 1, !.failed = TRUE]
       ELSE [at EXCEPT !.pair = pair]

Resolved(at) == at.pair # None \/ at.tried = AVSources

(* What errors.Is finds in the error: some source said that the Reel has   *)
(* no audio.  `failed' (sawAudioExpectedFailure) decides between the plain *)
(* ErrNoAudioExpected and errors.Join of all attempts, and the join still  *)
(* is ErrNoAudioExpected.                                                  *)
NoAudioExpected(at) == at.pair = None /\ at.silent
=============================================================================
