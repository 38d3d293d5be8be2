---------------------------- MODULE MCEmbedPage -----------------------------
(* A small instance of EmbedPage for TLC. *)
EXTENDS EmbedPage, TLC

CONSTANT e1

(* What a source of the compact videos answers: a video with sound, one    *)
(* whose sound makes it too large, and a video that has none.              *)
Track(kind, length) ==
  [kind |-> kind, length |-> length, allowed |-> TRUE, area |-> 1, bandwidth |-> 1]
MCBodies == {[silent |-> FALSE, tracks |-> <<Track("video", 1), Track("audio", 1)>>],
             [silent |-> FALSE, tracks |-> <<Track("video", 1), Track("audio", 9)>>],
             [silent |-> TRUE, tracks |-> <<>>]}

Photo(url) == [video |-> FALSE, dash |-> FALSE, url |-> url, thumb |-> Foreign]
Film(url, thumb, dash) == [video |-> TRUE, dash |-> dash, url |-> url, thumb |-> thumb]
MCEmbedItems ==
  {<<Photo(2)>>, <<Photo(4)>>, <<Photo(Malformed)>>, <<Photo(None)>>, <<Photo(4), Photo(3)>>,
   <<Photo(4), Film(5, 3, FALSE)>>, <<Film(3, None, TRUE)>>, <<Film(4, Foreign, FALSE)>>}
MCEmbedKinds ==
  [number : {0, 2}, telegram : BOOLEAN, original : {FALSE}, direct : {FALSE}]
  \cup {[number |-> 0, telegram |-> TRUE, original |-> TRUE, direct |-> FALSE],
        [number |-> 1, telegram |-> TRUE, original |-> FALSE, direct |-> TRUE]}
=============================================================================
