----------------------------- MODULE ByteStream -----------------------------
(***************************************************************************)
(* What the helper's video route promises about the body of one response:  *)
(* it begins at the byte that was asked for, is contiguous, is never       *)
(* longer than the limit or than its headers announced, and counts as      *)
(* complete only with the last byte announced.  If the first upstream      *)
(* response told the size of the file, every later part that tells one is  *)
(* of a file of that size; a part that withholds it may be of any.         *)
(*                                                                         *)
(* A byte is the file it comes from, its offset there, and whether the     *)
(* response that brought it told the size of the file.                     *)
(***************************************************************************)
EXTENDS Naturals, Sequences

CONSTANTS
  Files,    \* the renditions of the video
  Size,     \* Size[f]: the bytes of f
  MaxBytes, \* no body is longer than this
  Starts    \* the first bytes a client may ask for

VARIABLES
  body,     \* the bytes written to the client so far
  start,    \* the offset of the first byte
  promised, \* the length announced, 0 when none was
  total,    \* the size of the file that was announced, 0 when none was
  state     \* "idle", "sending", "complete" or "broken"

streamVars == <<body, start, promised, total, state>>

(* `n' bytes of `file' from `offset' on.                                   *)
Run(file, tells, offset, n) == [i \in 1..n |-> <<file, offset + i - 1, tells>>]

Silent ==
  body = <<>> /\ start = 0 /\ promised = 0 /\ total = 0 /\ state = "idle"

(* A response begins; an earlier one is over.                              *)
Announce ==
  /\ state # "sending"
  /\ state' = "sending"
  /\ body' = <<>>
  /\ start' \in Starts
  /\ promised' \in 0..MaxBytes
  /\ total' \in {0} \cup {Size[f] : f \in Files}

(* The body grows by the bytes that follow in the file.                    *)
Extend ==
  /\ state = "sending"
  /\ \E file \in Files, tells \in BOOLEAN, n \in 1..MaxBytes :
       /\ tells /\ total > 0 => Size[file] = total
       /\ body' = body \o Run(file, tells, start + Len(body), n)
       /\ Len(body') <= MaxBytes
       /\ promised > 0 => Len(body') <= promised
  /\ UNCHANGED <<start, promised, total, state>>

(* The response ends; its body is with the client.                         *)
Finish ==
  /\ state = "sending"
  /\ state' \in {"complete", "broken"}
  /\ state' = "complete" /\ promised > 0 => Len(body) = promised
  /\ body' = <<>> /\ start' = 0 /\ promised' = 0 /\ total' = 0

(* The connection is used for something else.                              *)
Reset ==
  /\ state # "sending"
  /\ Silent'

StreamNext == Announce \/ Extend \/ Finish \/ Reset

StreamSpec == Silent /\ [][StreamNext]_streamVars
=============================================================================
