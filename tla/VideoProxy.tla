----------------------------- MODULE VideoProxy -----------------------------
(***************************************************************************)
(* The helper's video route (proxy_video).  A handler thread that gets one *)
(* of the Slots opens the first chunk of a candidate URL, announces the    *)
(* response, and passes on chunk after chunk.  When the upstream response  *)
(* ends, at its chunk's end or before, it asks for the bytes that follow,  *)
(* from the same URL or from a refreshed one, which may be another         *)
(* rendition of the video.  A URL stands for the file behind it.           *)
(***************************************************************************)
EXTENDS Absent, Integers, Sequences, FiniteSets

CONSTANTS
  Threads,    \* handler threads of the helper
  Slots,      \* VIDEO_PROXY_MAX_CONCURRENT
  Files,      \* renditions behind the URLs
  Size,       \* Size[f]: the bytes of f
  Chunk,      \* VIDEO_PROXY_UPSTREAM_CHUNK_BYTES
  MaxBytes,   \* VIDEO_PROXY_MAX_BYTES
  MaxResumes, \* VIDEO_PROXY_MAX_RESUME_ATTEMPTS
  Ranges,     \* Range headers: [from, to], to = None when open
  Refresh     \* video_refresh_enabled()

ASSUME ThreadsAssumption == IsFiniteSet(Threads)

ASSUME SizeAssumption == Size \in [Files -> Nat \ {0}]

(* As many resumes as a body of MaxBytes has chunks (the defaults have     *)
(* 257 chunks of 262144 bytes for 50000000).                               *)
ASSUME ChunkAssumption ==
  /\ Slots \in Nat \ {0} /\ Chunk \in Nat \ {0} /\ MaxBytes \in Nat
  /\ MaxResumes \in Nat /\ Chunk * (MaxResumes + 1) >= MaxBytes
  /\ Refresh \in BOOLEAN

ASSUME RangeAssumption ==
  /\ None \notin Nat
  /\ \A r \in Ranges : r.from \in Nat /\ r.to \in Nat \cup {None}
  /\ \A r \in Ranges : r.to # None => r.to >= r.from

VARIABLES
  slots, \* free slots of video_proxy_semaphore
  conn,  \* conn[t]: the thread's request and its upstream response
  out    \* out[t]: what the client has been told and sent

videoVars == <<slots, conn, out>>

NoRange == [from |-> 0, to |-> None]

Free == [phase |-> "free", ask |-> NoRange, ranged |-> FALSE, todo |-> {},
         refreshed |-> FALSE, url |-> None, tells |-> FALSE, end |-> None, next |-> 0,
         last |-> 0, resumes |-> 0, hurt |-> FALSE]

Nothing == [body |-> <<>>, start |-> 0, promised |-> 0, total |-> 0,
            state |-> "idle"]

VideoInit ==
  /\ slots = Slots
  /\ conn = [t \in Threads |-> Free]
  /\ out = [t \in Threads |-> Nothing]

---------------------------------------------------------------------------
(* Upstream.                                                               *)

Smaller(a, b) == IF a < b THEN a ELSE b

(* Mutant: a chunk is a byte short.                                        *)
ChunkEndShort(from, to) ==
  IF to = None THEN from + Chunk - 2 ELSE Smaller(from + Chunk - 2, to)

(* chunk_end *)
ChunkEnd(from, to) ==
  IF to = None THEN from + Chunk - 1 ELSE Smaller(from + Chunk - 1, to)

(* The last byte of f in the chunk that is asked for from `from' on.       *)
LastAsked(f, from, to) == Smaller(ChunkEnd(from, to), Size[f] - 1)

(* The answers to such a request: some of the chunk from its first byte    *)
(* on, the whole file without a Content-Range, or bytes from elsewhere.    *)
Answers(f, from, to) ==
  [partial : {TRUE}, from : {from}, upto : from..LastAsked(f, from, to)]
    \cup {[partial |-> FALSE, from |-> 0, upto |-> Size[f] - 1]}
    \cup {[partial |-> TRUE, from |-> 0, upto |-> 0]}

---------------------------------------------------------------------------
(* A 503 answer changes nothing: a request is only taken with a free slot. *)
Accept(t) ==
  /\ conn[t].phase = "free"
  /\ slots > 0
  /\ slots' = slots - 1
  /\ \E url \in Files, ask \in Ranges \cup {NoRange}, ranged \in BOOLEAN :
       /\ IF ranged THEN ask \in Ranges ELSE ask = NoRange
       /\ conn' = [conn EXCEPT ![t] =
            [Free EXCEPT !.phase = "opening", !.ask = ask, !.ranged = ranged,
                         !.todo = {url}]]
  /\ out' = [out EXCEPT ![t] = Nothing]

(* The finally block; `state' is how the client sees the response end.     *)
End(t, state) ==
  /\ conn' = [conn EXCEPT ![t] = Free]
  /\ slots' = slots + 1
  /\ out' = IF out[t].state = "sending"
            THEN [out EXCEPT ![t] = [Nothing EXCEPT !.state = state]] ELSE out

(* The next candidate cannot be opened; after the last, one refresh.       *)
OpenFails(t) ==
  /\ conn[t].phase = "opening"
  /\ \E url \in conn[t].todo :
       LET rest == conn[t].todo \ {url}
       IN  \/ /\ rest # {}
              /\ conn' = [conn EXCEPT ![t].todo = rest]
              /\ UNCHANGED <<slots, out>>
           \/ /\ rest = {} /\ ~conn[t].refreshed /\ Refresh
              /\ \E urls \in SUBSET Files \ {{}} :
                   conn' = [conn EXCEPT ![t].todo = urls, ![t].refreshed = TRUE]
              /\ UNCHANGED <<slots, out>>
           \/ rest = {} /\ End(t, "broken")

(* end_byte and expected_bytes; the total is 0 if it was not told.         *)
EndByte(t, total) ==
  IF conn[t].ask.to # None THEN conn[t].ask.to
  ELSE IF total = 0 THEN None ELSE total - 1

Expected(t, total) ==
  IF EndByte(t, total) = None THEN 0 ELSE EndByte(t, total) - conn[t].ask.from + 1

(* The checks between the response to the first chunk and the headers.     *)
Passable(t, answer, told, total) ==
  /\ told => answer.upto - answer.from < MaxBytes
  /\ answer.partial
  /\ conn[t].ranged => answer.from = conn[t].ask.from
  /\ Expected(t, total) <= MaxBytes

(* The response that is read from now on: the bytes next..last of `url';   *)
(* `tells': its Content-Range has a total.  It hurts when it is less than  *)
(* was asked for.                                                          *)
Reading(c, url, tells, answer, to) ==
  [c EXCEPT !.phase = "sending", !.url = url, !.tells = tells, !.todo = {},
            !.next = answer.from, !.last = answer.upto, !.end = to,
            !.hurt = @ \/ answer.upto # ChunkEnd(answer.from, to)]

(* The first chunk is there: an error answer, the headers alone for HEAD,  *)
(* or headers and a body.  `told': there is a Content-Length.              *)
Opened(t) ==
  /\ conn[t].phase = "opening"
  /\ \E url \in conn[t].todo, tells, told, head \in BOOLEAN :
       LET total == IF tells THEN Size[url] ELSE 0
       IN  \E answer \in Answers(url, conn[t].ask.from, conn[t].ask.to) :
             \/ ~Passable(t, answer, told, total) /\ End(t, "broken")
             \/ Passable(t, answer, told, total) /\ head /\ End(t, "complete")
             \/ /\ Passable(t, answer, told, total) /\ ~head
                /\ conn' = [conn EXCEPT ![t] = Reading(@, url, tells, answer, EndByte(t, total))]
                /\ out' = [out EXCEPT ![t] =
                     [body |-> <<>>, start |-> conn[t].ask.from,
                      promised |-> Expected(t, total), total |-> total,
                      state |-> "sending"]]
                /\ UNCHANGED slots

(* One piece of the upstream response is passed on.                        *)
Pass(t) ==
  /\ conn[t].phase = "sending"
  /\ \E n \in 1..(conn[t].last - conn[t].next + 1) :
       IF Len(out[t].body) + n > MaxBytes
       THEN End(t, "broken")
       ELSE /\ out' = [out EXCEPT ![t].body =
                 @ \o [i \in 1..n |-> <<conn[t].url, conn[t].next + i - 1, conn[t].tells>>]]
            /\ conn' = [conn EXCEPT ![t].next = @ + n]
            /\ UNCHANGED slots

Done(t) == out[t].promised = 0 \/ Len(out[t].body) >= out[t].promised

(* Mutant: attempts are not counted.                                       *)
AttemptUncounted(c, broken) ==
  [c EXCEPT !.phase = "resuming", !.hurt = @ \/ broken]

Attempt(c, broken) ==
  [c EXCEPT !.phase = "resuming", !.resumes = @ + 1, !.hurt = @ \/ broken]

(* The upstream response ends, or breaks off before its last byte; the     *)
(* check for MaxBytes sent is void, as no more than that was promised.     *)
ResponseEnds(t) ==
  /\ conn[t].phase = "sending"
  /\ \E broken \in BOOLEAN :
       /\ conn[t].next <= conn[t].last => broken
       /\ \/ Done(t) /\ End(t, IF broken /\ out[t].promised = 0 THEN "broken" ELSE "complete")
          \/ /\ ~Done(t) /\ conn[t].resumes >= MaxResumes
             /\ End(t, "broken")
          \/ /\ ~Done(t) /\ conn[t].resumes < MaxResumes
             /\ conn' = [conn EXCEPT ![t] = Attempt(@, broken)]
             /\ UNCHANGED <<slots, out>>

NextByte(t) == conn[t].ask.from + Len(out[t].body)

(* Mutant: the size of the file is not compared.                           *)
ResumableAnySize(t, url, tells, answer) ==
  answer.partial /\ answer.from = NextByte(t)

(* open_resume_response accepts a part from exactly the next byte on.  The *)
(* size of its file is compared with the one that the first response told, *)
(* if both are told: a part that withholds it may be of another file.      *)
Resumable(t, url, tells, answer) ==
  /\ answer.partial
  /\ answer.from = NextByte(t)
  /\ out[t].total > 0 /\ tells => Size[url] = out[t].total

(* The current URL is asked first, and refreshed ones if it fails.  Each   *)
(* answer's Content-Range tells the total or withholds it.                 *)
Resume(t) ==
  /\ conn[t].phase = "resuming"
  /\ \E url \in IF Refresh THEN Files ELSE {conn[t].url}, tells \in BOOLEAN :
       \E answer \in Answers(url, NextByte(t), conn[t].end) :
         /\ Resumable(t, url, tells, answer)
         /\ conn' = [conn EXCEPT ![t] = Reading(@, url, tells, answer, @.end)]
  /\ UNCHANGED <<slots, out>>

(* No URL gives the bytes that follow.                                     *)
ResumeFails(t) == conn[t].phase = "resuming" /\ End(t, "broken")

(* Writing to the client fails.                                            *)
ClientLeaves(t) == conn[t].phase = "sending" /\ End(t, "broken")

---------------------------------------------------------------------------
(* Each of these ends within the timeout of a request.                     *)
VideoStep(t) ==
  \/ OpenFails(t) \/ Opened(t)
  \/ Pass(t) \/ ResponseEnds(t)
  \/ Resume(t) \/ ResumeFails(t)
  \/ ClientLeaves(t)

VideoNext == \E t \in Threads : Accept(t) \/ VideoStep(t)

VideoFairness == \A t \in Threads : WF_videoVars(VideoStep(t))

VideoSpec == VideoInit /\ [][VideoNext]_videoVars

---------------------------------------------------------------------------
VideoTypeOK ==
  /\ slots \in 0..Slots
  /\ \A t \in Threads :
       /\ conn[t].phase \in {"free", "opening", "sending", "resuming"}
       /\ conn[t].ask \in Ranges \cup {NoRange}
       /\ conn[t].todo \subseteq Files
       /\ conn[t].url \in Files \cup {None}
       /\ conn[t].end \in Nat \cup {None}
       /\ conn[t].resumes \in 0..MaxResumes
       /\ out[t].promised \in 0..MaxBytes
       /\ out[t].state \in {"idle", "sending", "complete", "broken"}

(* The response of each thread is a ByteStream: no byte of it is lost or   *)
(* doubled over all chunks, broken connections, resumes and refreshed      *)
(* URLs; none is taken from a rendition of another size than announced,    *)
(* unless the response that brought it withheld its size; no more is sent  *)
(* than was announced, and no short body counts as complete.               *)
Stream(t) == INSTANCE ByteStream WITH
  Starts <- {r.from : r \in Ranges \cup {NoRange}},
  body <- out[t].body, start <- out[t].start, promised <- out[t].promised,
  total <- out[t].total, state <- out[t].state

ImplementsStream ==
  /\ \A t \in Threads : Stream(t)!Silent
  /\ [][\A t \in Threads : Stream(t)!StreamNext \/ UNCHANGED Stream(t)!streamVars]_videoVars

(* The slots taken are exactly the busy threads': no error path of         *)
(* proxy_video keeps a slot or gives one back twice.                       *)
SlotsBalanced ==
  slots + Cardinality({t \in Threads : conn[t].phase # "free"}) = Slots

(* While upstream delivers all of every chunk it is asked for, a stream    *)
(* does not run out of resume attempts, which ordinary chunks use up too:  *)
(* at the end of the last attempt's response all that was announced is     *)
(* sent.                                                                   *)
AttemptsSuffice ==
  \A t \in Threads :
    /\ conn[t].phase = "sending" /\ conn[t].next > conn[t].last
    /\ conn[t].resumes = MaxResumes /\ ~conn[t].hurt
    => Done(t)

(* Every request for a video gives its slot back, however upstream behaves *)
(* within the timeouts: each resume is counted and each body is bounded.   *)
StreamsEnd ==
  \A t \in Threads : conn[t].phase # "free" ~> conn[t].phase = "free"
=============================================================================
