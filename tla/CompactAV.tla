----------------------------- MODULE CompactAV ------------------------------
(***************************************************************************)
(* ServeCompactAV for one Reel: the MP4 in the temporary directory, the    *)
(* flight that builds it, and the requests that wait for the flight or are *)
(* served from the file.  The flight runs in the goroutine of the request  *)
(* that found it missing, under that request's context.                    *)
(***************************************************************************)
EXTENDS CompactSources

CONSTANTS
  Viewers,    \* request goroutines
  AVMaxAge,   \* compactAVCacheMaxAge
  MaxAVTime   \* bound of the clock

ASSUME CompactAssumption ==
  /\ AVMaxAge \in Nat /\ MaxAVTime \in Nat
  /\ None \notin [made : Nat, whole : BOOLEAN]

VARIABLES
  avTime,   \* the wall clock
  avFile,   \* the file at the cache path: [made, whole], or None
  build,    \* the flight of compactAVMuxGroup
  viewer    \* viewer[v]: a request

compactVars == <<avTime, avFile, build, viewer>>

NoBuild == [step |-> "none", leader |-> None, began |-> 0, asked |-> NothingAsked,
            body |-> None, made |-> 0]

NoViewer == [phase |-> "idle", since |-> 0, left |-> FALSE, file |-> None]

CompactInit ==
  /\ avTime = 0
  /\ avFile = None
  /\ build = NoBuild
  /\ viewer = [v \in Viewers |-> NoViewer]

(* compactAVCacheUsable; a size within the limit is the builder's matter.  *)
FileUsable == avFile # None /\ avTime - avFile.made <= AVMaxAge

AVTick == avTime < MaxAVTime /\ avTime' = avTime + 1 /\ UNCHANGED <<avFile, build, viewer>>

---------------------------------------------------------------------------
(* Requests.                                                               *)

View(v) ==
  /\ viewer[v].phase = "idle"
  /\ viewer' = [viewer EXCEPT ![v].phase = IF FileUsable THEN "open" ELSE "join",
                              ![v].since = avTime]
  /\ UNCHANGED <<avTime, avFile, build>>

(* Do: whoever finds no flight leads one.  Who joins takes its result, so  *)
(* the file may have been found when the flight began.                     *)
JoinBuild(v) ==
  /\ viewer[v].phase = "join"
  /\ build' = IF build.step # "none" THEN build
              ELSE [NoBuild EXCEPT !.step = "look", !.leader = v, !.began = avTime]
  /\ viewer' = [viewer EXCEPT ![v].phase = "wait",
       ![v].since = IF build.step # "none" /\ build.began < @ THEN build.began ELSE @]
  /\ UNCHANGED <<avTime, avFile>>

(* serveCompactAVFile: what is open stays the same file.                   *)
OpenFile(v) ==
  /\ viewer[v].phase = "open"
  /\ viewer' = [viewer EXCEPT ![v].phase = "serve", ![v].file = avFile]
  /\ UNCHANGED <<avTime, avFile, build>>

Served(v) ==
  /\ viewer[v].phase = "serve"
  /\ viewer' = [viewer EXCEPT ![v] = NoViewer]
  /\ UNCHANGED <<avTime, avFile, build>>

(* The client of the flight's request disconnects.                         *)
LeaderLeaves(v) ==
  /\ build.leader = v /\ ~viewer[v].left
  /\ viewer' = [viewer EXCEPT ![v].left = TRUE]
  /\ UNCHANGED <<avTime, avFile, build>>

---------------------------------------------------------------------------
(* The flight.                                                             *)

(* Everybody who waits gets the path, or the error as a 502.               *)
EndBuild(ok) ==
  /\ build' = NoBuild
  /\ viewer' = [v \in Viewers |->
       IF viewer[v].phase # "wait" THEN viewer[v]
       ELSE IF ok THEN [viewer[v] EXCEPT !.phase = "open", !.left = FALSE]
       ELSE NoViewer]

LookForFile ==
  /\ build.step = "look"
  /\ \/ FileUsable /\ EndBuild(TRUE)
     \/ /\ ~FileUsable
        /\ build' = [build EXCEPT !.step = "resolve"]
        /\ UNCHANGED viewer
  /\ UNCHANGED <<avTime, avFile>>

(* A source answers; its fetch does not end with the request's context.    *)
AskSource ==
  /\ build.step = "resolve" /\ ~Resolved(build.asked)
  /\ \E body \in AVBodies \cup {None} :
       LET asked == Ask(build.asked, body) IN
       build' = [build EXCEPT !.asked = asked,
                              !.body = IF asked.pair = None THEN None ELSE body]
  /\ UNCHANGED <<avTime, avFile, viewer>>

(* Mutant: a resolution in vain begins anew.                               *)
ResolvesAgain ==
  /\ build.step = "resolve" /\ Resolved(build.asked) /\ build.asked.pair = None
  /\ build' = [build EXCEPT !.asked = NothingAsked]
  /\ UNCHANGED <<avTime, avFile, viewer>>

ResolvesNothing ==
  /\ build.step = "resolve" /\ Resolved(build.asked) /\ build.asked.pair = None
  /\ EndBuild(FALSE)
  /\ UNCHANGED <<avTime, avFile>>

(* Mutant: ffmpeg writes to the cache path.                                *)
MuxInPlace ==
  /\ build.step = "resolve" /\ build.asked.pair # None
  /\ build' = [build EXCEPT !.step = "mux", !.body = None, !.asked = NothingAsked]
  /\ avFile' = [made |-> avTime, whole |-> FALSE]
  /\ UNCHANGED <<avTime, viewer>>

(* buildCompactAV downloads both tracks and joins them in a directory of   *)
(* its own ...                                                             *)
Mux ==
  /\ build.step = "resolve" /\ build.asked.pair # None
  /\ build' = [build EXCEPT !.step = "mux", !.body = None, !.asked = NothingAsked]
  /\ UNCHANGED <<avTime, avFile, viewer>>

(* ... until the result is there, if the leader's client stays ...         *)
Muxed ==
  /\ build.step = "mux" /\ ~viewer[build.leader].left
  /\ build' = [build EXCEPT !.step = "rename", !.made = avTime]
  /\ UNCHANGED <<avTime, avFile, viewer>>

MuxFails ==
  /\ build.step \in {"mux", "rename"}
  /\ EndBuild(FALSE)
  /\ UNCHANGED <<avTime, avFile>>

(* ... and moves it into its place; a rename keeps the time of writing.    *)
Rename ==
  /\ build.step = "rename"
  /\ avFile' = [made |-> build.made, whole |-> TRUE]
  /\ EndBuild(TRUE)
  /\ UNCHANGED avTime

---------------------------------------------------------------------------
BuildStep ==
  \/ LookForFile \/ AskSource \/ ResolvesNothing
  \/ Mux \/ Muxed \/ MuxFails \/ Rename

ViewerStep(v) == JoinBuild(v) \/ OpenFile(v) \/ Served(v)

CompactNext ==
  \/ AVTick
  \/ \E v \in Viewers : View(v) \/ ViewerStep(v) \/ LeaderLeaves(v)
  \/ BuildStep

(* Downloads have a timeout and end, as ffmpeg does, with the context.     *)
CompactFairness ==
  /\ \A v \in Viewers : WF_compactVars(ViewerStep(v))
  /\ WF_compactVars(BuildStep)

CompactSpec == CompactInit /\ [][CompactNext]_compactVars

---------------------------------------------------------------------------
CompactTypeOK ==
  /\ avTime \in 0..MaxAVTime
  /\ avFile # None => avFile.made \in 0..avTime
  /\ build.step \in {"none", "look", "resolve", "mux", "rename"}
  /\ build.leader \in Viewers \cup {None}
  /\ build.asked.tried \in 0..AVSources
  /\ \A v \in Viewers : viewer[v].phase \in {"idle", "join", "wait", "open", "serve"}

(* The pair that is downloaded fits, and among the pairs of the manifest   *)
(* that fit none has a larger picture, and with this picture none has more *)
(* bandwidth: the order of the tracks and of the comparisons in            *)
(* compactAVFromDASHManifest does not matter.                              *)
SourcesBest ==
  build.asked.pair # None =>
    LET pair == build.asked.pair
        all == {build.body.tracks[i] : i \in DOMAIN build.body.tracks}
        Of(kind) == {t \in all : t.kind = kind /\ t.length > 0 /\ t.allowed}
    IN  /\ pair.video \in Of("video") /\ pair.audio \in Of("audio")
        /\ Fits(pair.video, pair.audio)
        /\ \A v \in Of("video"), a \in Of("audio") :
             Fits(v, a) =>
               /\ v.area <= pair.video.area
               /\ v.area = pair.video.area => v.bandwidth <= pair.video.bandwidth
               /\ v.area = pair.video.area /\ v.bandwidth = pair.video.bandwidth
                    => a.bandwidth <= pair.audio.bandwidth

(* A viewer gets a complete file that was not too old at some time since   *)
(* it came, or since the flight began that it joined: whoever replaces the *)
(* file, and whenever the path found is opened.                            *)
ServedFresh ==
  \A v \in Viewers :
    viewer[v].phase = "serve" =>
      /\ viewer[v].file # None /\ viewer[v].file.whole
      /\ viewer[v].file.made + AVMaxAge >= viewer[v].since

(* Every viewer is answered, also when the client that leads the flight    *)
(* leaves it.                                                              *)
ViewersAnswered ==
  \A v \in Viewers : viewer[v].phase # "idle" ~> viewer[v].phase = "idle"
=============================================================================
