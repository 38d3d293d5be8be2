------------------------------ MODULE Handlers ------------------------------
(***************************************************************************)
(* What serves medias: the offload of a post's medias, the video stream of *)
(* the auth helper, the compact videos, the breaker of the proxy, the      *)
(* daily report of what all of them count, and the way out of the scrapes  *)
(* through the pool of public proxies.  They share no state: a behaviour   *)
(* runs one of them and leaves the others where they start, so that one    *)
(* run explores each of them by itself.                                    *)
(***************************************************************************)
EXTENDS CircuitBreaker, DailyReport, StatelessOffload, VideoProxy, CompactAV, ProxyPool

VARIABLE part

handlerVars == <<part, vars, reportVars, offloadVars, videoVars, compactVars, proxyVars>>

(* There is no policy where the proxies do not run.                        *)
NoProxies ==
  /\ proxyTime = 0 /\ cursor = 0 /\ policy = None /\ cooling = None /\ failedAt = None
  /\ fetch = [f \in Fetches |-> NoFetch]

HandlersInit ==
  /\ part \in {"breaker", "report", "offload", "video", "compact", "proxies"}
  /\ Init /\ ReportInit /\ OffloadInit /\ VideoInit /\ CompactInit
  /\ IF part = "proxies" THEN ProxyInit ELSE NoProxies

HandlersNext ==
  /\ UNCHANGED part
  /\ \/ /\ part = "breaker" /\ Next
        /\ UNCHANGED <<reportVars, offloadVars, videoVars, compactVars, proxyVars>>
     \/ /\ part = "report" /\ ReportNext
        /\ UNCHANGED <<vars, offloadVars, videoVars, compactVars, proxyVars>>
     \/ /\ part = "offload" /\ OffloadNext
        /\ UNCHANGED <<vars, reportVars, videoVars, compactVars, proxyVars>>
     \/ /\ part = "video" /\ VideoNext
        /\ UNCHANGED <<vars, reportVars, offloadVars, compactVars, proxyVars>>
     \/ /\ part = "compact" /\ CompactNext
        /\ UNCHANGED <<vars, reportVars, offloadVars, videoVars, proxyVars>>
     \/ /\ part = "proxies" /\ ProxyNext
        /\ UNCHANGED <<vars, reportVars, offloadVars, videoVars, compactVars>>

(* The fairness of the modules.  Of the steps they are fair to only        *)
(* StartReport is possible where a part that does not run stands, so it is *)
(* asked for where the report runs.                                        *)
HandlersSpec ==
  /\ HandlersInit /\ [][HandlersNext]_handlerVars
  /\ WF_vars(Tick) /\ (\A r \in Requests : WF_vars(Handle(r)))
  /\ OffloadFairness /\ VideoFairness /\ CompactFairness /\ ProxyFairness
  /\ WF_reportVars(part = "report" /\ StartReport)
  /\ WF_reportVars(Read) /\ WF_reportVars(Reset)
  /\ WF_reportVars(TryAgain \/ GiveUp \/ Confirm) /\ SF_reportVars(Confirm)

(* Types of the parts.                                                     *)
HandlersTypeOK ==
  /\ TypeOK /\ ReportTypeOK /\ OffloadTypeOK /\ VideoTypeOK /\ CompactTypeOK
  /\ part = "proxies" => ProxyTypeOK

(* Every stream and every fetch ends, every offload and every viewer is    *)
(* answered.                                                               *)
HandlersAnswer == StreamsEnd /\ OffloadsAnswered /\ ViewersAnswered /\ FetchesEnd
=============================================================================
