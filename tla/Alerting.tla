------------------------------ MODULE Alerting ------------------------------
(***************************************************************************)
(* All calls that may have something to tell the operator, with the lock   *)
(* and the channel they share (observability).                             *)
(***************************************************************************)
EXTENDS ScrapeAlert, AuthAlert

alertingVars == <<alertVars, scrapeVars, authVars>>

AlertingInit == AlertsInit /\ ScrapeInit /\ AuthInit

(* No call is on its way, and none need come any more.                     *)
AllReturned ==
  /\ \A c \in Calls : call[c].step \in {"new", "done"}
  /\ queue = <<>> /\ sending = None /\ present = LastMinute
  /\ UNCHANGED alertingVars

AlertingNext ==
  \/ AlertStep /\ UNCHANGED <<scrapeVars, authVars>>
  \/ ScrapeStep /\ UNCHANGED authVars
  \/ AuthStep /\ UNCHANGED scrapeVars
  \/ AllReturned

AlertingSpec == AlertingInit /\ [][AlertingNext]_alertingVars

(* A call goes on once it has decided, the loop takes what there is, and   *)
(* an attempt ends.                                                        *)
AlertingFairness ==
  /\ \A c \in Calls : WF_alertingVars(Tell(c) /\ UNCHANGED <<scrapeVars, authVars>>)
  /\ WF_alertingVars(TakeMessage /\ UNCHANGED <<scrapeVars, authVars>>)
  /\ WF_alertingVars(Sending /\ UNCHANGED <<scrapeVars, authVars>>)

AlertingFairSpec == AlertingSpec /\ AlertingFairness

---------------------------------------------------------------------------
(* Types, and the bound of the channel.                                    *)
AlertingTypeOK ==
  /\ present \in Nat
  /\ call \in [Calls -> [step : {"new", "timed", "counted", "request", "tell", "done"},
                         at : Nat, outcome : ScrapeOutcomes \cup AuthOutcomes \cup {None}]]
  /\ active \in [Topics -> BOOLEAN] /\ lastAlert \in [Topics -> Nat]
  /\ queue \in Seq(Calls) /\ Len(queue) <= QueueSize
  /\ sending \in Calls \cup {None} /\ attempt \in 0..SendAttempts
  /\ chat \in Seq(Calls) /\ unsent \subseteq Calls
  /\ decisions \in [Topics -> Seq([by : Calls, bad : BOOLEAN, at : Nat])]
  /\ priors \in [Calls -> SUBSET Calls]
  /\ ring \in [0..(WindowMinutes - 1) ->
                 [minute : Nat, success : SUBSET Scrapes, failure : SUBSET Scrapes]]
  /\ latest \in Scrapes \cup {None}
  /\ streak \in Nat /\ recovery \in AuthCalls \cup {None} /\ weighed \in Seq(AuthCalls)

(* The three topics alternate (Alternates), each with the minutes of its   *)
(* call of observability.                                                  *)
AlertsAlternate ==
  /\ Alternates("scrape", RepeatScrape)
  /\ Alternates("cookies", RepeatAuth)
  /\ Alternates("database", RepeatDB)

(* RecordScrape, RecordAuthHelperResult: the ring holds the scrapes of the *)
(* last minutes, and each alert is out exactly when it should be.          *)
AlertsRight == WindowExact /\ ScrapeAlertRight /\ CookieAlertRight

(* What the operator is told: alerts and recoveries alternate, and their   *)
(* messages keep their order.                                              *)
AlertsTold == AlertsAlternate /\ AlertsInOrder
=============================================================================
