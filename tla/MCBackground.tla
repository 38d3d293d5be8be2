---------------------------- MODULE MCBackground ----------------------------
(***************************************************************************)
(* A small instance, for TLC, of what the program's loops do beside the    *)
(* requests: the eviction of the metadata cache and the messages to the    *)
(* operator.  They share no state: a behaviour runs one of them and leaves *)
(* the other where it starts.                                              *)
(***************************************************************************)
EXTENDS MCMetadataCache, Alerting

CONSTANTS s1, s2, s3, h1, h2, h3, d1, d2, d3

VARIABLE part

backgroundVars == <<part, vars, alertingVars>>

(* The topics share the lock and the channel only: the calls of a          *)
(* behaviour are of one kind.  Which of them is called what does not       *)
(* matter: they begin in the order of their names.                         *)
Orders == {<<s1, s2, s3>>, <<h1, h2, h3>>, <<d1, d2, d3>>}

OneKind ==
  \E order \in Orders : \E n \in 0..Len(order) :
    {c \in Calls : call[c].step # "new"} = {order[i] : i \in 1..n}

BackgroundInit == part \in {"cache", "alerts"} /\ Init /\ AlertingInit

BackgroundNext ==
  /\ UNCHANGED part
  /\ \/ part = "cache" /\ Next /\ UNCHANGED alertingVars
     \/ part = "alerts" /\ AlertingNext /\ OneKind' /\ UNCHANGED vars

(* The fairness of the modules, for the part that runs.                    *)
BackgroundSpec ==
  /\ BackgroundInit /\ [][BackgroundNext]_backgroundVars
  /\ WF_vars(part = "cache" /\ BeginEvict) /\ SF_vars(CommitEvict)
  /\ AlertingFairness

(* evictCache and the loop of Run catch up: expired entries go, and every  *)
(* message that was decided on is sent, dropped or given up.               *)
BackgroundSettles == ExpiredEntriesGo /\ AlertsSettle
=============================================================================
