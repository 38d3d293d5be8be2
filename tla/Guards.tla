------------------------------- MODULE Guards -------------------------------
(***************************************************************************)
(* What admits and answers a request for a page: the route budgets, the    *)
(* two preview pages, and the pool, the quarantines and the limits per     *)
(* minute of the auth helper.  They share no state: a behaviour runs one   *)
(* of them and leaves the others where they start, so that one run         *)
(* explores each of them by itself.                                        *)
(***************************************************************************)
EXTENDS RequestProtector, CookiePool, Quarantines, HelperRate, EmbedPage, LegacyEmbed

VARIABLE part

guardVars == <<part, vars, poolVars, quarantineVars, rateVars, embedVars, legacyVars>>

GuardsInit ==
  /\ part \in {"budgets", "pool", "quarantines", "rate", "embed", "legacy"}
  /\ Init /\ PoolInit /\ QuarantineInit /\ RateInit /\ EmbedInit
  /\ IF part = "legacy" THEN LegacyInit
     ELSE legacy = NoLegacy /\ legacyMode = None

(* The requests are used up.                                               *)
RateOver == asked = MaxRequests /\ minute = MaxMinute /\ UNCHANGED rateVars

GuardsNext ==
  /\ UNCHANGED part
  /\ \/ /\ part = "budgets" /\ Next
        /\ UNCHANGED <<poolVars, quarantineVars, rateVars, embedVars, legacyVars>>
     \/ /\ part = "pool" /\ PoolNext
        /\ UNCHANGED <<vars, quarantineVars, rateVars, embedVars, legacyVars>>
     \/ /\ part = "quarantines" /\ QuarantineNext
        /\ UNCHANGED <<vars, poolVars, rateVars, embedVars, legacyVars>>
     \/ /\ part = "rate" /\ (RateNext \/ RateOver)
        /\ UNCHANGED <<vars, poolVars, quarantineVars, embedVars, legacyVars>>
     \/ /\ part = "embed" /\ EmbedNext
        /\ UNCHANGED <<vars, poolVars, quarantineVars, rateVars, legacyVars>>
     \/ /\ part = "legacy" /\ LegacyNext
        /\ UNCHANGED <<vars, poolVars, quarantineVars, rateVars, embedVars>>

GuardsSpec == GuardsInit /\ [][GuardsNext]_guardVars

(* Types of the parts.                                                     *)
GuardsTypeOK ==
  /\ TypeOK /\ PoolTypeOK /\ QuarantineTypeOK /\ EmbedTypeOK
  /\ part = "legacy" => LegacyTypeOK
=============================================================================
