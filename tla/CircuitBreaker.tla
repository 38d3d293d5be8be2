--------------------------- MODULE CircuitBreaker ---------------------------
(***************************************************************************)
(* The circuit breaker in front of the OGInstagram emergency proxy         *)
(* (handlers/oginstagram_proxy.go) and the requests that use it.  Every    *)
(* request asks the breaker, calls upstream without holding its lock, and  *)
(* reports success or failure later, when the breaker may be in another    *)
(* state.  A request with the operator's token bypasses the breaker.       *)
(***************************************************************************)
EXTENDS Absent, Integers

CONSTANTS
  Requests,
  Threshold,     \* OGINSTAGRAM_PROXY_FAILURE_THRESHOLD
  Cooldown,      \* OGINSTAGRAM_PROXY_COOLDOWN_SECONDS
  Unbuildable    \* may a request fail before it is sent upstream?

ASSUME BreakerAssumption ==
  /\ Threshold \in Nat \ {0} /\ Cooldown \in Nat \ {0}
  /\ None \notin Nat /\ Unbuildable \in BOOLEAN

VARIABLES
  failures,  \* consecutiveFailures; the code tells 0, below and at Threshold apart
  open,      \* time since openedAt, up to Cooldown; None while openedAt is zero
  probe,     \* probeInFlight
  pc,        \* where each request is
  manual,    \* the requests that came with the token
  probers    \* the requests that were let through a half-open circuit

breaker == <<failures, open, probe>>
vars == <<failures, open, probe, pc, manual, probers>>

(* Types; only requests of the mode that are upstream are probes.          *)
TypeOK ==
  /\ failures \in 0..Threshold
  /\ open \in 0..Cooldown \cup {None}
  /\ probe \in BOOLEAN
  /\ pc \in [Requests -> {"idle", "ask", "upstream", "refused"}]
  /\ manual \subseteq Requests
  /\ probers \subseteq {r \in Requests \ manual : pc[r] = "upstream"}

Init ==
  /\ failures = 0 /\ open = None /\ probe = FALSE
  /\ pc = [r \in Requests |-> "idle"]
  /\ manual = {} /\ probers = {}

---------------------------------------------------------------------------
Move(r, from, to) == pc[r] = from /\ pc' = [pc EXCEPT ![r] = to]

(* enabledFor: by token, or by the mode of the proxy. *)
Arrive(r) ==
  /\ Move(r, "idle", "ask")
  /\ manual' = manual \cup {r} \/ UNCHANGED manual
  /\ UNCHANGED <<failures, open, probe, probers>>

(* allowOGInstagramProxy. *)
CooledDown == open # None /\ open = Cooldown

Allow(r) ==
  /\ Move(r, "ask", "upstream")
  /\ r \in manual \/ open = None
  /\ UNCHANGED <<failures, open, probe, manual, probers>>

AllowProbe(r) ==
  /\ Move(r, "ask", "upstream")
  /\ r \notin manual /\ CooledDown /\ ~probe
  /\ probe' = TRUE
  /\ probers' = probers \cup {r}
  /\ UNCHANGED <<failures, open, manual>>

Refuse(r) ==
  /\ Move(r, "ask", "refused")
  /\ r \notin manual /\ open # None /\ (probe \/ ~CooledDown)
  /\ UNCHANGED <<failures, open, probe, manual, probers>>

(* The local renderer answers instead. *)
FallBack(r) ==
  /\ Move(r, "refused", "idle")
  /\ UNCHANGED <<failures, open, probe, manual, probers>>

(* Mutant: the request is over and still counts as a probe. *)
LeaveProbing(r) == Move(r, "upstream", "idle") /\ manual' = manual \ {r} /\ UNCHANGED probers

Leave(r) ==
  /\ Move(r, "upstream", "idle")
  /\ manual' = manual \ {r} /\ probers' = probers \ {r}

(* Mutant: a request that was not sent keeps the probe slot. *)
ReleaseNothing(r) == Unbuildable /\ Leave(r) /\ UNCHANGED breaker

(* releaseOGInstagramProxyProbe: no request could be made of the URL. *)
Release(r) ==
  /\ Unbuildable
  /\ Leave(r)
  /\ IF r \in manual THEN UNCHANGED probe ELSE probe' = FALSE
  /\ UNCHANGED <<failures, open>>

(* recordOGInstagramProxyFailure: no response, a client that went away, an *)
(* HTTP error, a body that is too large or unusable.                       *)
Fail(r) ==
  /\ Leave(r)
  /\ \/ r \in manual /\ UNCHANGED breaker
     \/ /\ r \notin manual
        /\ probe' = FALSE
        /\ failures' = IF failures < Threshold THEN failures + 1 ELSE Threshold
        /\ open' = IF failures + 1 < Threshold THEN open ELSE 0

(* Mutant: a success resets the count and forgets the time of opening. *)
SucceedHalf(r) ==
  /\ Leave(r)
  /\ \/ r \in manual /\ UNCHANGED breaker
     \/ r \notin manual /\ failures' = 0 /\ probe' = FALSE /\ UNCHANGED open

(* recordOGInstagramProxySuccess, before the body is passed on. *)
Succeed(r) ==
  /\ Leave(r)
  /\ \/ r \in manual /\ UNCHANGED breaker
     \/ r \notin manual /\ failures' = 0 /\ open' = None /\ probe' = FALSE

Tick ==
  /\ open # None /\ open < Cooldown
  /\ open' = open + 1
  /\ UNCHANGED <<failures, probe, pc, manual, probers>>

Finish(r) == Release(r) \/ Fail(r) \/ Succeed(r)

Handle(r) == Allow(r) \/ AllowProbe(r) \/ Refuse(r) \/ FallBack(r) \/ Finish(r)

Next ==
  \/ \E r \in Requests : Arrive(r) \/ Handle(r)
  \/ Tick

Spec == Init /\ [][Next]_vars

(* Handlers run to their end (the upstream clients have timeouts) and time *)
(* passes.  Nothing is said about new requests.                            *)
FairSpec == Spec /\ WF_vars(Tick) /\ \A r \in Requests : WF_vars(Handle(r))

---------------------------------------------------------------------------
(* The probe slot is never lost: while it is taken, a request let through  *)
(* as a probe is still upstream and will give it back, although requests   *)
(* from before the circuit opened report at any time (every return of      *)
(* TryOGInstagramEmbedProxy and TryOGInstagramOffloadProxy reports).       *)
ProbeHasOwner == probe => probers # {}

(* The circuit is open exactly while Threshold failures stand against it,  *)
(* and only an open circuit has a probe.                                   *)
OpenIffFailing ==
  /\ open # None <=> failures = Threshold
  /\ probe => open # None

(* An open circuit cannot refuse for ever: if requests are refused again   *)
(* and again, it is closed or probed again and again.                      *)
RefusedMeansProbed ==
  []<>(\E r \in Requests : pc[r] = "refused") => []<>(open = None \/ probers # {})

(* TestOGInstagramProxyHalfOpenAllowsOnlyOneProbe: a half-open circuit has *)
(* one probe upstream at a time.                                           *)
OnlyOneProbe == \A r, s \in probers : r = s
=============================================================================
