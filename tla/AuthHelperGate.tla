--------------------------- MODULE AuthHelperGate ---------------------------
(***************************************************************************)
(* The way to the auth helper in handlers/scraper/data.go: one flight per  *)
(* post, a semaphore of slots for all posts, and the helper's health as    *)
(* the last probe saw it.  GetDataEmbedAuthFallback keeps its failures as  *)
(* negative entries, and its callers are followed; scrapes and refreshes   *)
(* go to the flight directly and keep nothing here.                        *)
(***************************************************************************)
EXTENDS Integers, FiniteSets

CONSTANTS
  Posts,
  Callers,
  None,
  Slots,           \* INSTAFIX_AUTH_HELPER_MAX_CONCURRENT
  AcquireTimeout,  \* INSTAFIX_AUTH_HELPER_ACQUIRE_TIMEOUT_SECONDS
  CallTimeout,     \* of the HTTP client of scrapeAuthHelper
  ProbeTimeout,    \* of the HTTP client of authHelperHealth
  HealthTTL,       \* authHealthUntil after the beginning of a probe
  NegativeTTL,     \* embedAuthNegTTL, up to three kinds of failure
  MaxTime          \* bound on the clock

Failures == {"busy", "unavailable", "error"}

(* 2 and 30 seconds in the code.                                           *)
ASSUME GateAssumption ==
  /\ Slots \in Nat \ {0}
  /\ AcquireTimeout \in Nat /\ CallTimeout \in Nat /\ ProbeTimeout \in Nat
  /\ HealthTTL \in Nat /\ ProbeTimeout < HealthTTL
  /\ NegativeTTL \in [Failures -> Nat]
  /\ MaxTime \in Nat /\ None \notin Nat /\ None \notin Posts

VARIABLES
  clock,
  caller,   \* caller[c]: what an embed fallback does, and for which post
  flight,   \* flight[p]: the flight of p, and since when a timer runs
  held,     \* len(authHelperSlots)
  status,   \* authHealthStatus
  until,    \* authHealthUntil
  neg,      \* embedAuthNeg[p].until, or None
  asked,    \* history: when the probe that saw `status` began
  failed    \* history: a probe has failed since

health == <<status, until, asked, failed>>
vars == <<clock, caller, flight, held, neg, status, until, asked, failed>>

CallerPCs == {"idle", "join", "wait", "failed"}
FlightPCs == {"idle", "acquire", "health", "probe", "call"}

NoRequest == [pc |-> "idle", post |-> None, error |-> "none"]
NoFlight == [pc |-> "idle", since |-> 0]

(* The parts of the type invariant: callers name a post, failed ones an    *)
(* error; no more slots are held than there are.                           *)
CallersOK ==
  /\ caller \in [Callers -> [pc : CallerPCs, post : Posts \cup {None},
                             error : Failures \cup {"none"}]]
  /\ \A c \in Callers : /\ caller[c].pc # "idle" => caller[c].post \in Posts
                        /\ caller[c].pc = "failed" => caller[c].error \in Failures

FlightsOK == flight \in [Posts -> [pc : FlightPCs, since : Nat]]

TypeOK ==
  /\ clock \in Nat /\ CallersOK /\ FlightsOK
  /\ held \in 0..Slots
  /\ status \in {"unchecked", "available", "exhausted"}
  /\ until \in Nat /\ asked \in Nat /\ failed \in BOOLEAN
  /\ neg \in [Posts -> Nat \cup {None}]

Init ==
  /\ clock = 0
  /\ caller = [c \in Callers |-> NoRequest]
  /\ flight = [p \in Posts |-> NoFlight]
  /\ held = 0
  /\ status = "unchecked" /\ until = 0
  /\ neg = [p \in Posts |-> None]
  /\ asked = 0 /\ failed = FALSE

---------------------------------------------------------------------------
(* The callers.                                                            *)

(* scrapeAuthHelperSingleflight: the flight is started or joined.          *)
InFlight(p) ==
  flight' = IF flight[p].pc = "idle"
              THEN [flight EXCEPT ![p] = [pc |-> "acquire", since |-> clock]]
              ELSE flight

(* FetchDataFromAuthHelperUncached and the scrapes.                        *)
Refresh(p) == InFlight(p) /\ UNCHANGED <<clock, caller, held, neg, health>>

(* GetDataEmbedAuthFallback: embedAuthNegativeHit answers, or drops an     *)
(* entry that has expired.                                                 *)
Blocked(p) == neg[p] # None /\ clock <= neg[p]

Embed(c, p) ==
  /\ caller[c].pc = "idle" /\ ~Blocked(p)
  /\ caller' = [caller EXCEPT ![c] = [pc |-> "join", post |-> p, error |-> "none"]]
  /\ neg' = [neg EXCEPT ![p] = None]
  /\ UNCHANGED <<clock, flight, held, health>>

Join(c) ==
  /\ caller[c].pc = "join"
  /\ caller' = [caller EXCEPT ![c].pc = "wait"]
  /\ InFlight(caller[c].post)
  /\ UNCHANGED <<clock, held, neg, health>>

(* saveEmbedAuthNegative, by everybody who waited for the flight.          *)
SaveNegative(c) ==
  /\ caller[c].pc = "failed"
  /\ caller' = [caller EXCEPT ![c] = NoRequest]
  /\ neg' = IF NegativeTTL[caller[c].error] > 0
              THEN [neg EXCEPT ![caller[c].post] = clock + NegativeTTL[caller[c].error]]
              ELSE neg
  /\ UNCHANGED <<clock, flight, held, health>>

---------------------------------------------------------------------------
(* The flights.                                                            *)
At(p, pc) == flight[p].pc = pc

Goto(p, pc, since) == flight' = [flight EXCEPT ![p] = [pc |-> pc, since |-> since]]

Waiters(p) == {c \in Callers : caller[c].pc = "wait" /\ caller[c].post = p}

(* Do returns: whoever waited has the item or the error.                   *)
Answer(p, result) ==
  /\ flight' = [flight EXCEPT ![p] = NoFlight]
  /\ caller' = [c \in Callers |->
                  IF c \notin Waiters(p) THEN caller[c]
                  ELSE IF result = "item" THEN NoRequest
                  ELSE [pc |-> "failed", post |-> p, error |-> result]]

(* acquireAuthHelperSlot.                                                  *)
AcquireOneMore(p) ==
  /\ At(p, "acquire") /\ held <= Slots
  /\ held' = held + 1
  /\ Goto(p, "health", 0)
  /\ UNCHANGED <<clock, caller, neg, health>>

Acquire(p) ==
  /\ At(p, "acquire") /\ held < Slots
  /\ held' = held + 1
  /\ Goto(p, "health", 0)
  /\ UNCHANGED <<clock, caller, neg, health>>

(* releaseAuthHelperSlot.                                                  *)
Release == held' = IF held > 0 THEN held - 1 ELSE held

(* Mutant: the release is deferred before the slot is taken.               *)
BusyReleases(p) ==
  /\ At(p, "acquire") /\ clock >= flight[p].since + AcquireTimeout
  /\ Answer(p, "busy")
  /\ Release
  /\ UNCHANGED <<clock, neg, health>>

Busy(p) ==
  /\ At(p, "acquire") /\ clock >= flight[p].since + AcquireTimeout
  /\ Answer(p, "busy")
  /\ UNCHANGED <<clock, held, neg, health>>

(* Mutant: the early return of an exhausted pool keeps the slot.           *)
UseKeepingSlot(p, seen) ==
  IF seen = "exhausted" THEN Answer(p, "unavailable") /\ UNCHANGED held
                        ELSE Goto(p, "call", clock) /\ UNCHANGED <<caller, held>>

(* What scrapeAuthHelper does about the health it was told.                *)
Use(p, seen) ==
  IF seen = "exhausted" THEN Answer(p, "unavailable") /\ Release
                        ELSE Goto(p, "call", clock) /\ UNCHANGED <<caller, held>>

(* Mutants: each use of the status renews it; the next probe is scheduled  *)
(* by the answer of this one.                                              *)
UseAndRenew(p) ==
  /\ At(p, "health") /\ clock < until
  /\ Use(p, status)
  /\ until' = clock + HealthTTL
  /\ UNCHANGED <<clock, neg, status, asked, failed>>

BeginProbeUnscheduled(p) ==
  /\ At(p, "health") /\ clock >= until
  /\ Goto(p, "probe", clock)
  /\ UNCHANGED <<clock, caller, held, neg, health>>

(* authHelperHealth.                                                       *)
UseStatus(p) ==
  /\ At(p, "health") /\ clock < until
  /\ Use(p, status)
  /\ UNCHANGED <<clock, neg, health>>

BeginProbe(p) ==
  /\ At(p, "health") /\ clock >= until
  /\ until' = clock + HealthTTL
  /\ Goto(p, "probe", clock)
  /\ UNCHANGED <<clock, caller, held, neg, status, asked, failed>>

ProbeAnswers(p) ==
  /\ At(p, "probe")
  /\ \E seen \in {"available", "exhausted"} : status' = seen /\ Use(p, seen)
  /\ asked' = flight[p].since /\ failed' = FALSE
  /\ UNCHANGED <<clock, until, neg>>

(* The status stays; the flight that probed goes on without one.           *)
ProbeFails(p) ==
  /\ At(p, "probe")
  /\ Use(p, "unchecked")
  /\ failed' = TRUE
  /\ UNCHANGED <<clock, status, until, asked, neg>>

(* scrapeAuthHelper's call ends: with an item, in time-out or otherwise.   *)
Return(p) ==
  /\ At(p, "call")
  /\ \E result \in {"item"} \cup Failures : Answer(p, result)
  /\ Release
  /\ UNCHANGED <<clock, neg, health>>

Fly(p) ==
  \/ Acquire(p) \/ Busy(p) \/ UseStatus(p) \/ BeginProbe(p)
  \/ ProbeAnswers(p) \/ ProbeFails(p) \/ Return(p)

---------------------------------------------------------------------------
(* Timers and timeouts end what they bound.                                *)
Overdue(p) ==
  \/ At(p, "acquire") /\ clock >= flight[p].since + AcquireTimeout
  \/ At(p, "probe") /\ clock >= flight[p].since + ProbeTimeout
  \/ At(p, "call") /\ clock >= flight[p].since + CallTimeout

Tick ==
  /\ clock < MaxTime
  /\ \A p \in Posts : ~Overdue(p)
  /\ clock' = clock + 1
  /\ UNCHANGED <<caller, flight, held, neg, health>>

Next ==
  \/ \E c \in Callers :
       \/ \E p \in Posts : Embed(c, p)
       \/ Join(c) \/ SaveNegative(c)
  \/ \E p \in Posts : Refresh(p) \/ Fly(p)
  \/ Tick

Spec == Init /\ [][Next]_vars

(* Goroutines go on; the helper's clients have timeouts.                   *)
FairSpec == Spec /\ \A p \in Posts : WF_vars(Fly(p))

---------------------------------------------------------------------------
InHelper == {p \in Posts : flight[p].pc \in {"health", "probe", "call"}}
Probing == {p \in Posts : At(p, "probe")}

(* INSTAFIX_AUTH_HELPER_MAX_CONCURRENT bounds the flights that are past    *)
(* the semaphore, whatever they return with: no path releases a slot that  *)
(* it does not hold.                                                       *)
CallsWithinSlots == Cardinality(InHelper) <= Slots

(* The probe is scheduled before it is sent, so that flights that come in  *)
(* while it is under way send none of their own.                           *)
OneProbeAtATime == \A p, q \in Probing : p = q

(* A status that is used without asking is at most HealthTTL old, unless a *)
(* probe is under way or has failed: then it is as old as it may be.       *)
StatusRecent ==
  status # "unchecked" /\ clock < until /\ Probing = {} /\ ~failed
    => clock < asked + HealthTTL

(* authHelperHealth: the helper's health is asked for once at a time and   *)
(* used while it is recent.                                                *)
HealthRecent == OneProbeAtATime /\ StatusRecent

(* The slots do not stay taken: no early return leaks one.                 *)
SlotsComeFree == held = Slots ~> held < Slots
=============================================================================
