------------------------ MODULE AuthHelperGateProofs ------------------------
(***************************************************************************)
(* Theorems about AuthHelperGate, for any posts, callers, numbers of slots *)
(* and timeouts, as long as a probe ends before the next is due.           *)
(***************************************************************************)
EXTENDS AuthHelperGate, FiniteSetTheorems, TLAPS

(* A slot is held by each flight that is past the semaphore, and no other. *)
SlotsCounted == IsFiniteSet(InHelper) /\ held = Cardinality(InHelper)

(* A probe under way was scheduled when it began, and is not overdue.      *)
Scheduled ==
  \A p \in Probing : /\ until = flight[p].since + HealthTTL
                     /\ clock <= flight[p].since + ProbeTimeout

(* The schedule stems from the probe that saw the status.                  *)
Stamped ==
  status # "unchecked" /\ Probing = {} /\ ~failed => until = asked + HealthTTL

IInv == TypeOK /\ SlotsCounted /\ Scheduled /\ OneProbeAtATime /\ Stamped

(* The initial state satisfies the invariant. *)
LEMMA InitInv == Init => IInv
<1> SUFFICES ASSUME Init PROVE IInv
  OBVIOUS
<1>1. TypeOK
  <2>1. CallersOK
    BY DEF Init, CallersOK, NoRequest, CallerPCs
  <2>2. FlightsOK
    BY DEF Init, FlightsOK, NoFlight, FlightPCs
  <2>3. /\ clock \in Nat /\ held \in 0..Slots
        /\ status \in {"unchecked", "available", "exhausted"}
        /\ until \in Nat /\ asked \in Nat
    BY GateAssumption DEF Init
  <2>4. failed \in BOOLEAN /\ neg \in [Posts -> Nat \cup {None}]
    BY DEF Init
  <2>. QED
    BY <2>1, <2>2, <2>3, <2>4 DEF TypeOK
<1>2. InHelper = {} /\ Probing = {}
  BY DEF Init, NoFlight, InHelper, Probing, At
<1>3. IsFiniteSet({}) /\ Cardinality({}) = 0
  BY FS_EmptySet
<1>4. SlotsCounted
  BY <1>2, <1>3 DEF Init, SlotsCounted
<1>5. Scheduled /\ OneProbeAtATime /\ Stamped
  BY <1>2 DEF Init, Scheduled, OneProbeAtATime, Stamped
<1>. QED
  BY <1>1, <1>4, <1>5 DEF IInv

---------------------------------------------------------------------------
(* What a step does to the flights past the semaphore. *)

(* A flight that goes on to a pc is in that pc; the others stay. *)
LEMMA GotoSets ==
  ASSUME TypeOK, NEW p \in Posts, NEW pc \in FlightPCs, NEW s \in Nat, Goto(p, pc, s)
  PROVE  /\ FlightsOK'
         /\ flight'[p].pc = pc /\ flight'[p].since = s
         /\ \A q \in Posts \ {p} : flight'[q] = flight[q]
  BY DEF TypeOK, FlightsOK, Goto

(* A flight that answers is over; the others stay. *)
LEMMA AnswerSets ==
  ASSUME TypeOK, NEW p \in Posts, NEW r \in {"item"} \cup Failures, Answer(p, r)
  PROVE  /\ FlightsOK'
         /\ flight'[p].pc = "idle"
         /\ \A q \in Posts \ {p} : flight'[q] = flight[q]
         /\ CallersOK'
<1>1. /\ FlightsOK'
      /\ flight'[p].pc = "idle"
      /\ \A q \in Posts \ {p} : flight'[q] = flight[q]
  BY DEF TypeOK, FlightsOK, Answer, NoFlight, FlightPCs
<1>2. ASSUME NEW c \in Callers
      PROVE  /\ caller'[c] \in [pc : CallerPCs, post : Posts \cup {None},
                                error : Failures \cup {"none"}]
             /\ caller'[c].pc # "idle" => caller'[c].post \in Posts
             /\ caller'[c].pc = "failed" => caller'[c].error \in Failures
  <2>1. CASE c \notin Waiters(p)
    BY <2>1 DEF TypeOK, CallersOK, Answer
  <2>2. CASE c \in Waiters(p) /\ r = "item"
    BY <2>2 DEF TypeOK, CallersOK, Answer, NoRequest, CallerPCs
  <2>3. CASE c \in Waiters(p) /\ r # "item"
    BY <2>3 DEF TypeOK, CallersOK, Answer, CallerPCs
  <2>. QED
    BY <2>1, <2>2, <2>3
<1>3. caller' = [c \in Callers |-> caller'[c]]
  BY DEF Answer
<1>. QED
  BY <1>1, <1>2, <1>3 DEF CallersOK

(* One step of a flight, as the semaphore sees it: it enters, stays on one *)
(* side of it or leaves.                                                   *)
Enters(p) == InHelper' = InHelper \cup {p} /\ p \notin InHelper /\ held' = held + 1 /\ held < Slots
Stays == InHelper' = InHelper /\ held' = held
Leaves(p) == InHelper' = InHelper \ {p} /\ p \in InHelper /\ held' = IF held > 0 THEN held - 1 ELSE held

(* Each of the three keeps the slots counted. *)
LEMMA SlotsStayCounted ==
  ASSUME IInv, NEW p \in Posts, Enters(p) \/ Stays \/ Leaves(p)
  PROVE  SlotsCounted' /\ held' \in 0..Slots
<1>1. IsFiniteSet(InHelper) /\ held = Cardinality(InHelper) /\ held \in 0..Slots
  BY DEF IInv, SlotsCounted, TypeOK
<1> HIDE DEF InHelper
<1>2. CASE Enters(p)
  <2>1. IsFiniteSet(InHelper \cup {p}) /\ Cardinality(InHelper \cup {p}) = Cardinality(InHelper) + 1
    BY <1>1, <1>2, FS_AddElement DEF Enters
  <2>. QED
    BY <1>1, <1>2, <2>1, GateAssumption DEF Enters, SlotsCounted
<1>3. CASE Stays
  BY <1>1, <1>3 DEF Stays, SlotsCounted
<1>4. CASE Leaves(p)
  <2>1. IsFiniteSet(InHelper \ {p}) /\ Cardinality(InHelper \ {p}) = Cardinality(InHelper) - 1
    BY <1>1, <1>4, FS_RemoveElement DEF Leaves
  <2>2. Cardinality(InHelper \ {p}) \in Nat
    BY <2>1, FS_CardinalityType
  <2>3. held > 0 /\ held' = held - 1
    BY <1>1, <1>4, <2>1, <2>2, GateAssumption DEF Leaves
  <2>. QED
    BY <1>1, <1>4, <2>1, <2>3, GateAssumption DEF Leaves, SlotsCounted
<1>. QED
  BY <1>2, <1>3, <1>4

---------------------------------------------------------------------------
(* The callers disturb no flight but the idle one they start. *)
LEMMA CallerPreserves ==
  ASSUME IInv,
         \/ \E c \in Callers : (\E p \in Posts : Embed(c, p)) \/ Join(c) \/ SaveNegative(c)
         \/ \E p \in Posts : Refresh(p)
  PROVE  IInv'
<1> USE GateAssumption
<1>1. ASSUME NEW p \in Posts, InFlight(p),
             UNCHANGED <<clock, held, neg, health>>,
             CallersOK'
      PROVE  IInv'
  <2>1. TypeOK'
    BY <1>1 DEF IInv, TypeOK, FlightsOK, InFlight, health, FlightPCs
  <2>2. \A q \in Posts : \/ flight'[q] = flight[q]
                         \/ flight[q].pc = "idle" /\ flight'[q].pc = "acquire"
    BY <1>1 DEF IInv, TypeOK, FlightsOK, InFlight, FlightPCs
  <2>3. InHelper' = InHelper /\ Probing' = Probing
    BY <2>2 DEF InHelper, Probing, At
  <2>4. \A q \in Probing : flight'[q] = flight[q]
    BY <2>2 DEF Probing, At
  <2>5. SlotsCounted'
    BY <1>1, <2>3 DEF IInv, SlotsCounted, health
  <2>6. Scheduled' /\ OneProbeAtATime' /\ Stamped'
    BY <1>1, <2>3, <2>4 DEF IInv, Scheduled, OneProbeAtATime, Stamped, health
  <2>. QED
    BY <2>1, <2>5, <2>6 DEF IInv
<1>2. ASSUME UNCHANGED <<clock, flight, held, health>>, TypeOK'
      PROVE  IInv'
  <2>1. InHelper' = InHelper /\ Probing' = Probing
    BY <1>2 DEF InHelper, Probing, At
  <2>. QED
    BY <1>2, <2>1 DEF IInv, SlotsCounted, Scheduled, OneProbeAtATime, Stamped, health
<1>3. ASSUME NEW p \in Posts, Refresh(p) PROVE IInv'
  BY <1>1, <1>3 DEF Refresh, IInv, TypeOK, CallersOK
<1>4. ASSUME NEW c \in Callers, NEW p \in Posts, Embed(c, p) PROVE IInv'
  <2>1. TypeOK'
    BY <1>4 DEF IInv, TypeOK, CallersOK, FlightsOK, Embed, NoRequest, health, CallerPCs
  <2>. QED
    BY <1>2, <1>4, <2>1 DEF Embed
<1>5. ASSUME NEW c \in Callers, Join(c) PROVE IInv'
  <2>1. caller[c].post \in Posts /\ CallersOK'
    BY <1>5 DEF IInv, TypeOK, CallersOK, Join, CallerPCs
  <2>. QED
    BY <1>1, <1>5, <2>1 DEF Join
<1>6. ASSUME NEW c \in Callers, SaveNegative(c) PROVE IInv'
  <2>1. TypeOK'
    BY <1>6 DEF IInv, TypeOK, CallersOK, FlightsOK, SaveNegative, NoRequest, health, CallerPCs
  <2>. QED
    BY <1>2, <1>6, <2>1 DEF SaveNegative
<1>. QED
  BY <1>3, <1>4, <1>5, <1>6
---------------------------------------------------------------------------
(* The steps of a flight. *)

(* A flight that enters, stays or leaves without probing leaves the other  *)
(* parts of the invariant alone.                                           *)
LEMMA FlightPreserves ==
  ASSUME IInv, NEW p \in Posts, TypeOK',
         Enters(p) \/ Stays \/ Leaves(p),
         flight'[p].pc # "probe", flight[p].pc # "probe",
         \A q \in Posts \ {p} : flight'[q] = flight[q],
         UNCHANGED <<clock, health>>
  PROVE  IInv'
<1>1. SlotsCounted'
  BY SlotsStayCounted
<1>2. Probing' = Probing /\ \A q \in Probing : flight'[q] = flight[q]
  BY DEF Probing, At
<1>3. Scheduled' /\ OneProbeAtATime' /\ Stamped'
  BY <1>2 DEF IInv, Scheduled, OneProbeAtATime, Stamped, health
<1>. QED
  BY <1>1, <1>3 DEF IInv

(* What Use does to the flight and the slots. *)
LEMMA UseDoes ==
  ASSUME TypeOK, NEW p \in Posts, NEW seen, Use(p, seen), p \in InHelper
  PROVE  /\ FlightsOK' /\ CallersOK'
         /\ flight'[p].pc \in {"idle", "call"}
         /\ \A q \in Posts \ {p} : flight'[q] = flight[q]
         /\ Stays \/ Leaves(p)
<1>1. CASE seen = "exhausted"
  <2>1. Answer(p, "unavailable") /\ Release
    BY <1>1 DEF Use
  <2>2. /\ FlightsOK' /\ CallersOK' /\ flight'[p].pc = "idle"
        /\ \A q \in Posts \ {p} : flight'[q] = flight[q]
    BY <2>1, AnswerSets DEF Failures
  <2>3. Leaves(p)
    BY <2>1, <2>2 DEF InHelper, Leaves, Release
  <2>. QED
    BY <2>2, <2>3
<1>2. CASE seen # "exhausted"
  <2>1. Goto(p, "call", clock) /\ UNCHANGED <<caller, held>>
    BY <1>2 DEF Use
  <2>2. /\ FlightsOK' /\ flight'[p].pc = "call"
        /\ \A q \in Posts \ {p} : flight'[q] = flight[q]
    BY <2>1, GotoSets DEF FlightPCs, TypeOK
  <2>3. CallersOK'
    BY <2>1 DEF TypeOK, CallersOK
  <2>4. Stays
    BY <2>1, <2>2 DEF InHelper, Stays
  <2>. QED
    BY <2>2, <2>3, <2>4
<1>. QED
  BY <1>1, <1>2

(* Waiting for a slot. *)
LEMMA AcquirePreserves ==
  ASSUME IInv, NEW p \in Posts, Acquire(p) \/ Busy(p)
  PROVE  IInv'
<1>1. TypeOK
  BY DEF IInv
<1>2. CASE Acquire(p)
  <2>1. /\ FlightsOK' /\ flight'[p].pc = "health"
        /\ \A q \in Posts \ {p} : flight'[q] = flight[q]
    BY <1>1, <1>2, GotoSets DEF Acquire, FlightPCs
  <2>2. Enters(p)
    BY <1>2, <2>1 DEF InHelper, Enters, Acquire, At
  <2>3. held' \in 0..Slots /\ CallersOK'
    BY <1>1, <1>2, GateAssumption DEF Acquire, TypeOK, CallersOK
  <2>4. TypeOK'
    BY <1>1, <1>2, <2>1, <2>3 DEF TypeOK, Acquire, health
  <2>. QED
    BY <1>2, <2>1, <2>2, <2>4, FlightPreserves DEF Acquire, At
<1>3. CASE Busy(p)
  <2>1. /\ FlightsOK' /\ CallersOK' /\ flight'[p].pc = "idle"
        /\ \A q \in Posts \ {p} : flight'[q] = flight[q]
    BY <1>1, <1>3, AnswerSets DEF Busy, Failures
  <2>2. Stays
    BY <1>3, <2>1 DEF InHelper, Stays, Busy, At
  <2>3. TypeOK'
    BY <1>1, <1>3, <2>1 DEF TypeOK, Busy, health
  <2>. QED
    BY <1>3, <2>1, <2>2, <2>3, FlightPreserves DEF Busy, At
<1>. QED
  BY <1>2, <1>3

(* Without a probe of its own. *)
LEMMA UsePreserves ==
  ASSUME IInv, NEW p \in Posts, UseStatus(p) \/ Return(p)
  PROVE  IInv'
<1>1. TypeOK
  BY DEF IInv
<1>2. CASE UseStatus(p)
  <2>1. p \in InHelper
    BY <1>2 DEF UseStatus, At, InHelper
  <2>2. /\ FlightsOK' /\ CallersOK' /\ flight'[p].pc \in {"idle", "call"}
        /\ \A q \in Posts \ {p} : flight'[q] = flight[q]
        /\ Stays \/ Leaves(p)
    BY <1>1, <1>2, <2>1, UseDoes DEF UseStatus
  <2>3. TypeOK'
    BY <1>1, <1>2, <2>2, SlotsStayCounted DEF TypeOK, UseStatus, health
  <2>. QED
    BY <1>2, <2>2, <2>3, FlightPreserves DEF UseStatus, At
<1>3. CASE Return(p)
  <2>1. /\ FlightsOK' /\ CallersOK' /\ flight'[p].pc = "idle"
        /\ \A q \in Posts \ {p} : flight'[q] = flight[q]
    BY <1>1, <1>3, AnswerSets DEF Return
  <2>2. Leaves(p)
    BY <1>3, <2>1 DEF InHelper, Leaves, Return, Release, At
  <2>3. TypeOK'
    BY <1>1, <1>3, <2>1, <2>2, SlotsStayCounted DEF TypeOK, Return, health
  <2>. QED
    BY <1>3, <2>1, <2>2, <2>3, FlightPreserves DEF Return, At
<1>. QED
  BY <1>2, <1>3

(* A probe begins only when none is under way: that one's schedule would   *)
(* have to be over.                                                        *)
LEMMA BeginProbePreserves ==
  ASSUME IInv, NEW p \in Posts, BeginProbe(p)
  PROVE  IInv'
<1>1. TypeOK
  BY DEF IInv
<1>2. /\ FlightsOK' /\ flight'[p].pc = "probe" /\ flight'[p].since = clock
      /\ \A q \in Posts \ {p} : flight'[q] = flight[q]
  BY <1>1, GotoSets DEF BeginProbe, FlightPCs, TypeOK
<1>3. Probing = {}
  <2>1. ASSUME NEW q \in Probing PROVE FALSE
    <3>1. /\ until = flight[q].since + HealthTTL /\ clock >= until
          /\ clock <= flight[q].since + ProbeTimeout
      BY <2>1 DEF IInv, Scheduled, BeginProbe
    <3>2. clock \in Nat /\ flight[q].since \in Nat
      BY <1>1, <2>1 DEF TypeOK, FlightsOK, Probing
    <3>. QED
      BY <3>1, <3>2, GateAssumption
  <2>. QED
    BY <2>1
<1>4. Probing' = {p}
  BY <1>2, <1>3 DEF Probing, At
<1>5. Stays
  BY <1>2 DEF InHelper, Stays, BeginProbe, At
<1>6. SlotsCounted'
  BY <1>5, SlotsStayCounted
<1>7. TypeOK'
  <2>1. until' \in Nat
    BY <1>1, GateAssumption DEF TypeOK, BeginProbe
  <2>. QED
    BY <1>1, <1>2, <2>1 DEF TypeOK, CallersOK, BeginProbe
<1>8. Scheduled'
  BY <1>1, <1>2, <1>4, GateAssumption DEF Scheduled, TypeOK, BeginProbe
<1>9. OneProbeAtATime' /\ Stamped'
  BY <1>4 DEF OneProbeAtATime, Stamped
<1>. QED
  BY <1>6, <1>7, <1>8, <1>9 DEF IInv

(* With the only probe over, its schedule stamps the status it saw. *)
LEMMA EndProbePreserves ==
  ASSUME IInv, NEW p \in Posts, ProbeAnswers(p) \/ ProbeFails(p)
  PROVE  IInv'
<1>1. TypeOK
  BY DEF IInv
<1>2. /\ \E seen : Use(p, seen)
      /\ p \in InHelper /\ p \in Probing
      /\ UNCHANGED <<clock, until, neg>>
  BY DEF ProbeAnswers, ProbeFails, At, InHelper, Probing
<1>3. /\ FlightsOK' /\ CallersOK' /\ flight'[p].pc \in {"idle", "call"}
      /\ \A q \in Posts \ {p} : flight'[q] = flight[q]
      /\ Stays \/ Leaves(p)
  BY <1>1, <1>2, UseDoes
<1>4. SlotsCounted' /\ held' \in 0..Slots
  BY <1>3, SlotsStayCounted
<1>5. Probing = {p}
  BY <1>2 DEF IInv, OneProbeAtATime
<1>6. Probing' = {}
  BY <1>3, <1>5 DEF Probing, At
<1>7. until = flight[p].since + HealthTTL /\ flight[p].since \in Nat
  BY <1>1, <1>2 DEF IInv, Scheduled, TypeOK, FlightsOK
<1>8. /\ status' \in {"unchecked", "available", "exhausted"}
      /\ asked' \in Nat /\ failed' \in BOOLEAN
  <2>1. CASE ProbeAnswers(p)
    BY <1>7, <2>1 DEF ProbeAnswers
  <2>2. CASE ProbeFails(p)
    BY <1>1, <2>2 DEF ProbeFails, TypeOK
  <2>. QED
    BY <2>1, <2>2
<1>9. TypeOK'
  BY <1>1, <1>2, <1>3, <1>4, <1>8 DEF TypeOK
<1>10. Stamped'
  <2>1. CASE ProbeAnswers(p)
    BY <1>2, <1>7, <2>1 DEF ProbeAnswers, Stamped
  <2>2. CASE ProbeFails(p)
    BY <2>2 DEF ProbeFails, Stamped
  <2>. QED
    BY <2>1, <2>2
<1>11. Scheduled' /\ OneProbeAtATime'
  BY <1>6 DEF Scheduled, OneProbeAtATime
<1>. QED
  BY <1>4, <1>9, <1>10, <1>11 DEF IInv

(* Time passes only while no probe is overdue. *)
LEMMA TickPreserves == IInv /\ Tick => IInv'
<1> SUFFICES ASSUME IInv, Tick PROVE IInv'
  OBVIOUS
<1>1. InHelper' = InHelper /\ Probing' = Probing
  BY DEF Tick, InHelper, Probing, At
<1>2. TypeOK'
  BY DEF IInv, TypeOK, CallersOK, FlightsOK, Tick, health
<1>3. Scheduled'
  <2>1. ASSUME NEW p \in Probing
        PROVE  /\ until = flight[p].since + HealthTTL
               /\ clock + 1 <= flight[p].since + ProbeTimeout
    <3>1. ~(clock >= flight[p].since + ProbeTimeout)
      BY <2>1 DEF Tick, Overdue, Probing
    <3>2. clock \in Nat /\ flight[p].since \in Nat
      BY <2>1 DEF IInv, TypeOK, FlightsOK, Probing
    <3>3. until = flight[p].since + HealthTTL
      BY <2>1 DEF IInv, Scheduled
    <3>. QED
      BY <3>1, <3>2, <3>3, GateAssumption
  <2>. QED
    BY <1>1, <2>1 DEF Scheduled, Tick, health
<1>4. SlotsCounted' /\ OneProbeAtATime' /\ Stamped'
  BY <1>1 DEF IInv, SlotsCounted, OneProbeAtATime, Stamped, Tick, health
<1>. QED
  BY <1>2, <1>3, <1>4 DEF IInv

(* A step that changes nothing preserves the invariant. *)
LEMMA StutterPreserves == IInv /\ UNCHANGED vars => IInv'
<1> SUFFICES ASSUME IInv, UNCHANGED vars PROVE IInv'
  OBVIOUS
<1>1. InHelper' = InHelper /\ Probing' = Probing
  BY DEF vars, InHelper, Probing, At
<1>2. TypeOK'
  BY DEF IInv, TypeOK, CallersOK, FlightsOK, vars
<1>. QED
  BY <1>1, <1>2 DEF IInv, SlotsCounted, Scheduled, OneProbeAtATime, Stamped, vars

(* Every step preserves the invariant. *)
LEMMA NextPreservesInv == IInv /\ [Next]_vars => IInv'
<1> SUFFICES ASSUME IInv, Next \/ UNCHANGED vars PROVE IInv'
  OBVIOUS
<1>1. ASSUME NEW p \in Posts, Fly(p) PROVE IInv'
  BY <1>1, AcquirePreserves, UsePreserves, BeginProbePreserves, EndProbePreserves DEF Fly
<1>. QED
  BY <1>1, CallerPreserves, TickPreserves, StutterPreserves DEF Next

---------------------------------------------------------------------------
(* Every reachable state satisfies the invariant. *)
THEOREM Invariance == Spec => []IInv
  BY InitInv, NextPreservesInv, PTL DEF Spec

(* The types of the gate's state (data.go, the variables of the auth       *)
(* helper).                                                                *)
THEOREM TypeCorrect == Spec => []TypeOK
<1>1. IInv => TypeOK
  BY DEF IInv
<1>. QED
  BY <1>1, Invariance, PTL

(* acquireAuthHelperSlot and releaseAuthHelperSlot: no more flights than   *)
(* slots are past the semaphore.                                           *)
THEOREM SlotsRespected == Spec => []CallsWithinSlots
<1>1. IInv => CallsWithinSlots
  BY GateAssumption DEF IInv, TypeOK, SlotsCounted, CallsWithinSlots
<1>. QED
  BY <1>1, Invariance, PTL

(* authHelperHealth schedules the next probe before it sends this one: two *)
(* are never under way together.                                           *)
THEOREM SingleProbe == Spec => []OneProbeAtATime
<1>1. IInv => OneProbeAtATime
  BY DEF IInv
<1>. QED
  BY <1>1, Invariance, PTL

(* authHelperHealth: a status used without asking is younger than its time *)
(* to live, unless a probe is under way or has failed.                     *)
THEOREM StatusYoung == Spec => []StatusRecent
<1>1. IInv => StatusRecent
  BY DEF IInv, Stamped, StatusRecent
<1>. QED
  BY <1>1, Invariance, PTL

(* authHelperHealth: one probe at a time, and no status is used when it is *)
(* too old.                                                                *)
THEOREM HealthIsRecent == Spec => []HealthRecent
BY SingleProbe, StatusYoung, PTL DEF HealthRecent
=============================================================================
