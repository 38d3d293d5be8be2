------------------------ MODULE ObservabilityProofs -------------------------
(***************************************************************************)
(* Theorems about observability.  DailyReport: for any number of previews, *)
(* whatever they are and however reports fail.  Alerting: for any numbers  *)
(* of calls, whatever order they get the lock in, however long the channel *)
(* is and whatever becomes of a message.                                   *)
(***************************************************************************)
EXTENDS DailyReport, Alerting, FiniteSetTheorems, TLAPS

(* The position of the report loop, and the details of finitely many posts. *)
Positions ==
  /\ phase \in {"reading", "resetting"} => at \in 1..4
  /\ phase = "sending" => at \in 1..MaxAttempts
  /\ IsFiniteSet({Post[p] : p \in counts["details"]})

(* What is counted, was shown or got lost was recorded before. *)
Earned ==
  \A p \in Previews, k \in Counters :
    p \in counts[k] \cup shown[k] \cup confirmed[k] => Recorded(p, k)

(* Of a counter the report has read it shows all but what came late; once  *)
(* it is confirmed it has shown it.                                        *)
Accounted ==
  \A k \in Counters :
    /\ HasRead(k) => counts[k] \subseteq shown[k] \cup late[k]
    /\ phase = "resetting" => shown[k] \subseteq confirmed[k]

(* What has been reset holds nothing of what was reported. *)
Renewed ==
  phase = "resetting" =>
    \A i \in 1..4 : i < at =>
      counts[ResetOrder[i]] \cap confirmed[ResetOrder[i]] = {}

IInv ==
  /\ ReportTypeOK /\ Positions /\ Earned /\ Accounted /\ Renewed
  /\ RetainedUntilConfirmed /\ NothingReportedTwice

(* A route counts a preview once in each of its counters. *)
LEMMA RouteFacts ==
  ASSUME NEW p \in Previews
  PROVE  /\ Len(Route(p)) \in 1..4
         /\ \A i \in 1..Len(Route(p)) : Route(p)[i] \in Counters
         /\ \A i, j \in 1..Len(Route(p)) : Route(p)[i] = Route(p)[j] => i = j
<1>1. CASE Kind[p] = "full"
  BY <1>1 DEF Route, Counters
<1>2. CASE Kind[p] = "fallback"
  BY <1>2 DEF Route, Counters
<1>3. CASE Kind[p] # "full" /\ Kind[p] # "fallback"
  BY <1>3 DEF Route, Counters
<1>. QED
  BY <1>1, <1>2, <1>3

(* Every counter is read once and reset once. *)
LEMMA OrderFacts ==
  /\ Len(ReadOrder) = 4 /\ Len(ResetOrder) = 4
  /\ \A i \in 1..4 : ReadOrder[i] \in Counters /\ ResetOrder[i] \in Counters
  /\ \A k \in Counters : (\E i \in 1..4 : ReadOrder[i] = k) /\ (\E i \in 1..4 : ResetOrder[i] = k)
  /\ \A i, j \in 1..4 : ReadOrder[i] = ReadOrder[j] => i = j
BY DEF ReadOrder, ResetOrder, Counters

(* The initial state satisfies the invariant. *)
LEMMA InitInv == ReportInit => IInv
<1> SUFFICES ASSUME ReportInit PROVE IInv
  OBVIOUS
<1>. USE DailyReportAssumption DEF ReportInit, NothingCounted
<1>1. {Post[p] : p \in counts["details"]} = {}
  BY DEF Counters
<1>2. IsFiniteSet({Post[p] : p \in counts["details"]})
      /\ Cardinality({Post[p] : p \in counts["details"]}) <= MaxDetails
  <2>1. IsFiniteSet({}) /\ Cardinality({}) <= MaxDetails
    BY FS_EmptySet
  <2>. QED
    BY <1>1, <2>1
<1>3. ReportTypeOK /\ Positions
  BY <1>2 DEF ReportTypeOK, Positions
<1>4. Earned /\ Accounted /\ Renewed /\ RetainedUntilConfirmed /\ NothingReportedTwice
  BY DEF Earned, Accounted, HasRead, Renewed, RetainedUntilConfirmed, Recorded,
         NothingReportedTwice
<1>. QED
  BY <1>3, <1>4 DEF IInv

(* Counting a preview. *)
LEMMA RecordPreserves ==
  ASSUME IInv, NEW p \in Previews, Record(p)
  PROVE  IInv'
<1>. USE DailyReportAssumption
<1>1. /\ ReportTypeOK /\ Positions /\ Earned /\ Accounted /\ Renewed
      /\ RetainedUntilConfirmed /\ NothingReportedTwice
  BY DEF IInv
<1> DEFINE k == Route(p)[next[p]]
<1>2. /\ next[p] \in 1..Len(Route(p)) /\ Len(Route(p)) \in 1..4 /\ k \in Counters
      /\ next' = [next EXCEPT ![p] = @ + 1]
      /\ UNCHANGED <<phase, at, shown, confirmed>>
  BY <1>1, RouteFacts DEF Record, ReportTypeOK
<1>3. \/ /\ k = "details" /\ ~Room(p) /\ lost' = [lost EXCEPT ![k] = @ \cup {p}]
         /\ UNCHANGED <<counts, late>>
      \/ /\ k = "details" => Room(p)
         /\ counts' = [counts EXCEPT ![k] = @ \cup {p}]
         /\ late' = (IF HasRead(k) THEN [late EXCEPT ![k] = @ \cup {p}] ELSE late)
         /\ UNCHANGED lost
  BY DEF Record, Count
<1>4. ~Recorded(p, k)
  BY <1>1, <1>2, RouteFacts DEF Recorded, ReportTypeOK
<1>5. \A q \in Previews, c \in Counters :
        Recorded(q, c)' <=> Recorded(q, c) \/ (q = p /\ c = k)
  <2>. TAKE q \in Previews, c \in Counters
  <2>1. CASE q # p
    BY <1>1, <1>2, <2>1 DEF Recorded, ReportTypeOK
  <2>2. CASE q = p
    <3>1. next'[p] = next[p] + 1
      BY <1>1, <1>2 DEF ReportTypeOK
    <3>2. 1..(next'[p] - 1) = 1..(next[p] - 1) \cup {next[p]}
      BY <1>2, <3>1
    <3>. QED
      BY <2>2, <3>2 DEF Recorded
  <2>. QED
    BY <2>1, <2>2
<1>6. \A c \in Counters :
        /\ counts'[c] = counts[c] \/ (c = k /\ counts'[c] = counts[c] \cup {p})
        /\ counts[c] \subseteq counts'[c] /\ lost[c] \subseteq lost'[c]
        /\ late[c] \subseteq late'[c]
  BY <1>1, <1>2, <1>3 DEF ReportTypeOK
<1>7. p \in counts'[k] \/ p \in lost'[k]
  BY <1>1, <1>2, <1>3 DEF ReportTypeOK
<1>8. HasRead(k) => p \in late'[k] \/ counts' = counts
  BY <1>1, <1>2, <1>3 DEF ReportTypeOK
<1>9. \A c \in Counters : HasRead(c)' <=> HasRead(c)
  BY <1>2 DEF HasRead
<1>10. IsFiniteSet({Post[q] : q \in counts'["details"]})
       /\ Cardinality({Post[q] : q \in counts'["details"]}) <= MaxDetails
  <2> DEFINE D == {Post[q] : q \in counts["details"]}
  <2>1. IsFiniteSet(D) /\ Cardinality(D) <= MaxDetails
    BY <1>1 DEF ReportTypeOK, Positions
  <2>2. CASE counts'["details"] = counts["details"]
    BY <2>1, <2>2
  <2>3. CASE k = "details" /\ Room(p) /\ counts'["details"] = counts["details"] \cup {p}
    <3>1. {Post[q] : q \in counts'["details"]} = D \cup {Post[p]}
      BY <2>3
    <3>2. Post[p] \in D \/ Cardinality(D) < MaxDetails
      BY <2>3 DEF Room
    <3>3. IsFiniteSet(D \cup {Post[p]})
          /\ Cardinality(D \cup {Post[p]}) = IF Post[p] \in D THEN Cardinality(D)
                                            ELSE Cardinality(D) + 1
      <4>. HIDE DEF D
      <4>. QED
        BY <2>1, FS_AddElement
    <3>4. Cardinality(D) \in Nat
      <4>. HIDE DEF D
      <4>. QED
        BY <2>1, FS_CardinalityType
    <3>. HIDE DEF D
    <3>. QED
      BY <2>1, <3>1, <3>2, <3>3, <3>4
  <2>. QED
    BY <1>3, <1>6, <2>2, <2>3 DEF Counters
<1>11. ReportTypeOK' /\ Positions'
  <2>1. next' \in [Previews -> 1..5]
    BY <1>1, <1>2 DEF ReportTypeOK
  <2>2. /\ counts' \in [Counters -> SUBSET Previews]
        /\ late' \in [Counters -> SUBSET Previews]
        /\ lost' \in [Counters -> SUBSET Previews]
    BY <1>1, <1>2, <1>3 DEF ReportTypeOK
  <2>3. overlapped' \in SUBSET Previews
    BY <1>1 DEF Record, ReportTypeOK
  <2>. QED
    BY <1>1, <1>2, <1>10, <2>1, <2>2, <2>3 DEF ReportTypeOK, Positions
<1>. HIDE DEF k
<1>12. Earned'
  BY <1>1, <1>2, <1>5, <1>6 DEF Earned
<1>13. Accounted'
  BY <1>1, <1>2, <1>6, <1>8, <1>9 DEF Accounted
<1>14. p \notin confirmed[k]
  BY <1>1, <1>2, <1>4 DEF Earned
<1>15. Renewed' /\ NothingReportedTwice'
  BY <1>1, <1>2, <1>6, <1>14, OrderFacts DEF Renewed, NothingReportedTwice
<1>16. RetainedUntilConfirmed'
  BY <1>1, <1>2, <1>5, <1>6, <1>7 DEF RetainedUntilConfirmed
<1>. QED
  BY <1>11, <1>12, <1>13, <1>15, <1>16 DEF IInv

(* Reading, sending, and giving up a report. *)
LEMMA ReportPreserves ==
  ASSUME IInv, StartReport \/ Read \/ TryAgain \/ GiveUp \/ Confirm
  PROVE  IInv'
<1>. USE DailyReportAssumption
<1>1. /\ ReportTypeOK /\ Positions /\ Earned /\ Accounted /\ Renewed
      /\ RetainedUntilConfirmed /\ NothingReportedTwice
      /\ counts' = counts /\ next' = next /\ lost' = lost
  BY DEF IInv, StartReport, Read, TryAgain, GiveUp, Confirm
<1>2. \A q \in Previews, c \in Counters : Recorded(q, c)' <=> Recorded(q, c)
  BY <1>1 DEF Recorded
<1>3. InFlight \subseteq Previews
  BY DEF InFlight
<1>4. CASE StartReport
  <2>1. ReportTypeOK' /\ Positions'
    BY <1>1, <1>3, <1>4 DEF StartReport, ReportTypeOK, Positions
  <2>2. \A c \in Counters : ~HasRead(c)'
    BY <1>4 DEF StartReport, HasRead
  <2>. QED
    BY <1>1, <1>2, <1>4, <2>1, <2>2
    DEF StartReport, IInv, Earned, Accounted, Renewed, RetainedUntilConfirmed, NothingReportedTwice
<1>5. CASE Read
  <2> DEFINE k == ReadOrder[at]
  <2>1. /\ at \in 1..4 /\ k \in Counters /\ shown' = [shown EXCEPT ![k] = counts[k]]
        /\ late' = late /\ confirmed' = confirmed /\ phase = "reading"
        /\ overlapped' = overlapped
        /\ \/ at = 4 /\ phase' = "sending" /\ at' = 1
           \/ at < 4 /\ phase' = "reading" /\ at' = at + 1
    BY <1>1, <1>5, OrderFacts DEF Read, Positions
  <2>2. ReportTypeOK' /\ Positions'
    BY <1>1, <2>1 DEF ReportTypeOK, Positions
  <2>3. Earned'
    BY <1>1, <1>2, <2>1 DEF Earned, ReportTypeOK
  <2>4. \A c \in Counters : HasRead(c)' => c = k \/ HasRead(c)
    <3>. SUFFICES ASSUME NEW c \in Counters, HasRead(c)' PROVE c = k \/ HasRead(c)
      OBVIOUS
    <3>1. PICK i \in 1..4 : ReadOrder[i] = c
      BY OrderFacts
    <3>2. CASE at = 4
      BY <2>1, <3>1, <3>2 DEF HasRead
    <3>3. CASE at < 4 /\ phase' = "reading" /\ at' = at + 1
      <4>1. PICK j \in 1..(at' - 1) : ReadOrder[j] = c
        BY <3>3 DEF HasRead
      <4>. QED
        BY <2>1, <3>3, <4>1 DEF HasRead
    <3>. QED
      BY <2>1, <3>2, <3>3
  <2>5. Accounted'
    BY <1>1, <2>1, <2>4 DEF Accounted, ReportTypeOK
  <2>. QED
    BY <1>1, <1>2, <2>1, <2>2, <2>3, <2>5
    DEF IInv, Renewed, RetainedUntilConfirmed, NothingReportedTwice
<1>6. CASE TryAgain
  <2>1. /\ phase' = phase /\ shown' = shown /\ late' = late /\ confirmed' = confirmed
        /\ overlapped' = overlapped
        /\ phase = "sending" /\ at' = at + 1 /\ at < MaxAttempts /\ at \in Nat
    BY <1>1, <1>6 DEF TryAgain, ReportTypeOK
  <2>2. ReportTypeOK' /\ Positions'
    BY <1>1, <2>1 DEF ReportTypeOK, Positions
  <2>. QED
    BY <1>1, <1>2, <2>1, <2>2
    DEF IInv, Earned, Accounted, HasRead, Renewed, RetainedUntilConfirmed, NothingReportedTwice
<1>7. CASE GiveUp
  <2>1. ReportTypeOK' /\ Positions'
    BY <1>1, <1>7 DEF GiveUp, NothingCounted, ReportTypeOK, Positions
  <2>2. \A c \in Counters : ~HasRead(c)' /\ shown'[c] = {}
    BY <1>7 DEF GiveUp, HasRead, NothingCounted
  <2>. QED
    BY <1>1, <1>2, <1>7, <2>1, <2>2
    DEF GiveUp, IInv, Earned, Accounted, Renewed, RetainedUntilConfirmed, NothingReportedTwice
<1>8. CASE Confirm
  <2>1. /\ phase = "sending" /\ phase' = "resetting" /\ at' = 1
        /\ shown' = shown /\ late' = late
        /\ overlapped' = overlapped \cup InFlight
        /\ confirmed' = [c \in Counters |-> confirmed[c] \cup shown[c]]
    BY <1>8 DEF Confirm
  <2>2. ReportTypeOK' /\ Positions'
    BY <1>1, <1>3, <2>1 DEF ReportTypeOK, Positions
  <2>3. Earned'
    BY <1>1, <1>2, <2>1 DEF Earned
  <2>4. Accounted' /\ Renewed' /\ NothingReportedTwice'
    BY <1>1, <2>1 DEF Accounted, HasRead, Renewed, NothingReportedTwice
  <2>5. RetainedUntilConfirmed'
    BY <1>1, <1>2, <2>1 DEF RetainedUntilConfirmed
  <2>. QED
    BY <2>2, <2>3, <2>4, <2>5 DEF IInv
<1>. QED
  BY <1>4, <1>5, <1>6, <1>7, <1>8

(* Resetting a counter: what it held was shown, or came late and is lost. *)
LEMMA ResetPreserves == IInv /\ Reset => IInv'
<1> SUFFICES ASSUME IInv, Reset PROVE IInv'
  OBVIOUS
<1>. USE DailyReportAssumption
<1>1. /\ ReportTypeOK /\ Positions /\ Earned /\ Accounted /\ Renewed
      /\ RetainedUntilConfirmed /\ NothingReportedTwice
  BY DEF IInv
<1> DEFINE k == ResetOrder[at]
<1>2. /\ at \in 1..4 /\ k \in Counters /\ phase = "resetting"
      /\ lost' = [lost EXCEPT ![k] = @ \cup (counts[k] \cap late[k])]
      /\ counts' = [counts EXCEPT ![k] = {}]
      /\ next' = next /\ confirmed' = confirmed /\ overlapped' = overlapped
      /\ \/ at = 4 /\ phase' = "waiting" /\ at' = 1 /\ shown' = NothingCounted /\ late' = NothingCounted
         \/ at < 4 /\ phase' = "resetting" /\ at' = at + 1 /\ shown' = shown /\ late' = late
  BY <1>1, OrderFacts DEF Reset, Clean, Positions
<1>3. \A q \in Previews, c \in Counters : Recorded(q, c)' <=> Recorded(q, c)
  BY <1>2 DEF Recorded
<1>4. \A c \in Counters : counts'[c] = IF c = k THEN {} ELSE counts[c]
  BY <1>1, <1>2 DEF ReportTypeOK
<1>5. \A c \in Counters : lost'[c] = IF c = k THEN lost[c] \cup (counts[c] \cap late[c]) ELSE lost[c]
  BY <1>1, <1>2 DEF ReportTypeOK
<1>6. NothingCounted \in [Counters -> SUBSET Previews] /\ \A c \in Counters : NothingCounted[c] = {}
  BY DEF NothingCounted
<1>7. ReportTypeOK' /\ Positions'
  <2>1. /\ counts' \in [Counters -> SUBSET Previews]
        /\ lost' \in [Counters -> SUBSET Previews]
    BY <1>1, <1>2 DEF ReportTypeOK
  <2>2. IsFiniteSet({Post[p] : p \in counts'["details"]})
        /\ Cardinality({Post[p] : p \in counts'["details"]}) <= MaxDetails
    <3>1. CASE k = "details"
      <4>1. {Post[p] : p \in counts'["details"]} = {}
        BY <1>2, <1>4, <3>1
      <4>. QED
        BY <4>1, FS_EmptySet
    <3>2. CASE k # "details"
      <4>1. counts'["details"] = counts["details"]
        BY <1>4, <3>2 DEF Counters
      <4>. QED
        BY <1>1, <4>1 DEF ReportTypeOK, Positions
    <3>. QED
      BY <3>1, <3>2
  <2>. QED
    BY <1>1, <1>2, <1>6, <2>1, <2>2 DEF ReportTypeOK, Positions
<1>8. Renewed' /\ NothingReportedTwice'
  <2>1. \A i \in 1..4 : i <= at =>
          counts'[ResetOrder[i]] \cap confirmed[ResetOrder[i]] = {}
    BY <1>1, <1>2, <1>4, OrderFacts DEF Renewed
  <2>. QED
    BY <1>2, <2>1, OrderFacts DEF Renewed, NothingReportedTwice
<1>. HIDE DEF k
<1>9. Earned'
  BY <1>1, <1>2, <1>3, <1>4, <1>6 DEF Earned
<1>10. Accounted'
  BY <1>1, <1>2, <1>4, <1>6 DEF Accounted, HasRead
<1>11. RetainedUntilConfirmed'
  <2>1. counts[k] \subseteq shown[k] \cup late[k] /\ shown[k] \subseteq confirmed[k]
    BY <1>1, <1>2 DEF Accounted, HasRead
  <2>. QED
    BY <1>1, <1>2, <1>3, <1>4, <1>5, <2>1 DEF RetainedUntilConfirmed
<1>. QED
  BY <1>7, <1>8, <1>9, <1>10, <1>11 DEF IInv

LEMMA NextPreservesInv == IInv /\ [ReportNext]_reportVars => IInv'
<1> SUFFICES ASSUME IInv, [ReportNext]_reportVars PROVE IInv'
  OBVIOUS
<1>1. CASE UNCHANGED reportVars
  BY <1>1 DEF reportVars, IInv, ReportTypeOK, Positions, Earned, Accounted, HasRead, Renewed, Recorded,
     RetainedUntilConfirmed, NothingReportedTwice
<1>. QED
  BY <1>1, RecordPreserves, ReportPreserves, ResetPreserves DEF ReportNext

THEOREM Invariance == ReportSpec => []IInv
BY InitInv, NextPreservesInv, PTL DEF ReportSpec

(* ReportTypeOK is an invariant: in particular the detail maps keep their bound. *)
THEOREM TypeCorrect == ReportSpec => []ReportTypeOK
BY Invariance, PTL DEF IInv

(* RetainedUntilConfirmed is an invariant, whatever reports fail. *)
THEOREM Retained == ReportSpec => []RetainedUntilConfirmed
BY Invariance, PTL DEF IInv

(* NothingReportedTwice is an invariant. *)
THEOREM ReportedOnce == ReportSpec => []NothingReportedTwice
BY Invariance, PTL DEF IInv

(* SendDailyReport, resetDaily: what is counted is reported exactly once.  *)
THEOREM ExactlyOnce == ReportSpec => []ReportedExactlyOnce
BY Invariance, PTL DEF IInv, ReportedExactlyOnce

---------------------------------------------------------------------------
(* The counters agree. *)

(* A preview whose recording is under way has met the reading or the reset *)
(* that is under way.                                                      *)
Met == phase \in {"reading", "resetting"} => InFlight \subseteq overlapped

(* What a recording that met neither has counted so far is still there.    *)
StillThere ==
  phase \in {"waiting", "sending"} =>
    \A p \in InFlight \ overlapped : \A i \in 1..Len(Route(p)) :
      i < next[p] /\ Route(p)[i] # "details" => p \in counts[Route(p)[i]]

(* The counters that the reset under way has emptied.                      *)
Emptied == IF phase = "resetting" THEN {ResetOrder[n] : n \in 1..(at - 1)} ELSE {}

(* The others agree on a preview that was recorded undisturbed.            *)
LeftAgree ==
  \A p \in Previews \ overlapped : next[p] > Len(Route(p)) =>
    \A i, j \in 1..Len(Route(p)) : p \in counts[Route(p)[i]] =>
      /\ Route(p)[i] \notin Emptied
      /\ Route(p)[j] \notin Emptied \cup {"details"} => p \in counts[Route(p)[j]]

(* The report reads of it what is counted, so that what it sends agrees as *)
(* well; of a preview that is not recorded yet it shows nothing.           *)
ReadAgrees ==
  /\ phase = "reading" =>
       \A p \in Previews \ overlapped, k \in Counters :
         HasRead(k) => (p \in shown[k] <=> p \in counts[k])
  /\ phase = "sending" =>
       /\ Agree(shown)
       /\ \A p \in Previews \ overlapped, k \in Counters :
            next[p] <= Len(Route(p)) => p \notin shown[k]

AgreeInv == Met /\ StillThere /\ LeftAgree /\ ReadAgrees

LEMMA AgreeInit == ReportInit => AgreeInv
<1> SUFFICES ASSUME ReportInit PROVE AgreeInv
  OBVIOUS
<1>1. /\ phase = "waiting" /\ \A p \in Previews : next[p] = 1
      /\ \A k \in Counters : counts[k] = {}
  BY DEF ReportInit, NothingCounted
<1>2. InFlight = {}
  BY <1>1 DEF InFlight
<1>3. LeftAgree
  BY <1>1, RouteFacts DEF LeftAgree
<1> QED
  BY <1>1, <1>2, <1>3 DEF AgreeInv, Met, StillThere, ReadAgrees

(* What one more count changes.                                            *)
LEMMA RecordDoes ==
  ASSUME IInv, NEW p \in Previews, Record(p)
  PROVE  /\ next[p] \in 1..Len(Route(p)) /\ next'[p] = next[p] + 1
         /\ \A q \in Previews \ {p} : next'[q] = next[q]
         /\ \A q \in Previews \ {p}, c \in Counters : q \in counts'[c] <=> q \in counts[c]
         /\ \A c \in Counters : p \in counts[c] => p \in counts'[c]
         /\ Route(p)[next[p]] # "details" => p \in counts'[Route(p)[next[p]]]
         /\ overlapped' = IF phase \in {"reading", "resetting"} THEN overlapped \cup {p}
                          ELSE overlapped
         /\ UNCHANGED <<phase, at, shown>>
<1> DEFINE k == Route(p)[next[p]]
<1>1. ReportTypeOK
  BY DEF IInv
<1>2. next[p] \in 1..Len(Route(p)) /\ k \in Counters
  BY <1>1, RouteFacts DEF Record, ReportTypeOK
<1>3. next' = [next EXCEPT ![p] = @ + 1] /\ next \in [Previews -> 1..5]
  BY <1>1 DEF Record, ReportTypeOK
<1>4. /\ counts \in [Counters -> SUBSET Previews]
      /\ (counts' = counts /\ k = "details") \/ counts' = [counts EXCEPT ![k] = @ \cup {p}]
  BY <1>1 DEF Record, Count, ReportTypeOK
<1>5. \A c \in Counters : counts'[c] = counts[c] \/ (c = k /\ counts'[c] = counts[c] \cup {p})
  BY <1>2, <1>4
<1>6. k # "details" => p \in counts'[k]
  BY <1>2, <1>4
<1>7. /\ UNCHANGED <<phase, at, shown>>
      /\ overlapped' = IF phase \in {"reading", "resetting"} THEN overlapped \cup {p}
                       ELSE overlapped
  BY DEF Record
<1> QED
  BY <1>2, <1>3, <1>5, <1>6, <1>7

LEMMA RecordAgrees ==
  ASSUME IInv, AgreeInv, NEW p \in Previews, Record(p)
  PROVE  AgreeInv'
<1>1. /\ next[p] \in 1..Len(Route(p)) /\ next'[p] = next[p] + 1
      /\ \A q \in Previews \ {p} : next'[q] = next[q]
      /\ UNCHANGED <<phase, at, shown>>
      /\ overlapped' = IF phase \in {"reading", "resetting"} THEN overlapped \cup {p}
                       ELSE overlapped
  BY RecordDoes
<1>2. /\ \A q \in Previews \ {p}, c \in Counters : q \in counts'[c] <=> q \in counts[c]
      /\ \A c \in Counters : p \in counts[c] => p \in counts'[c]
      /\ Route(p)[next[p]] # "details" => p \in counts'[Route(p)[next[p]]]
  BY RecordDoes
<1>3. /\ phase \in {"waiting", "reading", "sending", "resetting"}
      /\ \A q \in Previews : next[q] \in Nat
  BY DEF IInv, ReportTypeOK
<1>4. \A q \in Previews : /\ Len(Route(q)) \in 1..4
                          /\ \A i \in 1..Len(Route(q)) : Route(q)[i] \in Counters
  BY RouteFacts
<1>5. Emptied' = Emptied
  BY <1>1 DEF Emptied
<1>6. \A q \in Previews \ {p} : q \in InFlight' <=> q \in InFlight
  BY <1>1 DEF InFlight
<1>7. p \notin overlapped' => /\ phase \in {"waiting", "sending"} /\ p \notin overlapped
                              /\ Emptied = {}
  BY <1>1, <1>3 DEF Emptied
<1>8. ASSUME p \notin overlapped', NEW i \in 1..Len(Route(p)), i < next'[p],
             Route(p)[i] # "details"
      PROVE  p \in counts'[Route(p)[i]]
  <2>1. CASE i = next[p]
    BY <1>2, <1>8, <2>1
  <2>2. CASE i < next[p]
    <3>1. p \in InFlight
      BY <1>1, <1>4, <2>2 DEF InFlight
    <3>2. p \in counts[Route(p)[i]]
      BY <1>7, <1>8, <2>2, <3>1 DEF AgreeInv, StillThere
    <3> QED
      BY <1>2, <1>4, <3>2
  <2> QED
    BY <1>1, <1>4, <1>8, <2>1, <2>2
<1>9. Met'
  BY <1>1, <1>6 DEF AgreeInv, Met, InFlight
<1>10. StillThere'
  <2> SUFFICES ASSUME phase' \in {"waiting", "sending"}, NEW q \in InFlight' \ overlapped',
                      NEW i \in 1..Len(Route(q)), i < next'[q], Route(q)[i] # "details"
               PROVE  q \in counts'[Route(q)[i]]
    BY DEF StillThere
  <2>1. q \in Previews
    BY DEF InFlight
  <2>2. CASE q = p
    BY <1>8, <2>2
  <2>3. CASE q # p
    <3>1. q \in InFlight \ overlapped /\ i < next[q] /\ phase \in {"waiting", "sending"}
      BY <1>1, <1>6, <2>1, <2>3
    <3>2. q \in counts[Route(q)[i]]
      BY <3>1 DEF AgreeInv, StillThere
    <3> QED
      BY <1>2, <1>4, <2>1, <2>3, <3>2
  <2> QED
    BY <2>2, <2>3
<1>11. LeftAgree'
  <2> SUFFICES ASSUME NEW q \in Previews \ overlapped', next'[q] > Len(Route(q)),
                      NEW i \in 1..Len(Route(q)), NEW j \in 1..Len(Route(q)),
                      q \in counts'[Route(q)[i]]
               PROVE  /\ Route(q)[i] \notin Emptied
                      /\ Route(q)[j] \notin Emptied \cup {"details"} => q \in counts'[Route(q)[j]]
    BY <1>5 DEF LeftAgree
  <2>1. CASE q = p
    <3>1. j < next'[p]
      BY <1>1, <1>4, <2>1
    <3> QED
      BY <1>7, <1>8, <2>1, <3>1
  <2>2. CASE q # p
    <3>1. q \in Previews \ overlapped /\ next[q] > Len(Route(q)) /\ q \in counts[Route(q)[i]]
      BY <1>1, <1>2, <1>4, <2>2
    <3>2. /\ Route(q)[i] \notin Emptied
          /\ Route(q)[j] \notin Emptied \cup {"details"} => q \in counts[Route(q)[j]]
      BY <3>1 DEF AgreeInv, LeftAgree
    <3> QED
      BY <1>2, <1>4, <2>2, <3>2
  <2> QED
    BY <2>1, <2>2
<1>12. ReadAgrees'
  <2>1. ASSUME phase' = "reading", NEW q \in Previews \ overlapped', NEW c \in Counters,
               HasRead(c)'
        PROVE  q \in shown'[c] <=> q \in counts'[c]
    <3>1. q # p /\ q \notin overlapped /\ HasRead(c) /\ phase = "reading"
      BY <1>1, <2>1 DEF HasRead
    <3> QED
      BY <1>1, <1>2, <3>1 DEF AgreeInv, ReadAgrees
  <2>2. ASSUME phase' = "sending"
        PROVE  /\ Agree(shown)'
               /\ \A q \in Previews \ overlapped', c \in Counters :
                    next'[q] <= Len(Route(q)) => q \notin shown'[c]
    <3>1. /\ Agree(shown) /\ overlapped' = overlapped /\ shown' = shown
          /\ \A q \in Previews \ overlapped, c \in Counters :
                next[q] <= Len(Route(q)) => q \notin shown[c]
      BY <1>1, <2>2 DEF AgreeInv, ReadAgrees
    <3>2. \A q \in Previews : next'[q] <= Len(Route(q)) => next[q] <= Len(Route(q))
      BY <1>1, <1>3, <1>4
    <3>3. ASSUME NEW q \in Previews \ overlapped', next'[q] > Len(Route(q)),
                 NEW i \in 1..Len(Route(q)), NEW j \in 1..Len(Route(q)),
                 q \in shown'[Route(q)[i]], Route(q)[j] # "details"
          PROVE  q \in shown'[Route(q)[j]]
      <4>1. CASE q = p
        BY <1>1, <1>4, <3>1, <3>3, <4>1
      <4>2. CASE q # p
        BY <1>1, <3>1, <3>3, <4>2 DEF Agree
      <4> QED
        BY <4>1, <4>2
    <3>4. Agree(shown)'
      BY <3>3 DEF Agree
    <3> QED
      BY <3>1, <3>2, <3>4
  <2> QED
    BY <2>1, <2>2 DEF ReadAgrees
<1> QED
  BY <1>9, <1>10, <1>11, <1>12 DEF AgreeInv

LEMMA StartAgrees == ASSUME IInv, AgreeInv, StartReport PROVE AgreeInv'
<1>1. /\ phase = "waiting" /\ phase' = "reading" /\ at' = 1
      /\ counts' = counts /\ next' = next /\ overlapped' = overlapped \cup InFlight
  BY DEF StartReport
<1>2. InFlight' = InFlight
  BY <1>1 DEF InFlight
<1>3. Emptied' = Emptied
  BY <1>1 DEF Emptied
<1>4. Met' /\ StillThere'
  BY <1>1, <1>2 DEF Met, StillThere
<1>5. LeftAgree'
  BY <1>1, <1>3 DEF AgreeInv, LeftAgree
<1>6. \A k \in Counters : ~HasRead(k)'
  BY <1>1 DEF HasRead
<1>7. ReadAgrees'
  BY <1>1, <1>6 DEF ReadAgrees
<1> QED
  BY <1>4, <1>5, <1>7 DEF AgreeInv

(* The last counter that is read completes what is sent.                   *)
LEMMA ReadKeepsAgreeing == ASSUME IInv, AgreeInv, Read PROVE AgreeInv'
<1> DEFINE k == ReadOrder[at]
<1>1. /\ at \in 1..4 /\ k \in Counters /\ shown' = [shown EXCEPT ![k] = counts[k]]
      /\ shown \in [Counters -> SUBSET Previews]
      /\ counts' = counts /\ next' = next /\ overlapped' = overlapped /\ phase = "reading"
      /\ \/ at = 4 /\ phase' = "sending" /\ at' = 1
         \/ at < 4 /\ phase' = "reading" /\ at' = at + 1
  BY OrderFacts DEF Read, IInv, Positions, ReportTypeOK
<1>2. InFlight' = InFlight /\ InFlight \subseteq overlapped
  BY <1>1 DEF InFlight, AgreeInv, Met
<1>3. Emptied' = {} /\ Emptied = {}
  BY <1>1 DEF Emptied
<1>4. \A c \in Counters : shown'[c] = IF c = k THEN counts[c] ELSE shown[c]
  BY <1>1
<1>5. Met' /\ StillThere'
  BY <1>1, <1>2 DEF Met, StillThere
<1>6. LeftAgree'
  BY <1>1, <1>3 DEF AgreeInv, LeftAgree
<1>7. CASE at < 4 /\ phase' = "reading" /\ at' = at + 1
  <2>1. ASSUME NEW c \in Counters, HasRead(c)' PROVE c = k \/ HasRead(c)
    <3>1. PICK j \in 1..(at' - 1) : ReadOrder[j] = c
      BY <1>7, <2>1 DEF HasRead
    <3> QED
      BY <1>1, <1>7, <3>1 DEF HasRead
  <2>2. ASSUME NEW p \in Previews \ overlapped, NEW c \in Counters, HasRead(c)'
        PROVE  p \in shown'[c] <=> p \in counts[c]
    BY <1>1, <1>4, <2>1, <2>2 DEF AgreeInv, ReadAgrees
  <2> QED
    BY <1>1, <1>5, <1>6, <1>7, <2>2 DEF AgreeInv, ReadAgrees
<1>8. CASE at = 4 /\ phase' = "sending"
  <2>1. \A c \in Counters : c = k \/ HasRead(c)
    <3> SUFFICES ASSUME NEW c \in Counters PROVE c = k \/ HasRead(c)
      OBVIOUS
    <3>1. PICK i \in 1..4 : ReadOrder[i] = c
      BY OrderFacts
    <3> QED
      BY <1>1, <1>8, <3>1 DEF HasRead
  <2>2. \A p \in Previews \ overlapped, c \in Counters : p \in shown'[c] <=> p \in counts[c]
    BY <1>1, <1>4, <2>1 DEF AgreeInv, ReadAgrees
  <2>3. Agree(shown)'
    <3> SUFFICES ASSUME NEW p \in Previews \ overlapped, next[p] > Len(Route(p)),
                        NEW i \in 1..Len(Route(p)), NEW j \in 1..Len(Route(p)),
                        p \in shown'[Route(p)[i]], Route(p)[j] # "details"
                 PROVE  p \in shown'[Route(p)[j]]
      BY <1>1 DEF Agree
    <3>1. Route(p)[i] \in Counters /\ Route(p)[j] \in Counters
      BY RouteFacts
    <3>2. p \in counts[Route(p)[j]]
      BY <1>3, <2>2, <3>1 DEF AgreeInv, LeftAgree
    <3> QED
      BY <2>2, <3>1, <3>2
  <2>4. ASSUME NEW p \in Previews \ overlapped, NEW c \in Counters, next[p] <= Len(Route(p))
        PROVE  p \notin shown'[c]
    <3>1. next[p] \in 1..5
      BY DEF IInv, ReportTypeOK
    <3>2. next[p] = 1
      BY <1>2, <2>4, <3>1 DEF InFlight
    <3>3. ~Recorded(p, c)
      BY <3>2 DEF Recorded
    <3>4. p \notin counts[c]
      BY <3>3 DEF IInv, Earned
    <3> QED
      BY <2>2, <3>4
  <2> QED
    BY <1>1, <1>5, <1>6, <1>8, <2>3, <2>4 DEF AgreeInv, ReadAgrees
<1> QED
  BY <1>1, <1>7, <1>8

LEMMA SendingAgrees == ASSUME IInv, AgreeInv, TryAgain \/ GiveUp PROVE AgreeInv'
<1>1. /\ phase = "sending" /\ phase' \in {"sending", "waiting"}
      /\ phase' = "sending" => shown' = shown
      /\ counts' = counts /\ next' = next /\ overlapped' = overlapped
  BY DEF TryAgain, GiveUp
<1>2. InFlight' = InFlight
  BY <1>1 DEF InFlight
<1>3. Emptied' = {} /\ Emptied = {}
  BY <1>1 DEF Emptied
<1>4. Met' /\ StillThere'
  BY <1>1, <1>2 DEF Met, StillThere, AgreeInv
<1>5. LeftAgree'
  BY <1>1, <1>3 DEF AgreeInv, LeftAgree
<1>6. ReadAgrees'
  BY <1>1 DEF AgreeInv, ReadAgrees, Agree
<1> QED
  BY <1>4, <1>5, <1>6 DEF AgreeInv

LEMMA ConfirmAgrees == ASSUME IInv, AgreeInv, Confirm PROVE AgreeInv'
<1>1. /\ phase = "sending" /\ phase' = "resetting" /\ at' = 1
      /\ counts' = counts /\ next' = next /\ overlapped' = overlapped \cup InFlight
  BY DEF Confirm
<1>2. InFlight' = InFlight
  BY <1>1 DEF InFlight
<1>3. Emptied' = {} /\ Emptied = {}
  BY <1>1 DEF Emptied
<1>4. Met' /\ StillThere'
  BY <1>1, <1>2 DEF Met, StillThere
<1>5. LeftAgree'
  BY <1>1, <1>3 DEF AgreeInv, LeftAgree
<1>6. ReadAgrees'
  BY <1>1 DEF ReadAgrees
<1> QED
  BY <1>4, <1>5, <1>6 DEF AgreeInv

(* A reset empties one counter more, the last one all of them.             *)
LEMMA ResetAgrees == ASSUME IInv, AgreeInv, Reset PROVE AgreeInv'
<1> DEFINE k == ResetOrder[at]
<1>1. /\ at \in 1..4 /\ k \in Counters /\ phase = "resetting"
      /\ counts' = [counts EXCEPT ![k] = {}]
      /\ counts \in [Counters -> SUBSET Previews]
      /\ next' = next /\ overlapped' = overlapped
      /\ \/ at = 4 /\ phase' = "waiting"
         \/ at < 4 /\ phase' = "resetting" /\ at' = at + 1
  BY OrderFacts DEF Reset, Clean, IInv, Positions, ReportTypeOK
<1>2. InFlight' = InFlight /\ InFlight \subseteq overlapped
  BY <1>1 DEF InFlight, AgreeInv, Met
<1>3. \A c \in Counters : counts'[c] = IF c = k THEN {} ELSE counts[c]
  BY <1>1
<1>4. Met' /\ StillThere' /\ ReadAgrees'
  BY <1>1, <1>2 DEF Met, StillThere, ReadAgrees
<1>5. Emptied \cup {k} = {ResetOrder[n] : n \in 1..at}
  BY <1>1 DEF Emptied
<1>6. CASE at < 4 /\ phase' = "resetting" /\ at' = at + 1
  <2>1. Emptied' = Emptied \cup {k}
    <3>1. at' - 1 = at
      BY <1>1, <1>6
    <3> QED
      BY <1>5, <1>6, <3>1 DEF Emptied
  <2>2. LeftAgree'
    <3> SUFFICES ASSUME NEW p \in Previews \ overlapped, next[p] > Len(Route(p)),
                        NEW i \in 1..Len(Route(p)), NEW j \in 1..Len(Route(p)),
                        p \in counts'[Route(p)[i]]
                 PROVE  /\ Route(p)[i] \notin Emptied \cup {k}
                        /\ Route(p)[j] \notin Emptied \cup {k} \cup {"details"} =>
                             p \in counts'[Route(p)[j]]
      BY <1>1, <2>1 DEF LeftAgree
    <3>1. Route(p)[i] \in Counters /\ Route(p)[j] \in Counters
      BY RouteFacts
    <3>2. Route(p)[i] # k /\ p \in counts[Route(p)[i]]
      BY <1>3, <3>1
    <3> QED
      BY <1>3, <3>1, <3>2 DEF AgreeInv, LeftAgree
  <2> QED
    BY <1>4, <2>2 DEF AgreeInv
<1>7. CASE at = 4 /\ phase' = "waiting"
  <2>1. \A c \in Counters : c \in Emptied \cup {k}
    BY <1>5, <1>7, OrderFacts
  <2>2. LeftAgree'
    <3> SUFFICES ASSUME NEW p \in Previews \ overlapped, next[p] > Len(Route(p)),
                        NEW i \in 1..Len(Route(p)), p \in counts'[Route(p)[i]]
                 PROVE  FALSE
      BY <1>1 DEF LeftAgree
    <3>1. Route(p)[i] \in Counters
      BY RouteFacts
    <3>2. Route(p)[i] # k /\ p \in counts[Route(p)[i]]
      BY <1>3, <3>1
    <3>3. Route(p)[i] \notin Emptied
      BY <3>2 DEF AgreeInv, LeftAgree
    <3> QED
      BY <2>1, <3>1, <3>2, <3>3
  <2> QED
    BY <1>4, <2>2 DEF AgreeInv
<1> QED
  BY <1>1, <1>6, <1>7

(* CountersAgree is an invariant: whenever no report is being read or      *)
(* reset, a preview that RecordPreview counted while none was is counted   *)
(* in all its counters or in none, and so does the report that is sent     *)
(* show it.                                                                *)
THEOREM CountsAgree == ReportSpec => []CountersAgree
<1>1. IInv /\ AgreeInv /\ [ReportNext]_reportVars => AgreeInv'
  <2> SUFFICES ASSUME IInv, AgreeInv, [ReportNext]_reportVars PROVE AgreeInv'
    OBVIOUS
  <2>1. CASE UNCHANGED reportVars
    BY <2>1 DEF reportVars, AgreeInv, Met, StillThere, LeftAgree, Emptied, ReadAgrees, Agree,
       InFlight, HasRead
  <2> QED
    BY <2>1, RecordAgrees, StartAgrees, ReadKeepsAgreeing, SendingAgrees, ConfirmAgrees,
       ResetAgrees DEF ReportNext
<1>2. AgreeInv => CountersAgree
  <2> SUFFICES ASSUME AgreeInv PROVE CountersAgree
    OBVIOUS
  <2>1. phase # "resetting" => Agree(counts)
    BY DEF AgreeInv, LeftAgree, Emptied, Agree
  <2> QED
    BY <2>1 DEF AgreeInv, ReadAgrees, CountersAgree
<1> QED
  BY <1>1, <1>2, AgreeInit, Invariance, PTL DEF ReportSpec

---------------------------------------------------------------------------
(* Alerting.  Every step is described for each group of variables by what  *)
(* it does to them: CallsStep, TopicsStep, ChannelStep, ScrapesStay or     *)
(* RecordScrape, CookiesStay or a step that is weighed.  The invariant of  *)
(* a group is then kept by its description alone.                          *)
Steps == {"new", "timed", "counted", "request", "tell", "done"}
CallRecords == [step : Steps, at : Nat, outcome : ScrapeOutcomes \cup AuthOutcomes \cup {None}]
Decisions == [by : Calls, bad : BOOLEAN, at : Nat]

(* The ways of a call from one step to the next. *)
Moves ==
  {<<"new", "tell">>, <<"new", "done">>, <<"timed", "tell">>, <<"timed", "done">>,
   <<"timed", "counted">>, <<"counted", "request">>, <<"counted", "done">>,
   <<"request", "tell">>, <<"tell", "done">>}

Waits(c) == call'[c] = call[c]
Learns(c) ==
  /\ call[c].step = "new"
  /\ \E outcome \in ScrapeOutcomes \cup AuthOutcomes :
       call'[c] = [step |-> "timed", at |-> present, outcome |-> outcome]
GoesOn(c) ==
  /\ <<call[c].step, call'[c].step>> \in Moves
  /\ call'[c] = [call[c] EXCEPT !.step = call'[c].step]

CallsOK == call \in [Calls -> CallRecords]

(* One call moves at a time. *)
Moved(c, s) == CallsOK' /\ GoesOn(c) /\ call'[c].step = s /\ \A d \in Calls \ {c} : Waits(d)

LEMMA GotoDoes ==
  ASSUME CallsOK, NEW c \in Calls, NEW s, Goto(c, s), <<call[c].step, s>> \in Moves
  PROVE  Moved(c, s)
<1>. DEFINE r == [call[c] EXCEPT !.step = s]
<1>1. s \in Steps
  BY DEF Moves, Steps
<1>2. call[c] \in CallRecords
  BY DEF CallsOK
<1>3. r \in CallRecords /\ r.step = s
  BY <1>1, <1>2 DEF CallRecords
<1>4. call' = [call EXCEPT ![c] = r]
  BY DEF Goto
<1>. HIDE DEF r
<1>5. CallsOK' /\ call'[c] = r /\ \A d \in Calls \ {c} : call'[d] = call[d]
  BY <1>3, <1>4 DEF CallsOK
<1>. QED
  BY <1>3, <1>5 DEF Moved, GoesOn, Waits, r

LEMMA LearnDoes ==
  ASSUME CallsOK, present \in Nat, NEW c \in Calls, NEW outcome \in ScrapeOutcomes \cup AuthOutcomes,
         Learn(c, outcome)
  PROVE  CallsOK' /\ Learns(c) /\ \A d \in Calls \ {c} : Waits(d)
<1>. DEFINE r == [step |-> "timed", at |-> present, outcome |-> outcome]
<1>1. r \in CallRecords
  BY DEF CallRecords, Steps
<1>2. call' = [call EXCEPT ![c] = r] /\ call[c].step = "new"
  BY DEF Learn
<1>3. call'[c] = r
  BY <1>2 DEF CallsOK
<1>4. CallsOK' /\ \A d \in Calls \ {c} : call'[d] = call[d]
  <2>. HIDE DEF r
  <2>. QED
    BY <1>1, <1>2 DEF CallsOK
<1>. QED
  BY <1>2, <1>3, <1>4 DEF Learns, Waits

(* Only a call for the database has no outcome of its own to learn first,  *)
(* and what is counted before it adds to the streak comes of the cookies. *)
Lawful(c, s) ==
  /\ call[c].step = "new" => c \in DBCalls
  /\ s = "counted" => call[c].outcome = "session"

CallsStep ==
  /\ CallsOK'
  /\ \A c \in Calls :
       \/ Waits(c) \/ Learns(c)
       \/ GoesOn(c) /\ Lawful(c, call'[c].step)

(* Every step moves the calls along. *)
LEMMA CallsMove ==
  ASSUME CallsOK, present \in Nat, [AlertingNext]_alertingVars
  PROVE  CallsStep
<1>1. ASSUME UNCHANGED call PROVE CallsStep
  BY <1>1 DEF CallsOK, CallsStep, Waits
<1>2. ASSUME NEW c \in Calls, NEW s, Moved(c, s), Lawful(c, s)
      PROVE  CallsStep
  BY <1>2 DEF Moved, CallsStep
<1>3. ASSUME NEW c \in Calls, NEW outcome \in ScrapeOutcomes \cup AuthOutcomes, Learn(c, outcome)
      PROVE CallsStep
  BY <1>3, LearnDoes DEF CallsStep
<1>4. CASE AlertStep
  <2>1. CASE MinutePasses \/ TakeMessage \/ Sending
    BY <2>1, <1>1 DEF MinutePasses, TakeMessage, Sending, SendAgain, GiveUpMessage, Confirmed
  <2>2. ASSUME NEW c \in Calls, Tell(c) PROVE CallsStep
    <3>1. Goto(c, "done") /\ <<call[c].step, "done">> \in Moves /\ Lawful(c, "done")
      BY <2>2 DEF Tell, Moves, Lawful
    <3>. QED
      BY <3>1, GotoDoes, <1>2
  <2>. QED
    BY <1>4, <2>1, <2>2 DEF AlertStep
<1>5. ASSUME NEW c \in Scrapes, BeginScrape(c) \/ RecordScrape(c) PROVE CallsStep
  <2>. c \in Calls
    BY DEF Calls
  <2>1. CASE BeginScrape(c)
    BY <2>1, <1>3 DEF BeginScrape
  <2>2. CASE RecordScrape(c)
    <3>1. \E s \in {"tell", "done"} :
            Goto(c, s) /\ <<call[c].step, s>> \in Moves /\ Lawful(c, s)
      BY <2>2 DEF RecordScrape, ScrapeSpeaks, Quiet, Moves, Lawful
    <3>. QED
      BY <3>1, GotoDoes, <1>2
  <2>. QED
    BY <1>5, <2>1, <2>2
<1>6. ASSUME NEW c \in AuthCalls,
             BeginAuth(c) \/ AuthSucceeds(c) \/ AuthFails(c) \/ AddToStreak(c) \/ RequestRecovery(c)
      PROVE CallsStep
  <2>. c \in Calls
    BY DEF Calls
  <2>1. CASE BeginAuth(c)
    BY <2>1, <1>3 DEF BeginAuth
  <2>2. CASE AuthSucceeds(c) \/ AuthFails(c) \/ AddToStreak(c) \/ RequestRecovery(c)
    <3>1. \E s \in Steps : Goto(c, s) /\ <<call[c].step, s>> \in Moves /\ Lawful(c, s)
      <4>1. CASE AuthSucceeds(c)
        BY <4>1 DEF AuthSucceeds, Quiet, Moves, Steps, Lawful
      <4>2. CASE AuthFails(c)
        BY <4>2 DEF AuthFails, Moves, Steps, Lawful
      <4>3. CASE AddToStreak(c)
        BY <4>3 DEF AddToStreak, Quiet, Moves, Steps, Lawful
      <4>4. CASE RequestRecovery(c)
        BY <4>4 DEF RequestRecovery, Moves, Steps, Lawful
      <4>. QED
        BY <2>2, <4>1, <4>2, <4>3, <4>4
    <3>. QED
      BY <3>1, GotoDoes, <1>2
  <2>. QED
    BY <1>6, <2>1, <2>2
<1>7. ASSUME NEW c \in DBCalls, RecordDBError(c) PROVE CallsStep
  <2>. c \in Calls
    BY DEF Calls
  <2>1. \E s \in {"tell", "done"} : Goto(c, s) /\ <<call[c].step, s>> \in Moves /\ Lawful(c, s)
    BY <1>7 DEF RecordDBError, Quiet, Moves, Lawful
  <2>. QED
    BY <2>1, GotoDoes, <1>2
<1>8. CASE AllReturned \/ UNCHANGED alertingVars
  BY <1>8, <1>1 DEF AllReturned, alertingVars, alertVars
<1>. QED
  BY <1>4, <1>5, <1>6, <1>7, <1>8 DEF AlertingNext, ScrapeStep, AuthStep

---------------------------------------------------------------------------
(* What a step says on the topics: nothing, or one call decides, as one    *)
(* may when the alert is due or out. *)
Every(t) == IF t = "scrape" THEN RepeatScrape ELSE IF t = "cookies" THEN RepeatAuth ELSE RepeatDB

Speaks(c, t, bad, now) ==
  /\ Decide(c, t, bad, now)
  /\ bad => Due(t, now, Every(t))
  /\ ~bad => active[t]
  /\ call[c].step # "done"

TopicsStep ==
  \/ UNCHANGED topicVars
  \/ \E c \in Calls, t \in Topics, bad \in BOOLEAN, now \in Nat : Speaks(c, t, bad, now)

LEMMA SaysNothing == ASSUME UNCHANGED topicVars PROVE TopicsStep
BY DEF TopicsStep

LEMMA OneSpeaks ==
  ASSUME CallsOK, present \in Nat, [AlertingNext]_alertingVars
  PROVE  TopicsStep
<1>0. \A c \in Calls : call[c].at \in Nat
  BY DEF CallsOK, CallRecords
<1>1. ASSUME NEW c \in Scrapes, BeginScrape(c) \/ RecordScrape(c) PROVE TopicsStep
  <2>. c \in Calls
    BY DEF Calls
  <2>1. CASE BeginScrape(c)
    BY <2>1, SaysNothing DEF BeginScrape, Learn
  <2>2. CASE RecordScrape(c)
    <3>. DEFINE now == call[c].at
                bad == Degraded(Successes(ring', now), Failures(ring', now))
    <3>1. call[c].step = "timed" /\ now \in Nat
      BY <2>2, <1>0 DEF RecordScrape
    <3>2. \/ Due("scrape", now, RepeatScrape) /\ Decide(c, "scrape", TRUE, now)
          \/ active["scrape"] /\ Decide(c, "scrape", FALSE, now)
          \/ UNCHANGED topicVars
      BY <2>2 DEF RecordScrape, ScrapeSpeaks, Quiet
    <3>. HIDE DEF now
    <3>3. CASE Due("scrape", now, RepeatScrape) /\ Decide(c, "scrape", TRUE, now)
      <4>1. Speaks(c, "scrape", TRUE, now)
        BY <3>1, <3>3 DEF Speaks, Every
      <4>. QED
        BY <4>1, <3>1 DEF Topics, TopicsStep
    <3>4. CASE active["scrape"] /\ Decide(c, "scrape", FALSE, now)
      <4>1. Speaks(c, "scrape", FALSE, now)
        BY <3>1, <3>4 DEF Speaks
      <4>. QED
        BY <4>1, <3>1 DEF Topics, TopicsStep
    <3>. QED
      BY <3>2, <3>3, <3>4, SaysNothing
  <2>. QED
    BY <1>1, <2>1, <2>2
<1>2. ASSUME NEW c \in AuthCalls,
             BeginAuth(c) \/ AuthSucceeds(c) \/ AuthFails(c) \/ AddToStreak(c) \/ RequestRecovery(c)
      PROVE TopicsStep
  <2>. c \in Calls
    BY DEF Calls
  <2>1. CASE BeginAuth(c) \/ AuthFails(c) \/ RequestRecovery(c)
    BY <2>1, SaysNothing DEF BeginAuth, Learn, AuthFails, RequestRecovery
  <2>2. CASE AuthSucceeds(c) /\ ~UNCHANGED topicVars
    <3>1. Speaks(c, "cookies", FALSE, call[c].at)
      BY <2>2 DEF AuthSucceeds, Quiet, Speaks
    <3>. QED
      BY <3>1, <1>0 DEF Topics, TopicsStep
  <2>3. CASE AddToStreak(c) /\ ~UNCHANGED topicVars
    <3>1. Speaks(c, "cookies", TRUE, call[c].at)
      BY <2>3 DEF AddToStreak, Quiet, Speaks, Every
    <3>. QED
      BY <3>1, <1>0 DEF Topics, TopicsStep
  <2>. QED
    BY <1>2, <2>1, <2>2, <2>3, SaysNothing
<1>3. ASSUME NEW c \in DBCalls, RecordDBError(c) PROVE TopicsStep
  <2>. c \in Calls
    BY DEF Calls
  <2>1. CASE ~UNCHANGED topicVars
    <3>1. Speaks(c, "database", TRUE, present)
      BY <2>1, <1>3 DEF RecordDBError, Quiet, Speaks, Every
    <3>. QED
      BY <3>1 DEF Topics, TopicsStep
  <2>. QED
    BY <2>1, SaysNothing
<1>4. CASE AlertStep
  BY <1>4, SaysNothing DEF AlertStep, MinutePasses, TakeMessage, Sending, SendAgain, GiveUpMessage, Confirmed, Tell
<1>5. CASE AllReturned \/ UNCHANGED alertingVars
  BY <1>5, SaysNothing DEF AllReturned, alertingVars, alertVars
<1>. QED
  BY <1>1, <1>2, <1>3, <1>4, <1>5 DEF AlertingNext, ScrapeStep, AuthStep

---------------------------------------------------------------------------
(* The topics: an alert is out when the last decision says so, and it was  *)
(* decided on when that one says. *)
TopicsOK ==
  /\ active \in [Topics -> BOOLEAN] /\ lastAlert \in [Topics -> Nat]
  /\ decisions \in [Topics -> Seq(Decisions)]
  /\ priors \in [Calls -> SUBSET Calls]

LastSays(t) ==
  LET d == decisions[t]
  IN /\ active[t] <=> Len(d) > 0 /\ d[Len(d)].bad
     /\ active[t] => lastAlert[t] = d[Len(d)].at

TopicsInv == TopicsOK /\ \A t \in Topics : LastSays(t) /\ Alternates(t, Every(t))

(* Nobody returned before a call that has not, or before itself. *)
BeforeInv == \A c \in Calls : priors[c] \subseteq Returned /\ c \notin priors[c]

LEMMA EveryType == \A t \in Topics : Every(t) \in Nat
BY ScrapeAssumption, AuthAssumption DEF Every

LEMMA SpeaksKeeps ==
  ASSUME TopicsInv, CallsOK, NEW c \in Calls, NEW t \in Topics, NEW bad \in BOOLEAN, NEW now \in Nat,
         Speaks(c, t, bad, now)
  PROVE  TopicsInv'
<1>. DEFINE new == [by |-> c, bad |-> bad, at |-> now]
            d == decisions[t]
            e == Append(d, new)
<1>1. /\ active' = [active EXCEPT ![t] = bad]
      /\ lastAlert' = IF bad THEN [lastAlert EXCEPT ![t] = now] ELSE lastAlert
      /\ decisions' = [decisions EXCEPT ![t] = e]
      /\ priors' = [priors EXCEPT ![c] = Returned]
  BY DEF Speaks, Decide
<1>2. new \in Decisions /\ new.bad = bad /\ new.at = now
  BY DEF Decisions
<1>3. d \in Seq(Decisions) /\ Len(d) \in Nat
  BY DEF TopicsInv, TopicsOK
<1>4. bad => Due(t, now, Every(t))
  BY DEF Speaks
<1>5. ~bad => active[t]
  BY DEF Speaks
<1>6. LastSays(t) /\ Alternates(t, Every(t))
  BY DEF TopicsInv
<1>. HIDE DEF new, d
<1>7. e \in Seq(Decisions) /\ Len(e) = Len(d) + 1 /\ e[Len(e)] = new
      /\ \A n \in 1..Len(d) : e[n] = d[n]
  BY <1>2, <1>3
<1>8. TopicsOK'
  <2>1. Returned \subseteq Calls
    BY DEF Returned
  <2>. HIDE DEF e
  <2>. QED
    BY <1>1, <1>7, <2>1 DEF TopicsInv, TopicsOK
<1>. HIDE DEF e
<1>9. decisions'[t] = e /\ active'[t] = bad /\ (bad => lastAlert'[t] = now)
  BY <1>1 DEF TopicsInv, TopicsOK
<1>10. LastSays(t)'
  BY <1>2, <1>3, <1>7, <1>9 DEF LastSays
<1>11. Alternates(t, Every(t))'
  <2>. SUFFICES ASSUME NEW n \in DOMAIN e
                PROVE  /\ ~e[n].bad => n > 1 /\ e[n - 1].bad
                       /\ e[n].bad /\ n > 1 /\ e[n - 1].bad => e[n].at >= e[n - 1].at + Every(t)
    BY <1>9 DEF Alternates, Every
  <2>1. n \in 1..Len(e)
    BY <1>7
  <2>2. CASE n = Len(e)
    <3>1. e[n] = new /\ n > 0 /\ n - 1 = Len(d)
      BY <1>7, <1>3, <2>2
    <3>2. n > 1 => e[n - 1] = d[Len(d)]
      BY <1>7, <1>3, <3>1
    <3>3. active[t] <=> Len(d) > 0 /\ d[Len(d)].bad
      BY <1>6 DEF LastSays, d
    <3>4. active[t] => lastAlert[t] = d[Len(d)].at
      BY <1>6 DEF LastSays, d
    <3>5. CASE ~bad
      <4>1. Len(d) > 0 /\ d[Len(d)].bad
        BY <3>3, <3>5, <1>5
      <4>2. n > 1
        <5>1. Len(d) > 0
          BY <4>1
        <5>. QED
          BY ONLY <5>1, <3>1, <1>3, <2>1, <1>7
      <4>3. e[n - 1].bad
        BY <4>1, <4>2, <3>2
      <4>4. ~e[n].bad \/ e[n].bad = bad
        BY <3>1, <1>2
      <4>. QED
        BY <4>2, <4>3, <4>4, <3>5, Zenon
    <3>6. CASE bad
      <4>1. ~active[t] \/ now >= lastAlert[t] + Every(t)
        BY <1>4, <3>6 DEF Due
      <4>2. e[n].at = now /\ (e[n].bad <=> bad)
        BY <3>1, <1>2
      <4>3. ASSUME n > 1, e[n - 1].bad PROVE now >= e[n - 1].at + Every(t)
        <5>1. Len(d) > 0 /\ d[Len(d)].bad /\ e[n - 1] = d[Len(d)]
          BY <4>3, <3>1, <3>2, <1>3
        <5>2. active[t] /\ lastAlert[t] = e[n - 1].at
          BY <5>1, <3>3, <3>4
        <5>. QED
          BY <5>2, <4>1
      <4>. QED
        BY <4>2, <4>3, <3>6
    <3>. QED
      BY <3>5, <3>6
  <2>3. CASE n # Len(e)
    <3>1. n \in 1..Len(d) /\ (n > 1 => n - 1 \in 1..Len(d))
      BY <1>7, <1>3, <2>1, <2>3
    <3>2. e[n] = d[n] /\ (n > 1 => e[n - 1] = d[n - 1])
      BY <3>1, <1>7
    <3>3. n \in DOMAIN d
      BY <3>1, <1>3
    <3>. QED
      BY <3>2, <3>3, <1>6 DEF Alternates, d
  <2>. QED
    BY <2>2, <2>3
<1>12. ASSUME NEW u \in Topics, u # t PROVE LastSays(u)' /\ Alternates(u, Every(u))'
  <2>1. decisions'[u] = decisions[u] /\ active'[u] = active[u] /\ lastAlert'[u] = lastAlert[u]
    BY <1>1, <1>12 DEF TopicsInv, TopicsOK
  <2>2. LastSays(u) /\ Alternates(u, Every(u))
    BY DEF TopicsInv
  <2>. QED
    BY <2>1, <2>2 DEF LastSays, Alternates, Every
<1>. QED
  BY <1>8, <1>10, <1>11, <1>12 DEF TopicsInv

LEMMA TopicsKeep == ASSUME TopicsInv, CallsOK, TopicsStep PROVE TopicsInv'
<1>1. CASE UNCHANGED topicVars
  BY <1>1 DEF TopicsInv, TopicsOK, LastSays, Alternates, Every, topicVars
<1>. QED
  BY <1>1, SpeaksKeeps DEF TopicsStep

LEMMA BeforeKeeps ==
  ASSUME TopicsOK, BeforeInv, CallsOK, CallsStep, TopicsStep
  PROVE  BeforeInv' /\ Returned \subseteq Returned'
<1>1. Returned \subseteq Returned'
  BY DEF Returned, CallsStep, Waits, Learns, GoesOn, Moves
<1>2. ASSUME NEW c \in Calls, call[c].step # "done", priors' = [priors EXCEPT ![c] = Returned]
      PROVE  BeforeInv'
  <2>1. \A d \in Calls : priors'[d] = IF d = c THEN Returned ELSE priors[d]
    BY <1>2 DEF TopicsOK
  <2>2. c \notin Returned
    BY <1>2 DEF Returned
  <2>. QED
    BY <1>1, <2>1, <2>2 DEF BeforeInv
<1>3. CASE UNCHANGED topicVars
  <2>1. priors' = priors
    BY <1>3 DEF topicVars
  <2>. QED
    BY <2>1, <1>1 DEF BeforeInv
<1>4. CASE ~UNCHANGED topicVars
  <2>1. PICK c \in Calls, t \in Topics, bad \in BOOLEAN, now \in Nat : Speaks(c, t, bad, now)
    BY <1>4 DEF TopicsStep
  <2>2. call[c].step # "done" /\ priors' = [priors EXCEPT ![c] = Returned]
    BY <2>1 DEF Speaks, Decide
  <2>. QED
    BY <2>2, <1>1, <1>2
<1>. QED
  BY <1>1, <1>3, <1>4

---------------------------------------------------------------------------
(* The way of a message: chat, then what the loop sends, then the channel. *)
(* Whoever is further did not decide after someone behind it had returned. *)
ChannelOK ==
  /\ queue \in Seq(Calls) /\ Len(queue) <= QueueSize
  /\ sending \in Calls \cup {None} /\ attempt \in 0..SendAttempts
  /\ chat \in Seq(Calls) /\ unsent \subseteq Calls

Gone ==
  /\ \A i \in DOMAIN chat : chat[i] \in Returned
  /\ sending # None => sending \in Returned
  /\ \A i \in DOMAIN queue : queue[i] \in Returned

LineInv ==
  /\ \A i, j \in DOMAIN chat : i < j => chat[j] \notin priors[chat[i]]
  /\ \A i, j \in DOMAIN queue : i < j => queue[j] \notin priors[queue[i]]
  /\ \A i \in DOMAIN chat, j \in DOMAIN queue : queue[j] \notin priors[chat[i]]
  /\ sending # None =>
       /\ \A i \in DOMAIN chat : sending \notin priors[chat[i]]
       /\ \A j \in DOMAIN queue : queue[j] \notin priors[sending]

ChannelInv == ChannelOK /\ Gone /\ LineInv

ChannelStep ==
  \/ UNCHANGED queueVars
  \/ UNCHANGED topicVars /\ (TakeMessage \/ SendAgain \/ GiveUpMessage \/ Confirmed \/ \E c \in Calls : Tell(c))

LEMMA ChannelMoves == ASSUME [AlertingNext]_alertingVars PROVE ChannelStep
<1>1. CASE AlertStep
  BY <1>1 DEF AlertStep, ChannelStep, MinutePasses, TakeMessage, Sending, SendAgain, GiveUpMessage, Confirmed, Tell
<1>2. CASE ScrapeStep
  BY <1>2 DEF ScrapeStep, ChannelStep, BeginScrape, RecordScrape, Learn
<1>3. CASE AuthStep
  BY <1>3 DEF AuthStep, ChannelStep, BeginAuth, AuthSucceeds, AuthFails, AddToStreak,
              RequestRecovery, RecordDBError, Learn
<1>4. CASE AllReturned \/ UNCHANGED alertingVars
  BY <1>4 DEF AllReturned, alertingVars, alertVars, ChannelStep
<1>. QED
  BY <1>1, <1>2, <1>3, <1>4 DEF AlertingNext

(* Messages that stay where they are keep their order. *)
LEMMA StayKeeps ==
  ASSUME ChannelInv, TopicsOK, CallsOK, TopicsStep, Returned \subseteq Returned', UNCHANGED queueVars
  PROVE  ChannelInv'
<1>1. ChannelOK' /\ Gone'
  BY DEF ChannelInv, ChannelOK, Gone, queueVars
<1>2. \A x \in Returned : priors'[x] = priors[x]
  <2>1. CASE UNCHANGED topicVars
    BY <2>1 DEF topicVars
  <2>2. CASE ~UNCHANGED topicVars
    <3>1. PICK c \in Calls, t \in Topics, bad \in BOOLEAN, now \in Nat : Speaks(c, t, bad, now)
      BY <2>2 DEF TopicsStep
    <3>2. c \notin Returned /\ priors' = [priors EXCEPT ![c] = Returned]
      BY <3>1 DEF Speaks, Decide, Returned
    <3>3. Returned \subseteq Calls
      BY DEF Returned
    <3>. QED
      BY <3>2, <3>3 DEF TopicsOK
  <2>. QED
    BY <2>1, <2>2
<1>3. queue' = queue /\ sending' = sending /\ chat' = chat
  BY DEF queueVars
<1>4. LineInv'
  BY <1>2, <1>3 DEF ChannelInv, Gone, LineInv
<1>. QED
  BY <1>1, <1>4 DEF ChannelInv

LEMMA AppendDoes ==
  ASSUME NEW S, NEW s \in Seq(S), NEW x \in S
  PROVE  LET r == Append(s, x)
         IN /\ r \in Seq(S) /\ Len(r) = Len(s) + 1
            /\ \A i \in DOMAIN r : (i \in DOMAIN s /\ r[i] = s[i]) \/ (i = Len(r) /\ r[i] = x)
            /\ \A i, j \in DOMAIN r : i < j => i \in DOMAIN s /\ r[i] = s[i]
<1>. DEFINE r == Append(s, x)
<1>1. r \in Seq(S) /\ Len(r) = Len(s) + 1 /\ Len(s) \in Nat
  OBVIOUS
<1>2. DOMAIN r = 1..(Len(s) + 1) /\ DOMAIN s = 1..Len(s)
  OBVIOUS
<1>3. r[Len(s) + 1] = x /\ \A i \in 1..Len(s) : r[i] = s[i]
  OBVIOUS
<1>. HIDE DEF r
<1>4. \A i \in DOMAIN r : i \in DOMAIN s \/ i = Len(s) + 1
  BY <1>1, <1>2
<1>5. \A i, j \in DOMAIN r : i < j => i \in DOMAIN s
  BY <1>1, <1>2
<1>6. ASSUME NEW i \in DOMAIN s PROVE r[i] = s[i]
  <2>1. i \in 1..Len(s)
    BY <1>2
  <2>. QED
    BY ONLY <2>1, <1>3
<1>7. \A i \in DOMAIN r : (i \in DOMAIN s /\ r[i] = s[i]) \/ (i = Len(r) /\ r[i] = x)
  BY ONLY <1>1, <1>3, <1>4, <1>6
<1>8. \A i, j \in DOMAIN r : i < j => i \in DOMAIN s /\ r[i] = s[i]
  BY ONLY <1>5, <1>6
<1>. QED
  BY <1>1, <1>7, <1>8 DEF r

LEMMA TellKeeps ==
  ASSUME ChannelInv, BeforeInv, CallsOK, Returned \subseteq Returned', UNCHANGED topicVars,
         NEW c \in Calls, Tell(c), c \in Returned'
  PROVE  ChannelInv'
<1>1. priors' = priors /\ sending' = sending /\ chat' = chat /\ attempt' = attempt
  BY DEF Tell, topicVars
<1>2. c \notin Returned
  BY DEF Tell, Returned
<1>3. CASE Len(queue) < QueueSize
  <2>1. queue' = Append(queue, c) /\ unsent' = unsent
    BY <1>3 DEF Tell
  <2>2. /\ queue' \in Seq(Calls) /\ Len(queue') = Len(queue) + 1
        /\ \A i \in DOMAIN queue' :
             (i \in DOMAIN queue /\ queue'[i] = queue[i]) \/ (i = Len(queue') /\ queue'[i] = c)
        /\ \A i, j \in DOMAIN queue' : i < j => i \in DOMAIN queue /\ queue'[i] = queue[i]
    BY <2>1, AppendDoes DEF ChannelInv, ChannelOK
  <2>3. ChannelOK'
    BY <1>1, <1>3, <2>1, <2>2, AlertsAssumption DEF ChannelInv, ChannelOK
  <2>4. Gone'
    BY <1>1, <2>2 DEF ChannelInv, Gone
  <2>5. \A x \in Returned : c \notin priors[x]
    BY <1>2 DEF BeforeInv, Returned
  <2>6. LineInv'
    BY <1>1, <2>2, <2>5 DEF ChannelInv, Gone, LineInv
  <2>. QED
    BY <2>3, <2>4, <2>6 DEF ChannelInv
<1>4. CASE ~(Len(queue) < QueueSize)
  <2>1. queue' = queue /\ unsent' = unsent \cup {c}
    BY <1>4 DEF Tell
  <2>. QED
    BY <1>1, <2>1 DEF ChannelInv, ChannelOK, Gone, LineInv
<1>. QED
  BY <1>3, <1>4

LEMMA TakeKeeps ==
  ASSUME ChannelInv, Returned \subseteq Returned', UNCHANGED topicVars, TakeMessage PROVE ChannelInv'
<1>1. priors' = priors /\ chat' = chat /\ unsent' = unsent
  BY DEF TakeMessage, topicVars
<1>2. sending = None /\ queue # <<>> /\ sending' = Head(queue) /\ queue' = Tail(queue) /\ attempt' = 1
  BY DEF TakeMessage
<1>3. queue \in Seq(Calls) /\ 1 \in DOMAIN queue /\ sending' = queue[1] /\ sending' \in Calls
  BY <1>2 DEF ChannelInv, ChannelOK
<1>4. /\ queue' \in Seq(Calls) /\ Len(queue') = Len(queue) - 1
      /\ \A i \in DOMAIN queue' : i + 1 \in DOMAIN queue /\ 1 < i + 1 /\ queue'[i] = queue[i + 1]
      /\ \A i, j \in DOMAIN queue' : i < j => i + 1 < j + 1
  BY <1>2, <1>3
<1>5. ChannelOK'
  BY <1>1, <1>2, <1>3, <1>4, AlertsAssumption DEF ChannelInv, ChannelOK
<1>6. Gone'
  BY <1>1, <1>3, <1>4 DEF ChannelInv, Gone
<1>7. LineInv'
  BY <1>1, <1>3, <1>4 DEF ChannelInv, LineInv
<1>. QED
  BY <1>5, <1>6, <1>7 DEF ChannelInv

LEMMA SendingKeeps ==
  ASSUME ChannelInv, BeforeInv, Returned \subseteq Returned', UNCHANGED topicVars,
         SendAgain \/ GiveUpMessage \/ Confirmed
  PROVE  ChannelInv'
<1>1. priors' = priors /\ queue' = queue /\ sending # None /\ (sending' = sending \/ sending' = None)
      /\ (unsent' = unsent \/ unsent' = unsent \cup {sending})
  BY DEF SendAgain, GiveUpMessage, Confirmed, topicVars
<1>2. attempt' \in 0..SendAttempts
  BY AlertsAssumption DEF SendAgain, GiveUpMessage, Confirmed, ChannelInv, ChannelOK
<1>3. sending \in Calls /\ sending \in Returned /\ sending \notin priors[sending]
  BY <1>1 DEF ChannelInv, ChannelOK, Gone, BeforeInv
<1>4. CASE chat' = chat
  BY <1>1, <1>2, <1>3, <1>4 DEF ChannelInv, ChannelOK, Gone, LineInv
<1>5. CASE chat' = Append(chat, sending)
  <2>1. /\ chat' \in Seq(Calls)
        /\ \A i \in DOMAIN chat' :
             (i \in DOMAIN chat /\ chat'[i] = chat[i]) \/ (i = Len(chat') /\ chat'[i] = sending)
        /\ \A i, j \in DOMAIN chat' : i < j => i \in DOMAIN chat /\ chat'[i] = chat[i]
    BY <1>3, <1>5, AppendDoes DEF ChannelInv, ChannelOK
  <2>2. ChannelOK' /\ Gone'
    BY <1>1, <1>2, <1>3, <2>1 DEF ChannelInv, ChannelOK, Gone
  <2>3. LineInv'
    BY <1>1, <1>3, <2>1 DEF ChannelInv, LineInv
  <2>. QED
    BY <2>2, <2>3 DEF ChannelInv
<1>. QED
  BY <1>4, <1>5 DEF SendAgain, GiveUpMessage, Confirmed, Arrives

LEMMA ChannelKeeps ==
  ASSUME ChannelInv, TopicsOK, BeforeInv, CallsOK, CallsStep, TopicsStep, ChannelStep
  PROVE  ChannelInv'
<1>1. Returned \subseteq Returned'
  BY BeforeKeeps
<1>2. ASSUME NEW c \in Calls, Tell(c) PROVE c \in Returned'
  BY <1>2 DEF Tell, Goto, Returned, CallsOK, CallRecords
<1>. QED
  BY <1>1, <1>2, StayKeeps, TellKeeps, TakeKeeps, SendingKeeps DEF ChannelStep

---------------------------------------------------------------------------
(* The slots of the ring. *)
Slot(minute) == minute % WindowMinutes

LEMMA SlotType == ASSUME NEW m \in Nat PROVE Slot(m) \in 0..(WindowMinutes - 1)
BY ScrapeAssumption DEF Slot

LEMMA SlotNear ==
  ASSUME NEW m \in Nat, NEW n \in Nat, Slot(m) = Slot(n), m <= n, n < m + WindowMinutes
  PROVE  m = n
<1>. DEFINE w == WindowMinutes
            p == m \div w
            q == n \div w
<1>1. w \in Nat \ {0}
  BY ScrapeAssumption
<1>. HIDE DEF w
<1>2. p \in Nat /\ q \in Nat /\ m = w * p + (m % w) /\ n = w * q + (n % w)
  BY <1>1
<1>3. m % w = n % w /\ m % w \in Nat
  BY <1>1 DEF Slot, w
<1>. HIDE DEF p, q
<1>4. n - m = w * q - w * p /\ w * q \in Nat /\ w * p \in Nat
  <2>1. w * q \in Nat /\ w * p \in Nat
    BY <1>1, <1>2
  <2>. QED
    BY <1>2, <1>3, <2>1
<1>5. w * q < w * p + w
  BY <1>1, <1>2, <1>4 DEF w
<1>6. q < p + 1
  <2>1. CASE q >= p + 1
    <3>1. w * q >= w * (p + 1)
      BY <1>1, <1>2, <2>1
    <3>2. w * (p + 1) = w * p + w
      BY <1>1, <1>2
    <3>. QED
      BY <1>4, <1>5, <3>1, <3>2, <1>1
  <2>. QED
    BY <1>2, <2>1
<1>7. p < q + 1
  <2>1. CASE p >= q + 1
    <3>1. w * p >= w * (q + 1)
      BY <1>1, <1>2, <2>1
    <3>2. w * (q + 1) = w * q + w
      BY <1>1, <1>2
    <3>. QED
      BY <1>4, <3>1, <3>2, <1>1
  <2>. QED
    BY <1>2, <2>1
<1>8. p = q
  BY <1>2, <1>6, <1>7
<1>. QED
  BY <1>2, <1>3, <1>8

ScrapeTimes ==
  /\ present \in Nat /\ present >= StartTime
  /\ \A c \in Scrapes : call[c].step # "new" => call[c].at >= StartTime /\ call[c].at <= present
  /\ \A c \in Scrapes : call[c].step = "timed" => present <= call[c].at + MaxWait

(* A step that records no scrape leaves the recorded ones, the ring and    *)
(* the alert for scrapes as they are. *)
ScrapesStay ==
  /\ UNCHANGED <<scrapeVars, active["scrape"]>>
  /\ \A c \in Scrapes :
       /\ c \in Recorders' <=> c \in Recorders
       /\ c \in Recorders => call'[c].at = call[c].at /\ call'[c].outcome = call[c].outcome

LEMMA OthersStay ==
  ASSUME CallsOK, TopicsOK, [AlertingNext]_alertingVars, \A c \in Scrapes : ~RecordScrape(c)
  PROVE  ScrapesStay
<1>1. ASSUME UNCHANGED <<call, topicVars, scrapeVars>> PROVE ScrapesStay
  BY <1>1 DEF ScrapesStay, Recorders, topicVars
<1>2. CASE AlertStep /\ UNCHANGED scrapeVars
  <2>1. CASE MinutePasses \/ TakeMessage \/ Sending
    BY <2>1, <1>1, <1>2 DEF MinutePasses, TakeMessage, Sending, SendAgain, GiveUpMessage, Confirmed
  <2>2. ASSUME NEW c \in Calls, Tell(c) PROVE ScrapesStay
    <3>1. Moved(c, "done") /\ call[c].step = "tell" /\ UNCHANGED topicVars
      <4>1. Goto(c, "done") /\ <<call[c].step, "done">> \in Moves
        BY <2>2 DEF Tell, Moves
      <4>. QED
        BY <4>1, <2>2, GotoDoes DEF Tell
    <3>2. \A d \in Scrapes : call'[d] = call[d] \/ d = c
      BY <3>1 DEF Moved, Waits, Calls
    <3>3. call'[c].at = call[c].at /\ call'[c].outcome = call[c].outcome /\ call'[c].step = "done"
      <4>1. call[c] \in CallRecords
        BY DEF CallsOK
      <4>. QED
        BY <3>1, <4>1 DEF Moved, GoesOn, CallRecords
    <3>. QED
      BY <1>2, <3>1, <3>2, <3>3 DEF ScrapesStay, Recorders, topicVars
  <2>. QED
    BY <1>2, <2>1, <2>2 DEF AlertStep
<1>3. ASSUME NEW c \in Scrapes, BeginScrape(c) PROVE ScrapesStay
  <2>1. PICK outcome \in ScrapeOutcomes : Learn(c, outcome)
    BY <1>3 DEF BeginScrape
  <2>2. /\ call[c].step = "new" /\ UNCHANGED <<scrapeVars, topicVars>>
        /\ call' = [call EXCEPT ![c] = [step |-> "timed", at |-> present, outcome |-> outcome]]
    BY <1>3, <2>1 DEF BeginScrape, Learn
  <2>3. c \in Calls /\ call'[c].step = "timed" /\ \A d \in Scrapes \ {c} : call'[d] = call[d]
    BY <2>2 DEF CallsOK, Calls
  <2>. QED
    BY <2>2, <2>3 DEF ScrapesStay, Recorders, topicVars
<1>4. ASSUME NEW c \in AuthCalls \cup DBCalls, NEW r, call' = [call EXCEPT ![c] = r],
             UNCHANGED <<scrapeVars, active["scrape"]>>
      PROVE  ScrapesStay
  <2>1. \A d \in Scrapes : call'[d] = call[d]
    BY <1>4, AlertsAssumption DEF CallsOK, Calls
  <2>. QED
    BY <1>4, <2>1 DEF ScrapesStay, Recorders
<1>5. ASSUME NEW c \in Calls, NEW t \in {"cookies", "database"}, NEW bad, NEW now, Decide(c, t, bad, now)
      PROVE  active'["scrape"] = active["scrape"]
  BY <1>5 DEF Decide, TopicsOK, Topics
<1>6. CASE AuthStep /\ UNCHANGED scrapeVars
  <2>1. ASSUME NEW c \in AuthCalls, BeginAuth(c) PROVE ScrapesStay
    BY <1>4, <1>6, <2>1 DEF BeginAuth, Learn, topicVars
  <2>2. ASSUME NEW c \in AuthCalls, AuthFails(c) \/ RequestRecovery(c) PROVE ScrapesStay
    BY <1>4, <1>6, <2>2 DEF AuthFails, RequestRecovery, Goto, topicVars
  <2>3. ASSUME NEW c \in AuthCalls, AuthSucceeds(c) \/ AddToStreak(c) PROVE ScrapesStay
    <3>1. active'["scrape"] = active["scrape"]
      BY <1>5, <2>3 DEF AuthSucceeds, AddToStreak, Quiet, topicVars, Calls
    <3>2. \E s : Goto(c, s)
      BY <2>3 DEF AuthSucceeds, AddToStreak, Quiet
    <3>. QED
      BY <1>4, <1>6, <3>1, <3>2 DEF Goto
  <2>4. ASSUME NEW c \in DBCalls, RecordDBError(c) PROVE ScrapesStay
    <3>1. active'["scrape"] = active["scrape"]
      BY <1>5, <2>4 DEF RecordDBError, Quiet, topicVars, Calls
    <3>2. \E s : Goto(c, s)
      BY <2>4 DEF RecordDBError, Quiet
    <3>. QED
      BY <1>4, <1>6, <3>1, <3>2 DEF Goto
  <2>. QED
    BY <1>6, <2>1, <2>2, <2>3, <2>4 DEF AuthStep
<1>7. CASE AllReturned \/ UNCHANGED alertingVars
  BY <1>7, <1>1 DEF AllReturned, alertingVars, alertVars
<1>. QED
  BY <1>2, <1>3, <1>6, <1>7 DEF AlertingNext, ScrapeStep

LEMMA TimesKeep ==
  ASSUME CallsOK, ScrapeTimes, CallsStep, [AlertingNext]_alertingVars
  PROVE  ScrapeTimes'
<1>1. CASE MinutePasses
  <2>1. present' = present + 1 /\ call' = call
        /\ \A c \in Scrapes : call[c].step = "timed" => present < call[c].at + MaxWait
    BY <1>1 DEF MinutePasses
  <2>2. \A c \in Scrapes : call[c].at \in Nat
    BY DEF CallsOK, CallRecords, Calls
  <2>. QED
    BY <2>1, <2>2, AlertsAssumption DEF ScrapeTimes
<1>2. CASE ~MinutePasses
  <2>1. present' = present
    BY <1>2 DEF AlertingNext, AlertStep, TakeMessage, Sending, SendAgain, GiveUpMessage, Confirmed, Tell,
                ScrapeStep, BeginScrape, RecordScrape, Learn, AuthStep, BeginAuth, AuthSucceeds,
                AuthFails, AddToStreak, RequestRecovery, RecordDBError, AllReturned, alertingVars,
                alertVars
  <2>2. SUFFICES ASSUME NEW c \in Scrapes
                 PROVE  /\ call'[c].step # "new" => call'[c].at >= StartTime /\ call'[c].at <= present
                        /\ call'[c].step = "timed" => present <= call'[c].at + MaxWait
    BY <2>1 DEF ScrapeTimes
  <2>3. c \in Calls /\ call[c] \in CallRecords
    BY DEF Calls, CallsOK
  <2>4. CASE Waits(c)
    BY <2>4 DEF Waits, ScrapeTimes
  <2>5. CASE Learns(c)
    BY <2>5, AlertsAssumption DEF Learns, ScrapeTimes
  <2>6. CASE GoesOn(c) /\ Lawful(c, call'[c].step)
    <3>1. call'[c].at = call[c].at
      BY <2>3, <2>6 DEF GoesOn, CallRecords
    <3>2. call[c].step # "new"
      BY <2>6, AlertsAssumption DEF Lawful
    <3>3. call'[c].step # "timed"
      BY <2>6 DEF GoesOn, Moves
    <3>. QED
      BY <3>1, <3>2, <3>3 DEF ScrapeTimes
  <2>. QED
    BY <2>3, <2>4, <2>5, <2>6 DEF CallsStep
<1>. QED
  BY <1>1, <1>2

---------------------------------------------------------------------------
(* The ring.  A bucket is empty since the start or holds the outcomes of   *)
(* all scrapes of its minute, and no scrape is newer than the bucket of    *)
(* its slot: a late one is not late enough to find its slot used again. *)
Buckets == [minute : Nat, success : SUBSET Scrapes, failure : SUBSET Scrapes]
RingOK == ring \in [0..(WindowMinutes - 1) -> Buckets] /\ latest \in Scrapes \cup {None}

ScrapesOf(outcome, minute) == {c \in Recorders : call[c].at = minute /\ call[c].outcome = outcome}
Filled(b, i) ==
  /\ Slot(b.minute) = i
  /\ \E c \in Recorders : call[c].at = b.minute
  /\ b.success = ScrapesOf("success", b.minute) /\ b.failure = ScrapesOf("failure", b.minute)
SlotOK(i) == ring[i] = Bucket(0) \/ Filled(ring[i], i)

RingInv ==
  /\ RingOK
  /\ \A i \in 0..(WindowMinutes - 1) : SlotOK(i)
  /\ \A c \in Recorders : ring[Slot(call[c].at)].minute >= call[c].at

LEMMA RingStays ==
  ASSUME RingInv, ScrapesStay, CallsOK PROVE RingInv'
<1>1. ring' = ring /\ latest' = latest /\ Recorders' = Recorders
      /\ \A c \in Recorders : call'[c].at = call[c].at /\ call'[c].outcome = call[c].outcome
  BY DEF ScrapesStay, scrapeVars, Recorders
<1>2. \A o, m : ScrapesOf(o, m)' = ScrapesOf(o, m)
  BY <1>1 DEF ScrapesOf
<1>3. \A i \in 0..(WindowMinutes - 1) : SlotOK(i)'
  BY <1>1, <1>2 DEF RingInv, SlotOK, Filled, Slot
<1>. QED
  BY <1>1, <1>3 DEF RingInv, RingOK, Slot

(* What a scrape that gets the lock changes of the calls. *)
LEMMA ScrapeRecordDoes ==
  ASSUME CallsOK, NEW c \in Scrapes, RecordScrape(c)
  PROVE  /\ call[c].step = "timed" /\ Recorders' = Recorders \cup {c} /\ c \notin Recorders
         /\ \A d \in Scrapes : call'[d].at = call[d].at /\ call'[d].outcome = call[d].outcome
<1>1. c \in Calls /\ call[c] \in CallRecords
  BY DEF Calls, CallsOK
<1>2. call[c].step = "timed"
  BY DEF RecordScrape
<1>3. PICK s \in {"tell", "done"} : Goto(c, s)
  BY DEF RecordScrape, ScrapeSpeaks, Quiet
<1>4. Moved(c, s)
  BY <1>1, <1>2, <1>3, GotoDoes DEF Moves
<1>5. call'[c].step = s /\ call'[c].at = call[c].at /\ call'[c].outcome = call[c].outcome
  BY <1>1, <1>4 DEF Moved, GoesOn, CallRecords
<1>6. \A d \in Scrapes \ {c} : call'[d] = call[d]
  BY <1>4 DEF Moved, Waits, Calls
<1>. QED
  BY <1>2, <1>5, <1>6 DEF Recorders

LEMMA RecordKeeps ==
  ASSUME CallsOK, ScrapeTimes, RingInv, NEW c \in Scrapes, RecordScrape(c) PROVE RingInv'
<1>a. PICK m : m = call[c].at
  OBVIOUS
<1>b. PICK i : i = Slot(m)
  OBVIOUS
<1>c. PICK b : b = ring[i]
  OBVIOUS
<1>d. PICK new : new = With(IF b.minute = m THEN b ELSE Bucket(m), c)
  OBVIOUS
<1>1. /\ call[c].step = "timed" /\ Recorders' = Recorders \cup {c} /\ c \notin Recorders
      /\ \A d \in Scrapes : call'[d].at = call[d].at /\ call'[d].outcome = call[d].outcome
  BY ScrapeRecordDoes
<1>2. \A d \in Scrapes : call[d].at \in Nat
  BY DEF CallsOK, CallRecords, Calls
<1>3. m \in Nat /\ m >= StartTime /\ m <= present /\ present <= m + MaxWait
  BY <1>1, <1>2, <1>a DEF ScrapeTimes
<1>4. i \in 0..(WindowMinutes - 1) /\ b \in Buckets /\ b.minute \in Nat
  BY <1>3, <1>b, <1>c, SlotType DEF RingInv, RingOK, Buckets
<1>5. ring' = [ring EXCEPT ![i] = new] /\ latest' = c
  BY <1>a, <1>b, <1>c, <1>d DEF RecordScrape, RecordedIn, Slot
<1>6. b.minute <= m
  <2>1. CASE b = Bucket(0)
    BY <2>1, <1>3 DEF Bucket
  <2>2. CASE Filled(b, i)
    <3>1. PICK d \in Recorders : call[d].at = b.minute
      BY <2>2 DEF Filled
    <3>2. d \in Scrapes /\ call[d].step # "new"
      BY <3>1 DEF Recorders
    <3>3. b.minute <= present
      BY <3>1, <3>2 DEF ScrapeTimes
    <3>4. b.minute < m + WindowMinutes
      BY <3>3, <1>3, <1>4, ScrapeAssumption, AlertsAssumption DEF ScrapeTimes
    <3>5. Slot(m) = Slot(b.minute)
      BY <2>2, <1>b DEF Filled
    <3>6. CASE m <= b.minute
      <4>1. m = b.minute
        BY <3>4, <3>5, <3>6, <1>3, <1>4, SlotNear
      <4>. QED
        BY <4>1, <1>3
    <3>. QED
      BY <3>6, <1>3, <1>4
  <2>. QED
    BY <2>1, <2>2, <1>4, <1>c DEF RingInv, SlotOK
<1>7. \A o : ScrapesOf(o, m)' = ScrapesOf(o, m) \cup (IF call[c].outcome = o THEN {c} ELSE {})
  BY <1>1, <1>a DEF ScrapesOf, Recorders
<1>8. \A o, n : n # m => ScrapesOf(o, n)' = ScrapesOf(o, n)
  BY <1>1, <1>a DEF ScrapesOf, Recorders
<1>9. new.minute = m /\ new \in Buckets /\ Filled(new, i)'
  <2>1. Slot(new.minute) = i /\ new.minute = m
    <3>1. new.minute = m
      BY <1>d, <1>4 DEF With, Bucket, Buckets
    <3>. QED
      BY <3>1, <1>b
  <2>2. \E d \in Recorders' : call'[d].at = m
    BY <1>1, <1>a
  <2>3. CASE b.minute = m
    <3>1. b.success = ScrapesOf("success", m) /\ b.failure = ScrapesOf("failure", m)
      <4>1. b # Bucket(0)
        BY <2>3, <1>3, ScrapeAssumption, AlertsAssumption DEF Bucket
      <4>. QED
        BY <4>1, <2>3, <1>4, <1>c DEF RingInv, SlotOK, Filled
    <3>2. /\ new = With(b, c)
          /\ new.success = b.success \cup (IF call[c].outcome = "success" THEN {c} ELSE {})
          /\ new.failure = b.failure \cup (IF call[c].outcome = "failure" THEN {c} ELSE {})
      BY <2>3, <1>4, <1>d DEF With, Buckets
    <3>3. new \in Buckets
      BY <3>2, <1>4 DEF With, Buckets
    <3>. QED
      BY <2>1, <2>2, <3>1, <3>2, <3>3, <1>7 DEF Filled
  <2>4. CASE b.minute # m
    <3>1. ScrapesOf("success", m) = {} /\ ScrapesOf("failure", m) = {}
      <4>1. SUFFICES ASSUME NEW d \in Recorders, call[d].at = m PROVE FALSE
        BY DEF ScrapesOf
      <4>2. b.minute >= m
        BY <4>1, <1>b, <1>c DEF RingInv
      <4>. QED
        BY <4>2, <2>4, <1>3, <1>4, <1>6
    <3>2. /\ new = With(Bucket(m), c)
          /\ new.success = IF call[c].outcome = "success" THEN {c} ELSE {}
          /\ new.failure = IF call[c].outcome = "failure" THEN {c} ELSE {}
      BY <2>4, <1>d DEF With, Bucket
    <3>3. new \in Buckets
      BY <3>2, <1>3 DEF With, Bucket, Buckets
    <3>. QED
      BY <2>1, <2>2, <3>1, <3>2, <3>3, <1>7 DEF Filled
  <2>. QED
    BY <2>3, <2>4
<1>10. RingOK'
  BY <1>4, <1>5, <1>9 DEF RingInv, RingOK
<1>11. ASSUME NEW j \in 0..(WindowMinutes - 1) PROVE SlotOK(j)'
  <2>1. CASE j = i
    BY <2>1, <1>4, <1>5, <1>9 DEF SlotOK, RingInv, RingOK
  <2>2. CASE j # i
    <3>1. ring'[j] = ring[j] /\ SlotOK(j) /\ ring[j] \in Buckets
      BY <2>2, <1>5, <1>4 DEF RingInv, RingOK
    <3>2. CASE ring[j] = Bucket(0)
      BY <3>1, <3>2 DEF SlotOK, Bucket
    <3>3. CASE Filled(ring[j], j)
      <4>1. ring[j].minute # m
        BY <3>3, <2>2, <1>b DEF Filled
      <4>2. PICK d \in Recorders : call[d].at = ring[j].minute
        BY <3>3 DEF Filled
      <4>3. d \in Recorders' /\ call'[d].at = ring[j].minute
        BY <4>2, <1>1 DEF Recorders
      <4>4. Filled(ring[j], j)'
        BY <3>1, <3>3, <4>1, <4>3, <1>8 DEF Filled, Slot
      <4>. QED
        BY <4>4 DEF SlotOK
    <3>. QED
      BY <3>1, <3>2, <3>3 DEF SlotOK
  <2>. QED
    BY <2>1, <2>2
<1>12. ASSUME NEW d \in Recorders' PROVE ring'[Slot(call'[d].at)].minute >= call'[d].at
  <2>1. d \in Scrapes /\ call'[d].at = call[d].at /\ call[d].at \in Nat
    BY <1>1, <1>2 DEF Recorders
  <2>2. CASE d = c
    BY <2>1, <2>2, <1>3, <1>4, <1>5, <1>9, <1>a, <1>b DEF RingInv, RingOK
  <2>3. CASE d # c
    <3>1. d \in Recorders /\ ring[Slot(call[d].at)].minute >= call[d].at
      BY <2>3, <1>1 DEF RingInv
    <3>2. Slot(call[d].at) \in 0..(WindowMinutes - 1)
      BY <2>1, SlotType
    <3>3. CASE Slot(call[d].at) = i
      <4>1. ring'[i].minute = m
        BY <1>4, <1>5, <1>9 DEF RingInv, RingOK
      <4>. QED
        BY <2>1, <3>1, <3>3, <4>1, <1>3, <1>4, <1>6, <1>c
    <3>4. CASE Slot(call[d].at) # i
      BY <2>1, <3>1, <3>2, <3>4, <1>4, <1>5 DEF RingInv, RingOK
    <3>. QED
      BY <3>3, <3>4
  <2>. QED
    BY <2>2, <2>3
<1>. QED
  BY <1>10, <1>11, <1>12 DEF RingInv, Slot

LEMMA WindowLemma == ASSUME CallsOK, ScrapeTimes, RingInv PROVE WindowExact
<1>1. \A c \in Scrapes : call[c].at \in Nat
  BY DEF CallsOK, CallRecords, Calls
<1>2. DOMAIN ring = 0..(WindowMinutes - 1) /\ \A i \in DOMAIN ring : ring[i] \in Buckets /\ SlotOK(i)
  BY DEF RingInv, RingOK
<1>3. ASSUME NEW c \in Scrapes, IsNewest(c)
      PROVE  /\ Successes(ring, call[c].at) = Ended("success", call[c].at)
             /\ Failures(ring, call[c].at) = Ended("failure", call[c].at)
  <2>. DEFINE m == call[c].at
  <2>1. m \in Nat /\ \A d \in Recorders : call[d].at <= m
    BY <1>1, <1>3 DEF IsNewest
  <2>2. ASSUME NEW i \in DOMAIN ring, InWindow(ring[i], m)
        PROVE  ring[i].success \subseteq Ended("success", m) /\ ring[i].failure \subseteq Ended("failure", m)
    <3>1. CASE ring[i] = Bucket(0)
      BY <3>1 DEF Bucket
    <3>2. CASE Filled(ring[i], i)
      BY <3>2, <2>2 DEF Filled, ScrapesOf, Ended, InWindow
    <3>. QED
      BY <3>1, <3>2, <1>2 DEF SlotOK
  <2>3. ASSUME NEW d \in Recorders, call[d].at + WindowMinutes > m
        PROVE  /\ Slot(call[d].at) \in DOMAIN ring
               /\ InWindow(ring[Slot(call[d].at)], m)
               /\ Filled(ring[Slot(call[d].at)], Slot(call[d].at))
               /\ ring[Slot(call[d].at)].minute = call[d].at
    <3>. DEFINE i == Slot(call[d].at)
    <3>1. d \in Scrapes /\ call[d].at \in Nat /\ call[d].at <= m
      BY <1>1, <2>1 DEF Recorders
    <3>2. i \in DOMAIN ring /\ ring[i] \in Buckets /\ SlotOK(i) /\ ring[i].minute >= call[d].at
      BY <3>1, <1>2, SlotType DEF RingInv
    <3>. HIDE DEF i
    <3>3. ring[i].minute \in Nat
      BY <3>2 DEF Buckets
    <3>4. CASE Filled(ring[i], i)
      <4>1. PICK e \in Recorders : call[e].at = ring[i].minute
        BY <3>4 DEF Filled
      <4>2. ring[i].minute <= m
        BY <4>1, <2>1
      <4>3. Slot(ring[i].minute) = Slot(call[d].at)
        BY <3>4 DEF Filled, i
      <4>4. ring[i].minute < call[d].at + WindowMinutes
        BY <4>2, <2>3, <2>1, <3>1, <3>3, ScrapeAssumption
      <4>5. ring[i].minute = call[d].at
        BY <4>3, <4>4, <3>1, <3>2, <3>3, SlotNear
      <4>6. InWindow(ring[i], m)
        BY <4>5, <2>3, <3>1 DEF InWindow
      <4>. QED
        BY <3>2, <3>4, <4>5, <4>6 DEF i
    <3>5. CASE ring[i] = Bucket(0) /\ ~Filled(ring[i], i)
      <4>1. call[d].at = 0
        BY <3>1, <3>2, <3>5 DEF Bucket
      <4>2. call[d].at >= StartTime
        BY DEF ScrapeTimes, Recorders
      <4>. QED
        BY <4>1, <4>2, ScrapeAssumption, AlertsAssumption
    <3>. QED
      BY <3>2, <3>4, <3>5 DEF SlotOK
  <2>4. Successes(ring, m) = Ended("success", m)
    <3>1. Successes(ring, m) \subseteq Ended("success", m)
      BY <2>2 DEF Successes
    <3>2. Ended("success", m) \subseteq Successes(ring, m)
      BY <2>3 DEF Ended, Successes, Filled, ScrapesOf
    <3>. QED
      BY <3>1, <3>2
  <2>5. Failures(ring, m) = Ended("failure", m)
    <3>1. Failures(ring, m) \subseteq Ended("failure", m)
      BY <2>2 DEF Failures
    <3>2. Ended("failure", m) \subseteq Failures(ring, m)
      BY <2>3 DEF Ended, Failures, Filled, ScrapesOf
    <3>. QED
      BY <3>1, <3>2
  <2>. QED
    BY <2>4, <2>5
<1>4. ASSUME NEW i \in DOMAIN ring, NEW j \in DOMAIN ring, i # j
      PROVE  (ring[i].success \cup ring[i].failure) \cap (ring[j].success \cup ring[j].failure) = {}
  BY <1>2, <1>4 DEF SlotOK, Filled, ScrapesOf, Bucket
<1>. QED
  BY <1>3, <1>4 DEF WindowExact

---------------------------------------------------------------------------
(* The alert for scrapes. *)
LEMMA RecordAlertsRight ==
  ASSUME TopicsOK, CallsOK, NEW c \in Scrapes, RecordScrape(c), WindowExact'
  PROVE  ScrapeAlertRight'
<1>1. PICK now : now = call[c].at
  OBVIOUS
<1>2. call'[c].at = now /\ latest' = c
  BY <1>1, ScrapeRecordDoes DEF RecordScrape
<1>3. PICK s : s = Successes(ring', now)
  OBVIOUS
<1>4. PICK f : f = Failures(ring', now)
  OBVIOUS
<1>5. PICK bad \in BOOLEAN : bad <=> Degraded(s, f)
  OBVIOUS
<1>6. ASSUME IsNewest(c)' PROVE Ended("success", now)' = s /\ Ended("failure", now)' = f
  BY <1>2, <1>3, <1>4, <1>6 DEF WindowExact
<1>7. ScrapeSpeaks(c, s, f, now)
  BY <1>1, <1>3, <1>4 DEF RecordScrape
<1>8. /\ bad => active'["scrape"]
      /\ active'["scrape"] /\ Cardinality(s) > 0 => bad
  <2>. DEFINE shouldAlert == bad /\ Due("scrape", now, RepeatScrape)
              recovered == active["scrape"] /\ Cardinality(s) > 0 /\ ~bad
  <2>0. "scrape" \in DOMAIN active
    BY DEF TopicsOK, Topics
  <2>1. CASE shouldAlert /\ Decide(c, "scrape", TRUE, now)
    BY <2>0, <2>1 DEF Decide
  <2>2. CASE recovered /\ Decide(c, "scrape", FALSE, now)
    BY <2>0, <2>2 DEF Decide
  <2>3. CASE ~shouldAlert /\ ~recovered /\ active' = active
    BY <2>3 DEF Due
  <2>. QED
    BY <1>5, <1>7, <2>1, <2>2, <2>3 DEF ScrapeSpeaks, Quiet, topicVars
<1>. QED
  BY <1>2, <1>5, <1>6, <1>8 DEF ScrapeAlertRight

LEMMA AlertRightStays ==
  ASSUME RingOK, ScrapeAlertRight, ScrapesStay PROVE ScrapeAlertRight'
<1>1. latest' = latest /\ Recorders' = Recorders /\ active'["scrape"] = active["scrape"]
      /\ \A c \in Recorders : call'[c].at = call[c].at /\ call'[c].outcome = call[c].outcome
  BY DEF ScrapesStay, scrapeVars, Recorders
<1>2. \A o, m : Ended(o, m)' = Ended(o, m)
  BY <1>1 DEF Ended
<1>3. IsNewest(latest)' => IsNewest(latest) /\ call'[latest].at = call[latest].at
  BY <1>1 DEF IsNewest
<1>. QED
  BY <1>1, <1>2, <1>3 DEF ScrapeAlertRight

---------------------------------------------------------------------------
(* The alert for the cookies: the streak is the length of the row of       *)
(* failures at the end of what was weighed. *)
StreakOK == streak \in Nat /\ recovery \in AuthCalls \cup {None} /\ weighed \in Seq(AuthCalls)

StreakInv ==
  /\ StreakOK /\ streak <= Len(weighed)
  /\ \A c \in Calls : call[c].step = "counted" => call[c].outcome = "session"
  /\ \A i \in DOMAIN weighed : call[weighed[i]].step # "new"
  /\ \A i \in DOMAIN weighed : i > Len(weighed) - streak => call[weighed[i]].outcome = "session"
  /\ streak < Len(weighed) => call[weighed[Len(weighed) - streak]].outcome # "session"
  /\ active["cookies"] <=> streak >= AuthStreak

CookiesStay ==
  UNCHANGED <<streak, weighed, active["cookies"]>> /\ recovery' \in AuthCalls \cup {None, recovery}

LEMMA CookiesStep ==
  ASSUME TopicsOK, [AlertingNext]_alertingVars
  PROVE  CookiesStay \/ \E c \in AuthCalls : AuthSucceeds(c) \/ AddToStreak(c)
<1>1. ASSUME NEW c \in Calls, NEW t \in {"scrape", "database"}, NEW bad, NEW now, Decide(c, t, bad, now)
      PROVE  active'["cookies"] = active["cookies"]
  BY <1>1 DEF Decide, TopicsOK, Topics
<1>2. CASE AlertStep /\ UNCHANGED authVars
  BY <1>2 DEF AlertStep, CookiesStay, authVars, topicVars, MinutePasses, TakeMessage, Sending, SendAgain,
              GiveUpMessage, Confirmed, Tell
<1>3. ASSUME NEW c \in Scrapes, BeginScrape(c) \/ RecordScrape(c), UNCHANGED authVars PROVE CookiesStay
  <2>1. active'["cookies"] = active["cookies"]
    BY <1>1, <1>3 DEF BeginScrape, Learn, RecordScrape, ScrapeSpeaks, Quiet, topicVars, Calls
  <2>. QED
    BY <2>1, <1>3 DEF CookiesStay, authVars
<1>4. ASSUME NEW c \in AuthCalls, BeginAuth(c) \/ AuthFails(c) \/ RequestRecovery(c) PROVE CookiesStay
  BY <1>4 DEF BeginAuth, AuthFails, RequestRecovery, Learn, CookiesStay, authVars, topicVars
<1>5. ASSUME NEW c \in DBCalls, RecordDBError(c) PROVE CookiesStay
  <2>1. active'["cookies"] = active["cookies"]
    BY <1>1, <1>5 DEF RecordDBError, Quiet, topicVars, Calls
  <2>. QED
    BY <2>1, <1>5 DEF RecordDBError, CookiesStay, authVars
<1>6. CASE AllReturned \/ UNCHANGED alertingVars
  BY <1>6 DEF AllReturned, alertingVars, alertVars, authVars, topicVars, CookiesStay
<1>. QED
  BY <1>2, <1>3, <1>4, <1>5, <1>6 DEF AlertingNext, ScrapeStep, AuthStep

(* What a call learned it keeps. *)
LEMMA OutcomesStay ==
  ASSUME CallsOK, CallsStep, NEW c \in Calls, call[c].step # "new"
  PROVE  call'[c].step # "new" /\ call'[c].outcome = call[c].outcome
<1>1. call[c] \in CallRecords
  BY DEF CallsOK
<1>2. CASE Waits(c)
  BY <1>2 DEF Waits
<1>3. CASE GoesOn(c)
  BY <1>1, <1>3 DEF GoesOn, Moves, CallRecords
<1>. QED
  BY <1>2, <1>3 DEF CallsStep, Learns

LEMMA CountedStays ==
  ASSUME CallsOK, CallsStep, \A c \in Calls : call[c].step = "counted" => call[c].outcome = "session"
  PROVE  \A c \in Calls : call'[c].step = "counted" => call'[c].outcome = "session"
<1>. SUFFICES ASSUME NEW c \in Calls, call'[c].step = "counted" PROVE call'[c].outcome = "session"
  OBVIOUS
<1>1. call[c] \in CallRecords
  BY DEF CallsOK
<1>2. CASE Waits(c)
  BY <1>2 DEF Waits
<1>3. CASE Learns(c)
  BY <1>3 DEF Learns
<1>4. CASE GoesOn(c) /\ Lawful(c, call'[c].step)
  BY <1>1, <1>4 DEF GoesOn, Lawful, CallRecords
<1>. QED
  BY <1>2, <1>3, <1>4 DEF CallsStep

LEMMA StreakKeeps ==
  ASSUME TopicsOK, CallsOK, CallsStep, StreakInv, [AlertingNext]_alertingVars
  PROVE  StreakInv'
<1>1. \A c \in Calls : call'[c].step = "counted" => call'[c].outcome = "session"
  BY CountedStays DEF StreakInv
<1>2. weighed \in Seq(AuthCalls) /\ streak \in Nat /\ Len(weighed) \in Nat /\ streak <= Len(weighed)
  BY DEF StreakInv, StreakOK
<1>3. \A i \in DOMAIN weighed : /\ call'[weighed[i]].step # "new"
                                /\ call'[weighed[i]].outcome = call[weighed[i]].outcome
  <2>1. \A i \in DOMAIN weighed : weighed[i] \in Calls /\ call[weighed[i]].step # "new"
    BY <1>2 DEF StreakInv, Calls
  <2>. QED
    BY <2>1, OutcomesStay
<1>4. CASE CookiesStay
  <2>1. streak' = streak /\ weighed' = weighed /\ active'["cookies"] = active["cookies"] /\ StreakOK'
    BY <1>4 DEF CookiesStay, StreakInv, StreakOK
  <2>2. streak < Len(weighed) => Len(weighed) - streak \in DOMAIN weighed
    BY <1>2
  <2>. QED
    BY <1>1, <1>3, <2>1, <2>2 DEF StreakInv
<1>5. ASSUME NEW c \in AuthCalls, AuthSucceeds(c) \/ AddToStreak(c) PROVE StreakInv'
  <2>0. c \in Calls /\ "cookies" \in DOMAIN active /\ active["cookies"] \in BOOLEAN
    BY DEF Calls, TopicsOK, Topics
  <2>1. weighed' = Append(weighed, c) /\ recovery' = recovery
    BY <1>5 DEF AuthSucceeds, AddToStreak
  <2>2. call[c].step # "new" /\ call'[c].step # "new" /\ call'[c].outcome = call[c].outcome
    <3>1. call[c].step # "new"
      BY <1>5 DEF AuthSucceeds, AddToStreak
    <3>. QED
      BY <2>0, <3>1, OutcomesStay
  <2>3. /\ weighed' \in Seq(AuthCalls) /\ Len(weighed') = Len(weighed) + 1
        /\ DOMAIN weighed' = 1..(Len(weighed) + 1) /\ DOMAIN weighed = 1..Len(weighed)
        /\ weighed'[Len(weighed) + 1] = c
        /\ \A i \in 1..Len(weighed) : weighed'[i] = weighed[i]
    BY <1>2, <2>1
  <2>4. \A i \in DOMAIN weighed' : call'[weighed'[i]].step # "new"
    <3>. SUFFICES ASSUME NEW i \in DOMAIN weighed' PROVE call'[weighed'[i]].step # "new"
      OBVIOUS
    <3>1. i \in 1..Len(weighed) \/ i = Len(weighed) + 1
      BY <1>2, <2>3
    <3>. QED
      BY <3>1, <2>2, <2>3, <1>3
  <2>5. CASE AuthSucceeds(c)
    <3>1. streak' = 0 /\ call[c].outcome \in {"success", "cached"}
      BY <2>5 DEF AuthSucceeds
    <3>2. active'["cookies"] = FALSE
      BY <2>0, <2>5 DEF AuthSucceeds, Decide, Quiet, topicVars
    <3>3. ~(streak' >= AuthStreak)
      BY <3>1, AuthAssumption
    <3>4. call'[weighed'[Len(weighed')]].outcome # "session"
      BY <3>1, <2>2, <2>3
    <3>5. Len(weighed') - streak' = Len(weighed')
      BY <3>1, <2>3, <1>2
    <3>6. \A i \in DOMAIN weighed' : ~(i > Len(weighed') - streak')
      BY <3>5, <2>3, <1>2
    <3>7. streak' <= Len(weighed') /\ StreakOK'
      BY <3>1, <2>1, <2>3, <1>2 DEF StreakInv, StreakOK
    <3>. QED
      BY <1>1, <2>4, <3>2, <3>3, <3>4, <3>5, <3>6, <3>7 DEF StreakInv
  <2>6. CASE AddToStreak(c)
    <3>1. streak' = streak + 1 /\ call[c].outcome = "session"
      BY <2>0, <2>6 DEF AddToStreak, StreakInv
    <3>2. active["cookies"] <=> streak >= AuthStreak
      BY DEF StreakInv
    <3>3. active'["cookies"] <=> streak' >= AuthStreak
      <4>1. CASE streak' >= AuthStreak /\ Due("cookies", call[c].at, RepeatAuth)
        BY <4>1, <2>0, <2>6 DEF AddToStreak, Decide, Quiet
      <4>2. CASE ~(streak' >= AuthStreak /\ Due("cookies", call[c].at, RepeatAuth))
        <5>1. active' = active
          BY <4>2, <2>6 DEF AddToStreak, Quiet, topicVars
        <5>2. streak' >= AuthStreak => active["cookies"]
          BY <4>2 DEF Due
        <5>3. streak >= AuthStreak => streak' >= AuthStreak
          BY <3>1, <1>2, AuthAssumption
        <5>. QED
          BY <3>2, <5>1, <5>2, <5>3
      <4>. QED
        BY <4>1, <4>2
    <3>4. Len(weighed') - streak' = Len(weighed) - streak
      BY <3>1, <2>3, <1>2
    <3>5. ASSUME NEW i \in DOMAIN weighed', i > Len(weighed') - streak'
          PROVE  call'[weighed'[i]].outcome = "session"
      <4>1. CASE i \in 1..Len(weighed)
        <5>1. i > Len(weighed) - streak /\ i \in DOMAIN weighed /\ weighed'[i] = weighed[i]
          BY <4>1, <3>4, <3>5, <2>3
        <5>. QED
          BY <5>1, <1>3 DEF StreakInv
      <4>2. CASE i = Len(weighed) + 1
        BY <4>2, <3>1, <2>2, <2>3
      <4>. QED
        BY <4>1, <4>2, <2>3, <1>2
    <3>6. streak' < Len(weighed') => call'[weighed'[Len(weighed') - streak']].outcome # "session"
      <4>1. SUFFICES ASSUME streak' < Len(weighed')
                     PROVE  call'[weighed'[Len(weighed) - streak]].outcome # "session"
        BY <3>4
      <4>2. streak < Len(weighed)
        BY <4>1, <3>1, <2>3, <1>2
      <4>3. Len(weighed) - streak \in 1..Len(weighed)
        BY <4>2, <1>2
      <4>. QED
        BY <4>2, <4>3, <2>3, <1>3 DEF StreakInv
    <3>7. streak' <= Len(weighed') /\ StreakOK'
      BY <3>1, <2>1, <2>3, <1>2 DEF StreakInv, StreakOK
    <3>. QED
      BY <1>1, <2>4, <3>3, <3>5, <3>6, <3>7 DEF StreakInv
  <2>. QED
    BY <1>5, <2>5, <2>6
<1>. QED
  BY <1>4, <1>5, CookiesStep

LEMMA StreakTells == ASSUME StreakInv PROVE CookieAlertRight
<1>1. weighed \in Seq(AuthCalls) /\ streak \in Nat /\ Len(weighed) \in Nat /\ streak <= Len(weighed)
      /\ DOMAIN weighed = 1..Len(weighed) /\ AuthStreak \in Nat \ {0}
  BY AuthAssumption DEF StreakInv, StreakOK
<1>2. active["cookies"] <=> streak >= AuthStreak
  BY DEF StreakInv
<1>3. CASE streak >= AuthStreak
  <2>1. Len(weighed) >= AuthStreak
    BY <1>1, <1>3
  <2>2. \A i \in (Len(weighed) - AuthStreak + 1)..Len(weighed) :
          i \in DOMAIN weighed /\ i > Len(weighed) - streak
    BY <1>1, <1>3
  <2>. QED
    BY <1>2, <1>3, <2>1, <2>2 DEF StreakInv, CookieAlertRight
<1>4. CASE streak < AuthStreak /\ Len(weighed) >= AuthStreak
  <2>1. Len(weighed) - streak \in (Len(weighed) - AuthStreak + 1)..Len(weighed)
    BY <1>1, <1>4
  <2>2. call[weighed[Len(weighed) - streak]].outcome # "session"
    BY <1>1, <1>4 DEF StreakInv
  <2>3. ~(streak >= AuthStreak)
    BY <1>1, <1>4
  <2>. QED
    BY <1>2, <2>1, <2>2, <2>3 DEF CookieAlertRight
<1>5. CASE ~(streak >= AuthStreak) /\ ~(Len(weighed) >= AuthStreak)
  BY <1>2, <1>5 DEF CookieAlertRight
<1>. QED
  BY <1>1, <1>3, <1>4, <1>5

---------------------------------------------------------------------------
AlertingInv ==
  /\ CallsOK /\ TopicsInv /\ BeforeInv /\ ChannelInv
  /\ ScrapeTimes /\ RingInv /\ ScrapeAlertRight /\ StreakInv

LEMMA AlertingStarts == AlertingInit => AlertingInv
<1>. SUFFICES ASSUME AlertingInit PROVE AlertingInv
  OBVIOUS
<1>. USE DEF AlertingInit, AlertsInit, ScrapeInit, AuthInit
<1>1. CallsOK /\ \A c \in Calls : call[c].step = "new"
  <2>1. NoCall \in CallRecords /\ NoCall.step = "new"
    BY DEF NoCall, CallRecords, Steps
  <2>. HIDE DEF NoCall
  <2>. QED
    BY <2>1 DEF CallsOK
<1>2. TopicsInv
  BY DEF TopicsInv, TopicsOK, LastSays, Alternates, Topics
<1>3. BeforeInv
  BY DEF BeforeInv
<1>4. ChannelInv
  BY AlertsAssumption DEF ChannelInv, ChannelOK, Gone, LineInv
<1>5. ScrapeTimes
  BY <1>1, AlertsAssumption DEF ScrapeTimes, Calls
<1>6. Recorders = {}
  BY <1>1 DEF Recorders, Calls
<1>7. RingInv
  <2>1. Bucket(0) \in Buckets
    BY DEF Bucket, Buckets
  <2>2. RingOK /\ \A i \in 0..(WindowMinutes - 1) : ring[i] = Bucket(0)
    BY <2>1 DEF RingOK
  <2>. QED
    BY <1>6, <2>2 DEF RingInv, SlotOK
<1>8. ScrapeAlertRight
  BY DEF ScrapeAlertRight
<1>9. StreakInv
  <2>1. active["cookies"] = FALSE /\ ~(streak >= AuthStreak)
    BY AuthAssumption DEF Topics
  <2>2. weighed = <<>> /\ streak = 0 /\ recovery = None
    OBVIOUS
  <2>. QED
    BY <1>1, <2>1, <2>2 DEF StreakInv, StreakOK
<1>. QED
  BY <1>1, <1>2, <1>3, <1>4, <1>5, <1>7, <1>8, <1>9 DEF AlertingInv

LEMMA AlertingGoesOn == AlertingInv /\ [AlertingNext]_alertingVars => AlertingInv'
<1>. SUFFICES ASSUME AlertingInv, [AlertingNext]_alertingVars PROVE AlertingInv'
  OBVIOUS
<1>. USE DEF AlertingInv
<1>1. CallsOK /\ TopicsInv /\ TopicsOK /\ present \in Nat
  BY DEF TopicsInv, ScrapeTimes
<1>2. CallsStep /\ CallsOK'
  BY <1>1, CallsMove DEF CallsStep
<1>3. TopicsStep /\ ChannelStep
  BY <1>1, OneSpeaks, ChannelMoves
<1>4. TopicsInv'
  BY <1>1, <1>3, TopicsKeep
<1>5. BeforeInv'
  BY <1>1, <1>2, <1>3, BeforeKeeps
<1>6. ChannelInv'
  BY <1>1, <1>2, <1>3, ChannelKeeps
<1>7. ScrapeTimes'
  BY <1>1, <1>2, TimesKeep
<1>8. RingInv' /\ ScrapeAlertRight'
  <2>1. ASSUME NEW c \in Scrapes, RecordScrape(c) PROVE RingInv' /\ ScrapeAlertRight'
    <3>1. RingInv'
      BY <1>1, <2>1, RecordKeeps
    <3>2. WindowExact'
      BY <1>2, <1>7, <3>1, WindowLemma, PTL
    <3>. QED
      BY <1>1, <2>1, <3>1, <3>2, RecordAlertsRight
  <2>2. CASE \A c \in Scrapes : ~RecordScrape(c)
    <3>1. ScrapesStay
      BY <1>1, <2>2, OthersStay
    <3>. QED
      BY <1>1, <3>1, RingStays, AlertRightStays DEF RingInv
  <2>. QED
    BY <2>1, <2>2
<1>9. StreakInv'
  BY <1>1, <1>2, StreakKeeps
<1>. QED
  BY <1>2, <1>4, <1>5, <1>6, <1>7, <1>8, <1>9

THEOREM AlertingInvariant == AlertingSpec => []AlertingInv
BY AlertingStarts, AlertingGoesOn, PTL DEF AlertingSpec

(* What the runs check follows. *)
LEMMA AlertingTypes == ASSUME AlertingInv PROVE AlertingTypeOK
<1>1. present \in Nat
  BY DEF AlertingInv, ScrapeTimes
<1>2. call \in [Calls -> [step : {"new", "timed", "counted", "request", "tell", "done"},
                          at : Nat, outcome : ScrapeOutcomes \cup AuthOutcomes \cup {None}]]
  BY DEF AlertingInv, CallsOK, CallRecords, Steps
<1>3. /\ active \in [Topics -> BOOLEAN] /\ lastAlert \in [Topics -> Nat]
      /\ decisions \in [Topics -> Seq([by : Calls, bad : BOOLEAN, at : Nat])]
      /\ priors \in [Calls -> SUBSET Calls]
  BY DEF AlertingInv, TopicsInv, TopicsOK, Decisions
<1>4. /\ queue \in Seq(Calls) /\ Len(queue) <= QueueSize
      /\ sending \in Calls \cup {None} /\ attempt \in 0..SendAttempts
      /\ chat \in Seq(Calls) /\ unsent \subseteq Calls
  BY DEF AlertingInv, ChannelInv, ChannelOK
<1>5. /\ ring \in [0..(WindowMinutes - 1) ->
                    [minute : Nat, success : SUBSET Scrapes, failure : SUBSET Scrapes]]
      /\ latest \in Scrapes \cup {None}
  BY DEF AlertingInv, RingInv, RingOK, Buckets
<1>6. streak \in Nat /\ recovery \in AuthCalls \cup {None} /\ weighed \in Seq(AuthCalls)
  BY DEF AlertingInv, StreakInv, StreakOK
<1>. QED
  BY <1>1, <1>2, <1>3, <1>4, <1>5, <1>6 DEF AlertingTypeOK

(* Alerting has its types, and the channel of Send never holds more than   *)
(* it has room for.                                                        *)
THEOREM AlertingTypeCorrect == AlertingSpec => []AlertingTypeOK
BY AlertingInvariant, AlertingTypes, PTL

(* windowLocked counts each outcome of its minutes once, and no other.     *)
THEOREM WindowCounts == AlertingSpec => []WindowExact
<1>1. AlertingInv => WindowExact
  BY WindowLemma DEF AlertingInv
<1>. QED
  BY <1>1, AlertingInvariant, PTL

(* RecordScrape: the alert says what the newest window does.               *)
THEOREM ScrapeAlertsRight == AlertingSpec => []ScrapeAlertRight
<1>1. AlertingInv => ScrapeAlertRight
  BY DEF AlertingInv
<1>. QED
  BY <1>1, AlertingInvariant, PTL

(* Decisions of RecordScrape, RecordAuthHelperResult and RecordDBError     *)
(* alternate on each topic and repeat no sooner than they may.             *)
THEOREM DecisionsAlternate == AlertingSpec => []AlertsAlternate
<1>1. ASSUME TopicsInv PROVE AlertsAlternate
  <2>1. \A t \in Topics : Alternates(t, Every(t))
    BY <1>1 DEF TopicsInv
  <2>2. /\ "scrape" \in Topics /\ Every("scrape") = RepeatScrape
        /\ "cookies" \in Topics /\ Every("cookies") = RepeatAuth
        /\ "database" \in Topics /\ Every("database") = RepeatDB
    BY DEF Topics, Every
  <2>3. Alternates("scrape", RepeatScrape) /\ Alternates("cookies", RepeatAuth)
        /\ Alternates("database", RepeatDB)
    BY <2>1, <2>2
  <2>. QED
    BY <2>3 DEF AlertsAlternate
<1>2. AlertingInv => AlertsAlternate
  BY <1>1 DEF AlertingInv
<1>. QED
  BY <1>2, AlertingInvariant, PTL

(* Send and Run: no message overtakes one whose call had returned before   *)
(* its own decided.                                                        *)
THEOREM MessagesInOrder == AlertingSpec => []AlertsInOrder
<1>1. AlertingInv => AlertsInOrder
  BY DEF AlertingInv, ChannelInv, LineInv, AlertsInOrder
<1>. QED
  BY <1>1, AlertingInvariant, PTL

(* RecordAuthHelperResult: the alert for the cookies is out exactly when   *)
(* the last AuthStreak calls that were weighed failed because of them.     *)
THEOREM CookieAlertsRight == AlertingSpec => []CookieAlertRight
<1>1. AlertingInv => CookieAlertRight
  BY StreakTells DEF AlertingInv
<1>. QED
  BY <1>1, AlertingInvariant, PTL

(* RecordScrape, RecordAuthHelperResult: each alert is out exactly when it *)
(* should be.                                                              *)
THEOREM AlertsAreRight == AlertingSpec => []AlertsRight
BY WindowCounts, ScrapeAlertsRight, CookieAlertsRight, PTL DEF AlertsRight

(* Send, Run: alerts and recoveries alternate, their messages keep order.  *)
THEOREM AlertsAreTold == AlertingSpec => []AlertsTold
BY DecisionsAlternate, MessagesInOrder, PTL DEF AlertsTold

=============================================================================
