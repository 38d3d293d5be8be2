---------------------------- MODULE DailyReport ----------------------------
(***************************************************************************)
(* The daily report of observability/manager.go.  Requests count previews  *)
(* one counter after the other and without a common lock; the report loop  *)
(* reads the counters one by one, sends what it read and, once Telegram    *)
(* has confirmed, resets them one by one.  A counter is the set of the     *)
(* previews counted in it; its value is the number of them.                *)
(***************************************************************************)
EXTENDS Naturals, Sequences, FiniteSets

CONSTANTS
  Previews,
  Kind,         \* what a preview is: a member of Kinds
  Post,         \* the post it is of
  MaxDetails,   \* maxDailyDetailEntries
  MaxAttempts   \* defaultTelegramMaxAttempts

Counters == {"requests", "fallback", "details", "messenger"}
Kinds == {"full", "fallback", "messenger"}

ASSUME DailyReportAssumption ==
  /\ Kind \in [Previews -> Kinds]
  /\ DOMAIN Post = Previews
  /\ MaxDetails \in Nat /\ MaxAttempts \in Nat \ {0}

VARIABLES
  counts,      \* counts[k]: the previews counted in k
  next,        \* next[p]: the position in p's route that comes next
  phase,       \* what the report loop does
  at,          \* which counter it reads or resets next, or the attempt
  shown,       \* shown[k]: what the report under way read of k
  late,        \* history: late[k]: counted in k since the report read it
  confirmed,   \* history: what the confirmed reports showed of each counter
  lost,        \* history: what came late and was reset, or had no room
  overlapped   \* history: previews whose recording met a reading or a reset

reportVars == <<counts, next, phase, at, shown, late, confirmed, lost, overlapped>>

(* RecordPreviewWithReason: the outcome of a full preview and of a client  *)
(* that is no messenger go to counters of their own, like these.           *)
Route(p) ==
  IF Kind[p] = "full" THEN <<"requests">>
  ELSE IF Kind[p] = "fallback" THEN <<"requests", "fallback", "details">>
  ELSE <<"requests", "fallback", "details", "messenger">>

(* The order in which DailyReport reads and resetDaily resets them.        *)
ReadOrder == <<"details", "requests", "messenger", "fallback">>
ResetOrder == <<"requests", "fallback", "messenger", "details">>

NothingCounted == [k \in Counters |-> {}]
InFlight == {p \in Previews : next[p] > 1 /\ next[p] <= Len(Route(p))}
Recorded(p, k) == \E i \in 1..(next[p] - 1) : Route(p)[i] = k

ReportInit ==
  /\ counts = NothingCounted
  /\ next = [p \in Previews |-> 1]
  /\ phase = "waiting" /\ at = 1
  /\ shown = NothingCounted /\ late = NothingCounted
  /\ confirmed = NothingCounted /\ lost = NothingCounted /\ overlapped = {}

(* Types, and the bound of the detail maps.                                *)
ReportTypeOK ==
  /\ counts \in [Counters -> SUBSET Previews]
  /\ next \in [Previews -> 1..5]
  /\ phase \in {"waiting", "reading", "sending", "resetting"}
  /\ at \in Nat
  /\ shown \in [Counters -> SUBSET Previews]
  /\ late \in [Counters -> SUBSET Previews]
  /\ confirmed \in [Counters -> SUBSET Previews]
  /\ lost \in [Counters -> SUBSET Previews]
  /\ overlapped \in SUBSET Previews
  /\ Cardinality({Post[p] : p \in counts["details"]}) <= MaxDetails

---------------------------------------------------------------------------
(* Mutant: a map that has reached its size takes one more post.            *)
RoomForOneMore(p) ==
  \/ \E q \in counts["details"] : Post[q] = Post[p]
  \/ Cardinality({Post[q] : q \in counts["details"]}) <= MaxDetails

(* addDailyDetail only adds a post it does not know while there is room.   *)
Room(p) ==
  \/ \E q \in counts["details"] : Post[q] = Post[p]
  \/ Cardinality({Post[q] : q \in counts["details"]}) < MaxDetails

HasRead(k) ==
  \/ phase \in {"sending", "resetting"}
  \/ phase = "reading" /\ \E i \in 1..(at - 1) : ReadOrder[i] = k

Count(p, k) ==
  IF k = "details" /\ ~Room(p)
    THEN /\ lost' = [lost EXCEPT ![k] = @ \cup {p}]
         /\ UNCHANGED <<counts, late>>
    ELSE /\ counts' = [counts EXCEPT ![k] = @ \cup {p}]
         /\ late' = IF HasRead(k) THEN [late EXCEPT ![k] = @ \cup {p}] ELSE late
         /\ UNCHANGED lost

(* One step of RecordPreviewWithReason.                                    *)
Record(p) ==
  /\ next[p] <= Len(Route(p))
  /\ Count(p, Route(p)[next[p]])
  /\ next' = [next EXCEPT ![p] = @ + 1]
  /\ overlapped' = IF phase \in {"reading", "resetting"} THEN overlapped \cup {p}
                   ELSE overlapped
  /\ UNCHANGED <<phase, at, shown, confirmed>>

---------------------------------------------------------------------------
(* Run: once a day, and again a while after a report that failed.          *)
StartReport ==
  /\ phase = "waiting"
  /\ phase' = "reading" /\ at' = 1
  /\ overlapped' = overlapped \cup InFlight
  /\ UNCHANGED <<counts, next, shown, late, confirmed, lost>>

Read ==
  /\ phase = "reading"
  /\ shown' = [shown EXCEPT ![ReadOrder[at]] = counts[ReadOrder[at]]]
  /\ IF at = Len(ReadOrder) THEN phase' = "sending" /\ at' = 1
     ELSE at' = at + 1 /\ UNCHANGED phase
  /\ UNCHANGED <<counts, next, late, confirmed, lost, overlapped>>

(* sendWithRetry: an attempt fails in a way that permits another.          *)
TryAgain ==
  /\ phase = "sending" /\ at < MaxAttempts
  /\ at' = at + 1
  /\ UNCHANGED <<counts, next, phase, shown, late, confirmed, lost, overlapped>>

(* Mutant: the counters are reset whether or not the report got through.   *)
GiveUpAndReset ==
  /\ phase = "sending"
  /\ phase' = "resetting" /\ at' = 1
  /\ overlapped' = overlapped \cup InFlight
  /\ UNCHANGED <<counts, next, shown, late, confirmed, lost>>

(* It was the last attempt, or it fails in a way that does not.            *)
GiveUp ==
  /\ phase = "sending"
  /\ phase' = "waiting" /\ at' = 1
  /\ shown' = NothingCounted /\ late' = NothingCounted
  /\ UNCHANGED <<counts, next, confirmed, lost, overlapped>>

Confirm ==
  /\ phase = "sending"
  /\ confirmed' = [k \in Counters |-> confirmed[k] \cup shown[k]]
  /\ phase' = "resetting" /\ at' = 1
  /\ overlapped' = overlapped \cup InFlight
  /\ UNCHANGED <<counts, next, shown, late, lost>>

(* Mutant: a counter that resetDaily forgets.                              *)
CleanExceptMessenger(k) ==
  /\ lost' = [lost EXCEPT ![k] = @ \cup (counts[k] \cap late[k])]
  /\ counts' = [counts EXCEPT ![k] = IF k = "messenger" THEN @ ELSE {}]

(* Whatever was counted after the report had read the counter is gone.     *)
Clean(k) ==
  /\ lost' = [lost EXCEPT ![k] = @ \cup (counts[k] \cap late[k])]
  /\ counts' = [counts EXCEPT ![k] = {}]

Reset ==
  /\ phase = "resetting"
  /\ Clean(ResetOrder[at])
  /\ IF at = Len(ResetOrder) THEN /\ phase' = "waiting" /\ at' = 1
                                 /\ shown' = NothingCounted /\ late' = NothingCounted
     ELSE at' = at + 1 /\ UNCHANGED <<phase, shown, late>>
  /\ UNCHANGED <<next, confirmed, overlapped>>

ReportNext ==
  \/ \E p \in Previews : Record(p)
  \/ StartReport \/ Read \/ TryAgain \/ GiveUp \/ Confirm \/ Reset

ReportSpec == ReportInit /\ [][ReportNext]_reportVars

(* The loop goes on and every attempt ends; Telegram does not fail every   *)
(* report for ever.                                                        *)
ReportFairness ==
  /\ WF_reportVars(StartReport) /\ WF_reportVars(Read) /\ WF_reportVars(Reset)
  /\ WF_reportVars(TryAgain \/ GiveUp \/ Confirm) /\ SF_reportVars(Confirm)

ReportFairSpec == ReportSpec /\ ReportFairness

---------------------------------------------------------------------------
(* SendDailyReport: what was counted stays counted until a confirmed       *)
(* report has shown it, through failed attempts and reports that are given *)
(* up; only what comes in while a report is under way can get lost.        *)
RetainedUntilConfirmed ==
  \A p \in Previews, k \in Counters :
    Recorded(p, k) => p \in counts[k] \cup confirmed[k] \cup lost[k]

(* No confirmed report shows what an earlier one has shown: outside of     *)
(* resetDaily no counter holds a preview that has been reported.           *)
NothingReportedTwice ==
  \A k \in Counters :
    phase # "resetting" => counts[k] \cap confirmed[k] = {}

(* SendDailyReport and resetDaily: what was counted is in a confirmed      *)
(* report once, or stays for the next one.                                 *)
ReportedExactlyOnce == RetainedUntilConfirmed /\ NothingReportedTwice

(* The counters agree: a preview whose recording met no reading and no     *)
(* reset is counted and reported in all its counters or in none, but for   *)
(* the details, which may have had no room for it.                         *)
Agree(c) ==
  \A p \in Previews \ overlapped : next[p] > Len(Route(p)) =>
    \A i, j \in 1..Len(Route(p)) :
      p \in c[Route(p)[i]] /\ Route(p)[j] # "details" => p \in c[Route(p)[j]]

CountersAgree ==
  /\ phase \in {"waiting", "sending"} => Agree(counts)
  /\ phase = "sending" => Agree(shown)

(* Run: again and again every preview that was counted so far has been     *)
(* shown by a confirmed report, unless it came in while one was under way. *)
EventuallyReported ==
  []<>(\A p \in Previews, k \in Counters :
         Recorded(p, k) => p \in confirmed[k] \cup lost[k])
=============================================================================
