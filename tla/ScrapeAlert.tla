---------------------------- MODULE ScrapeAlert -----------------------------
(***************************************************************************)
(* The alert for failing scrapes (RecordScrape of observability): the      *)
(* outcomes of the last minutes are kept in a ring with a bucket for each  *)
(* minute, and the alert follows what the ring says.  A call that has read *)
(* the clock may get the lock after one that read it a minute later.  A    *)
(* bucket's numbers are those of the members of its sets.                  *)
(***************************************************************************)
EXTENDS Alerts, FiniteSets

CONSTANTS
  WindowMinutes,  \* the size of the ring, and the minutes it looks back: 15
  MinOutage,      \* so many outcomes without a success are an outage: 5
  MinRate,        \* so many outcomes make a rate: 10
  RepeatScrape    \* the alert is repeated after so many minutes: 30

ASSUME ScrapeAssumption ==
  /\ WindowMinutes \in Nat \ {0} /\ MaxWait < WindowMinutes /\ StartTime >= WindowMinutes
  /\ MinOutage \in Nat /\ MinRate \in Nat /\ RepeatScrape \in Nat

VARIABLES
  ring,     \* the buckets
  latest    \* history: the call that recorded its outcome last

scrapeVars == <<ring, latest>>

ScrapeOutcomes == {"success", "failure", "restricted"}

Bucket(minute) == [minute |-> minute, success |-> {}, failure |-> {}]

ScrapeInit ==
  /\ ring = [i \in 0..(WindowMinutes - 1) |-> Bucket(0)]
  /\ latest = None

---------------------------------------------------------------------------
(* The bucket of a minute takes the place of the one that many before it.  *)
(* What Instagram shows nobody is no failure of the program.               *)
With(b, c) ==
  [b EXCEPT !.success = IF call[c].outcome = "success" THEN @ \cup {c} ELSE @,
            !.failure = IF call[c].outcome = "failure" THEN @ \cup {c} ELSE @]

(* Mutant: whatever the bucket holds is taken for the present minute's.    *)
RecordedKeepingOld(c) ==
  LET i == call[c].at % WindowMinutes
  IN [ring EXCEPT ![i] = With([@ EXCEPT !.minute = call[c].at], c)]

RecordedIn(c) ==
  LET i == call[c].at % WindowMinutes
  IN [ring EXCEPT ![i] = With(IF @.minute = call[c].at THEN @ ELSE Bucket(call[c].at), c)]

(* windowLocked.                                                           *)
InWindow(b, minute) == b.minute + WindowMinutes > minute /\ b.minute <= minute

(* The successes of the window, and the failures, which the message lists  *)
(* by post (failureDetailsLocked).                                         *)
Successes(r, minute) == UNION {r[i].success : i \in {j \in DOMAIN r : InWindow(r[j], minute)}}
Failures(r, minute) == UNION {r[i].failure : i \in {j \in DOMAIN r : InWindow(r[j], minute)}}

(* More than three of ten fail, or no scrape succeeds.                     *)
Degraded(s, f) ==
  LET outcomes == Cardinality(s) + Cardinality(f)
  IN \/ outcomes >= MinRate /\ 10 * Cardinality(f) > 3 * outcomes
     \/ outcomes >= MinOutage /\ Cardinality(s) = 0

(* Mutant: a success ends the alert whatever the others come to.           *)
ScrapeSpeaksTooSoon(c, s, f, now) ==
  LET shouldAlert == Degraded(s, f) /\ Due("scrape", now, RepeatScrape)
      recovered == active["scrape"] /\ call[c].outcome = "success"
  IN \/ recovered /\ Decide(c, "scrape", FALSE, now) /\ Goto(c, "tell")
     \/ ~recovered /\ shouldAlert /\ Decide(c, "scrape", TRUE, now) /\ Goto(c, "tell")
     \/ ~recovered /\ ~shouldAlert /\ Quiet(c)

ScrapeSpeaks(c, s, f, now) ==
  LET bad == Degraded(s, f)
      shouldAlert == bad /\ Due("scrape", now, RepeatScrape)
      recovered == active["scrape"] /\ Cardinality(s) > 0 /\ ~bad
  IN \/ shouldAlert /\ Decide(c, "scrape", TRUE, now) /\ Goto(c, "tell")
     \/ recovered /\ Decide(c, "scrape", FALSE, now) /\ Goto(c, "tell")
     \/ ~shouldAlert /\ ~recovered /\ Quiet(c)

(* The section of RecordScrape under the lock.                             *)
RecordScrape(c) ==
  /\ call[c].step = "timed"
  /\ ring' = RecordedIn(c) /\ latest' = c
  /\ LET now == call[c].at
     IN ScrapeSpeaks(c, Successes(ring', now), Failures(ring', now), now)
  /\ UNCHANGED <<present, queueVars>>

BeginScrape(c) ==
  /\ \E outcome \in ScrapeOutcomes : Learn(c, outcome)
  /\ UNCHANGED scrapeVars

ScrapeStep == \E c \in Scrapes : BeginScrape(c) \/ RecordScrape(c)

---------------------------------------------------------------------------
Recorders == {c \in Scrapes : call[c].step \notin {"new", "timed"}}
IsNewest(c) == c \in Recorders /\ \A d \in Recorders : call[d].at <= call[c].at

(* The scrapes of the last minutes up to minute that had an outcome.       *)
Ended(outcome, minute) ==
  {c \in Recorders :
     /\ call[c].outcome = outcome
     /\ call[c].at + WindowMinutes > minute /\ call[c].at <= minute}

(* windowLocked: whatever order the scrapes got the lock in, and whatever  *)
(* the ring's buckets were used for before, the window up to the newest    *)
(* minute counts each outcome of these minutes, once, and no other.        *)
WindowExact ==
  /\ \A c \in Scrapes : IsNewest(c) =>
       /\ Successes(ring, call[c].at) = Ended("success", call[c].at)
       /\ Failures(ring, call[c].at) = Ended("failure", call[c].at)
  /\ \A i, j \in DOMAIN ring : i # j =>
       (ring[i].success \cup ring[i].failure) \cap (ring[j].success \cup ring[j].failure) = {}

(* RecordScrape: once an outcome no older than any other is recorded the   *)
(* alert is out if the scrapes of the last minutes are degraded, and it is *)
(* not out if they are not and one of them succeeded.                      *)
ScrapeAlertRight ==
  latest # None /\ IsNewest(latest) =>
    LET now == call[latest].at
        s == Ended("success", now)
        f == Ended("failure", now)
    IN /\ Degraded(s, f) => active["scrape"]
       /\ active["scrape"] /\ Cardinality(s) > 0 => Degraded(s, f)
=============================================================================
