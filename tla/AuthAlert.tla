----------------------------- MODULE AuthAlert ------------------------------
(***************************************************************************)
(* The alerts for cookies that no longer work and for the database         *)
(* (RecordAuthHelperResult and RecordDBError of observability).  A failure *)
(* of the auth helper is counted in one section under the lock and added   *)
(* to the streak in another one.                                           *)
(***************************************************************************)
EXTENDS Alerts

CONSTANTS
  AuthStreak,   \* so many session failures make an alert: 3
  RepeatAuth,   \* it is repeated after so many minutes: 60
  RepeatDB      \* an alert for the database is repeated after so many: 15

ASSUME AuthAssumption == AuthStreak \in Nat \ {0} /\ RepeatAuth \in Nat /\ RepeatDB \in Nat

VARIABLES
  streak,    \* authFailureStreak
  recovery,  \* the call that wrote the request for new cookies, or None
  weighed    \* history: the calls that set or added to the streak, in order

authVars == <<streak, recovery, weighed>>

(* An answer of the auth helper, one it has kept, a failure that comes of  *)
(* the cookies (authSessionError), kept or not, any other failure.         *)
AuthOutcomes == {"success", "cached", "session", "other"}

AuthInit == streak = 0 /\ recovery = None /\ weighed = <<>>

---------------------------------------------------------------------------
BeginAuth(c) ==
  /\ \E outcome \in AuthOutcomes : Learn(c, outcome)
  /\ UNCHANGED authVars

(* Mutant: a success ends the alert and leaves the streak as it is.        *)
AuthSucceedsKeepingStreak(c) ==
  /\ call[c].step = "timed" /\ call[c].outcome \in {"success", "cached"}
  /\ weighed' = Append(weighed, c)
  /\ \/ active["cookies"] /\ Decide(c, "cookies", FALSE, call[c].at) /\ Goto(c, "tell")
     \/ ~active["cookies"] /\ Quiet(c)
  /\ UNCHANGED <<present, queueVars, streak, recovery>>

AuthSucceeds(c) ==
  /\ call[c].step = "timed" /\ call[c].outcome \in {"success", "cached"}
  /\ streak' = 0 /\ weighed' = Append(weighed, c)
  /\ \/ active["cookies"] /\ Decide(c, "cookies", FALSE, call[c].at) /\ Goto(c, "tell")
     \/ ~active["cookies"] /\ Quiet(c)
  /\ UNCHANGED <<present, queueVars, recovery>>

(* The failure is counted; if it does not come of the cookies this is all. *)
AuthFails(c) ==
  /\ call[c].step = "timed"
  /\ \/ call[c].outcome = "session" /\ Goto(c, "counted")
     \/ call[c].outcome = "other" /\ Goto(c, "done")
  /\ UNCHANGED <<present, topicVars, queueVars, authVars>>

(* The second section under the lock.                                      *)
AddToStreak(c) ==
  /\ call[c].step = "counted"
  /\ streak' = streak + 1 /\ weighed' = Append(weighed, c)
  /\ LET shouldAlert == streak' >= AuthStreak /\ Due("cookies", call[c].at, RepeatAuth)
     IN \/ shouldAlert /\ Decide(c, "cookies", TRUE, call[c].at) /\ Goto(c, "request")
        \/ ~shouldAlert /\ Quiet(c)
  /\ UNCHANGED <<present, queueVars, recovery>>

(* requestCookieRecovery: the file is written over, or cannot be written.  *)
RequestRecovery(c) ==
  /\ call[c].step = "request"
  /\ recovery' = c \/ UNCHANGED recovery
  /\ Goto(c, "tell")
  /\ UNCHANGED <<present, topicVars, queueVars, streak, weighed>>

(* RecordDBError reads the clock when it has the lock; at the start the    *)
(* last alert was long ago.                                                *)
RecordDBError(c) ==
  /\ call[c].step = "new"
  /\ \/ /\ Due("database", present, RepeatDB)
        /\ Decide(c, "database", TRUE, present) /\ Goto(c, "tell")
     \/ ~Due("database", present, RepeatDB) /\ Quiet(c)
  /\ UNCHANGED <<present, queueVars, authVars>>

AuthStep ==
  \/ \E c \in AuthCalls :
       BeginAuth(c) \/ AuthSucceeds(c) \/ AuthFails(c) \/ AddToStreak(c) \/ RequestRecovery(c)
  \/ \E c \in DBCalls : RecordDBError(c)

---------------------------------------------------------------------------
(* RecordAuthHelperResult: however the calls' sections follow each other,  *)
(* the alert is out exactly when the last so many calls that were weighed  *)
(* were failures of the cookies.                                           *)
CookieAlertRight ==
  active["cookies"] <=>
    /\ Len(weighed) >= AuthStreak
    /\ \A i \in (Len(weighed) - AuthStreak + 1)..Len(weighed) :
         call[weighed[i]].outcome = "session"
=============================================================================
