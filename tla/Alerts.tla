------------------------------- MODULE Alerts -------------------------------
(***************************************************************************)
(* How the program tells its operator that something is wrong              *)
(* (observability): a call decides under the manager's lock whether to say *)
(* something, lets go of the lock and only then hands its message to a     *)
(* channel that takes no more than it has room for; one loop takes the     *)
(* messages from it and sends them to Telegram.  What the calls decide on  *)
(* is in ScrapeAlert and AuthAlert.  Telegram is configured.               *)
(***************************************************************************)
EXTENDS Absent, Naturals, Sequences

CONSTANTS
  Scrapes,       \* calls of RecordScrape
  AuthCalls,     \* calls of RecordAuthHelperResult
  DBCalls,       \* calls of RecordDBError
  QueueSize,     \* what the channel holds
  SendAttempts,  \* defaultTelegramMaxAttempts
  StartTime,     \* the minute of the start
  LastMinute,    \* bound of what the clock says
  MaxWait        \* bound of the minutes a scrape waits for the lock

Calls == Scrapes \cup AuthCalls \cup DBCalls

ASSUME AlertsAssumption ==
  /\ Scrapes \cap AuthCalls = {} /\ Scrapes \cap DBCalls = {} /\ AuthCalls \cap DBCalls = {}
  /\ QueueSize \in Nat \ {0} /\ SendAttempts \in Nat \ {0}
  /\ StartTime \in Nat /\ LastMinute \in Nat /\ MaxWait \in Nat
  /\ None \notin Calls

VARIABLES
  present,     \* the minute it is
  call,        \* call[c]: what call c does
  active,      \* active[t]: an alert of topic t is out (alertActive, authAlertActive)
  lastAlert,   \* lastAlert[t]: when it was decided on
  queue,       \* the channel: the calls whose messages wait in it
  sending,     \* the message the loop is sending, or None
  attempt,     \* the attempt it is at
  chat,        \* history: the messages that reached the chat, in order
  unsent,      \* history: messages dropped or given up
  decisions,   \* history: decisions[t]: what was decided to say on t, in order
  priors       \* history: priors[c]: the calls that had returned when c decided

queueVars == <<queue, sending, attempt, chat, unsent>>
topicVars == <<active, lastAlert, decisions, priors>>
alertVars == <<present, call, topicVars, queueVars>>

Topics == {"scrape", "cookies", "database"}
NoCall == [step |-> "new", at |-> 0, outcome |-> None]

AlertsInit ==
  /\ present = StartTime
  /\ call = [c \in Calls |-> NoCall]
  /\ active = [t \in Topics |-> FALSE] /\ lastAlert = [t \in Topics |-> 0]
  /\ queue = <<>> /\ sending = None /\ attempt = 0
  /\ chat = <<>> /\ unsent = {}
  /\ decisions = [t \in Topics |-> <<>>] /\ priors = [c \in Calls |-> {}]

---------------------------------------------------------------------------
(* Time passes.  The sections under the lock are short: a scrape does not  *)
(* wait for it longer than MaxWait.                                        *)
MinutePasses ==
  /\ present < LastMinute
  /\ \A c \in Scrapes : call[c].step = "timed" => present < call[c].at + MaxWait
  /\ present' = present + 1
  /\ UNCHANGED <<call, topicVars, queueVars>>

(* A call knows its outcome and reads the clock, before it has the lock.   *)
Learn(c, outcome) ==
  /\ call[c].step = "new"
  /\ call' = [call EXCEPT ![c] = [step |-> "timed", at |-> present, outcome |-> outcome]]
  /\ UNCHANGED <<present, topicVars, queueVars>>

Goto(c, step) == call' = [call EXCEPT ![c].step = step]

Returned == {c \in Calls : call[c].step = "done"}

(* Nothing to say.                                                         *)
Quiet(c) == Goto(c, "done") /\ UNCHANGED topicVars

(* Mutant: the wait is taken off the wrong one of the two times.           *)
DueEarly(t, now, every) == ~active[t] \/ now + every >= lastAlert[t]

(* An alert is due when none is out, or when the one that is out was       *)
(* decided on long enough ago.                                             *)
Due(t, now, every) == ~active[t] \/ now >= lastAlert[t] + every

(* c decides to say on t that things are bad, or good again.               *)
Decide(c, t, bad, now) ==
  /\ active' = [active EXCEPT ![t] = bad]
  /\ lastAlert' = IF bad THEN [lastAlert EXCEPT ![t] = now] ELSE lastAlert
  /\ decisions' = [decisions EXCEPT ![t] = Append(@, [by |-> c, bad |-> bad, at |-> now])]
  /\ priors' = [priors EXCEPT ![c] = Returned]

---------------------------------------------------------------------------
(* Mutant: the newest message goes in front.                               *)
TellFirst(c) ==
  /\ call[c].step = "tell" /\ Goto(c, "done")
  /\ IF Len(queue) < QueueSize THEN queue' = <<c>> \o queue /\ UNCHANGED unsent
     ELSE unsent' = unsent \cup {c} /\ UNCHANGED queue
  /\ UNCHANGED <<present, topicVars, sending, attempt, chat>>

(* Send: the message is dropped when the channel is full.                  *)
Tell(c) ==
  /\ call[c].step = "tell" /\ Goto(c, "done")
  /\ IF Len(queue) < QueueSize THEN queue' = Append(queue, c) /\ UNCHANGED unsent
     ELSE unsent' = unsent \cup {c} /\ UNCHANGED queue
  /\ UNCHANGED <<present, topicVars, sending, attempt, chat>>

(* The loop of Run.                                                        *)
TakeMessage ==
  /\ sending = None /\ queue # <<>>
  /\ sending' = Head(queue) /\ queue' = Tail(queue) /\ attempt' = 1
  /\ UNCHANGED <<present, call, topicVars, chat, unsent>>

Arrives == chat' = Append(chat, sending)

(* Mutant: the attempts start again after the last one.                    *)
SendForEver ==
  /\ sending # None
  /\ attempt' = IF attempt < SendAttempts THEN attempt + 1 ELSE 1
  /\ UNCHANGED <<present, call, topicVars, queue, sending, chat, unsent>>

(* sendWithRetry: an attempt fails in a way that permits another; without  *)
(* an answer the message may have arrived all the same.                    *)
SendAgain ==
  /\ sending # None /\ attempt < SendAttempts
  /\ attempt' = attempt + 1
  /\ Arrives \/ UNCHANGED chat
  /\ UNCHANGED <<present, call, topicVars, queue, sending, unsent>>

(* It was the last one, or it fails in a way that does not.                *)
GiveUpMessage ==
  /\ sending # None
  /\ Arrives \/ UNCHANGED chat
  /\ unsent' = unsent \cup {sending} /\ sending' = None /\ attempt' = 0
  /\ UNCHANGED <<present, call, topicVars, queue>>

Confirmed ==
  /\ sending # None
  /\ Arrives /\ sending' = None /\ attempt' = 0
  /\ UNCHANGED <<present, call, topicVars, queue, unsent>>

Sending == SendAgain \/ GiveUpMessage \/ Confirmed

AlertStep == MinutePasses \/ TakeMessage \/ Sending \/ (\E c \in Calls : Tell(c))

---------------------------------------------------------------------------
(* RecordScrape, RecordAuthHelperResult, RecordDBError: on one topic only  *)
(* an alert is followed by a recovery, and an alert that is not preceded   *)
(* by one repeats the alert before it no sooner than every minutes after,  *)
(* as the calls that decided on them read the clock.                       *)
Alternates(t, every) ==
  \A n \in DOMAIN decisions[t] :
    LET now == decisions[t][n] earlier == decisions[t][n - 1]
    IN /\ ~now.bad => n > 1 /\ earlier.bad
       /\ now.bad /\ n > 1 /\ earlier.bad => now.at >= earlier.at + every

(* Send, Run: a message does not overtake another one on its way.  When a  *)
(* call had returned before another one decided, what the other one says   *)
(* never stands before what it said itself.                                *)
AlertsInOrder ==
  \A i, j \in DOMAIN chat : i < j => chat[j] \notin priors[chat[i]]

(* Send, Run: every message that was decided on gets to the chat, or is    *)
(* dropped at a full channel, or given up after its attempts.              *)
AlertsSettle ==
  \A c \in Calls :
    call[c].step = "tell" ~>
      call[c].step = "done" /\ (c \in unsent \/ \E i \in DOMAIN chat : chat[i] = c)
=============================================================================
