---------------------------- MODULE CookiePool ----------------------------
(***************************************************************************)
(* The helper's cookie accounts in memory: the pool that is read from the  *)
(* cookie files and kept for Reload, cooldowns, quarantines (what becomes  *)
(* of their file is in Quarantines), and the threads that use, test and    *)
(* replace cookies.  A thread reads the clock, then the files, and stores  *)
(* the pool in steps of their own, and asks for the quarantines before it  *)
(* takes the lock to choose.  A slot holds the cookies of one account;     *)
(* they are told apart by a version that grows with each replacement.  The *)
(* round robin among the eligible accounts is left open.                   *)
(***************************************************************************)
EXTENDS Absent, Naturals, FiniteSets

CONSTANTS
  Slots,       \* cookie slots, each of an account of its own
  Callers,     \* handler threads
  Reload,      \* COOKIE_POOL_RELOAD_SECONDS
  Cooldown,    \* AUTH_COOLDOWN_SECONDS
  MaxVersions, \* bound: cookies a slot has over time
  MaxPoolTime  \* bound of the clock

ASSUME PoolAssumption ==
  /\ Reload \in Nat \ {0} /\ Cooldown \in Nat \ {0}
  /\ MaxVersions \in Nat /\ MaxPoolTime \in Nat
  /\ None \notin Nat /\ None \notin Slots

VARIABLES
  time,     \* the wall clock
  disk,     \* disk[s]: the version in the cookie file of slot s
  replaced, \* replaced[s][v]: when version v gave way to the next, or None
  pool,     \* cookie_pool: versions by slot
  loadedAt, \* cookie_pool_loaded_at
  cooling,  \* account_cooldowns: until when
  login,    \* account_quarantines: the slots that need login
  caller    \* caller[c]: what a thread is doing

poolVars == <<time, disk, replaced, pool, loadedAt, cooling, login, caller>>

Versions == 0..MaxVersions

(* want: why the accounts are discovered.  barredAll: the slots that have  *)
(* needed login ever since the thread began, which no code keeps.          *)
Idle == [phase |-> "idle", want |-> "none", at |-> 0, seen |-> [s \in Slots |-> None],
         eligible |-> {}, slot |-> None, cookie |-> None, barredAll |-> {}]

PoolInit ==
  /\ time = 0
  /\ disk = [s \in Slots |-> 0]
  /\ replaced = [s \in Slots |-> [v \in Versions |-> None]]
  /\ pool = disk /\ loadedAt = 0
  /\ cooling = [s \in Slots |-> 0]
  /\ login = {}
  /\ caller = [c \in Callers |-> Idle]

---------------------------------------------------------------------------
Become(c, record) == caller' = [caller EXCEPT ![c] = record]

(* Quarantines that are not in force any more are barred to no thread.     *)
Login(slots, c, record) ==
  /\ login' = slots
  /\ caller' = [d \in Callers |->
       [IF d = c THEN record ELSE caller[d] EXCEPT !.barredAll = @ \cap slots]]

Tick ==
  /\ time < MaxPoolTime
  /\ time' = time + 1
  /\ UNCHANGED <<disk, replaced, pool, loadedAt, cooling, login, caller>>

(* discover_cookie_accounts: choosing may find a pool that is young        *)
(* enough; looking up a slot (find_cookie_account) always reads the files. *)
Discover(c, want, slot) ==
  /\ caller[c].phase = "idle"
  /\ LET cached == want = "choose" /\ time - loadedAt < Reload IN
     Become(c, [Idle EXCEPT !.phase = IF cached THEN "discovered" ELSE "reading",
                            !.want = want, !.slot = slot, !.at = time,
                            !.seen = IF cached THEN pool ELSE @,
                            !.barredAll = IF want = "choose" THEN login ELSE {}])
  /\ UNCHANGED <<time, disk, replaced, pool, loadedAt, cooling, login>>

ReadFile(c) ==
  /\ caller[c].phase = "reading"
  /\ \E s \in Slots :
       /\ caller[c].seen[s] = None
       /\ Become(c, [caller[c] EXCEPT !.seen[s] = disk[s]])
  /\ UNCHANGED <<time, disk, replaced, pool, loadedAt, cooling, login>>

(* Mutant: the pool counts as loaded when it is stored.                    *)
StoredWhen(c) == time

(* The clock was read before the files were.                               *)
LoadedWhen(c) == caller[c].at

StorePool(c) ==
  /\ caller[c].phase = "reading"
  /\ \A s \in Slots : caller[c].seen[s] # None
  /\ pool' = caller[c].seen
  /\ loadedAt' = LoadedWhen(c)
  /\ Become(c, IF caller[c].want = "choose" THEN [caller[c] EXCEPT !.phase = "discovered"]
               ELSE [Idle EXCEPT !.phase = "discovered", !.want = caller[c].want,
                                 !.slot = caller[c].slot])
  /\ UNCHANGED <<time, disk, replaced, cooling, login>>

---------------------------------------------------------------------------
(* choose_cookie_account *)

(* Mutant: accounts that need login are left in.                           *)
EligibleAll(c) == Slots

(* account_needs_login is asked account by account; what changes meanwhile *)
(* is in barredAll.                                                        *)
EligibleSlots(c) == Slots \ login

FindEligible(c) ==
  /\ caller[c].phase = "discovered" /\ caller[c].want = "choose"
  /\ Become(c, [caller[c] EXCEPT !.phase = "choosing", !.eligible = EligibleSlots(c)])
  /\ UNCHANGED <<time, disk, replaced, pool, loadedAt, cooling, login>>

(* An eligible account that has cooled down is used; else an error.        *)
Choose(c) ==
  /\ caller[c].phase = "choosing"
  /\ LET rested == {s \in caller[c].eligible : cooling[s] <= time}
     IN  \/ \E s \in rested :
              Become(c, [Idle EXCEPT !.phase = "using", !.slot = s,
                           !.cookie = caller[c].seen[s], !.at = caller[c].at,
                           !.barredAll = caller[c].barredAll])
         \/ rested = {} /\ Become(c, Idle)
  /\ UNCHANGED <<time, disk, replaced, pool, loadedAt, cooling, login>>

(* Instagram's answer is no failure of the account, or it is one and the   *)
(* account cools down before it is quarantined (mark_account_failure).     *)
AnswerFine(c) ==
  /\ caller[c].phase = "using"
  /\ Become(c, Idle)
  /\ UNCHANGED <<time, disk, replaced, pool, loadedAt, cooling, login>>

AnswerBad(c) ==
  /\ caller[c].phase = "using"
  /\ cooling' = [cooling EXCEPT ![caller[c].slot] = time + Cooldown]
  /\ Become(c, [Idle EXCEPT !.phase = "failing", !.slot = caller[c].slot])
  /\ UNCHANGED <<time, disk, replaced, pool, loadedAt, login>>

Quarantined(c) ==
  /\ caller[c].phase = "failing"
  /\ Login(login \cup {caller[c].slot}, c, Idle)
  /\ UNCHANGED <<time, disk, replaced, pool, loadedAt, cooling>>

---------------------------------------------------------------------------
(* test_cookie_homepage: the answer quarantines the account or clears it.  *)
Tested(c) ==
  /\ caller[c].phase = "discovered" /\ caller[c].want = "test"
  /\ \E ok \in BOOLEAN :
       Login(IF ok THEN login \ {caller[c].slot} ELSE login \cup {caller[c].slot}, c, Idle)
  /\ UNCHANGED <<time, disk, replaced, pool, loadedAt, cooling>>

(* update_cookie_slot: a replacement that passes its test gets a file;     *)
(* then the account is freed, the files are read, and it is freed again.   *)
Replace(c) ==
  /\ caller[c].phase = "discovered" /\ caller[c].want = "update"
  /\ LET s == caller[c].slot IN
       /\ disk[s] < MaxVersions
       /\ disk' = [disk EXCEPT ![s] = @ + 1]
       /\ replaced' = [replaced EXCEPT ![s][disk[s]] = time]
  /\ Become(c, [caller[c] EXCEPT !.phase = "freeing"])
  /\ UNCHANGED <<time, pool, loadedAt, cooling, login>>

(* The replacement does not pass, or the test fails for another reason     *)
(* than the account's.                                                     *)
Reject(c) ==
  /\ caller[c].phase = "discovered" /\ caller[c].want \in {"test", "update"}
  /\ Become(c, Idle)
  /\ UNCHANGED <<time, disk, replaced, pool, loadedAt, cooling, login>>

(* clear_cookie_cooldown, then clear_account_quarantine                    *)
Cool(c, next) ==
  /\ cooling' = [cooling EXCEPT ![caller[c].slot] = 0]
  /\ Become(c, [caller[c] EXCEPT !.phase = next])
  /\ UNCHANGED <<time, disk, replaced, pool, loadedAt, login>>

FreeSlot(c) ==
  \/ caller[c].phase = "freeing" /\ Cool(c, "clearing")
  \/ /\ caller[c].phase = "discovered" /\ caller[c].want = "updated"
     /\ Cool(c, "clearing")

ClearSlot(c) ==
  /\ caller[c].phase = "clearing"
  /\ Login(login \ {caller[c].slot}, c,
           IF caller[c].want = "updated" THEN Idle
           ELSE [Idle EXCEPT !.phase = "reading", !.want = "updated",
                             !.slot = caller[c].slot, !.at = time])
  /\ UNCHANGED <<time, disk, replaced, pool, loadedAt, cooling>>

---------------------------------------------------------------------------
CallerStep(c) ==
  \/ ReadFile(c) \/ StorePool(c)
  \/ FindEligible(c) \/ Choose(c)
  \/ AnswerFine(c) \/ AnswerBad(c) \/ Quarantined(c)
  \/ Tested(c) \/ Replace(c) \/ Reject(c)
  \/ FreeSlot(c) \/ ClearSlot(c)

PoolNext ==
  \/ Tick
  \/ \E c \in Callers :
       \/ Discover(c, "choose", None)
       \/ \E s \in Slots, want \in {"test", "update"} : Discover(c, want, s)
       \/ CallerStep(c)

PoolSpec == PoolInit /\ [][PoolNext]_poolVars

---------------------------------------------------------------------------
PoolTypeOK ==
  /\ time \in 0..MaxPoolTime /\ loadedAt \in 0..MaxPoolTime
  /\ pool \in [Slots -> Versions] /\ disk \in [Slots -> Versions]
  /\ login \subseteq Slots
  /\ \A c \in Callers :
       /\ caller[c].seen \in [Slots -> Versions \cup {None}]
       /\ caller[c].slot \in Slots \cup {None}
       /\ caller[c].eligible \subseteq Slots

(* A cookie that a request uses was in its file less than Reload before    *)
(* the request began to choose: neither a slow reading of the files, nor   *)
(* one that stores its older result over a newer one, nor a replacement    *)
(* while the files are read keeps a replaced cookie in use for longer.     *)
UsedCookieRecent ==
  \A c \in Callers :
    caller[c].phase = "using" =>
      LET gone == replaced[caller[c].slot][caller[c].cookie]
      IN  gone = None \/ gone + Reload > caller[c].at

(* An account that has needed login ever since a request began to choose   *)
(* is not used for it, although the quarantines are asked for before the   *)
(* lock is taken.                                                          *)
BarredNotUsed ==
  \A c \in Callers :
    caller[c].phase = "using" => caller[c].slot \notin caller[c].barredAll
=============================================================================
