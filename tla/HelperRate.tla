---------------------------- MODULE HelperRate ----------------------------
(***************************************************************************)
(* The helper's limits per minute (allow_request, allow_auth_request).  A  *)
(* thread reads the minute before it takes the lock, and the window is     *)
(* set to whatever minute the thread brings: one that comes late sets it   *)
(* back, and both minutes start to count anew.                             *)
(***************************************************************************)
EXTENDS Absent, Naturals

CONSTANTS
  Askers,      \* handler threads
  PerMinute,   \* MAX_PER_MINUTE, AUTH_MAX_PER_MINUTE
  MaxMinute,   \* bound of the clock
  MaxRequests  \* bound: how many requests there are

ASSUME RateAssumption ==
  PerMinute \in Nat /\ MaxMinute \in Nat /\ MaxRequests \in Nat

VARIABLES
  minute,   \* the clock
  window,   \* rate_window
  count,    \* rate_count
  reading,  \* reading[a]: the minute a thread has read, or None
  granted,  \* granted[m]: requests let through that read minute m
  late,     \* requests that set the window back
  asked     \* requests so far

rateVars == <<minute, window, count, reading, granted, late, asked>>

RateInit ==
  /\ minute = 0 /\ window = 0 /\ count = 0
  /\ reading = [a \in Askers |-> None]
  /\ granted = [m \in 0..MaxMinute |-> 0]
  /\ late = 0 /\ asked = 0

NextMinute ==
  /\ minute < MaxMinute
  /\ minute' = minute + 1
  /\ UNCHANGED <<window, count, reading, granted, late, asked>>

ReadMinute(a) ==
  /\ reading[a] = None
  /\ asked < MaxRequests
  /\ asked' = asked + 1
  /\ reading' = [reading EXCEPT ![a] = minute]
  /\ UNCHANGED <<minute, window, count, granted, late>>

(* Mutant: the limit itself is let through.                                *)
FullOnce(n) == n > PerMinute

Full(n) == n >= PerMinute

TakeLock(a) ==
  /\ reading[a] # None
  /\ LET m == reading[a]
         n == IF m # window THEN 0 ELSE count
     IN  /\ window' = m
         /\ late' = IF m < window THEN late + 1 ELSE late
         /\ count' = IF Full(n) THEN n ELSE n + 1
         /\ granted' = IF Full(n) THEN granted ELSE [granted EXCEPT ![m] = @ + 1]
  /\ reading' = [reading EXCEPT ![a] = None]
  /\ UNCHANGED <<minute, asked>>

RateNext ==
  \/ NextMinute
  \/ \E a \in Askers : ReadMinute(a) \/ TakeLock(a)

RateSpec == RateInit /\ [][RateNext]_rateVars

(* No minute lets through more than its limit, once more for each request  *)
(* that took the lock after the next minute had begun.                     *)
MinuteBudget ==
  \A m \in 0..MaxMinute : granted[m] <= PerMinute * (1 + late)
=============================================================================
