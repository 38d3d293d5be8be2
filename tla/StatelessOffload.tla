-------------------------- MODULE StatelessOffload --------------------------
(***************************************************************************)
(* The stateless offload route (OffloadStateless): a request for one media *)
(* of a post is redirected to the CDN URL of the post's item, or of one    *)
(* that a chain of recovery sources returns.  What a chain found is kept   *)
(* per post for MissTTL, with the reason if it was in vain; chains of      *)
(* posts that share a stripe exclude each other.                           *)
(*                                                                         *)
(* An item is its number of medias and the numbers among them that have a  *)
(* playable URL.                                                           *)
(***************************************************************************)
EXTENDS Absent, Naturals

CONSTANTS
  Offloads,    \* request goroutines
  OffPosts,    \* posts
  Stripe,      \* Stripe[p]: the lock of a post among the 64
  Numbers,     \* media numbers asked for
  OffItems,    \* items: [n |-> medias, playable |-> numbers]
  SourceCount, \* recovery sources: 3 with an auth helper, else 2
  MissTTL,     \* statelessOffloadMissTTL
  MaxNow       \* bound of the clock

ASSUME OffloadAssumption ==
  /\ SourceCount \in Nat /\ MissTTL \in Nat /\ MaxNow \in Nat
  /\ None \notin OffItems /\ None \notin Offloads

VARIABLES
  now,    \* the wall clock
  miss,   \* statelessOffloadMisses: [until, item, final], or None
  lock,   \* statelessOffloadRefreshStripes: the holder, or None
  request \* request[r]: what a goroutine is doing

offloadVars == <<now, miss, lock, request>>

NoRequest == [phase |-> "idle", post |-> None, number |-> 1, at |-> 0,
              best |-> None, tried |-> 0]

OffloadInit ==
  /\ now = 0
  /\ miss = [p \in OffPosts |-> None]
  /\ lock = [s \in {Stripe[p] : p \in OffPosts} |-> None]
  /\ request = [r \in Offloads |-> NoRequest]

---------------------------------------------------------------------------
(* statelessOffloadTarget *)
Playable(item, number) == item # None /\ number \in item.playable

(* richerStatelessOffloadItem *)
Richer(current, candidate) ==
  IF candidate = None THEN current
  ELSE IF current = None \/ candidate.n >= current.n THEN candidate
  ELSE current

(* statelessOffloadMissHit at a reading of the clock.                      *)
Hit(p, at) == miss[p] # None /\ miss[p].until >= at

ForgetOver(p, at) ==
  miss' = IF Hit(p, at) THEN miss ELSE [miss EXCEPT ![p] = None]

(* saveStatelessOffloadMiss *)
SaveMiss(p, item, final, at) ==
  miss' = IF MissTTL = 0 THEN miss
          ELSE [miss EXCEPT ![p] = [until |-> at + MissTTL, item |-> item, final |-> final]]

Go(r, record) == request' = [request EXCEPT ![r] = record]
Answer(r) == Go(r, NoRequest)

MyStripe(r) == Stripe[request[r].post]

---------------------------------------------------------------------------
TickNow == now < MaxNow /\ now' = now + 1 /\ UNCHANGED <<miss, lock, request>>

(* A playable cached item answers, a final miss refuses; else the item is  *)
(* asked of the scraper.                                                   *)
Request(r, p, number) ==
  /\ request[r].phase = "idle"
  /\ ForgetOver(p, now)
  /\ IF Hit(p, now) /\ (Playable(miss[p].item, number) \/ miss[p].final)
     THEN UNCHANGED request
     ELSE Go(r, [NoRequest EXCEPT !.phase = "fetching", !.post = p, !.number = number,
                                  !.at = now])
  /\ UNCHANGED <<now, lock>>

(* offloadGetDataPreferVideoQuiet returns an item, or None for an error.   *)
Fetched(r) ==
  /\ request[r].phase = "fetching"
  /\ \E item \in OffItems \cup {None} :
       IF Playable(item, request[r].number) THEN Answer(r)
       ELSE Go(r, [request[r] EXCEPT !.phase = "unlocked", !.best = item])
  /\ UNCHANGED <<now, miss, lock>>

(* refreshStatelessOffloadTarget looks for a miss before it waits for the  *)
(* lock, with the clock of the request's begin ...                         *)
LookFirst(r) ==
  LET p == request[r].post IN
  /\ request[r].phase = "unlocked"
  /\ ForgetOver(p, request[r].at)
  /\ IF Hit(p, request[r].at) /\ (Playable(miss[p].item, request[r].number) \/ miss[p].final)
     THEN Answer(r)
     ELSE Go(r, [request[r] EXCEPT !.phase = "waiting",
            !.best = IF Hit(p, request[r].at) THEN Richer(@, miss[p].item) ELSE @])
  /\ UNCHANGED <<now, lock>>

Lock(r) ==
  /\ request[r].phase = "waiting"
  /\ lock[MyStripe(r)] = None
  /\ lock' = [lock EXCEPT ![MyStripe(r)] = r]
  /\ Go(r, [request[r] EXCEPT !.phase = "locked", !.at = now])
  /\ UNCHANGED <<now, miss>>

Unlock(r) == lock' = [lock EXCEPT ![MyStripe(r)] = None]

(* Mutant: a miss is not looked for again under the lock.                  *)
LookNever(r) ==
  /\ request[r].phase = "locked"
  /\ Go(r, [request[r] EXCEPT !.phase = "trying"])
  /\ UNCHANGED <<now, miss, lock>>

(* ... and again under it.                                                 *)
LookAgain(r) ==
  LET p == request[r].post
      hit == Hit(p, request[r].at)
      answered == hit /\ (Playable(miss[p].item, request[r].number) \/ miss[p].final)
  IN  /\ request[r].phase = "locked"
      /\ ForgetOver(p, request[r].at)
      /\ \/ answered /\ Answer(r) /\ Unlock(r)
         \/ /\ ~answered
            /\ Go(r, [request[r] EXCEPT !.phase = "trying",
                 !.best = IF hit THEN Richer(@, miss[p].item) ELSE @])
            /\ UNCHANGED lock
      /\ UNCHANGED now

(* The next source fails, or returns an item; the one that has the media   *)
(* ends the chain.                                                         *)
TrySource(r) ==
  /\ request[r].phase = "trying" /\ request[r].tried < SourceCount
  /\ \E item \in OffItems \cup {None} :
       LET best == Richer(request[r].best, item) IN
       \/ /\ Playable(item, request[r].number)
          /\ SaveMiss(request[r].post, best, FALSE, request[r].at)
          /\ Answer(r) /\ Unlock(r)
       \/ /\ ~Playable(item, request[r].number)
          /\ Go(r, [request[r] EXCEPT !.best = best, !.tried = @ + 1])
          /\ UNCHANGED <<miss, lock>>
  /\ UNCHANGED now

(* Mutant: a chain in vain is begun anew.                                  *)
ChainAgain(r) ==
  /\ request[r].phase = "trying" /\ request[r].tried = SourceCount
  /\ Go(r, [request[r] EXCEPT !.tried = 0])
  /\ UNCHANGED <<now, miss, lock>>

(* All failed: the miss counts from when the chain began.                  *)
ChainFails(r) ==
  /\ request[r].phase = "trying" /\ request[r].tried = SourceCount
  /\ SaveMiss(request[r].post, request[r].best, TRUE, request[r].at)
  /\ Answer(r) /\ Unlock(r)
  /\ UNCHANGED now

---------------------------------------------------------------------------
OffloadStep(r) ==
  Fetched(r) \/ LookFirst(r) \/ Lock(r) \/ LookAgain(r) \/ TrySource(r) \/ ChainFails(r)

OffloadNext ==
  \/ TickNow
  \/ \E r \in Offloads :
       \/ \E p \in OffPosts, number \in Numbers : Request(r, p, number)
       \/ OffloadStep(r)

(* Sources end by their timeouts; sync.Mutex gives a waiting goroutine its *)
(* turn (a waiter of more than a millisecond is served first).             *)
OffloadFairness ==
  \A r \in Offloads : WF_offloadVars(OffloadStep(r)) /\ SF_offloadVars(Lock(r))

OffloadSpec == OffloadInit /\ [][OffloadNext]_offloadVars

---------------------------------------------------------------------------
OffloadTypeOK ==
  /\ now \in 0..MaxNow
  /\ \A p \in OffPosts :
       miss[p] # None =>
         /\ miss[p].until \in 0..(MaxNow + MissTTL)
         /\ miss[p].item \in OffItems \cup {None}
  /\ \A r \in Offloads :
       /\ request[r].tried \in 0..SourceCount
       /\ request[r].best \in OffItems \cup {None}

(* The sources are only asked for a post while no final miss of it is in   *)
(* force: a request that found none before it waited for the lock finds    *)
(* the one that the chain ahead of it has left ("a carousel fan-out cannot *)
(* repeat the same upstream recovery chain").                              *)
NoChainDuringMiss ==
  \A r \in Offloads :
    request[r].phase = "trying" =>
      LET m == miss[request[r].post]
      IN  m # None /\ m.final => m.until < request[r].at

(* Every request is answered, also those that wait for a chain of another  *)
(* post on the same stripe.                                                *)
OffloadsAnswered ==
  \A r \in Offloads : request[r].phase # "idle" ~> request[r].phase = "idle"
=============================================================================
