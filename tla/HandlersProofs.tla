--------------------------- MODULE HandlersProofs ---------------------------
(***************************************************************************)
(* What serves medias, for any number of requests: the breaker of the      *)
(* OGInstagram proxy (CircuitBreaker), the offload of a post's medias      *)
(* (StatelessOffload), the compact videos (CompactAV), the fetches through *)
(* the public proxies (ProxyPool), the video streams of the auth helper    *)
(* (VideoProxy), and in the end all parts of Handlers together.            *)
(***************************************************************************)
EXTENDS Handlers, ObservabilityProofs, FiniteSetTheorems, SequenceTheorems, TLAPS

---------------------------------------------------------------------------
(* The circuit breaker.  The conjunction of its three invariants is        *)
(* inductive: a probe gives its slot back when it leaves (TypeOK knows     *)
(* that only requests upstream are probes), and whoever resets the         *)
(* failures also closes the circuit.                                       *)

BreakerInv == TypeOK /\ OpenIffFailing /\ ProbeHasOwner

(* The initial state satisfies the invariant. *)
LEMMA BreakerInit == Init => BreakerInv
<1> SUFFICES ASSUME Init PROVE BreakerInv
  OBVIOUS
<1>. USE BreakerAssumption DEF Init
<1>1. TypeOK
  <2>1. failures \in 0..Threshold
    OBVIOUS
  <2>2. probe \in BOOLEAN /\ open \in 0..Cooldown \cup {None}
    OBVIOUS
  <2>3. pc \in [Requests -> {"idle", "ask", "upstream", "refused"}]
    OBVIOUS
  <2>4. manual \subseteq Requests /\ probers \subseteq {r \in Requests \ manual : pc[r] = "upstream"}
    OBVIOUS
  <2>. QED
    BY ONLY <2>1, <2>2, <2>3, <2>4 DEF TypeOK
<1>2. OpenIffFailing /\ ProbeHasOwner
  BY DEF OpenIffFailing, ProbeHasOwner
<1>. QED
  BY <1>1, <1>2 DEF BreakerInv

(* Every step preserves the invariant. *)
LEMMA BreakerNextInv == BreakerInv /\ [Next]_vars => BreakerInv'
<1> SUFFICES ASSUME BreakerInv, [Next]_vars PROVE BreakerInv'
  OBVIOUS
<1>. USE BreakerAssumption DEF BreakerInv, TypeOK, Move
<1>1. ASSUME NEW r \in Requests, Arrive(r) PROVE BreakerInv'
  BY <1>1 DEF Arrive, OpenIffFailing, ProbeHasOwner
<1>2. ASSUME NEW r \in Requests, Allow(r) \/ Refuse(r) \/ FallBack(r) PROVE BreakerInv'
  BY <1>2 DEF Allow, Refuse, FallBack, OpenIffFailing, ProbeHasOwner
<1>3. ASSUME NEW r \in Requests, AllowProbe(r) PROVE BreakerInv'
  BY <1>3 DEF AllowProbe, CooledDown, OpenIffFailing, ProbeHasOwner
<1>4. ASSUME NEW r \in Requests, Finish(r) PROVE BreakerInv'
  <2>1. Leave(r)
    BY <1>4 DEF Finish, Release, Fail, Succeed
  <2>2. /\ pc' \in [Requests -> {"idle", "ask", "upstream", "refused"}]
        /\ manual' \subseteq Requests
        /\ probers' \subseteq {s \in Requests \ manual' : pc'[s] = "upstream"}
    BY <2>1 DEF Leave
  <2>3. CASE r \in manual
    <3>1. UNCHANGED breaker
      BY <1>4, <2>3 DEF Finish, Release, Fail, Succeed, breaker
    <3>2. probers' = probers
      BY <2>1, <2>3 DEF Leave
    <3>. QED
      BY <2>2, <3>1, <3>2 DEF breaker, OpenIffFailing, ProbeHasOwner
  <2>4. CASE r \notin manual
    <3>1. probe' = FALSE
      BY <1>4, <2>4 DEF Finish, Release, Fail, Succeed
    <3>2. /\ failures' \in 0..Threshold
          /\ open' \in 0..Cooldown \cup {None}
          /\ open' # None <=> failures' = Threshold
      BY <1>4, <2>4 DEF Finish, Release, Fail, Succeed, OpenIffFailing
    <3>. QED
      BY <2>2, <3>1, <3>2 DEF OpenIffFailing, ProbeHasOwner
  <2>. QED
    BY <2>3, <2>4
<1>5. CASE Tick
  BY <1>5 DEF Tick, OpenIffFailing, ProbeHasOwner
<1>6. CASE UNCHANGED vars
  BY <1>6 DEF vars, OpenIffFailing, ProbeHasOwner
<1>. QED
  BY <1>1, <1>2, <1>3, <1>4, <1>5, <1>6 DEF Next, Handle

(* The invariant holds in every reachable state. *)
LEMMA BreakerInvariant == Spec => []BreakerInv
<1>. QED
  BY BreakerInit, BreakerNextInv, PTL DEF Spec

(* Every reachable state of the breaker is well typed, and only requests   *)
(* of the mode that are upstream count as probes.                          *)
THEOREM BreakerTypeCorrect == Spec => []TypeOK
<1>1. BreakerInv => TypeOK
  BY DEF BreakerInv
<1>. QED
  BY BreakerInvariant, <1>1, PTL

(* The probe slot always has an owner that will give it back, for any      *)
(* number of requests and any threshold and cooldown.                      *)
THEOREM ProbeSlotKept == Spec => []ProbeHasOwner
<1>1. BreakerInv => ProbeHasOwner
  BY DEF BreakerInv
<1>. QED
  BY BreakerInvariant, <1>1, PTL

(* The circuit is open exactly while Threshold failures stand against it.  *)
THEOREM OpenMeansFailing == Spec => []OpenIffFailing
<1>1. BreakerInv => OpenIffFailing
  BY DEF BreakerInv
<1>. QED
  BY BreakerInvariant, <1>1, PTL

---------------------------------------------------------------------------
(* The offload of a post's medias. *)

OffloadPhases == {"idle", "fetching", "unlocked", "waiting", "locked", "trying"}

OffloadRecords ==
  [phase : OffloadPhases, post : OffPosts \cup {None}, number : Numbers \cup {1}, at : 0..MaxNow,
   best : OffItems \cup {None}, tried : 0..SourceCount]

Holds(q) == q.phase \in {"locked", "trying"}

MissType(m) ==
  m # None => m.until \in 0..(MaxNow + MissTTL) /\ m.item \in OffItems \cup {None}

OffloadTyped ==
  /\ now \in 0..MaxNow
  /\ miss = [p \in OffPosts |-> miss[p]] /\ \A p \in OffPosts : MissType(miss[p])
  /\ lock = [s \in {Stripe[p] : p \in OffPosts} |-> lock[s]]
  /\ request \in [Offloads -> OffloadRecords]

(* Whoever looks for a miss under the lock or asks sources has the lock of *)
(* its post, so that no other does so for any post of the stripe.          *)
Locked ==
  \A r \in Offloads :
    /\ request[r].phase # "idle" => request[r].post \in OffPosts
    /\ Holds(request[r]) => lock[MyStripe(r)] = r

OffloadInv == OffloadTyped /\ Locked /\ NoChainDuringMiss

(* No final miss that is in force at the clock of q's last look.           *)
Clear(q, m) == m # None /\ m.final => m.until < q.at

---------------------------------------------------------------------------
(* A step of r that changes no miss but that of its post, of which nobody  *)
(* else asks sources.                                                      *)
LEMMA OwnStep ==
  ASSUME OffloadInv, NEW r \in Offloads, NEW q \in OffloadRecords,
         request' = [request EXCEPT ![r] = q], OffloadTyped',
         q.phase # "idle" => q.post \in OffPosts,
         Holds(q) => lock'[Stripe[q.post]] = r,
         \A u \in Offloads \ {r} : Holds(request[u]) => lock'[MyStripe(u)] = lock[MyStripe(u)],
         \A u \in Offloads \ {r} : request[u].phase = "trying" =>
            miss'[request[u].post] = miss[request[u].post] \/ miss'[request[u].post] = None,
         q.phase = "trying" => Clear(q, miss'[q.post])
  PROVE  OffloadInv'
<1>1. request'[r] = q /\ \A u \in Offloads \ {r} : request'[u] = request[u]
  BY DEF OffloadInv, OffloadTyped
<1>2. Locked'
  BY <1>1 DEF OffloadInv, Locked, MyStripe
<1>3. NoChainDuringMiss'
  <2> SUFFICES ASSUME NEW u \in Offloads, request'[u].phase = "trying"
               PROVE  Clear(request'[u], miss'[request'[u].post])
    BY DEF NoChainDuringMiss, Clear
  <2>1. CASE u = r
    BY <1>1, <2>1
  <2>2. CASE u # r
    BY <1>1, <2>2 DEF OffloadInv, NoChainDuringMiss, Clear
  <2> QED BY <2>1, <2>2
<1> QED BY <1>2, <1>3 DEF OffloadInv

(* What ForgetOver leaves of a miss, and what SaveMiss makes of it.        *)
LEMMA ForgetMiss == ASSUME OffloadInv, NEW p \in OffPosts, NEW t, ForgetOver(p, t)
  PROVE /\ miss' = [x \in OffPosts |-> miss'[x]]
        /\ \A x \in OffPosts : MissType(miss'[x]) /\ (miss'[x] = miss[x] \/ miss'[x] = None)
        /\ Hit(p, t) => miss' = miss
        /\ ~Hit(p, t) => miss'[p] = None
  BY DEF OffloadInv, OffloadTyped, MissType, ForgetOver

LEMMA SavedMiss ==
  ASSUME OffloadInv, NEW p \in OffPosts, NEW t \in 0..MaxNow, NEW item \in OffItems \cup {None}, NEW final,
         SaveMiss(p, item, final, t)
  PROVE /\ miss' = [x \in OffPosts |-> miss'[x]]
        /\ \A x \in OffPosts : MissType(miss'[x]) /\ (x # p => miss'[x] = miss[x])
<1>1. t + MissTTL \in 0..(MaxNow + MissTTL)
  BY OffloadAssumption
<1> DEFINE m == [until |-> t + MissTTL, item |-> item, final |-> final]
<1>2. MissType(m)
  BY <1>1 DEF MissType
<1>3. miss' = miss \/ miss' = [miss EXCEPT ![p] = m]
  BY DEF SaveMiss
<1> HIDE DEF m
<1> QED BY <1>2, <1>3 DEF OffloadInv, OffloadTyped

(* The richer of two items is one of them.                                 *)
LEMMA RicherType == ASSUME NEW a \in OffItems \cup {None}, NEW b \in OffItems \cup {None}
  PROVE Richer(a, b) \in OffItems \cup {None}
  BY DEF Richer

(* The record of an idle goroutine.                                        *)
LEMMA IdleRecord == NoRequest \in OffloadRecords
  BY OffloadAssumption DEF NoRequest, OffloadRecords, OffloadPhases

---------------------------------------------------------------------------
(* A request begins, or a kept miss answers it.                            *)
LEMMA RequestStep ==
  ASSUME OffloadInv, NEW r \in Offloads, NEW p \in OffPosts, NEW number \in Numbers, Request(r, p, number)
  PROVE  OffloadInv'
<1> DEFINE q == [NoRequest EXCEPT !.phase = "fetching", !.post = p, !.number = number, !.at = now]
<1>1. q \in OffloadRecords /\ q.phase = "fetching" /\ q.post = p
  BY IdleRecord DEF OffloadRecords, OffloadPhases, OffloadInv, OffloadTyped
<1>2. request[r] \in OffloadRecords /\ request[r].phase = "idle" /\ request \in [Offloads -> OffloadRecords]
  BY DEF Request, OffloadInv, OffloadTyped
<1>3. /\ miss' = [x \in OffPosts |-> miss'[x]]
      /\ \A x \in OffPosts : MissType(miss'[x]) /\ (miss'[x] = miss[x] \/ miss'[x] = None)
  BY ForgetMiss DEF Request
<1>4. UNCHANGED <<now, lock>>
  BY DEF Request
<1>5. ASSUME NEW x \in {q, request[r]}, request' = [request EXCEPT ![r] = x] PROVE OffloadInv'
  <2>1. x \in OffloadRecords /\ ~Holds(x) /\ x.phase # "trying" /\ (x.phase # "idle" => x.post \in OffPosts)
    <3> HIDE DEF q
    <3> QED BY <1>1, <1>2 DEF Holds
  <2>2. OffloadTyped'
    BY <1>3, <1>4, <1>5, <2>1 DEF OffloadInv, OffloadTyped
  <2>3. \A u \in Offloads \ {r} : request[u].phase = "trying" => request[u].post \in OffPosts
    BY DEF OffloadInv, Locked
  <2>4. \A u \in Offloads \ {r} : Holds(request[u]) => lock'[MyStripe(u)] = lock[MyStripe(u)]
    BY <1>4
  <2> QED BY <1>3, <1>5, <2>1, <2>2, <2>3, <2>4, OwnStep
<1>6. request' = [request EXCEPT ![r] = q] \/ request' = [request EXCEPT ![r] = request[r]]
  BY <1>2 DEF Request, Go
<1> QED BY <1>5, <1>6

(* A step that touches neither a miss nor a lock.                          *)
LEMMA PlainStep ==
  ASSUME OffloadInv, NEW r \in Offloads, NEW q \in OffloadRecords, request' = [request EXCEPT ![r] = q],
         UNCHANGED <<now, miss, lock>>, ~Holds(q),
         q.phase # "idle" => q.post \in OffPosts
  PROVE  OffloadInv'
<1>1. OffloadTyped'
  BY DEF OffloadInv, OffloadTyped
<1>2. q.phase # "trying"
  BY DEF Holds
<1> QED BY <1>1, <1>2, OwnStep

(* The scraper's item answers, or a chain is needed.                       *)
LEMMA FetchedStep == ASSUME OffloadInv, NEW r \in Offloads, Fetched(r) PROVE OffloadInv'
<1>1. PICK item \in OffItems \cup {None} :
       IF Playable(item, request[r].number) THEN Answer(r)
       ELSE Go(r, [request[r] EXCEPT !.phase = "unlocked", !.best = item])
  BY DEF Fetched
<1> DEFINE q == [request[r] EXCEPT !.phase = "unlocked", !.best = item]
<1>2. request[r] \in OffloadRecords /\ request[r].post \in OffPosts
  BY DEF Fetched, OffloadInv, OffloadTyped, Locked
<1>3. q \in OffloadRecords /\ q.phase = "unlocked" /\ q.post \in OffPosts
  BY <1>2 DEF OffloadRecords, OffloadPhases
<1>4. NoRequest.phase = "idle"
  BY DEF NoRequest
<1>5. request' = [request EXCEPT ![r] = q] \/ request' = [request EXCEPT ![r] = NoRequest]
  BY <1>1 DEF Answer, Go
<1>6. UNCHANGED <<now, miss, lock>>
  BY DEF Fetched
<1> HIDE DEF q
<1> QED BY <1>3, <1>4, <1>5, <1>6, IdleRecord, PlainStep DEF Holds

(* The lock was free, so nobody else holds it.                             *)
LEMMA LockStep == ASSUME OffloadInv, NEW r \in Offloads, Lock(r) PROVE OffloadInv'
<1> DEFINE q == [request[r] EXCEPT !.phase = "locked", !.at = now]
<1>1. /\ request[r] \in OffloadRecords /\ request[r].post \in OffPosts /\ lock[MyStripe(r)] = None
      /\ now \in 0..MaxNow
  BY DEF Lock, OffloadInv, OffloadTyped, Locked
<1>2. q \in OffloadRecords /\ q.phase = "locked" /\ q.post = request[r].post
  BY <1>1 DEF OffloadRecords, OffloadPhases
<1>3. request' = [request EXCEPT ![r] = q] /\ lock' = [lock EXCEPT ![MyStripe(r)] = r]
      /\ UNCHANGED <<now, miss>>
  BY DEF Lock, Go
<1> HIDE DEF q
<1>4. OffloadTyped'
  BY <1>2, <1>3 DEF OffloadInv, OffloadTyped
<1>5. lock'[Stripe[q.post]] = r
  BY <1>1, <1>2, <1>3 DEF OffloadInv, OffloadTyped, MyStripe
<1>6. \A u \in Offloads \ {r} : Holds(request[u]) => lock'[MyStripe(u)] = lock[MyStripe(u)]
  <2> SUFFICES ASSUME NEW u \in Offloads \ {r}, Holds(request[u])
               PROVE  lock'[MyStripe(u)] = lock[MyStripe(u)]
    OBVIOUS
  <2>1. lock[MyStripe(u)] = u /\ request[u].post \in OffPosts
    BY DEF OffloadInv, Locked, Holds
  <2>2. MyStripe(u) # MyStripe(r)
    BY <1>1, <2>1, OffloadAssumption
  <2> QED BY <1>3, <2>1, <2>2 DEF MyStripe, OffloadInv, OffloadTyped
<1> QED BY <1>1, <1>2, <1>3, <1>4, <1>5, <1>6, OwnStep

(* The look for a miss before the lock.                                    *)
LEMMA LookFirstStep == ASSUME OffloadInv, NEW r \in Offloads, LookFirst(r) PROVE OffloadInv'
<1> DEFINE p == request[r].post
           best == IF Hit(p, request[r].at) THEN Richer(request[r].best, miss[p].item)
                   ELSE request[r].best
           q == [request[r] EXCEPT !.phase = "waiting", !.best = best]
<1>1. request[r] \in OffloadRecords /\ p \in OffPosts /\ MissType(miss[p])
  BY DEF LookFirst, OffloadInv, OffloadTyped, Locked
<1>2. best \in OffItems \cup {None}
  BY <1>1, RicherType DEF MissType, Hit, OffloadRecords
<1>3. UNCHANGED <<now, lock>> /\ ForgetOver(p, request[r].at)
      /\ (request' = [request EXCEPT ![r] = q] \/ request' = [request EXCEPT ![r] = NoRequest])
  BY DEF LookFirst, Answer, Go
<1> HIDE DEF best
<1>4. q \in OffloadRecords /\ q.phase = "waiting" /\ q.post = p
  BY <1>1, <1>2 DEF OffloadRecords, OffloadPhases
<1> HIDE DEF q, p
<1>5. NoRequest \in OffloadRecords /\ NoRequest.phase = "idle"
  BY IdleRecord DEF NoRequest
<1>6. /\ miss' = [x \in OffPosts |-> miss'[x]]
      /\ \A x \in OffPosts : MissType(miss'[x]) /\ (miss'[x] = miss[x] \/ miss'[x] = None)
  BY <1>1, <1>3, ForgetMiss
<1>7. \A u \in Offloads \ {r} : request[u].phase = "trying" => request[u].post \in OffPosts
  BY DEF OffloadInv, Locked
<1>8. ASSUME NEW x \in {q, NoRequest}, request' = [request EXCEPT ![r] = x] PROVE OffloadInv'
  <2>1. x \in OffloadRecords /\ ~Holds(x) /\ x.phase # "trying" /\ (x.phase # "idle" => x.post \in OffPosts)
    BY <1>1, <1>4, <1>5 DEF Holds
  <2>2. OffloadTyped'
    BY <1>3, <1>6, <1>8, <2>1 DEF OffloadInv, OffloadTyped
  <2>3. \A u \in Offloads \ {r} : Holds(request[u]) => lock'[MyStripe(u)] = lock[MyStripe(u)]
    BY <1>3
  <2> QED BY <1>6, <1>7, <1>8, <2>1, <2>2, <2>3, OwnStep
<1> QED BY <1>3, <1>8

(* Whoever holds a lock gives it back: no other loses one.                 *)
LEMMA UnlockOwn ==
  ASSUME OffloadInv, NEW r \in Offloads, Holds(request[r]), Unlock(r)
  PROVE  /\ lock' = [s \in {Stripe[p] : p \in OffPosts} |-> lock'[s]]
         /\ \A u \in Offloads \ {r} : Holds(request[u]) => lock'[MyStripe(u)] = lock[MyStripe(u)]
<1>1. lock' = [lock EXCEPT ![MyStripe(r)] = None] /\ lock[MyStripe(r)] = r
  BY DEF Unlock, OffloadInv, Locked
<1>2. lock' = [s \in {Stripe[p] : p \in OffPosts} |-> lock'[s]]
  BY <1>1 DEF OffloadInv, OffloadTyped
<1>3. ASSUME NEW u \in Offloads \ {r}, Holds(request[u]) PROVE lock'[MyStripe(u)] = lock[MyStripe(u)]
  <2>1. lock[MyStripe(u)] = u /\ request[u].post \in OffPosts
    BY <1>3 DEF OffloadInv, Locked, Holds
  <2>2. MyStripe(u) # MyStripe(r)
    BY <1>1, <2>1
  <2> QED BY <1>1, <2>1, <2>2 DEF MyStripe, OffloadInv, OffloadTyped
<1> QED BY <1>2, <1>3

(* Nobody else who asks sources does so for the post of a lock's holder.   *)
LEMMA OthersApart ==
  ASSUME OffloadInv, NEW r \in Offloads, Holds(request[r]), NEW u \in Offloads \ {r},
         request[u].phase = "trying"
  PROVE  request[u].post \in OffPosts /\ request[u].post # request[r].post
  BY DEF OffloadInv, Locked, Holds, MyStripe

(* The look under the lock: only without a final miss a chain begins.      *)
LEMMA LookAgainStep == ASSUME OffloadInv, NEW r \in Offloads, LookAgain(r) PROVE OffloadInv'
<1> DEFINE p == request[r].post
           t == request[r].at
           hit == Hit(p, t)
           answered == hit /\ (Playable(miss[p].item, request[r].number) \/ miss[p].final)
           best == IF hit THEN Richer(request[r].best, miss[p].item) ELSE request[r].best
           q == [request[r] EXCEPT !.phase = "trying", !.best = best]
<1>1. /\ request[r] \in OffloadRecords /\ p \in OffPosts /\ MissType(miss[p])
      /\ Holds(request[r]) /\ lock[MyStripe(r)] = r
  BY DEF LookAgain, OffloadInv, OffloadTyped, Locked, Holds
<1>2. best \in OffItems \cup {None}
  BY <1>1, RicherType DEF MissType, Hit, OffloadRecords
<1>3. ForgetOver(p, t) /\ UNCHANGED now
      /\ \/ answered /\ request' = [request EXCEPT ![r] = NoRequest] /\ Unlock(r)
         \/ ~answered /\ request' = [request EXCEPT ![r] = q] /\ UNCHANGED lock
  BY DEF LookAgain, Answer, Go
<1> HIDE DEF best
<1>4. q \in OffloadRecords /\ q.phase = "trying" /\ q.post = p /\ q.at = t
  BY <1>1, <1>2 DEF OffloadRecords, OffloadPhases
<1> HIDE DEF q
<1>5. NoRequest \in OffloadRecords /\ NoRequest.phase = "idle"
  BY IdleRecord DEF NoRequest
<1>6. /\ miss' = [x \in OffPosts |-> miss'[x]]
      /\ \A x \in OffPosts : MissType(miss'[x]) /\ (miss'[x] = miss[x] \/ miss'[x] = None)
      /\ Hit(p, t) => miss' = miss
      /\ ~Hit(p, t) => miss'[p] = None
  BY <1>1, <1>3, ForgetMiss
<1>7. \A u \in Offloads \ {r} : request[u].phase = "trying" => request[u].post \in OffPosts
  BY DEF OffloadInv, Locked
<1>8. CASE answered /\ request' = [request EXCEPT ![r] = NoRequest] /\ Unlock(r)
  <2>1. OffloadTyped'
    BY <1>1, <1>3, <1>5, <1>6, <1>8, UnlockOwn DEF OffloadInv, OffloadTyped
  <2>2. ~Holds(NoRequest) /\ NoRequest.phase # "trying"
    BY <1>5 DEF Holds
  <2> QED BY <1>1, <1>5, <1>6, <1>7, <1>8, <2>1, <2>2, UnlockOwn, OwnStep
<1>9. CASE ~answered /\ request' = [request EXCEPT ![r] = q] /\ UNCHANGED lock
  <2>1. OffloadTyped'
    BY <1>3, <1>4, <1>6, <1>9 DEF OffloadInv, OffloadTyped
  <2>2. Clear(q, miss'[q.post])
    BY <1>4, <1>6, <1>9 DEF Clear, Hit
  <2>3. lock'[Stripe[q.post]] = r
    BY <1>1, <1>4, <1>9 DEF MyStripe
  <2>4. q.post \in OffPosts
    BY <1>1, <1>4
  <2>5. \A u \in Offloads \ {r} : Holds(request[u]) => lock'[MyStripe(u)] = lock[MyStripe(u)]
    BY <1>9
  <2>6. \A u \in Offloads \ {r} : request[u].phase = "trying" =>
          miss'[request[u].post] = miss[request[u].post] \/ miss'[request[u].post] = None
    BY <1>6, <1>7
  <2>7. request' = [request EXCEPT ![r] = q] /\ q \in OffloadRecords
    BY <1>4, <1>9
  <2> HIDE DEF answered, hit, t, p
  <2> QED BY <2>1, <2>2, <2>3, <2>4, <2>5, <2>6, <2>7, OwnStep
<1> QED BY <1>3, <1>8, <1>9

(* A chain that is over leaves what it found and its lock.                 *)
LEMMA ChainOver ==
  ASSUME OffloadInv, NEW r \in Offloads, request[r].phase = "trying", UNCHANGED now, Answer(r), Unlock(r),
         NEW item \in OffItems \cup {None}, NEW final,
         SaveMiss(request[r].post, item, final, request[r].at)
  PROVE  OffloadInv'
<1>1. /\ request[r] \in OffloadRecords /\ request[r].post \in OffPosts /\ Holds(request[r])
      /\ request[r].at \in 0..MaxNow
  BY DEF OffloadInv, OffloadTyped, Locked, Holds, OffloadRecords
<1>2. /\ miss' = [x \in OffPosts |-> miss'[x]]
      /\ \A x \in OffPosts : MissType(miss'[x]) /\ (x # request[r].post => miss'[x] = miss[x])
  BY <1>1, SavedMiss
<1>3. NoRequest \in OffloadRecords /\ NoRequest.phase = "idle"
  BY IdleRecord DEF NoRequest
<1>4. request' = [request EXCEPT ![r] = NoRequest]
  BY DEF Answer, Go
<1>5. OffloadTyped'
  BY <1>1, <1>2, <1>3, <1>4, UnlockOwn DEF OffloadInv, OffloadTyped
<1>6. \A u \in Offloads \ {r} : request[u].phase = "trying" => miss'[request[u].post] = miss[request[u].post]
  BY <1>1, <1>2, OthersApart
<1>7. ~Holds(NoRequest) /\ NoRequest.phase # "trying"
  BY <1>3 DEF Holds
<1> QED BY <1>1, <1>3, <1>4, <1>5, <1>6, <1>7, UnlockOwn, OwnStep

(* A source answers, or the chain goes on.                                 *)
LEMMA TrySourceStep == ASSUME OffloadInv, NEW r \in Offloads, TrySource(r) PROVE OffloadInv'
<1>1. /\ request[r] \in OffloadRecords /\ request[r].post \in OffPosts /\ request[r].phase = "trying"
      /\ request[r].tried < SourceCount /\ lock[MyStripe(r)] = r /\ UNCHANGED now
      /\ Clear(request[r], miss[request[r].post])
  BY DEF TrySource, OffloadInv, OffloadTyped, Locked, Holds, NoChainDuringMiss, Clear
<1>2. PICK item \in OffItems \cup {None} :
       LET best == Richer(request[r].best, item) IN
       \/ /\ Playable(item, request[r].number)
          /\ SaveMiss(request[r].post, best, FALSE, request[r].at)
          /\ Answer(r) /\ Unlock(r)
       \/ /\ ~Playable(item, request[r].number)
          /\ Go(r, [request[r] EXCEPT !.best = best, !.tried = @ + 1])
          /\ UNCHANGED <<miss, lock>>
  BY DEF TrySource
<1> DEFINE best == Richer(request[r].best, item)
           tried == request[r].tried + 1
           q == [request[r] EXCEPT !.best = best, !.tried = tried]
<1>3. best \in OffItems \cup {None}
  BY <1>1, RicherType DEF OffloadRecords
<1>4. CASE SaveMiss(request[r].post, best, FALSE, request[r].at) /\ Answer(r) /\ Unlock(r)
  <2> HIDE DEF best
  <2> QED BY <1>1, <1>3, <1>4, ChainOver
<1>5. CASE request' = [request EXCEPT ![r] = q] /\ UNCHANGED <<miss, lock>>
  <2>1. tried \in 0..SourceCount
    BY <1>1, OffloadAssumption DEF OffloadRecords
  <2> HIDE DEF best, tried
  <2>2. /\ q \in OffloadRecords /\ q.phase = "trying" /\ q.post = request[r].post
        /\ q.at = request[r].at
    BY <1>1, <1>3, <2>1 DEF OffloadRecords
  <2> HIDE DEF q
  <2>3. OffloadTyped'
    BY <1>1, <1>5, <2>2 DEF OffloadInv, OffloadTyped
  <2>4. Clear(q, miss'[q.post]) /\ lock'[Stripe[q.post]] = r
    BY <1>1, <1>5, <2>2 DEF Clear, MyStripe
  <2>5. \A u \in Offloads \ {r} : Holds(request[u]) => lock'[MyStripe(u)] = lock[MyStripe(u)]
    BY <1>5
  <2> QED BY <1>1, <1>5, <2>2, <2>3, <2>4, <2>5, OwnStep
<1> QED BY <1>2, <1>4, <1>5 DEF Go

(* The chain was in vain.                                                  *)
LEMMA ChainFailsStep == ASSUME OffloadInv, NEW r \in Offloads, ChainFails(r) PROVE OffloadInv'
<1>1. request[r].best \in OffItems \cup {None}
  BY DEF OffloadInv, OffloadTyped, OffloadRecords
<1> QED BY <1>1, ChainOver DEF ChainFails

(* Every step.                                                             *)
LEMMA OffloadStepKeeps == ASSUME OffloadInv, OffloadNext PROVE OffloadInv'
<1>1. CASE TickNow
  <2>1. OffloadTyped'
    BY <1>1, OffloadAssumption DEF TickNow, OffloadInv, OffloadTyped
  <2> QED BY <1>1, <2>1 DEF TickNow, OffloadInv, Locked, MyStripe, NoChainDuringMiss
<1> QED
  BY <1>1, RequestStep, FetchedStep, LookFirstStep, LockStep, LookAgainStep, TrySourceStep,
     ChainFailsStep DEF OffloadNext, OffloadStep

(* What every request of OffloadStateless keeps between its steps.         *)
THEOREM OffloadInvariant == OffloadSpec => []OffloadInv
<1>1. OffloadInit => OffloadInv
  <2> SUFFICES ASSUME OffloadInit PROVE OffloadInv
    OBVIOUS
  <2>1. request \in [Offloads -> OffloadRecords] /\ \A r \in Offloads : request[r].phase = "idle"
    BY IdleRecord DEF OffloadInit, NoRequest
  <2>2. OffloadTyped
    <3>1. now \in 0..MaxNow
      BY OffloadAssumption DEF OffloadInit
    <3>2. miss = [p \in OffPosts |-> miss[p]] /\ \A p \in OffPosts : MissType(miss[p])
      BY DEF OffloadInit, MissType
    <3>3. lock = [s \in {Stripe[p] : p \in OffPosts} |-> lock[s]]
      BY DEF OffloadInit
    <3> QED BY <2>1, <3>1, <3>2, <3>3 DEF OffloadTyped
  <2> QED BY <2>1, <2>2 DEF OffloadInv, Locked, Holds, NoChainDuringMiss
<1>2. OffloadInv /\ [OffloadNext]_offloadVars => OffloadInv'
  <2> SUFFICES ASSUME OffloadInv, [OffloadNext]_offloadVars PROVE OffloadInv'
    OBVIOUS
  <2>1. CASE UNCHANGED offloadVars
    BY <2>1 DEF offloadVars, OffloadInv, OffloadTyped, Locked, MyStripe, NoChainDuringMiss
  <2> QED BY <2>1, OffloadStepKeeps
<1> QED BY <1>1, <1>2, PTL DEF OffloadSpec

(* A carousel's requests for one post, and those of other posts that share *)
(* its stripe, never ask the sources of a post again while a final miss of *)
(* statelessOffloadMisses says that they failed.                           *)
THEOREM ChainsNotRepeated == OffloadSpec => []NoChainDuringMiss
<1>1. OffloadInv => NoChainDuringMiss
  BY DEF OffloadInv
<1> QED BY <1>1, OffloadInvariant, PTL

(* The times of the misses and the sources tried stay within their bounds, *)
(* and what is kept or returned is an item that a source gave.             *)
THEOREM OffloadTypeCorrect == OffloadSpec => []OffloadTypeOK
<1>1. OffloadInv => OffloadTypeOK
  BY DEF OffloadInv, OffloadTyped, MissType, OffloadRecords, OffloadTypeOK
<1> QED BY <1>1, OffloadInvariant, PTL

---------------------------------------------------------------------------
(* The choice among the tracks of a manifest. *)

(* What holds of 0 and goes on from each number to the next holds up to N. *)
LEMMA CountUp ==
  ASSUME NEW N \in Nat, NEW Good, 0 \in Good,
         \A n \in 0..(N - 1) : n \in Good => n + 1 \in Good
  PROVE  \A n \in 0..N : n \in Good
<1> SUFFICES ASSUME NEW m \in 0..N, m \notin Good PROVE FALSE
  OBVIOUS
<1> DEFINE Bad == {t \in 0..N : t \notin Good}
           T == {0..t : t \in Bad}
<1>1. T \subseteq FiniteSubsetsOf(0..N) /\ T # {}
  <2>1. T \subseteq SUBSET (0..N) /\ T # {}
    OBVIOUS
  <2>2. IsFiniteSet(0..N)
    BY FS_Interval
  <2> HIDE DEF T
  <2> QED
    BY <2>1, <2>2, FS_FiniteSubsetsOfFinite
<1>2. IsWellFoundedOn(StrictSubsetOrdering(0..N), FiniteSubsetsOf(0..N))
  BY FS_StrictSubsetOrderingWellFounded
<1>3. PICK X \in T : \A Y \in T : ~ (<<Y, X>> \in StrictSubsetOrdering(0..N))
  <2> HIDE DEF T
  <2> QED
    BY <1>1, <1>2, WFMin
<1>4. PICK t \in Bad : X = 0..t
  BY <1>3
<1>5. t # 0 /\ t - 1 \in 0..(N - 1) /\ t - 1 \in 0..N
  BY <1>4
<1>6. t - 1 \in Bad
  <2>1. t - 1 \in Good => t \in Good
    BY <1>5
  <2> QED
    BY <1>4, <1>5, <2>1
<1>7. 0..(t - 1) \in T /\ 0..(t - 1) \subseteq X /\ 0..(t - 1) # X
  <2>1. t \in X /\ t \notin 0..(t - 1)
    BY <1>4, <1>5
  <2> QED
    BY <1>4, <1>6, <2>1
<1>8. 0..(t - 1) \in SUBSET (0..N) /\ X \in SUBSET (0..N)
  BY <1>4, <1>5
<1> HIDE DEF T
<1> QED
  BY <1>3, <1>7, <1>8 DEF StrictSubsetOrdering

(* The values of a loop that starts with base and changes it N times by F. *)
Course(f, base, F, N) == f[0] = base /\ \A n \in 1..N : f[n] = F[<<f[n - 1], n>>]

LEMMA LoopExists ==
  ASSUME NEW N \in Nat, NEW R, NEW base \in R, NEW F \in [R \X (1..N) -> R]
  PROVE  \E f \in [0..N -> R] : Course(f, base, F, N)
<1> DEFINE Good == {m \in 0..N : \E g \in [0..m -> R] : Course(g, base, F, m)}
<1>1. 0 \in Good
  <2> DEFINE g == [n \in 0..0 |-> base]
  <2>1. g \in [0..0 -> R] /\ Course(g, base, F, 0)
    BY DEF Course
  <2> HIDE DEF g
  <2>2. 0 \in 0..N /\ \E h \in [0..0 -> R] : Course(h, base, F, 0)
    BY <2>1
  <2> QED
    BY <2>2
<1>2. ASSUME NEW m \in 0..(N - 1), m \in Good PROVE m + 1 \in Good
  <2>1. PICK g \in [0..m -> R] : Course(g, base, F, m)
    BY <1>2
  <2> DEFINE last == F[<<g[m], m + 1>>]
             h == [n \in 0..(m + 1) |-> IF n = m + 1 THEN last ELSE g[n]]
  <2>2. last \in R
    OBVIOUS
  <2>3. h \in [0..(m + 1) -> R]
    BY <2>2
  <2>4. \A n \in 0..m : h[n] = g[n]
    OBVIOUS
  <2>5. h[m + 1] = last
    OBVIOUS
  <2> HIDE DEF h
  <2>6. ASSUME NEW n \in 1..(m + 1) PROVE h[n] = F[<<h[n - 1], n>>]
    <3>1. CASE n = m + 1
      BY <2>4, <2>5, <3>1
    <3>2. CASE n # m + 1
      BY <2>1, <2>4, <3>2 DEF Course
    <3> QED
      BY <3>1, <3>2
  <2>7. Course(h, base, F, m + 1)
    BY <2>1, <2>4, <2>6 DEF Course
  <2> QED
    BY <2>3, <2>7
<1>3. N \in Good
  <2> HIDE DEF Good
  <2> QED
    BY <1>1, <1>2, CountUp
<1> QED
  BY <1>3

Best == [video : Tracks, audio : Tracks] \cup {None}

LEMMA KeepBetterType ==
  ASSUME NEW best \in Best, NEW video \in Tracks, NEW audio \in Tracks
  PROVE  KeepBetter(best, video, audio) \in Best
BY DEF KeepBetter, Best

(* The course of the loop over the audios.                                 *)
LEMMA AudiosLoop ==
  ASSUME NEW tracks \in Seq(Tracks), NEW best \in Best, NEW video \in Tracks
  PROVE  \E f \in [0..Len(tracks) -> Best] :
           /\ f[0] = best
           /\ \A n \in 1..Len(tracks) : f[n] = KeepBetter(f[n - 1], video, tracks[n])
           /\ WithAudios(tracks, best, video) = f[Len(tracks)]
<1> DEFINE N == Len(tracks)
           F == [x \in Best \X (1..N) |-> KeepBetter(x[1], video, tracks[x[2]])]
           Loop(f) == f = [n \in 0..N |-> IF n = 0 THEN best
                                          ELSE KeepBetter(f[n - 1], video, tracks[n])]
           c == CHOOSE f : Loop(f)
<1>1. N \in Nat /\ \A n \in 1..N : tracks[n] \in Tracks
  OBVIOUS
<1>2. F \in [Best \X (1..N) -> Best]
  BY <1>1, KeepBetterType
<1>3. PICK f \in [0..N -> Best] : Course(f, best, F, N)
  <2>1. N \in Nat
    BY <1>1
  <2> HIDE DEF F, N
  <2> QED
    BY <1>2, <2>1, LoopExists
<1>4. \A n \in 1..N : f[n] = KeepBetter(f[n - 1], video, tracks[n])
  <2> SUFFICES ASSUME NEW n \in 1..N PROVE f[n] = KeepBetter(f[n - 1], video, tracks[n])
    OBVIOUS
  <2>1. f[n - 1] \in Best
    BY <1>1
  <2>2. F[<<f[n - 1], n>>] = KeepBetter(f[n - 1], video, tracks[n])
    BY <2>1
  <2> QED
    BY <1>3, <2>2 DEF Course
<1>5. Loop(f)
  BY <1>3, <1>4 DEF Course
<1>6. Loop(c)
  BY <1>5
<1>7. WithAudios(tracks, best, video) = c[N]
  BY DEF WithAudios
<1> HIDE DEF c
<1>8. c[0] = best /\ \A n \in 1..N : c[n] = KeepBetter(c[n - 1], video, tracks[n])
  BY <1>1, <1>6
<1>9. \A n \in 0..N : c[n] \in Best
  <2> DEFINE Good == {n \in 0..N : c[n] \in Best}
  <2>1. 0 \in Good
    BY <1>1, <1>8
  <2>2. ASSUME NEW n \in 0..(N - 1), n \in Good PROVE n + 1 \in Good
    <3>1. n + 1 \in 1..N /\ (n + 1) - 1 = n
      BY <1>1
    <3>2. c[n + 1] = KeepBetter(c[n], video, tracks[n + 1])
      BY <1>8, <3>1
    <3> QED
      BY <1>1, <2>2, <3>1, <3>2, KeepBetterType
  <2>3. \A n \in 0..N : n \in Good
    <3> HIDE DEF Good, N
    <3> QED
      BY <1>1, <2>1, <2>2, CountUp
  <2> QED
    BY <2>3
<1>10. c \in [0..N -> Best]
  BY <1>6, <1>9
<1> QED
  BY <1>7, <1>8, <1>10

(* The course of the loop over the videos.                                 *)
LEMMA VideosLoop ==
  ASSUME NEW tracks \in Seq(Tracks)
  PROVE  \E f \in [0..Len(tracks) -> Best] :
           /\ f[0] = None
           /\ \A n \in 1..Len(tracks) : f[n] = WithAudios(tracks, f[n - 1], tracks[n])
           /\ BestPair(tracks) = f[Len(tracks)]
<1> DEFINE N == Len(tracks)
           F == [x \in Best \X (1..N) |-> WithAudios(tracks, x[1], tracks[x[2]])]
           Loop(f) == f = [n \in 0..N |-> IF n = 0 THEN None
                                          ELSE WithAudios(tracks, f[n - 1], tracks[n])]
           c == CHOOSE f : Loop(f)
<1>1. N \in Nat /\ (\A n \in 1..N : tracks[n] \in Tracks) /\ None \in Best
  BY DEF Best
<1>2. ASSUME NEW best \in Best, NEW n \in 1..N PROVE WithAudios(tracks, best, tracks[n]) \in Best
  <2>1. PICK f \in [0..N -> Best] : WithAudios(tracks, best, tracks[n]) = f[N]
    BY <1>1, AudiosLoop
  <2> QED
    BY <1>1, <2>1
<1>3. F \in [Best \X (1..N) -> Best]
  BY <1>2
<1>4. PICK f \in [0..N -> Best] : Course(f, None, F, N)
  <2>1. N \in Nat /\ None \in Best
    BY <1>1
  <2> HIDE DEF F, N
  <2> QED
    BY <1>3, <2>1, LoopExists
<1>5. \A n \in 1..N : f[n] = WithAudios(tracks, f[n - 1], tracks[n])
  <2> SUFFICES ASSUME NEW n \in 1..N PROVE f[n] = WithAudios(tracks, f[n - 1], tracks[n])
    OBVIOUS
  <2>1. f[n - 1] \in Best
    BY <1>1
  <2>2. F[<<f[n - 1], n>>] = WithAudios(tracks, f[n - 1], tracks[n])
    BY <2>1
  <2> QED
    BY <1>4, <2>2 DEF Course
<1>6. Loop(f)
  BY <1>4, <1>5 DEF Course
<1>7. Loop(c)
  BY <1>6
<1>8. BestPair(tracks) = c[N]
  BY DEF BestPair
<1> HIDE DEF c
<1>9. c[0] = None /\ \A n \in 1..N : c[n] = WithAudios(tracks, c[n - 1], tracks[n])
  <2>1. N \in Nat /\ c = [n \in 0..N |-> IF n = 0 THEN None
                                         ELSE WithAudios(tracks, c[n - 1], tracks[n])]
    BY <1>1, <1>7
  <2> HIDE DEF N
  <2>2. c[0] = None
    BY <2>1
  <2>3. ASSUME NEW n \in 1..N PROVE c[n] = WithAudios(tracks, c[n - 1], tracks[n])
    BY <2>1
  <2> QED
    BY <2>2, <2>3
<1>10. \A n \in 0..N : c[n] \in Best
  <2> DEFINE Good == {n \in 0..N : c[n] \in Best}
  <2>1. 0 \in Good
    BY <1>1, <1>9
  <2>2. ASSUME NEW n \in 0..(N - 1), n \in Good PROVE n + 1 \in Good
    <3>1. n + 1 \in 1..N /\ (n + 1) - 1 = n
      BY <1>1
    <3>2. c[n + 1] = WithAudios(tracks, c[n], tracks[n + 1])
      BY <1>9, <3>1
    <3> QED
      BY <1>1, <1>2, <2>2, <3>1, <3>2
  <2>3. \A n \in 0..N : n \in Good
    <3> HIDE DEF Good, N
    <3> QED
      BY <1>1, <2>1, <2>2, CountUp
  <2> QED
    BY <2>3
<1>11. c \in [0..N -> Best]
  BY <1>7, <1>10
<1> QED
  BY <1>8, <1>9, <1>11

(* A pair of tracks that may be joined, and one that is no worse.          *)
Joinable(video, audio) ==
  Usable(video, "video") /\ Usable(audio, "audio") /\ Fits(video, audio)

NoWorse(pair, video, audio) ==
  /\ video.area <= pair.video.area
  /\ video.area = pair.video.area => video.bandwidth <= pair.video.bandwidth
  /\ video.area = pair.video.area /\ video.bandwidth = pair.video.bandwidth
       => audio.bandwidth <= pair.audio.bandwidth

(* The pairs that the loops have met before audio j + 1 of video i.        *)
Seen(v, a, i, j) == v < i \/ (v = i /\ a <= j)

(* The best so far is one of them that may be joined, and the others that  *)
(* may be are no better; it is None only if there is none.                 *)
BestSoFar(tracks, best, i, j) ==
  /\ best = None =>
       \A v, a \in DOMAIN tracks : Seen(v, a, i, j) => ~Joinable(tracks[v], tracks[a])
  /\ best # None =>
       /\ \E v, a \in DOMAIN tracks :
            best = [video |-> tracks[v], audio |-> tracks[a]] /\ Joinable(tracks[v], tracks[a])
       /\ \A v, a \in DOMAIN tracks :
            Seen(v, a, i, j) /\ Joinable(tracks[v], tracks[a]) =>
              NoWorse(best, tracks[v], tracks[a])

LEMMA PairFields ==
  ASSUME NEW video \in Tracks, NEW audio \in Tracks
  PROVE  /\ [video |-> video, audio |-> audio] \in Best \ {None}
         /\ [video |-> video, audio |-> audio].video = video
         /\ [video |-> video, audio |-> audio].audio = audio
BY SourcesAssumption DEF Best

(* A pair that replaces another one is no worse than all that this is not  *)
(* worse than.                                                             *)
LEMMA BetterThanAll ==
  ASSUME NEW p \in [video : Tracks, audio : Tracks], NEW video \in Tracks, NEW audio \in Tracks,
         NEW v \in Tracks, NEW a \in Tracks, NEW q \in [video : Tracks, audio : Tracks],
         q.video = video, q.audio = audio, NoWorse(p, v, a), p # None, Better(video, audio, p)
  PROVE  NoWorse(q, v, a)
<1>1. /\ p.video \in Tracks /\ p.audio \in Tracks
  OBVIOUS
<1>2. \A t \in Tracks : t.area \in Int /\ t.bandwidth \in Int
  BY DEF Tracks
<1> QED
  BY <1>1, <1>2 DEF NoWorse, Better

LEMMA NotBetter ==
  ASSUME NEW p \in [video : Tracks, audio : Tracks], NEW video \in Tracks, NEW audio \in Tracks,
         ~Better(video, audio, p)
  PROVE  NoWorse(p, video, audio)
<1>1. /\ p.video \in Tracks /\ p.audio \in Tracks
  OBVIOUS
<1>2. \A t \in Tracks : t.area \in Int /\ t.bandwidth \in Int
  BY DEF Tracks
<1> QED
  BY <1>1, <1>2 DEF NoWorse, Better

LEMMA KeepsBest ==
  ASSUME NEW tracks \in Seq(Tracks), NEW i \in 1..Len(tracks), NEW j \in 1..Len(tracks),
         NEW best \in Best, BestSoFar(tracks, best, i, j - 1)
  PROVE  BestSoFar(tracks, KeepBetter(best, tracks[i], tracks[j]), i, j)
<1> DEFINE video == tracks[i]
           audio == tracks[j]
           pair == [video |-> video, audio |-> audio]
<1>1. video \in Tracks /\ audio \in Tracks /\ DOMAIN tracks = 1..Len(tracks)
      /\ \A n \in DOMAIN tracks : tracks[n] \in Tracks
  OBVIOUS
<1>2. \A v, a \in DOMAIN tracks : Seen(v, a, i, j) <=> Seen(v, a, i, j - 1) \/ (v = i /\ a = j)
  BY <1>1 DEF Seen
<1>3. pair \in [video : Tracks, audio : Tracks] /\ pair # None
      /\ pair.video = video /\ pair.audio = audio
  BY <1>1, PairFields
<1>4. CASE Joinable(video, audio) /\ Better(video, audio, best)
  <2>1. KeepBetter(best, video, audio) = pair
    BY <1>4 DEF KeepBetter, Joinable
  <2>2. NoWorse(pair, video, audio)
    <3>1. video.area \in Int /\ video.bandwidth \in Int /\ audio.bandwidth \in Int
      BY <1>1 DEF Tracks
    <3> QED
      BY <1>3, <3>1 DEF NoWorse
  <2>3. ASSUME NEW v \in DOMAIN tracks, NEW a \in DOMAIN tracks, Seen(v, a, i, j - 1),
               Joinable(tracks[v], tracks[a])
        PROVE  NoWorse(pair, tracks[v], tracks[a])
    <3>1. best # None /\ NoWorse(best, tracks[v], tracks[a])
      BY <2>3 DEF BestSoFar
    <3>2. best \in [video : Tracks, audio : Tracks]
      BY <3>1 DEF Best
    <3> HIDE DEF pair, video, audio
    <3> QED
      BY <1>1, <1>3, <1>4, <3>1, <3>2, BetterThanAll
  <2>4. \E v, a \in DOMAIN tracks :
          pair = [video |-> tracks[v], audio |-> tracks[a]] /\ Joinable(tracks[v], tracks[a])
    BY <1>1, <1>4
  <2>5. \A v, a \in DOMAIN tracks :
          Seen(v, a, i, j) /\ Joinable(tracks[v], tracks[a]) => NoWorse(pair, tracks[v], tracks[a])
    BY <1>2, <2>2, <2>3
  <2> HIDE DEF pair
  <2>6. BestSoFar(tracks, pair, i, j)
    BY <1>3, <2>4, <2>5 DEF BestSoFar
  <2> QED
    BY <2>1, <2>6
<1>5. CASE ~(Joinable(video, audio) /\ Better(video, audio, best))
  <2>1. KeepBetter(best, video, audio) = best
    BY <1>5 DEF KeepBetter, Joinable
  <2>2. CASE best = None
    <3>1. ~Joinable(video, audio)
      BY <1>5, <2>2 DEF Better
    <3>2. BestSoFar(tracks, best, i, j)
      BY <1>2, <2>2, <3>1 DEF BestSoFar
    <3> QED
      BY <2>1, <3>2
  <2>3. CASE best # None
    <3>1. best \in [video : Tracks, audio : Tracks]
      BY <2>3 DEF Best
    <3>2. Joinable(video, audio) => NoWorse(best, video, audio)
      BY <1>1, <1>5, <3>1, NotBetter
    <3>3. BestSoFar(tracks, best, i, j)
      BY <1>2, <2>3, <3>2 DEF BestSoFar
    <3> QED
      BY <2>1, <3>3
  <2> QED
    BY <2>2, <2>3
<1> QED
  BY <1>4, <1>5

LEMMA AudiosKeepBest ==
  ASSUME NEW tracks \in Seq(Tracks), NEW i \in 1..Len(tracks), NEW best \in Best,
         BestSoFar(tracks, best, i, 0)
  PROVE  BestSoFar(tracks, WithAudios(tracks, best, tracks[i]), i, Len(tracks))
<1>1. tracks[i] \in Tracks /\ Len(tracks) \in Nat
  OBVIOUS
<1>2. PICK f \in [0..Len(tracks) -> Best] :
        /\ f[0] = best
        /\ \A n \in 1..Len(tracks) : f[n] = KeepBetter(f[n - 1], tracks[i], tracks[n])
        /\ WithAudios(tracks, best, tracks[i]) = f[Len(tracks)]
  BY <1>1, AudiosLoop
<1> DEFINE Good == {n \in 0..Len(tracks) : BestSoFar(tracks, f[n], i, n)}
<1>3. 0 \in Good
  BY <1>1, <1>2
<1>4. ASSUME NEW n \in 0..(Len(tracks) - 1), n \in Good PROVE n + 1 \in Good
  <2>1. n + 1 \in 1..Len(tracks) /\ (n + 1) - 1 = n /\ n + 1 \in 0..Len(tracks)
        /\ n \in 0..Len(tracks)
    BY <1>1
  <2>2. f[n + 1] = KeepBetter(f[n], tracks[i], tracks[n + 1]) /\ f[n] \in Best
    BY <1>2, <2>1
  <2>3. BestSoFar(tracks, f[n], i, (n + 1) - 1)
    BY <1>4, <2>1
  <2>4. BestSoFar(tracks, f[n + 1], i, n + 1)
    BY <2>1, <2>2, <2>3, KeepsBest
  <2> QED
    BY <2>1, <2>4
<1>5. \A n \in 0..Len(tracks) : n \in Good
  <2> HIDE DEF Good
  <2> QED
    BY <1>1, <1>3, <1>4, CountUp
<1> QED
  BY <1>1, <1>2, <1>5

(* What compactAVFromDASHManifest returns may be joined, and no other pair *)
(* of the manifest that may be is better, in whichever order the manifest  *)
(* has its tracks; there is an error only if no pair may be joined.        *)
THEOREM BestPairIsBest ==
  ASSUME NEW tracks \in Seq(Tracks)
  PROVE  BestSoFar(tracks, BestPair(tracks), Len(tracks) + 1, 0)
<1>1. PICK f \in [0..Len(tracks) -> Best] :
        /\ f[0] = None
        /\ \A n \in 1..Len(tracks) : f[n] = WithAudios(tracks, f[n - 1], tracks[n])
        /\ BestPair(tracks) = f[Len(tracks)]
  BY VideosLoop
<1>2. Len(tracks) \in Nat /\ DOMAIN tracks = 1..Len(tracks)
  OBVIOUS
<1> DEFINE Good == {n \in 0..Len(tracks) : BestSoFar(tracks, f[n], n + 1, 0)}
<1>3. 0 \in Good
  <2>1. \A v, a \in DOMAIN tracks : ~Seen(v, a, 1, 0)
    BY <1>2 DEF Seen
  <2>2. BestSoFar(tracks, None, 1, 0)
    BY <2>1 DEF BestSoFar
  <2> QED
    BY <1>1, <1>2, <2>2
<1>4. ASSUME NEW n \in 0..(Len(tracks) - 1), n \in Good PROVE n + 1 \in Good
  <2>1. n + 1 \in 1..Len(tracks) /\ (n + 1) - 1 = n /\ n + 1 \in 0..Len(tracks)
        /\ n \in 0..Len(tracks)
    BY <1>2
  <2>2. f[n + 1] = WithAudios(tracks, f[n], tracks[n + 1]) /\ f[n] \in Best
    BY <1>1, <2>1
  <2>3. BestSoFar(tracks, f[n + 1], n + 1, Len(tracks))
    BY <1>4, <2>1, <2>2, AudiosKeepBest
  <2>4. \A v, a \in DOMAIN tracks :
          Seen(v, a, (n + 1) + 1, 0) <=> Seen(v, a, n + 1, Len(tracks))
    BY <1>2, <2>1 DEF Seen
  <2>5. BestSoFar(tracks, f[n + 1], (n + 1) + 1, 0)
    BY <2>3, <2>4 DEF BestSoFar
  <2> QED
    BY <2>1, <2>5
<1>5. \A n \in 0..Len(tracks) : n \in Good
  <2> HIDE DEF Good
  <2> QED
    BY <1>2, <1>3, <1>4, CountUp
<1> QED
  BY <1>1, <1>2, <1>5

---------------------------------------------------------------------------
(* The compact videos. *)

ViewerRecords ==
  [phase : {"idle", "join", "wait", "open", "serve"}, since : Nat, left : BOOLEAN,
   file : [made : Nat, whole : {TRUE}] \cup {None}]

(* What is at the cache path has been renamed to it, and is whole.         *)
CompactTyped ==
  /\ avTime \in 0..MaxAVTime
  /\ avFile \in [made : Nat, whole : {TRUE}] \cup {None}
  /\ avFile # None => avFile.made <= avTime
  /\ viewer \in [Viewers -> ViewerRecords]

(* A flight stands still for nobody: the sources it has asked, its times.  *)
BuildOK ==
  /\ DOMAIN build = {"step", "leader", "began", "asked", "body", "made"}
  /\ build.step \in {"none", "look", "resolve", "mux", "rename"}
  /\ build.leader \in Viewers \cup {None}
  /\ DOMAIN build.asked = {"tried", "silent", "failed", "pair"}
  /\ build.asked.tried \in 0..AVSources
  /\ build.began \in 0..avTime
  /\ build.step = "rename" => build.made \in build.began..avTime
  /\ build.step \in {"resolve", "mux", "rename"} => ~FileUsable

(* What viewer v was promised: a file no older than the flight it joined,  *)
(* or one that was usable when it came and can only be replaced by a newer *)
(* one.                                                                    *)
ViewerOK(v) ==
  LET q == viewer[v] IN
  /\ q.since <= avTime
  /\ q.phase = "wait" => build.step # "none" /\ q.since <= build.began
  /\ q.phase = "open" =>
       /\ avFile # None /\ avFile.made + AVMaxAge >= q.since
       /\ build.step = "rename" => q.since <= build.made
  /\ q.phase = "serve" => q.file # None /\ q.file.made + AVMaxAge >= q.since

CompactInv == CompactTyped /\ BuildOK /\ \A v \in Viewers : ViewerOK(v)

LEMMA ViewerTypes ==
  ASSUME CompactInv, NEW v \in Viewers
  PROVE  viewer[v] \in ViewerRecords /\ ViewerOK(v) /\ viewer[v].since \in Nat
BY DEF CompactInv, CompactTyped, ViewerRecords

LEMMA CompactTypes ==
  ASSUME CompactInv
  PROVE  /\ avTime \in Nat /\ AVMaxAge \in Nat /\ build.began \in Nat /\ build.began <= avTime
         /\ avFile # None => avFile.made \in Nat /\ avFile.made <= avTime
         /\ build.step = "rename" => build.made \in Nat /\ build.made >= build.began
                                     /\ build.made <= avTime
         /\ AVSources \in Nat
<1>1. avTime \in Nat /\ AVMaxAge \in Nat /\ AVSources \in Nat
  BY CompactAssumption, SourcesAssumption DEF CompactInv, CompactTyped
<1>2. build.began \in 0..avTime /\ (build.step = "rename" => build.made \in build.began..avTime)
  BY DEF CompactInv, BuildOK
<1>3. avFile # None => avFile.made \in Nat /\ avFile.made <= avTime
  BY DEF CompactInv, CompactTyped
<1> QED
  BY <1>1, <1>2, <1>3

(* A viewer goes on while the flight and the file stay as they are.        *)
LEMMA ViewerStepKeeps ==
  ASSUME CompactInv, NEW v \in Viewers, NEW q \in ViewerRecords,
         viewer' = [viewer EXCEPT ![v] = q], UNCHANGED <<avTime, avFile, build>>,
         ViewerOK(v)'
  PROVE  CompactInv'
<1>1. CompactTyped' /\ BuildOK'
  BY DEF CompactInv, CompactTyped, BuildOK, FileUsable
<1>2. ASSUME NEW u \in Viewers PROVE ViewerOK(u)'
  <2>1. CASE u = v
    BY <2>1
  <2>2. CASE u # v
    <3>1. viewer'[u] = viewer[u]
      BY <2>2 DEF CompactInv, CompactTyped
    <3> QED
      BY <3>1, ViewerTypes DEF ViewerOK
  <2> QED
    BY <2>1, <2>2
<1> QED
  BY <1>1, <1>2 DEF CompactInv

LEMMA ViewStep == ASSUME CompactInv, NEW v \in Viewers, View(v) PROVE CompactInv'
<1> DEFINE q == [viewer[v] EXCEPT !.phase = IF FileUsable THEN "open" ELSE "join", !.since = avTime]
<1>1. viewer' = [viewer EXCEPT ![v] = q] /\ UNCHANGED <<avTime, avFile, build>>
  BY DEF View
<1>2. /\ q \in ViewerRecords /\ q.phase = (IF FileUsable THEN "open" ELSE "join")
      /\ q.since = avTime
  BY ViewerTypes, CompactTypes DEF ViewerRecords
<1> HIDE DEF q
<1>3. viewer'[v] = q
  BY <1>1 DEF CompactInv, CompactTyped
<1>4. FileUsable => avFile # None /\ avFile.made + AVMaxAge >= avTime /\ build.step # "rename"
  BY CompactTypes DEF FileUsable, CompactInv, BuildOK
<1>5. ViewerOK(v)'
  BY <1>1, <1>2, <1>3, <1>4, CompactTypes DEF ViewerOK
<1> QED
  BY <1>1, <1>2, <1>5, ViewerStepKeeps

LEMMA OpenFileStep == ASSUME CompactInv, NEW v \in Viewers, OpenFile(v) PROVE CompactInv'
<1> DEFINE q == [viewer[v] EXCEPT !.phase = "serve", !.file = avFile]
<1>1. viewer' = [viewer EXCEPT ![v] = q] /\ UNCHANGED <<avTime, avFile, build>>
      /\ viewer[v].phase = "open"
  BY DEF OpenFile
<1>2. q \in ViewerRecords /\ q.phase = "serve" /\ q.file = avFile /\ q.since = viewer[v].since
  <2>1. avFile \in [made : Nat, whole : {TRUE}] \cup {None}
    BY DEF CompactInv, CompactTyped
  <2> QED
    BY <2>1, ViewerTypes DEF ViewerRecords
<1> HIDE DEF q
<1>3. viewer'[v] = q
  BY <1>1 DEF CompactInv, CompactTyped
<1>4. ViewerOK(v)'
  BY <1>1, <1>2, <1>3, ViewerTypes DEF ViewerOK
<1> QED
  BY <1>1, <1>2, <1>4, ViewerStepKeeps

LEMMA NoViewerRecord ==
  /\ NoViewer \in ViewerRecords /\ NoViewer.phase = "idle" /\ NoViewer.since = 0
BY DEF NoViewer, ViewerRecords

LEMMA ServedStep == ASSUME CompactInv, NEW v \in Viewers, Served(v) PROVE CompactInv'
<1>1. viewer' = [viewer EXCEPT ![v] = NoViewer] /\ UNCHANGED <<avTime, avFile, build>>
  BY DEF Served
<1>2. viewer'[v] = NoViewer
  BY <1>1 DEF CompactInv, CompactTyped
<1>3. ViewerOK(v)'
  BY <1>1, <1>2, NoViewerRecord, CompactTypes DEF ViewerOK
<1> QED
  BY <1>1, <1>3, NoViewerRecord, ViewerStepKeeps

LEMMA LeaderLeavesStep ==
  ASSUME CompactInv, NEW v \in Viewers, LeaderLeaves(v) PROVE CompactInv'
<1> DEFINE q == [viewer[v] EXCEPT !.left = TRUE]
<1>1. viewer' = [viewer EXCEPT ![v] = q] /\ UNCHANGED <<avTime, avFile, build>>
  BY DEF LeaderLeaves
<1>2. /\ q \in ViewerRecords /\ q.phase = viewer[v].phase /\ q.file = viewer[v].file
      /\ q.since = viewer[v].since
  BY ViewerTypes DEF ViewerRecords
<1> HIDE DEF q
<1>3. viewer'[v] = q
  BY <1>1 DEF CompactInv, CompactTyped
<1>4. ViewerOK(v)'
  BY <1>1, <1>2, <1>3, ViewerTypes DEF ViewerOK
<1> QED
  BY <1>1, <1>2, <1>4, ViewerStepKeeps

LEMMA NoBuildRecord ==
  /\ DOMAIN NoBuild = {"step", "leader", "began", "asked", "body", "made"}
  /\ NoBuild.step = "none" /\ NoBuild.leader = None /\ NoBuild.began = 0
  /\ DOMAIN NoBuild.asked = {"tried", "silent", "failed", "pair"} /\ NoBuild.asked.tried = 0
BY DEF NoBuild, NothingAsked

LEMMA JoinBuildStep == ASSUME CompactInv, NEW v \in Viewers, JoinBuild(v) PROVE CompactInv'
<1> DEFINE joins == build.step # "none"
           since == IF joins /\ build.began < viewer[v].since THEN build.began ELSE viewer[v].since
           q == [viewer[v] EXCEPT !.phase = "wait", !.since = since]
           new == [NoBuild EXCEPT !.step = "look", !.leader = v, !.began = avTime]
<1>1. /\ viewer' = [viewer EXCEPT ![v] = q] /\ UNCHANGED <<avTime, avFile>>
      /\ build' = IF joins THEN build ELSE new
  BY DEF JoinBuild
<1>2. since \in Nat /\ since <= viewer[v].since /\ (joins => since <= build.began)
      /\ viewer[v].since <= avTime /\ viewer[v].since \in Nat /\ avTime \in Nat
  BY ViewerTypes, CompactTypes DEF ViewerOK
<1> HIDE DEF since
<1>3. q \in ViewerRecords /\ q.phase = "wait" /\ q.since = since
  BY <1>2, ViewerTypes DEF ViewerRecords
<1> HIDE DEF q
<1>4. viewer'[v] = q /\ viewer' \in [Viewers -> ViewerRecords]
      /\ \A u \in Viewers \ {v} : viewer'[u] = viewer[u]
  BY <1>1, <1>3 DEF CompactInv, CompactTyped
<1>5. /\ DOMAIN new = {"step", "leader", "began", "asked", "body", "made"}
      /\ new.step = "look" /\ new.leader = v /\ new.began = avTime
      /\ DOMAIN new.asked = {"tried", "silent", "failed", "pair"} /\ new.asked.tried = 0
  BY NoBuildRecord
<1> HIDE DEF new
<1>6. BuildOK'
  <2>1. CASE joins
    BY <1>1, <2>1 DEF CompactInv, BuildOK, FileUsable
  <2>2. CASE ~joins
    <3>1. 0 \in 0..AVSources /\ avTime \in 0..avTime
      BY CompactTypes
    <3> QED
      BY <1>1, <1>5, <2>2, <3>1 DEF BuildOK
  <2> QED
    BY <2>1, <2>2
<1>7. ASSUME NEW u \in Viewers PROVE ViewerOK(u)'
  <2>1. CASE u = v
    <3>1. build'.step # "none" /\ since <= build'.began
      BY <1>1, <1>2, <1>5, CompactTypes
    <3>2. viewer'[u] = q /\ since <= avTime' /\ since \in Nat
      BY <1>1, <1>2, <1>4, <2>1, CompactTypes
    <3> QED
      BY <1>3, <3>1, <3>2 DEF ViewerOK
  <2>2. CASE u # v
    <3>1. viewer'[u] = viewer[u] /\ ViewerOK(u)
      BY <1>4, <2>2, ViewerTypes
    <3>2. joins \/ viewer[u].phase # "wait"
      BY <3>1 DEF ViewerOK
    <3> QED
      BY <1>1, <1>5, <3>1, <3>2 DEF ViewerOK
  <2> QED
    BY <2>1, <2>2
<1> QED
  BY <1>1, <1>4, <1>6, <1>7 DEF CompactInv, CompactTyped

(* The flight goes on while the viewers and the file stay as they are.     *)
LEMMA BuildStepKeeps ==
  ASSUME CompactInv, BuildOK', UNCHANGED <<avTime, avFile, viewer>>,
         build.step # "none", build'.step # "none", build'.began = build.began,
         build'.step = "rename" => build'.made = avTime
  PROVE  CompactInv'
<1>1. ASSUME NEW v \in Viewers PROVE ViewerOK(v)'
  BY ViewerTypes DEF ViewerOK
<1> QED
  BY <1>1 DEF CompactInv, CompactTyped

(* The flight is over: whoever waits opens the file or has an error.       *)
LEMMA EndBuildStep ==
  ASSUME CompactInv, NEW ok \in BOOLEAN, EndBuild(ok), avTime' = avTime,
         avFile' \in [made : Nat, whole : {TRUE}] \cup {None},
         avFile' # None => avFile'.made <= avTime,
         ok => avFile' # None /\ avFile'.made + AVMaxAge >= build.began,
         \/ avFile' = avFile
         \/ build.step = "rename" /\ avFile' # None /\ avFile'.made = build.made
  PROVE  CompactInv'
<1>1. build' = NoBuild
  BY DEF EndBuild
<1>2. BuildOK'
  <2>1. 0 \in 0..AVSources /\ 0 \in 0..avTime
    BY CompactTypes
  <2> QED
    BY <1>1, <2>1, NoBuildRecord DEF BuildOK
<1>3. ASSUME NEW v \in Viewers
      PROVE  viewer'[v] \in ViewerRecords /\ ViewerOK(v)'
  <2> DEFINE q == [viewer[v] EXCEPT !.phase = "open", !.left = FALSE]
  <2>1. viewer'[v] = IF viewer[v].phase # "wait" THEN viewer[v] ELSE IF ok THEN q ELSE NoViewer
    BY DEF EndBuild
  <2>2. q \in ViewerRecords /\ q.phase = "open" /\ q.since = viewer[v].since
    BY ViewerTypes DEF ViewerRecords
  <2> HIDE DEF q
  <2>3. CASE viewer[v].phase # "wait"
    <3>1. viewer'[v] = viewer[v] /\ viewer[v] \in ViewerRecords /\ ViewerOK(v)
          /\ viewer[v].since \in Nat
      BY <2>1, <2>3, ViewerTypes
    <3>2. viewer[v].phase = "open" => avFile' # None /\ avFile'.made + AVMaxAge >= viewer[v].since
      BY <3>1, CompactTypes DEF ViewerOK
    <3> QED
      BY <1>1, <2>3, <3>1, <3>2, NoBuildRecord DEF ViewerOK
  <2>4. CASE viewer[v].phase = "wait" /\ ok
    <3>1. viewer'[v] = q /\ q.since <= build.began /\ q.since <= avTime /\ q.since \in Nat
      BY <2>1, <2>2, <2>4, ViewerTypes DEF ViewerOK
    <3>2. avFile' # None /\ avFile'.made + AVMaxAge >= q.since
      <4>1. avFile'.made \in Nat
        BY <2>4
      <4> QED
        BY <2>4, <3>1, <4>1, CompactTypes
    <3> QED
      BY <1>1, <2>2, <3>1, <3>2, NoBuildRecord DEF ViewerOK
  <2>5. CASE viewer[v].phase = "wait" /\ ~ok
    <3>1. viewer'[v] = NoViewer
      BY <2>1, <2>5
    <3> QED
      BY <3>1, NoViewerRecord, CompactTypes DEF ViewerOK
  <2> QED
    BY <2>3, <2>4, <2>5
<1>4. viewer' \in [Viewers -> ViewerRecords]
  BY <1>3 DEF EndBuild
<1>5. CompactTyped'
  BY <1>4 DEF CompactInv, CompactTyped
<1> QED
  BY <1>2, <1>3, <1>5 DEF CompactInv

LEMMA FlightStep == ASSUME CompactInv, BuildStep PROVE CompactInv'
<1>1. /\ DOMAIN build = {"step", "leader", "began", "asked", "body", "made"}
      /\ DOMAIN build.asked = {"tried", "silent", "failed", "pair"}
      /\ build.leader \in Viewers \cup {None} /\ build.asked.tried \in 0..AVSources
      /\ build.began \in 0..avTime
  BY DEF CompactInv, BuildOK
<1>2. avFile \in [made : Nat, whole : {TRUE}] \cup {None} /\ (avFile # None => avFile.made <= avTime)
  BY DEF CompactInv, CompactTyped
<1>3. CASE LookForFile
  <2>1. CASE FileUsable /\ EndBuild(TRUE)
    <3>1. avFile # None /\ avFile.made + AVMaxAge >= build.began
      BY <2>1, CompactTypes DEF FileUsable
    <3> QED
      BY <1>2, <1>3, <2>1, <3>1, EndBuildStep DEF LookForFile
  <2>2. CASE ~FileUsable /\ build' = [build EXCEPT !.step = "resolve"] /\ UNCHANGED viewer
    <3>1. /\ build.step = "look" /\ build'.step = "resolve" /\ build'.began = build.began
          /\ build'.asked = build.asked /\ build'.leader = build.leader
          /\ DOMAIN build' = DOMAIN build /\ UNCHANGED <<avTime, avFile, viewer>>
      BY <1>1, <1>3, <2>2 DEF LookForFile
    <3>2. BuildOK'
      BY <1>1, <2>2, <3>1 DEF BuildOK, FileUsable
    <3> QED
      BY <3>1, <3>2, BuildStepKeeps
  <2> QED
    BY <1>3, <2>1, <2>2 DEF LookForFile
<1>4. CASE AskSource
  <2>1. PICK body \in AVBodies \cup {None} :
          build' = [build EXCEPT !.asked = Ask(build.asked, body),
                      !.body = IF Ask(build.asked, body).pair = None THEN None ELSE body]
    BY <1>4 DEF AskSource
  <2> DEFINE asked == Ask(build.asked, body)
  <2>2. /\ build.step = "resolve" /\ build'.step = "resolve" /\ build'.began = build.began
        /\ build'.leader = build.leader /\ build'.asked = asked
        /\ DOMAIN build' = DOMAIN build /\ UNCHANGED <<avTime, avFile, viewer>>
    BY <1>1, <1>4, <2>1 DEF AskSource
  <2>3. DOMAIN asked = {"tried", "silent", "failed", "pair"} /\ asked.tried \in 0..AVSources
    <3>1. build.asked.tried # AVSources
      BY <1>4 DEF AskSource, Resolved
    <3>2. build.asked.tried + 1 \in 0..AVSources
      BY <1>1, <3>1, CompactTypes
    <3> QED
      BY <1>1, <3>2 DEF Ask
  <2> HIDE DEF asked
  <2>4. BuildOK'
    BY <1>1, <2>2, <2>3 DEF CompactInv, BuildOK, FileUsable
  <2> QED
    BY <2>2, <2>4, BuildStepKeeps
<1>5. CASE ResolvesNothing \/ MuxFails
  <2>1. EndBuild(FALSE) /\ UNCHANGED <<avTime, avFile>>
    BY <1>5 DEF ResolvesNothing, MuxFails
  <2> QED
    BY <1>2, <2>1, EndBuildStep
<1>6. CASE Mux
  <2>1. /\ build.step = "resolve" /\ build'.step = "mux" /\ build'.began = build.began
        /\ build'.leader = build.leader /\ build'.asked = NothingAsked
        /\ DOMAIN build' = DOMAIN build /\ UNCHANGED <<avTime, avFile, viewer>>
    BY <1>1, <1>6 DEF Mux
  <2>2. DOMAIN NothingAsked = {"tried", "silent", "failed", "pair"}
        /\ NothingAsked.tried \in 0..AVSources
    BY CompactTypes DEF NothingAsked
  <2>3. BuildOK'
    BY <1>1, <2>1, <2>2 DEF CompactInv, BuildOK, FileUsable
  <2> QED
    BY <2>1, <2>3, BuildStepKeeps
<1>7. CASE Muxed
  <2>1. /\ build.step = "mux" /\ build'.step = "rename" /\ build'.began = build.began
        /\ build'.leader = build.leader /\ build'.asked = build.asked /\ build'.made = avTime
        /\ DOMAIN build' = DOMAIN build /\ UNCHANGED <<avTime, avFile, viewer>>
    BY <1>1, <1>7 DEF Muxed
  <2>2. avTime \in build.began..avTime
    BY CompactTypes
  <2>3. BuildOK'
    BY <1>1, <2>1, <2>2 DEF CompactInv, BuildOK, FileUsable
  <2> QED
    BY <2>1, <2>3, BuildStepKeeps
<1>8. CASE Rename
  <2>1. /\ build.step = "rename" /\ avFile' = [made |-> build.made, whole |-> TRUE]
        /\ EndBuild(TRUE) /\ avTime' = avTime
    BY <1>8 DEF Rename
  <2>2. build.made \in Nat /\ build.made <= avTime /\ build.made + AVMaxAge >= build.began /\ avFile'.made = build.made
    BY <2>1, CompactTypes
  <2>3. avFile' \in [made : Nat, whole : {TRUE}]
    <3>1. TRUE \in {TRUE}
      OBVIOUS
    <3> QED
      BY <2>1, <2>2, <3>1
  <2>4. avFile' # None
    <3>1. avFile' \in [made : Nat, whole : BOOLEAN]
      BY <2>1, <2>2
    <3> QED
      BY <3>1, CompactAssumption
  <2> QED
    BY <2>1, <2>2, <2>3, <2>4, EndBuildStep
<1> QED
  BY <1>3, <1>4, <1>5, <1>6, <1>7, <1>8 DEF BuildStep

LEMMA AVTickStep == ASSUME CompactInv, AVTick PROVE CompactInv'
<1>1. /\ avTime' = avTime + 1 /\ avTime' \in 0..MaxAVTime /\ UNCHANGED <<avFile, build, viewer>>
  BY CompactTypes, CompactAssumption DEF AVTick, CompactInv, CompactTyped
<1>2. build.began \in 0..avTime'
      /\ (build.step = "rename" => build.made \in build.began..avTime')
  BY <1>1, CompactTypes
<1>3. ~FileUsable => ~FileUsable'
  BY <1>1, CompactTypes DEF FileUsable
<1>4. CompactTyped'
  <2>1. avFile # None => avFile.made <= avTime'
    BY <1>1, CompactTypes
  <2>2. avFile \in [made : Nat, whole : {TRUE}] \cup {None} /\ viewer \in [Viewers -> ViewerRecords]
    BY DEF CompactInv, CompactTyped
  <2> QED
    BY <1>1, <2>1, <2>2 DEF CompactTyped
<1>6. BuildOK'
  BY <1>1, <1>2, <1>3 DEF CompactInv, BuildOK
<1>5. ASSUME NEW v \in Viewers PROVE ViewerOK(v)'
  BY <1>1, ViewerTypes, CompactTypes DEF ViewerOK
<1> QED
  BY <1>4, <1>5, <1>6 DEF CompactInv

LEMMA CompactInvariant == CompactSpec => []CompactInv
<1>1. CompactInit => CompactInv
  <2> SUFFICES ASSUME CompactInit PROVE CompactInv
    OBVIOUS
  <2>1. 0 \in 0..MaxAVTime /\ 0 \in 0..AVSources /\ 0 \in 0..0
    BY CompactAssumption, SourcesAssumption
  <2>2. CompactTyped
    BY <2>1, NoViewerRecord DEF CompactInit, CompactTyped
  <2>3. BuildOK
    BY <2>1, NoBuildRecord DEF CompactInit, BuildOK
  <2>4. \A v \in Viewers : ViewerOK(v)
    BY NoViewerRecord DEF CompactInit, ViewerOK
  <2> QED
    BY <2>2, <2>3, <2>4 DEF CompactInv
<1>2. CompactInv /\ [CompactNext]_compactVars => CompactInv'
  <2> SUFFICES ASSUME CompactInv, [CompactNext]_compactVars PROVE CompactInv'
    OBVIOUS
  <2>1. CASE UNCHANGED compactVars
    BY <2>1 DEF compactVars, CompactInv, CompactTyped, BuildOK, ViewerOK, FileUsable
  <2>2. ASSUME NEW v \in Viewers, ViewerStep(v) PROVE CompactInv'
    BY <2>2, JoinBuildStep, OpenFileStep, ServedStep DEF ViewerStep
  <2> QED
    BY <2>1, <2>2, AVTickStep, ViewStep, LeaderLeavesStep, FlightStep DEF CompactNext
<1> QED
  BY <1>1, <1>2, PTL DEF CompactSpec

(* What ServeCompactAV keeps of the file, the flight and its viewers has   *)
(* its types, however many viewers there are.                              *)
THEOREM CompactTypeCorrect == CompactSpec => []CompactTypeOK
<1>1. CompactInv => CompactTypeOK
  <2> SUFFICES ASSUME CompactInv PROVE CompactTypeOK
    OBVIOUS
  <2>1. \A v \in Viewers : viewer[v].phase \in {"idle", "join", "wait", "open", "serve"}
    BY ViewerTypes DEF ViewerRecords
  <2>2. avFile # None => avFile.made \in 0..avTime
    BY CompactTypes
  <2> QED
    BY <2>1, <2>2 DEF CompactInv, CompactTyped, BuildOK, CompactTypeOK
<1> QED
  BY <1>1, CompactInvariant, PTL

(* ServeCompactAV serves whole files that were not too old when the viewer *)
(* came or the flight it joined began.                                     *)
THEOREM FreshServed == CompactSpec => []ServedFresh
<1>1. CompactInv => ServedFresh
  <2> SUFFICES ASSUME CompactInv, NEW v \in Viewers, viewer[v].phase = "serve"
               PROVE  /\ viewer[v].file # None /\ viewer[v].file.whole
                      /\ viewer[v].file.made + AVMaxAge >= viewer[v].since
    BY DEF ServedFresh
  <2>1. viewer[v].file # None /\ viewer[v].file.made + AVMaxAge >= viewer[v].since
    BY ViewerTypes DEF ViewerOK
  <2>2. viewer[v].file.whole = TRUE
    BY <2>1, ViewerTypes DEF ViewerRecords
  <2> QED
    BY <2>1, <2>2
<1> QED
  BY <1>1, CompactInvariant, PTL

(* The pair of a flight is what was chosen among the tracks of the body it *)
(* keeps.                                                                  *)
Chosen(b) ==
  b.asked.pair # None => b.body \in AVBodies /\ b.asked.pair = BestPair(b.body.tracks)

LEMMA ChosenKept ==
  ASSUME CompactInv, Chosen(build), [CompactNext]_compactVars
  PROVE  Chosen(build')
<1>1. /\ DOMAIN build = {"step", "leader", "began", "asked", "body", "made"}
      /\ DOMAIN build.asked = {"tried", "silent", "failed", "pair"}
  BY DEF CompactInv, BuildOK
<1>2. ASSUME build' = NoBuild PROVE Chosen(build')
  BY <1>2 DEF NoBuild, NothingAsked, Chosen
<1>3. ASSUME build' = build PROVE Chosen(build')
  BY <1>3
<1>4. ASSUME NEW v \in Viewers, JoinBuild(v) PROVE Chosen(build')
  <2>1. build' = build \/ build'.asked = NoBuild.asked
    BY <1>4, NoBuildRecord DEF JoinBuild
  <2>2. NoBuild.asked.pair = None
    BY DEF NoBuild, NothingAsked
  <2> QED
    BY <2>1, <2>2 DEF Chosen
<1>5. CASE AskSource
  <2>1. PICK body \in AVBodies \cup {None} :
          build' = [build EXCEPT !.asked = Ask(build.asked, body),
                      !.body = IF Ask(build.asked, body).pair = None THEN None ELSE body]
    BY <1>5 DEF AskSource
  <2> DEFINE asked == Ask(build.asked, body)
  <2>2. build'.asked = asked /\ (asked.pair # None => build'.body = body)
    BY <1>1, <2>1
  <2>3. build.asked.pair = None
    BY <1>5 DEF AskSource, Resolved
  <2>4. asked.pair # None => body \in AVBodies /\ asked.pair = BestPair(body.tracks)
    BY <1>1, <2>3 DEF Ask
  <2> HIDE DEF asked
  <2> QED
    BY <2>2, <2>4 DEF Chosen
<1>6. CASE Mux
  <2>1. build'.asked = NothingAsked
    BY <1>1, <1>6 DEF Mux
  <2> QED
    BY <2>1 DEF NothingAsked, Chosen
<1>7. CASE Muxed \/ LookForFile
  <2>1. build' = NoBuild \/ (build'.asked = build.asked /\ build'.body = build.body)
    BY <1>1, <1>7 DEF Muxed, LookForFile, EndBuild
  <2> QED
    BY <1>2, <2>1 DEF Chosen
<1>8. CASE ResolvesNothing \/ MuxFails \/ Rename
  BY <1>2, <1>8 DEF ResolvesNothing, MuxFails, Rename, EndBuild
<1>9. ASSUME NEW v \in Viewers, View(v) \/ OpenFile(v) \/ Served(v) \/ LeaderLeaves(v)
      PROVE  build' = build
  BY <1>9 DEF View, OpenFile, Served, LeaderLeaves
<1> QED
  BY <1>3, <1>4, <1>5, <1>6, <1>7, <1>8, <1>9
  DEF CompactNext, BuildStep, ViewerStep, AVTick, compactVars

(* The pair that ServeCompactAV downloads fits, and no other pair of the   *)
(* manifest that fits has a larger picture, or with this picture more      *)
(* bandwidth: whatever the order of its tracks.                            *)
THEOREM PairBest == CompactSpec => []SourcesBest
<1>1. CompactInit => Chosen(build)
  BY DEF CompactInit, NoBuild, NothingAsked, Chosen
<1>2. Chosen(build) => SourcesBest
  <2> SUFFICES ASSUME Chosen(build), build.asked.pair # None PROVE SourcesBest
    BY DEF SourcesBest
  <2> DEFINE tracks == build.body.tracks
             pair == build.asked.pair
             all == {tracks[i] : i \in DOMAIN tracks}
             Of(kind) == {t \in all : t.kind = kind /\ t.length > 0 /\ t.allowed}
  <2>1. pair = BestPair(tracks) /\ tracks \in Seq(Tracks)
    BY SourcesAssumption DEF Chosen
  <2>2. BestSoFar(tracks, pair, Len(tracks) + 1, 0)
    BY <2>1, BestPairIsBest
  <2>3. \A v, a \in DOMAIN tracks : Seen(v, a, Len(tracks) + 1, 0)
    BY <2>1 DEF Seen
  <2>4. PICK v \in DOMAIN tracks, a \in DOMAIN tracks :
          pair = [video |-> tracks[v], audio |-> tracks[a]] /\ Joinable(tracks[v], tracks[a])
    BY <2>2 DEF BestSoFar
  <2>5. /\ pair.video = tracks[v] /\ pair.audio = tracks[a]
        /\ Usable(tracks[v], "video") /\ Usable(tracks[a], "audio") /\ Fits(tracks[v], tracks[a])
    BY <2>4 DEF Joinable
  <2>6. pair.video \in Of("video") /\ pair.audio \in Of("audio") /\ Fits(pair.video, pair.audio)
    BY <2>5 DEF Usable
  <2>7. ASSUME NEW u \in Of("video"), NEW w \in Of("audio"), Fits(u, w)
        PROVE  NoWorse(pair, u, w)
    <3>1. PICK i \in DOMAIN tracks, j \in DOMAIN tracks : u = tracks[i] /\ w = tracks[j]
      OBVIOUS
    <3>2. Joinable(tracks[i], tracks[j])
      BY <2>7, <3>1 DEF Joinable, Usable
    <3> QED
      BY <2>2, <2>3, <3>1, <3>2 DEF BestSoFar
  <2> HIDE DEF tracks, all
  <2> QED
    BY <2>6, <2>7 DEF SourcesBest, NoWorse, tracks, all
<1>3. Chosen(build) /\ CompactInv /\ [CompactNext]_compactVars => Chosen(build)'
  BY ChosenKept DEF Chosen
<1> QED
  BY <1>1, <1>2, <1>3, CompactInvariant, PTL DEF CompactSpec

---------------------------------------------------------------------------
(* The fetches through the public proxies. *)

AllPlaces == Places \cup {DirectPlace}

Statuses == {"unused", "new", "upstream", "ok", "failed"}

FetchRecords ==
  [phase : {"idle", "refused", "sequential", "hedged", "answered", "failed"},
   graphql : BOOLEAN, at : Nat,
   clients : [AllPlaces -> ProxySet \cup {Direct}] \cup {<<>>},
   status : [AllPlaces -> Statuses] \cup {<<>>}, results : Seq(AllPlaces),
   turn : {0} \cup AllPlaces]

Over == {"failed", "unused"}

(* How far a fetch is: the direct client goes last, a fetch client by      *)
(* client has one attempt at a time, and where proxies race it has not     *)
(* begun.                                                                  *)
FetchOK(q) ==
  /\ q \in FetchRecords
  /\ q.phase = "idle" => q.clients = <<>> /\ q.status = <<>>
  /\ q.phase # "idle" =>
       /\ q.clients \in [AllPlaces -> ProxySet \cup {Direct}]
       /\ q.status \in [AllPlaces -> Statuses]
       /\ \A k \in AllPlaces : q.clients[k] = Direct <=> k = DirectPlace
       /\ q.status[DirectPlace] \notin {"new", "unused"} => \A k \in Places : q.status[k] \in Over
       /\ q.phase = "sequential" =>
            \A k \in AllPlaces \ {q.turn} : q.status[k] \in Over \cup {"new"}
       /\ q.phase = "hedged" => q.turn = 0 /\ q.status[DirectPlace] \in {"new", "unused"}
       /\ q.phase = "failed" => \A k \in AllPlaces : q.status[k] \in Over

ProxyInv ==
  /\ proxyTime \in 0..MaxProxyTime /\ cursor \in 0..(Len(Proxies) - 1)
  /\ cooling \in [ProxySet -> 0..(MaxProxyTime + ProxyCooldown)]
  /\ failedAt \in [ProxySet -> (0..MaxProxyTime) \cup {None}]
  /\ policy \in [only : BOOLEAN, hedged : BOOLEAN]
  /\ fetch \in [Fetches -> FetchRecords]
  /\ \A f \in Fetches : FetchOK(fetch[f])

LEMMA PlacesTypes ==
  /\ Len(Proxies) \in Nat /\ Len(Proxies) > 0 /\ Places \subseteq Nat /\ DirectPlace \in Nat
  /\ DirectPlace \notin Places /\ 0 \notin AllPlaces /\ AllPlaces \subseteq Nat
  /\ \A k \in Places : k < DirectPlace
  /\ DOMAIN Proxies = Places /\ Direct \notin ProxySet
<1>1. /\ Len(Proxies) \in Nat /\ Len(Proxies) > 0 /\ DOMAIN Proxies = 1..Len(Proxies)
  BY ProxyAssumption
<1> QED
  BY <1>1, ProxyAssumption DEF Places, DirectPlace, AllPlaces, ProxySet

LEMMA OrderTypes ==
  ASSUME cursor \in Nat
  PROVE  \A k \in Places : Order[k] \in ProxySet
<1> SUFFICES ASSUME NEW k \in Places PROVE Order[k] \in ProxySet
  OBVIOUS
<1> DEFINE i == ((cursor + k - 1) % Len(Proxies)) + 1
<1>1. cursor + k - 1 \in Int /\ Len(Proxies) \in Nat /\ Len(Proxies) > 0
  BY PlacesTypes
<1>2. i \in Places
  BY <1>1 DEF Places
<1> QED
  BY <1>2, PlacesTypes DEF Order, ProxySet

(* A fetch that goes on leaves the others as they are.                     *)
LEMMA PutStep ==
  ASSUME ProxyInv, NEW f \in Fetches, NEW q, FetchOK(q), Put(f, q),
         cursor' \in 0..(Len(Proxies) - 1),
         cooling' \in [ProxySet -> 0..(MaxProxyTime + ProxyCooldown)],
         failedAt' \in [ProxySet -> (0..MaxProxyTime) \cup {None}],
         UNCHANGED <<proxyTime, policy>>
  PROVE  ProxyInv'
<1>1. ASSUME NEW g \in Fetches PROVE FetchOK(fetch'[g])
  <2>1. fetch'[g] = q \/ fetch'[g] = fetch[g]
    BY DEF Put, ProxyInv
  <2> QED
    BY <2>1 DEF ProxyInv
<1>2. fetch' \in [Fetches -> FetchRecords]
  BY DEF Put, ProxyInv, FetchOK
<1> QED
  BY <1>1, <1>2 DEF ProxyInv

LEMMA FetchRecord ==
  ASSUME ProxyInv, NEW f \in Fetches
  PROVE  /\ FetchOK(fetch[f]) /\ fetch[f] \in FetchRecords
         /\ fetch[f].phase # "idle" => /\ fetch[f].clients \in [AllPlaces -> ProxySet \cup {Direct}]
                                       /\ fetch[f].status \in [AllPlaces -> Statuses]
         /\ \A i \in DOMAIN fetch[f].clients : fetch[f].phase # "idle" /\ i \in AllPlaces
BY DEF ProxyInv, FetchOK

LEMMA NoFetchRecord ==
  /\ NoFetch \in FetchRecords /\ FetchOK(NoFetch) /\ NoFetch.phase = "idle"
<1>1. /\ NoFetch \in FetchRecords /\ NoFetch.phase = "idle" /\ NoFetch.clients = <<>>
      /\ NoFetch.status = <<>>
  <2>1. <<>> \in Seq(AllPlaces)
    OBVIOUS
  <2> QED
    BY <2>1 DEF NoFetch, FetchRecords
<1> QED
  BY <1>1 DEF FetchOK

LEMMA FetchBegins ==
  ASSUME ProxyInv, NEW f \in Fetches, NEW graphql \in BOOLEAN, Fetch(f, graphql)
  PROVE  ProxyInv'
<1>1. PICK first \in {"refused", "hedged", "sequential"} :
        Put(f, [NoFetch EXCEPT !.phase = first, !.graphql = graphql, !.at = proxyTime,
                               !.clients = Clients, !.status = StatusAtFirst(first)])
  BY DEF Fetch
<1> DEFINE q == [NoFetch EXCEPT !.phase = first, !.graphql = graphql, !.at = proxyTime,
                                !.clients = Clients, !.status = StatusAtFirst(first)]
<1>2. cursor \in Nat /\ proxyTime \in Nat
  BY PlacesTypes, ProxyAssumption DEF ProxyInv
<1>3. /\ Clients \in [AllPlaces -> ProxySet \cup {Direct}]
      /\ \A k \in AllPlaces : Clients[k] = Direct <=> k = DirectPlace
  BY <1>2, OrderTypes, PlacesTypes DEF Clients, AllPlaces
<1>4. /\ StatusAtFirst(first) \in [AllPlaces -> Statuses]
      /\ \A k \in AllPlaces : /\ StatusAtFirst(first)[k] \in {"unused", "upstream", "new"}
                              /\ k \notin ProxyClients \/ first # "hedged" =>
                                   StatusAtFirst(first)[k] \in {"unused", "new"}
  BY DEF StatusAtFirst, AllPlaces, Statuses
<1>5. DirectPlace \notin ProxyClients
  BY PlacesTypes DEF ProxyClients, Selected
<1> HIDE DEF AllPlaces
<1>6. /\ q \in FetchRecords /\ q.phase = first /\ q.clients = Clients
      /\ q.status = StatusAtFirst(first) /\ q.turn = 0
  <2>1. NoFetch \in FetchRecords /\ NoFetch.turn = 0
    BY NoFetchRecord DEF NoFetch
  <2> QED
    BY <1>2, <1>3, <1>4, <2>1 DEF FetchRecords
<1> HIDE DEF q
<1>7. DirectPlace \in AllPlaces
  BY DEF AllPlaces
<1>8. FetchOK(q)
  BY <1>3, <1>4, <1>5, <1>6, <1>7 DEF FetchOK, Over
<1>9. cursor' \in 0..(Len(Proxies) - 1)
  BY <1>2, PlacesTypes DEF Fetch
<1> QED
  BY <1>1, <1>8, <1>9, PutStep DEF Fetch, q, ProxyInv

(* An attempt that is upstream ends.                                       *)
LEMMA EndAttemptStep ==
  ASSUME ProxyInv, NEW f \in Fetches, NEW i \in DOMAIN fetch[f].clients,
         NEW status \in {"ok", "failed"}, fetch[f].status[i] = "upstream",
         EndAttempt(f, i, status), UNCHANGED <<proxyTime, policy, cursor>>,
         cooling' \in [ProxySet -> 0..(MaxProxyTime + ProxyCooldown)],
         failedAt' \in [ProxySet -> (0..MaxProxyTime) \cup {None}]
  PROVE  ProxyInv'
<1> DEFINE o == fetch[f]
           results == IF o.phase = "hedged" THEN Append(o.results, i) ELSE o.results
           marked == [o.status EXCEPT ![i] = status]
           q == [o EXCEPT !.status = marked, !.results = results]
<1>1. Put(f, q)
  BY DEF EndAttempt
<1>2. /\ FetchOK(o) /\ o \in FetchRecords /\ o.phase # "idle" /\ i \in AllPlaces
      /\ o.status \in [AllPlaces -> Statuses] /\ o.status[i] = "upstream"
  BY FetchRecord
<1> HIDE DEF o
<1>3. results \in Seq(AllPlaces)
  BY <1>2 DEF FetchRecords
<1>4. /\ marked \in [AllPlaces -> Statuses] /\ marked[i] = status
      /\ \A k \in AllPlaces \ {i} : marked[k] = o.status[k]
  BY <1>2 DEF Statuses
<1> HIDE DEF results, marked
<1>5. /\ q \in FetchRecords /\ q.phase = o.phase /\ q.status = marked /\ q.turn = o.turn
      /\ q.clients = o.clients
  BY <1>2, <1>3, <1>4 DEF FetchRecords
<1> HIDE DEF q
<1>6. FetchOK(q)
  BY <1>2, <1>4, <1>5, PlacesTypes DEF FetchOK, Over, AllPlaces
<1>7. cursor' \in 0..(Len(Proxies) - 1)
  BY DEF ProxyInv
<1> QED
  BY <1>1, <1>6, <1>7, PutStep

LEMMA CoolType ==
  ASSUME ProxyInv, NEW client, Cool(client)
  PROVE  cooling' \in [ProxySet -> 0..(MaxProxyTime + ProxyCooldown)]
<1>1. proxyTime + ProxyCooldown \in 0..(MaxProxyTime + ProxyCooldown)
  BY ProxyAssumption DEF ProxyInv
<1>2. cooling \in [ProxySet -> 0..(MaxProxyTime + ProxyCooldown)]
  BY DEF ProxyInv
<1> QED
  BY <1>1, <1>2 DEF Cool

LEMMA AttemptKeeps ==
  ASSUME ProxyInv, NEW f \in Fetches, NEW i \in DOMAIN fetch[f].clients, AttemptStep(f, i)
  PROVE  ProxyInv'
<1>1. CASE Delivers(f, i) \/ Useless(f, i)
  BY <1>1, EndAttemptStep DEF Delivers, Useless, ProxyInv
<1>2. CASE Fails(f, i)
  <2>1. failedAt' \in [ProxySet -> (0..MaxProxyTime) \cup {None}]
    BY <1>2 DEF Fails, ProxyInv
  <2>2. cooling' \in [ProxySet -> 0..(MaxProxyTime + ProxyCooldown)]
    BY <1>2, CoolType DEF Fails
  <2> QED
    BY <1>2, <2>1, <2>2, EndAttemptStep DEF Fails
<1>3. CASE CalledOff(f, i)
  <2>1. failedAt' \in [ProxySet -> (0..MaxProxyTime) \cup {None}]
    BY <1>3 DEF CalledOff, ProxyInv
  <2>2. cooling' \in [ProxySet -> 0..(MaxProxyTime + ProxyCooldown)]
    BY <1>3, CoolType DEF CalledOff
  <2> QED
    BY <1>3, <2>1, <2>2, EndAttemptStep DEF CalledOff
<1> QED
  BY <1>1, <1>2, <1>3 DEF AttemptStep

(* A fetch goes on by itself: what the pool knows stays as it is.          *)
LEMMA FetchGoesOn ==
  ASSUME ProxyInv, NEW f \in Fetches, NEW q, FetchOK(q), Put(f, q),
         UNCHANGED <<proxyTime, policy, cursor, cooling, failedAt>>
  PROVE  ProxyInv'
BY PutStep DEF ProxyInv

(* The fetch has its answer, or has none, or hears of an attempt's end.    *)
LEMMA PhaseRecord ==
  ASSUME NEW o, FetchOK(o), o.phase # "idle",
         NEW to \in {"sequential", "hedged", "answered", "failed"},
         NEW results \in Seq(AllPlaces),
         to = "sequential" => \A k \in AllPlaces \ {o.turn} : o.status[k] \in Over \cup {"new"},
         to = "hedged" => o.phase = "hedged",
         to = "failed" => \A k \in AllPlaces : o.status[k] \in Over
  PROVE  FetchOK([o EXCEPT !.phase = to, !.results = results])
<1> DEFINE q == [o EXCEPT !.phase = to, !.results = results]
<1>1. /\ q \in FetchRecords /\ q.phase = to /\ q.status = o.status /\ q.turn = o.turn
      /\ q.clients = o.clients
  BY DEF FetchOK, FetchRecords
<1> HIDE DEF q
<1>2. FetchOK(q)
  BY <1>1 DEF FetchOK
<1> QED
  BY <1>2 DEF q

(* One more attempt begins: that of the direct client when all else is     *)
(* over.                                                                   *)
LEMMA BeginRecord ==
  ASSUME NEW o, FetchOK(o), o.phase \in {"sequential", "hedged"}, NEW i \in AllPlaces,
         NEW results \in Seq(AllPlaces), NEW turn \in {0} \cup AllPlaces,
         o.phase = "hedged" => i # DirectPlace /\ turn = 0,
         o.phase = "sequential" =>
           turn = i /\ (o.turn # 0 => o.status[o.turn] = "failed"),
         i = DirectPlace => \A k \in Places : o.status[k] # "new",
         o.status[DirectPlace] \in {"new", "unused"}
  PROVE  FetchOK([o EXCEPT !.status = [o.status EXCEPT ![i] = "upstream"],
                           !.results = results, !.turn = turn])
<1> DEFINE marked == [o.status EXCEPT ![i] = "upstream"]
           q == [o EXCEPT !.status = marked, !.results = results, !.turn = turn]
<1>1. o.status \in [AllPlaces -> Statuses] /\ o \in FetchRecords /\ DirectPlace \in AllPlaces
      /\ Places \subseteq AllPlaces
  BY DEF FetchOK, AllPlaces
<1>2. /\ marked \in [AllPlaces -> Statuses] /\ marked[i] = "upstream"
      /\ \A k \in AllPlaces \ {i} : marked[k] = o.status[k]
  BY <1>1 DEF Statuses
<1> HIDE DEF marked
<1>3. /\ q \in FetchRecords /\ q.phase = o.phase /\ q.status = marked /\ q.turn = turn
      /\ q.clients = o.clients
  BY <1>1, <1>2 DEF FetchRecords
<1> HIDE DEF q
<1>4. ASSUME o.phase = "sequential", NEW k \in AllPlaces PROVE o.status[k] \in Over \cup {"new"}
  <2>1. o.turn = 0 \/ o.turn \in AllPlaces
    BY <1>1 DEF FetchRecords
  <2> QED
    BY <1>4, <2>1, PlacesTypes DEF FetchOK, Over
<1>5. i = DirectPlace => \A k \in Places : marked[k] \in Over
  BY <1>1, <1>2, <1>4, PlacesTypes DEF Over
<1>6. FetchOK(q)
  BY <1>1, <1>2, <1>3, <1>4, <1>5 DEF FetchOK
<1> QED
  BY <1>6 DEF q, marked
LEMMA SequentialStep ==
  ASSUME ProxyInv, NEW f \in Fetches, Sequential(f)
  PROVE  ProxyInv'
<1> DEFINE o == fetch[f]
           new == Indexes(o, "new")
           ended == IF o.turn = 0 THEN "failed" ELSE o.status[o.turn]
<1>1. /\ FetchOK(o) /\ o \in FetchRecords /\ o.phase = "sequential" /\ o.phase # "idle"
      /\ o.clients \in [AllPlaces -> ProxySet \cup {Direct}]
      /\ o.status \in [AllPlaces -> Statuses]
  BY FetchRecord DEF Sequential
<1>2. o.turn \in {0} \cup AllPlaces /\ o.results \in Seq(AllPlaces)
  BY <1>1 DEF FetchRecords
<1>3. new = {k \in AllPlaces : o.status[k] = "new"}
  BY <1>1 DEF Indexes
<1>4. \A k \in AllPlaces \ {o.turn} : o.status[k] \in Over \cup {"new"}
  BY <1>1 DEF FetchOK
<1>5. CASE ended = "ok" /\ Put(f, [o EXCEPT !.phase = "answered"])
  <2>1. [o EXCEPT !.phase = "answered"] = [o EXCEPT !.phase = "answered", !.results = o.results]
    BY <1>1 DEF FetchRecords
  <2>2. FetchOK([o EXCEPT !.phase = "answered"])
    BY <1>1, <1>2, <2>1, PhaseRecord
  <2> QED
    BY <1>5, <2>2, FetchGoesOn DEF Sequential
<1>6. ASSUME ended = "failed", NEW i \in First(new), Put(f, [Begin(o, i) EXCEPT !.turn = i])
      PROVE  ProxyInv'
  <2>1. i \in new /\ \A j \in new : i <= j
    BY DEF First
  <2>2. /\ i \in AllPlaces /\ o.status[i] = "new"
        /\ \A k \in AllPlaces : o.status[k] = "new" => i <= k
    BY <1>3, <2>1
  <2>3. i = DirectPlace => \A k \in Places : o.status[k] # "new"
    BY <2>2, PlacesTypes DEF AllPlaces
  <2>4. o.status[DirectPlace] \in {"new", "unused"}
    BY <1>1, <2>2 DEF FetchOK, Over, AllPlaces
  <2>5. o.turn # 0 => o.status[o.turn] = "failed"
    BY <1>6
  <2>6. FetchOK([o EXCEPT !.status = [o.status EXCEPT ![i] = "upstream"],
                          !.results = o.results, !.turn = i])
    BY <1>1, <1>2, <2>2, <2>3, <2>4, <2>5, BeginRecord
  <2>7. [Begin(o, i) EXCEPT !.turn = i] =
          [o EXCEPT !.status = [o.status EXCEPT ![i] = "upstream"],
                    !.results = o.results, !.turn = i]
    BY <1>1 DEF Begin, FetchRecords
  <2> QED
    BY <1>6, <2>6, <2>7, FetchGoesOn DEF Sequential
<1>7. CASE ended = "failed" /\ new = {} /\ Put(f, [o EXCEPT !.phase = "failed"])
  <2>1. [o EXCEPT !.phase = "failed"] = [o EXCEPT !.phase = "failed", !.results = o.results]
    BY <1>1 DEF FetchRecords
  <2>2. \A k \in AllPlaces : o.status[k] \in Over
    <3>1. \A k \in AllPlaces : k # o.turn => o.status[k] \in Over
      BY <1>3, <1>4, <1>7 DEF Over
    <3>2. o.turn # 0 => o.status[o.turn] = "failed"
      BY <1>7
    <3> QED
      BY <3>1, <3>2, PlacesTypes DEF Over
  <2>3. FetchOK([o EXCEPT !.phase = "failed"])
    BY <1>1, <1>2, <2>1, <2>2, PhaseRecord
  <2> QED
    BY <1>7, <2>3, FetchGoesOn DEF Sequential
<1> QED
  BY <1>5, <1>6, <1>7 DEF Sequential

(* A proxy that joins the race, its fetch having taken some results.       *)
LEMMA JoinsRace ==
  ASSUME ProxyInv, NEW f \in Fetches, fetch[f].phase = "hedged", NEW results \in Seq(AllPlaces),
         NEW i \in Waiting(fetch[f])
  PROVE  FetchOK(Begin([fetch[f] EXCEPT !.results = results], i))
<1> DEFINE o == fetch[f]
<1>1. /\ FetchOK(o) /\ o \in FetchRecords /\ o.phase = "hedged"
      /\ o.clients \in [AllPlaces -> ProxySet \cup {Direct}]
      /\ o.status \in [AllPlaces -> Statuses]
  BY FetchRecord
<1>2. i \in AllPlaces /\ o.clients[i] # Direct
  BY <1>1 DEF Waiting, ProxyIndexes
<1>3. i # DirectPlace /\ o.turn = 0 /\ o.status[DirectPlace] \in {"new", "unused"}
  BY <1>1, <1>2 DEF FetchOK
<1> HIDE DEF o
<1>4. FetchOK([o EXCEPT !.status = [o.status EXCEPT ![i] = "upstream"],
                        !.results = results, !.turn = 0])
  BY <1>1, <1>2, <1>3, BeginRecord
<1>5. Begin([o EXCEPT !.results = results], i) =
        [o EXCEPT !.status = [o.status EXCEPT ![i] = "upstream"],
                  !.results = results, !.turn = 0]
  BY <1>1, <1>3 DEF Begin, FetchRecords
<1> QED
  BY <1>4, <1>5 DEF o

LEMMA HedgeDelayStep ==
  ASSUME ProxyInv, NEW f \in Fetches, HedgeDelay(f)
  PROVE  ProxyInv'
<1>1. PICK i \in Waiting(fetch[f]) : Put(f, Begin(fetch[f], i))
  BY DEF HedgeDelay, First
<1>2. fetch[f] \in FetchRecords /\ fetch[f].phase = "hedged"
  BY FetchRecord DEF HedgeDelay
<1>3. fetch[f].results \in Seq(AllPlaces)
  BY <1>2 DEF FetchRecords
<1>4. [fetch[f] EXCEPT !.results = fetch[f].results] = fetch[f]
  BY <1>2 DEF FetchRecords
<1>5. FetchOK(Begin(fetch[f], i))
  BY <1>2, <1>3, <1>4, JoinsRace
<1> QED
  BY <1>1, <1>5, FetchGoesOn DEF HedgeDelay

LEMMA ReceiveStep ==
  ASSUME ProxyInv, NEW f \in Fetches, Receive(f)
  PROVE  ProxyInv'
<1> DEFINE o == fetch[f]
           rest == Tail(o.results)
           q == [o EXCEPT !.results = rest]
<1>1. /\ FetchOK(o) /\ o \in FetchRecords /\ o.phase = "hedged" /\ o.phase # "idle"
      /\ o.clients \in [AllPlaces -> ProxySet \cup {Direct}]
      /\ o.status \in [AllPlaces -> Statuses] /\ o.results # <<>>
  BY FetchRecord DEF Receive
<1>2. o.results \in Seq(AllPlaces)
  BY <1>1 DEF FetchRecords
<1>3. rest \in Seq(AllPlaces)
  BY <1>1, <1>2
<1>4. \/ Put(f, [q EXCEPT !.phase = "answered"])
      \/ \E k \in First(Waiting(q)) : Put(f, Begin(q, k))
      \/ Put(f, q)
      \/ RaceOver(q) /\ Put(f, [q EXCEPT !.phase = "sequential"])
  BY DEF Receive
<1> HIDE DEF rest
<1>5. q.clients = o.clients /\ q.status = o.status
  BY <1>1 DEF FetchRecords
<1>6. Waiting(q) = Waiting(o) /\ ProxyIndexes(q) = ProxyIndexes(o)
  BY <1>5 DEF Waiting, Indexes, ProxyIndexes
<1>7. CASE Put(f, [q EXCEPT !.phase = "answered"])
  <2>1. [q EXCEPT !.phase = "answered"] = [o EXCEPT !.phase = "answered", !.results = rest]
    BY <1>1 DEF FetchRecords
  <2>2. FetchOK([q EXCEPT !.phase = "answered"])
    BY <1>1, <1>3, <2>1, PhaseRecord
  <2> QED
    BY <1>7, <2>2, FetchGoesOn DEF Receive
<1>8. ASSUME NEW i \in First(Waiting(q)), Put(f, Begin(q, i)) PROVE ProxyInv'
  <2>1. i \in Waiting(o)
    BY <1>6 DEF First
  <2>2. FetchOK(Begin(q, i))
    BY <1>1, <1>3, <2>1, JoinsRace
  <2> QED
    BY <1>8, <2>2, FetchGoesOn DEF Receive
<1>9. CASE Put(f, q)
  <2>1. q = [o EXCEPT !.phase = "hedged", !.results = rest]
    BY <1>1 DEF FetchRecords
  <2>2. FetchOK(q)
    BY <1>1, <1>3, <2>1, PhaseRecord
  <2> QED
    BY <1>9, <2>2, FetchGoesOn DEF Receive
<1>10. CASE RaceOver(q) /\ Put(f, [q EXCEPT !.phase = "sequential"])
  <2>1. [q EXCEPT !.phase = "sequential"] = [o EXCEPT !.phase = "sequential", !.results = rest]
    BY <1>1 DEF FetchRecords
  <2>2. ASSUME NEW k \in AllPlaces PROVE o.status[k] \in Over \cup {"new"}
    <3>1. CASE k = DirectPlace
      BY <1>1, <3>1 DEF FetchOK, Over
    <3>2. CASE k # DirectPlace
      <4>1. o.clients[k] # Direct
        BY <1>1, <3>2 DEF FetchOK
      <4>2. k \in ProxyIndexes(q) \/ o.status[k] = "unused"
        BY <1>1, <1>6, <4>1 DEF ProxyIndexes
      <4> QED
        BY <1>5, <1>10, <4>2 DEF RaceOver, Over
    <3> QED
      BY <3>1, <3>2
  <2>3. FetchOK([q EXCEPT !.phase = "sequential"])
    BY <1>1, <1>3, <2>1, <2>2, PhaseRecord
  <2> QED
    BY <1>10, <2>3, FetchGoesOn DEF Receive
<1> QED
  BY <1>4, <1>7, <1>8, <1>9, <1>10

LEMMA ProxyNextInv ==
  ProxyInv /\ [ProxyNext]_proxyVars => ProxyInv'
<1> SUFFICES ASSUME ProxyInv, [ProxyNext]_proxyVars PROVE ProxyInv'
  OBVIOUS
<1>1. CASE ProxyTick
  <2>1. proxyTime' \in 0..MaxProxyTime
    BY <1>1, ProxyAssumption DEF ProxyInv, ProxyTick
  <2> QED
    BY <1>1, <2>1 DEF ProxyInv, ProxyTick
<1>2. ASSUME NEW f \in Fetches, NEW graphql \in BOOLEAN, Fetch(f, graphql) PROVE ProxyInv'
  BY <1>2, FetchBegins
<1>3. ASSUME NEW f \in Fetches, FetchStep(f) PROVE ProxyInv'
  <2>1. CASE Return(f)
    BY <2>1, NoFetchRecord, FetchGoesOn DEF Return
  <2> QED
    BY <1>3, <2>1, AttemptKeeps, SequentialStep, HedgeDelayStep, ReceiveStep DEF FetchStep
<1>4. CASE UNCHANGED proxyVars
  BY <1>4 DEF ProxyInv, proxyVars
<1> QED
  BY <1>1, <1>2, <1>3, <1>4 DEF ProxyNext

LEMMA ProxyInvariant == ProxySpec => []ProxyInv
<1>1. ProxyInit => ProxyInv
  <2> SUFFICES ASSUME ProxyInit PROVE ProxyInv
    OBVIOUS
  <2>1. 0 \in 0..MaxProxyTime /\ 0 \in 0..(MaxProxyTime + ProxyCooldown)
    BY ProxyAssumption
  <2>2. 0 \in 0..(Len(Proxies) - 1)
    BY PlacesTypes
  <2>3. \A f \in Fetches : fetch[f] = NoFetch
    BY DEF ProxyInit
  <2>4. fetch \in [Fetches -> FetchRecords] /\ \A f \in Fetches : FetchOK(fetch[f])
    BY <2>3, NoFetchRecord DEF ProxyInit
  <2> QED
    BY <2>1, <2>2, <2>4 DEF ProxyInit, ProxyInv
<1> QED
  BY <1>1, ProxyNextInv, PTL DEF ProxySpec

(* The pool and its fetches stay well formed, for any number of proxies    *)
(* and fetches (publicProxyCursor, publicProxyCooldowns).                  *)
THEOREM ProxyTypeCorrect == ProxySpec => []ProxyTypeOK
<1>1. ProxyInv => ProxyTypeOK
  <2> SUFFICES ASSUME ProxyInv, NEW f \in Fetches
               PROVE  /\ fetch[f].phase \in {"idle", "refused", "sequential", "hedged",
                                             "answered", "failed"}
                      /\ DOMAIN fetch[f].status = DOMAIN fetch[f].clients
    BY DEF ProxyInv, ProxyTypeOK
  <2>1. fetch[f].phase \in {"idle", "refused", "sequential", "hedged", "answered", "failed"}
    BY FetchRecord DEF FetchRecords
  <2>2. DOMAIN fetch[f].status = DOMAIN fetch[f].clients
    BY FetchRecord DEF FetchOK
  <2> QED
    BY <2>1, <2>2
<1> QED
  BY <1>1, ProxyInvariant, PTL

(* A fetch leaves the proxies for the server's own address, or gives up,   *)
(* only when each proxy it has chosen was asked and has failed             *)
(* (doGraphQLRequest, doGraphQLRequestHedged).                             *)
THEOREM ProxiesAskedFirst == ProxySpec => []ProxiesFirst
<1>1. ProxyInv => ProxiesFirst
  <2> SUFFICES ASSUME ProxyInv, NEW f \in Fetches,
                      \/ fetch[f].phase = "failed"
                      \/ \E i \in DOMAIN fetch[f].clients :
                           /\ fetch[f].clients[i] = Direct
                           /\ fetch[f].status[i] \notin {"new", "unused"},
                      NEW i \in ProxyIndexes(fetch[f])
               PROVE  fetch[f].status[i] = "failed"
    BY DEF ProxiesFirst
  <2>1. /\ i \in DOMAIN fetch[f].clients /\ fetch[f].clients[i] # Direct
        /\ fetch[f].status[i] # "unused"
    BY DEF ProxyIndexes
  <2>2. FetchOK(fetch[f]) /\ fetch[f].phase # "idle" /\ DOMAIN fetch[f].clients = AllPlaces
    BY <2>1, FetchRecord
  <2>3. fetch[f].status[i] \in Over
    BY <2>1, <2>2 DEF FetchOK, AllPlaces
  <2> QED
    BY <2>1, <2>3 DEF Over
<1> QED
  BY <1>1, ProxyInvariant, PTL

---------------------------------------------------------------------------
(* The video stream of the auth helper. *)

RangeHeaders == Ranges \cup {NoRange}

Conns ==
  [phase : {"free", "opening", "sending", "resuming"}, ask : RangeHeaders, ranged : BOOLEAN,
   todo : SUBSET Files, refreshed : BOOLEAN, url : Files \cup {None}, tells : BOOLEAN,
   end : Nat \cup {None}, next : Nat, last : Nat, resumes : 0..MaxResumes, hurt : BOOLEAN]

Bytes == Files \X Nat \X BOOLEAN

Outs ==
  [body : Seq(Bytes), start : Nat, promised : 0..MaxBytes,
   total : {0} \cup {Size[f] : f \in Files}, state : {"idle", "sending", "complete", "broken"}]

(* What was announced fits what is asked for, and what was sent fits both. *)
Announced(c, o) ==
  /\ o.state = "sending" /\ o.start = c.ask.from /\ c.url \in Files
  /\ c.end = None => o.promised = 0
  /\ c.end # None => c.ask.from <= c.end /\ o.promised = c.end - c.ask.from + 1
  /\ Len(o.body) <= MaxBytes
  /\ o.promised > 0 => Len(o.body) <= o.promised

(* The upstream response goes on where the body ends, and is of a file of  *)
(* the size announced if it tells one; without a fault it ends the body,   *)
(* or all chunks so far were whole ones.                                   *)
UpToDate(c, o) ==
  /\ c.next = c.ask.from + Len(o.body) /\ c.next <= c.last + 1
  /\ c.end # None => c.last <= c.end
  /\ c.tells /\ o.total > 0 => Size[c.url] = o.total
  /\ ~c.hurt => c.last = c.end \/ c.last + 1 - c.ask.from >= Chunk * (c.resumes + 1)

(* More of the body is to come; without a fault all chunks were whole.     *)
Behind(c, o) ==
  /\ o.promised > 0 /\ Len(o.body) < o.promised
  /\ ~c.hurt => Len(o.body) >= Chunk * c.resumes

Good(c, o) ==
  /\ c.phase \in {"free", "opening"} => o.state # "sending"
  /\ c.phase = "opening" => c.resumes = 0 /\ (~c.ranged => c.ask.from = 0)
  /\ c.phase \in {"sending", "resuming"} => Announced(c, o)
  /\ c.phase = "sending" => UpToDate(c, o)
  /\ c.phase = "resuming" => Behind(c, o)

VideoInv ==
  /\ conn \in [Threads -> Conns] /\ out \in [Threads -> Outs]
  /\ \A t \in Threads : Good(conn[t], out[t])

(* What a step of t does to the streams.                                   *)
Streams(t) ==
  /\ Stream(t)!StreamNext \/ out'[t] = out[t]
  /\ \A u \in Threads \ {t} : out'[u] = out[u]

---------------------------------------------------------------------------
(* A Range header asks for a last byte not before its first.               *)
LEMMA AskTypes == ASSUME NEW ask \in RangeHeaders
  PROVE ask.from \in Nat /\ ask.to \in Nat \cup {None} /\ (ask.to # None => ask.from <= ask.to)
  BY RangeAssumption DEF RangeHeaders, NoRange

(* One more resume accounts for one more chunk.                            *)
LEMMA ChunkSteps == ASSUME NEW r \in Nat
  PROVE Chunk * r \in Nat /\ Chunk * (r + 1) = Chunk * r + Chunk
  BY ChunkAssumption

(* The records of an idle thread.                                          *)
LEMMA FreeType == Free \in Conns /\ Nothing \in Outs
<1>1. Free \in Conns
  BY ChunkAssumption DEF Free, Conns, RangeHeaders
<1>2. Nothing \in Outs
  BY ChunkAssumption DEF Nothing, Outs
<1> QED BY <1>1, <1>2

(* The finally block: the stream finishes if it had begun.                 *)
LEMMA EndStep == ASSUME VideoInv, NEW t \in Threads, NEW state \in {"complete", "broken"}, End(t, state),
  out[t].state = "sending" /\ state = "complete" /\ out[t].promised > 0
     => Len(out[t].body) = out[t].promised
  PROVE VideoInv' /\ Streams(t)
<1>1. conn' \in [Threads -> Conns] /\ conn'[t] = Free /\ \A u \in Threads \ {t} : conn'[u] = conn[u]
  BY FreeType DEF End, VideoInv
<1>2. CASE out[t].state = "sending"
  <2> DEFINE over == [Nothing EXCEPT !.state = state]
  <2>5. over \in Outs /\ over.state = state
        /\ over.body = <<>> /\ over.start = 0 /\ over.promised = 0 /\ over.total = 0
    BY FreeType DEF Nothing, Outs
  <2>6. out' = [out EXCEPT ![t] = over]
    BY <1>2 DEF End
  <2> HIDE DEF over
  <2>1. out' \in [Threads -> Outs] /\ out'[t] = over
         /\ \A u \in Threads \ {t} : out'[u] = out[u]
    BY <2>5, <2>6 DEF VideoInv
  <2>2. out'[t].body = <<>> /\ out'[t].start = 0 /\ out'[t].promised = 0
        /\ out'[t].total = 0 /\ out'[t].state = state
    BY <2>1, <2>5
  <2>3. Stream(t)!Finish
    BY <1>2, <2>2 DEF Stream!Finish
  <2>4. Good(conn'[t], out'[t])
    BY <1>1, <2>2 DEF Good, Free
  <2> QED BY <1>1, <2>1, <2>3, <2>4 DEF VideoInv, Streams, Stream!StreamNext
<1>3. CASE out[t].state # "sending"
  <2>1. out' = out
    BY <1>3 DEF End
  <2>2. Good(conn'[t], out'[t])
    BY <1>1, <1>3, <2>1 DEF Good, Free
  <2> QED BY <1>1, <2>1, <2>2 DEF VideoInv, Streams
<1> QED BY <1>2, <1>3

(* A free thread's old stream is over and is reset.                        *)
LEMMA AcceptStep == ASSUME VideoInv, NEW t \in Threads, Accept(t) PROVE VideoInv' /\ Streams(t)
<1>1. PICK url \in Files, ask \in RangeHeaders, ranged \in BOOLEAN :
        /\ IF ranged THEN ask \in Ranges ELSE ask = NoRange
        /\ conn' = [conn EXCEPT ![t] =
            [Free EXCEPT !.phase = "opening", !.ask = ask, !.ranged = ranged, !.todo = {url}]]
  BY DEF Accept, RangeHeaders
<1>7. ~ranged => ask.from = 0
  BY <1>1 DEF RangeHeaders, NoRange
<1>2. [Free EXCEPT !.phase = "opening", !.ask = ask, !.ranged = ranged, !.todo = {url}] \in Conns
  BY FreeType DEF Conns
<1>3. /\ conn' \in [Threads -> Conns] /\ \A u \in Threads \ {t} : conn'[u] = conn[u]
      /\ conn'[t].phase = "opening" /\ conn'[t].resumes = 0
      /\ conn'[t].ask = ask /\ conn'[t].ranged = ranged
  BY <1>1, <1>2, FreeType DEF VideoInv, Free
<1>4. out' \in [Threads -> Outs] /\ out'[t] = Nothing /\ \A u \in Threads \ {t} : out'[u] = out[u]
  BY FreeType DEF Accept, VideoInv
<1>5. Good(conn'[t], out'[t])
  BY <1>7, <1>3, <1>4 DEF Good, Nothing
<1>6. Stream(t)!Reset
  <2>1. out[t].state # "sending"
    BY DEF VideoInv, Good, Accept
  <2> QED BY <1>4, <2>1 DEF Nothing, Stream!Reset, Stream!Silent
<1> QED BY <1>3, <1>4, <1>5, <1>6 DEF VideoInv, Streams, Stream!StreamNext

(* Failing candidates and the refresh leave the stream alone.              *)
LEMMA OpenFailsStep == ASSUME VideoInv, NEW t \in Threads, OpenFails(t) PROVE VideoInv' /\ Streams(t)
<1>1. out[t].state # "sending"
  BY DEF VideoInv, Good, OpenFails
<1>3. PICK url \in conn[t].todo :
        LET rest == conn[t].todo \ {url}
        IN  \/ /\ rest # {}
               /\ conn' = [conn EXCEPT ![t].todo = rest]
               /\ UNCHANGED <<slots, out>>
            \/ /\ rest = {} /\ ~conn[t].refreshed /\ Refresh
               /\ \E urls \in SUBSET Files \ {{}} :
                    conn' = [conn EXCEPT ![t].todo = urls, ![t].refreshed = TRUE]
               /\ UNCHANGED <<slots, out>>
            \/ rest = {} /\ End(t, "broken")
  BY DEF OpenFails
<1>4. CASE conn' = [conn EXCEPT ![t].todo = conn[t].todo \ {url}] /\ UNCHANGED out
  <2>1. /\ conn' \in [Threads -> Conns] /\ \A u \in Threads \ {t} : conn'[u] = conn[u]
        /\ conn'[t].phase = conn[t].phase /\ conn'[t].resumes = conn[t].resumes
        /\ conn'[t].ask = conn[t].ask /\ conn'[t].ranged = conn[t].ranged
    BY <1>4 DEF VideoInv, Conns
  <2>2. Good(conn'[t], out'[t])
    BY <2>1, <1>4 DEF VideoInv, Good, OpenFails
  <2> QED BY <2>1, <2>2, <1>4 DEF VideoInv, Streams
<1>5. ASSUME NEW urls \in SUBSET Files \ {{}}, UNCHANGED out,
             conn' = [conn EXCEPT ![t].todo = urls, ![t].refreshed = TRUE]
      PROVE  VideoInv' /\ Streams(t)
  <2>1. conn[t] \in Conns /\ conn \in [Threads -> Conns]
    BY DEF VideoInv
  <2>2. conn' = [conn EXCEPT ![t] = [conn[t] EXCEPT !.todo = urls, !.refreshed = TRUE]]
    BY <1>5, <2>1
  <2>3. /\ [conn[t] EXCEPT !.todo = urls, !.refreshed = TRUE] \in Conns
        /\ [conn[t] EXCEPT !.todo = urls, !.refreshed = TRUE].phase = conn[t].phase
        /\ [conn[t] EXCEPT !.todo = urls, !.refreshed = TRUE].resumes = conn[t].resumes
        /\ [conn[t] EXCEPT !.todo = urls, !.refreshed = TRUE].ranged = conn[t].ranged
        /\ [conn[t] EXCEPT !.todo = urls, !.refreshed = TRUE].ask = conn[t].ask
    BY <2>1 DEF Conns
  <2>4. /\ conn' \in [Threads -> Conns] /\ \A u \in Threads \ {t} : conn'[u] = conn[u]
        /\ conn'[t].phase = conn[t].phase /\ conn'[t].resumes = conn[t].resumes
        /\ conn'[t].ask = conn[t].ask /\ conn'[t].ranged = conn[t].ranged
    BY <2>1, <2>2, <2>3
  <2>5. Good(conn'[t], out'[t])
    BY <2>4, <1>5 DEF VideoInv, Good, OpenFails
  <2> QED BY <2>4, <2>5, <1>5 DEF VideoInv, Streams
<1>6. CASE End(t, "broken")
  BY <1>1, <1>6, EndStep
<1> QED BY <1>3, <1>4, <1>5, <1>6

(* The first byte and the last that an answer may bring.                   *)
LEMMA AnswerRange ==
  ASSUME NEW f \in Files, NEW from \in Nat, NEW to \in Nat \cup {None},
         to # None => from <= to, NEW answer \in Answers(f, from, to),
         answer.partial, answer.from = from
  PROVE  /\ answer.upto \in Nat /\ from <= answer.upto /\ answer.upto < Size[f]
         /\ to # None => answer.upto <= to
<1>1. Size[f] \in Nat \ {0}
  BY SizeAssumption
<1>2. CASE answer \in [partial : {TRUE}, from : {from}, upto : from..LastAsked(f, from, to)]
  <2>1. answer.upto \in from..LastAsked(f, from, to)
    BY <1>2
  <2> QED BY <1>1, <2>1, ChunkAssumption, RangeAssumption DEF LastAsked, ChunkEnd, Smaller
<1>3. CASE answer = [partial |-> TRUE, from |-> 0, upto |-> 0]
  BY <1>1, <1>3
<1>4. CASE answer = [partial |-> FALSE, from |-> 0, upto |-> Size[f] - 1]
  BY <1>4
<1> QED BY <1>2, <1>3, <1>4 DEF Answers

(* A partial answer begins at the byte asked for or at 0.                  *)
LEMMA AnswerFrom ==
  ASSUME NEW f \in Files, NEW from, NEW to, NEW answer \in Answers(f, from, to)
  PROVE  answer.from \in {from, 0}
<1>1. CASE answer \in [partial : {TRUE}, from : {from}, upto : from..LastAsked(f, from, to)]
  BY <1>1
<1>2. CASE answer = [partial |-> TRUE, from |-> 0, upto |-> 0]
  BY <1>2
<1>3. CASE answer = [partial |-> FALSE, from |-> 0, upto |-> Size[f] - 1]
  BY <1>3
<1> QED BY <1>1, <1>2, <1>3 DEF Answers

(* r is c reading `answer' from `url'.                                     *)
Reads(r, c, url, tells, answer, to) ==
  /\ r \in Conns /\ r.phase = "sending" /\ r.ask = c.ask /\ r.url = url /\ r.tells = tells
  /\ r.end = to /\ r.next = answer.from /\ r.last = answer.upto /\ r.resumes = c.resumes
  /\ ~r.hurt => ~c.hurt /\ answer.upto = ChunkEnd(answer.from, to)

(* What is read from an answer.                                            *)
LEMMA ReadingFields ==
  ASSUME NEW c \in Conns, NEW url \in Files, NEW tells \in BOOLEAN, NEW to \in Nat \cup {None},
         NEW answer, answer.from \in Nat, answer.upto \in Nat
  PROVE  Reads(Reading(c, url, tells, answer, to), c, url, tells, answer, to)
<1> DEFINE hurt == c.hurt \/ answer.upto # ChunkEnd(answer.from, to)
<1>2. hurt \in BOOLEAN
  OBVIOUS
<1>3. Reading(c, url, tells, answer, to) =
        [c EXCEPT !.phase = "sending", !.url = url, !.tells = tells, !.todo = {},
                  !.next = answer.from, !.last = answer.upto, !.end = to, !.hurt = hurt]
  BY DEF Reading
<1> HIDE DEF hurt
<1> DEFINE r == [c EXCEPT !.phase = "sending", !.url = url, !.tells = tells, !.todo = {},
                          !.next = answer.from, !.last = answer.upto, !.end = to, !.hurt = hurt]
<1>4. /\ r \in Conns /\ r.phase = "sending" /\ r.ask = c.ask /\ r.url = url /\ r.tells = tells
      /\ r.end = to /\ r.next = answer.from /\ r.last = answer.upto /\ r.resumes = c.resumes
      /\ r.hurt = hurt
  BY <1>2 DEF Conns
<1>6. Reading(c, url, tells, answer, to) = r
  BY <1>3
<1>5. hurt \/ (~c.hurt /\ answer.upto = ChunkEnd(answer.from, to))
  BY DEF hurt
<1> HIDE DEF r
<1> QED BY <1>4, <1>5, <1>6 DEF Reads

(* The first chunk is refused or announces the stream.                     *)
LEMMA OpenedStep == ASSUME VideoInv, NEW t \in Threads, Opened(t) PROVE VideoInv' /\ Streams(t)
<1>1. /\ conn[t].phase = "opening" /\ conn[t] \in Conns /\ out[t].state # "sending"
      /\ conn[t].resumes = 0 /\ conn[t].todo \subseteq Files /\ conn[t].ask \in RangeHeaders
  BY DEF Opened, VideoInv, Good, Conns
<1>7. ~conn[t].ranged => conn[t].ask.from = 0
  BY DEF Opened, VideoInv, Good
<1>2. PICK url \in conn[t].todo, tells \in BOOLEAN, told \in BOOLEAN, head \in BOOLEAN :
        LET total == IF tells THEN Size[url] ELSE 0
        IN  \E answer \in Answers(url, conn[t].ask.from, conn[t].ask.to) :
             \/ ~Passable(t, answer, told, total) /\ End(t, "broken")
             \/ Passable(t, answer, told, total) /\ head /\ End(t, "complete")
             \/ /\ Passable(t, answer, told, total) /\ ~head
                /\ conn' = [conn EXCEPT ![t] = Reading(@, url, tells, answer, EndByte(t, total))]
                /\ out' = [out EXCEPT ![t] =
                     [body |-> <<>>, start |-> conn[t].ask.from,
                      promised |-> Expected(t, total), total |-> total,
                      state |-> "sending"]]
                /\ UNCHANGED slots
  BY DEF Opened
<1> DEFINE total == IF tells THEN Size[url] ELSE 0
           from == conn[t].ask.from
<1>3. PICK answer \in Answers(url, from, conn[t].ask.to) :
             \/ ~Passable(t, answer, told, total) /\ End(t, "broken")
             \/ Passable(t, answer, told, total) /\ head /\ End(t, "complete")
             \/ /\ Passable(t, answer, told, total) /\ ~head
                /\ conn' = [conn EXCEPT ![t] = Reading(@, url, tells, answer, EndByte(t, total))]
                /\ out' = [out EXCEPT ![t] =
                     [body |-> <<>>, start |-> from,
                      promised |-> Expected(t, total), total |-> total,
                      state |-> "sending"]]
                /\ UNCHANGED slots
  BY <1>2
<1>4. CASE End(t, "broken")
  BY <1>1, <1>4, EndStep
<1>5. CASE End(t, "complete")
  BY <1>1, <1>5, EndStep
<1>6. ASSUME Passable(t, answer, told, total), UNCHANGED slots,
             conn' = [conn EXCEPT ![t] = Reading(conn[t], url, tells, answer, EndByte(t, total))],
             out' = [out EXCEPT ![t] =
                     [body |-> <<>>, start |-> from,
                      promised |-> Expected(t, total), total |-> total,
                      state |-> "sending"]]
      PROVE  VideoInv' /\ Streams(t)
  <2> DEFINE end == EndByte(t, total)
             size == Expected(t, total)
             r == Reading(conn[t], url, tells, answer, end)
             o == [body |-> <<>>, start |-> from, promised |-> size, total |-> total,
                   state |-> "sending"]
  <2>1. url \in Files /\ Size[url] \in Nat \ {0}
    BY <1>1, SizeAssumption
  <2>15. total \in {0} \cup {Size[f] : f \in Files} /\ (tells => total = Size[url])
    BY <2>1
  <2>2. from \in Nat /\ conn[t].ask.to \in Nat \cup {None}
        /\ (conn[t].ask.to # None => from <= conn[t].ask.to)
    BY <1>1, AskTypes
  <2>3. answer.partial /\ answer.from = from
    <3>1. answer.partial /\ (conn[t].ranged => answer.from = from)
      BY <1>6 DEF Passable
    <3>2. answer.from \in {from, 0}
      BY <2>1, AnswerFrom
    <3>3. ~conn[t].ranged => from = 0
      BY <1>1, <1>7
    <3> QED BY <3>1, <3>2, <3>3
  <2>4. /\ answer.upto \in Nat /\ from <= answer.upto /\ answer.upto < Size[url]
        /\ conn[t].ask.to # None => answer.upto <= conn[t].ask.to
    BY <2>1, <2>2, <2>3, AnswerRange
  <2>5. end \in Nat \cup {None} /\ (end # None => answer.upto <= end)
    BY <2>1, <2>2, <2>4, RangeAssumption DEF EndByte
  <2>6. size \in 0..MaxBytes /\ (end = None => size = 0)
        /\ (end # None => size = end - from + 1)
    BY <2>2, <2>4, <2>5, <1>6, ChunkAssumption DEF Expected, Passable
  <2>7. /\ r \in Conns /\ r.phase = "sending" /\ r.ask = conn[t].ask /\ r.url = url /\ r.tells = tells
        /\ r.end = end /\ r.next = from /\ r.last = answer.upto /\ r.resumes = 0
        /\ ~r.hurt => answer.upto = ChunkEnd(from, end)
    <3>1. conn[t] \in Conns /\ url \in Files /\ from \in Nat /\ end \in Nat \cup {None}
          /\ answer.from = from /\ answer.upto \in Nat
      BY <1>1, <2>1, <2>2, <2>3, <2>4, <2>5
    <3>2. Reads(r, conn[t], url, tells, answer, end)
      BY <3>1, ReadingFields
    <3> QED BY <3>1, <3>2, <1>1 DEF Reads
  <2>8. o \in Outs /\ o.body = <<>> /\ Len(o.body) = 0
    <3> HIDE DEF size, total
    <3> QED BY <2>2, <2>6, <2>15 DEF Outs
  <2> HIDE DEF end, size, r
  <2>9. conn' \in [Threads -> Conns] /\ conn'[t] = r /\ \A u \in Threads \ {t} : conn'[u] = conn[u]
    BY <1>6, <2>7 DEF VideoInv, r, end
  <2>10. out' \in [Threads -> Outs] /\ out'[t] = o /\ \A u \in Threads \ {t} : out'[u] = out[u]
    BY <1>6, <2>8 DEF VideoInv, size
  <2>11. Announced(r, o)
    BY <2>1, <2>2, <2>4, <2>5, <2>6, <2>7, <2>8, ChunkAssumption DEF Announced
  <2>12. UpToDate(r, o)
    <3>1. r.next = r.ask.from + Len(o.body) /\ r.next <= r.last + 1
      BY <2>2, <2>4, <2>7, <2>8
    <3>2. r.end # None => r.last <= r.end
      BY <2>5, <2>7
    <3>3. ~r.hurt => r.last = r.end \/ r.last + 1 - r.ask.from >= Chunk
      BY <2>2, <2>4, <2>5, <2>7, ChunkAssumption DEF ChunkEnd, Smaller
    <3>4. Chunk * (r.resumes + 1) = Chunk
      BY <2>7, ChunkAssumption
    <3>5. r.tells /\ o.total > 0 => Size[r.url] = o.total
      BY <2>7, <2>15
    <3> QED BY <3>1, <3>2, <3>3, <3>4, <3>5 DEF UpToDate
  <2>13. Good(r, o)
    BY <2>7, <2>11, <2>12 DEF Good
  <2>14. Stream(t)!Announce
    <3>1. o.start = from /\ o.promised = size /\ o.total = total /\ o.state = "sending"
      OBVIOUS
    <3> HIDE DEF total, o
    <3> QED BY <1>1, <2>6, <2>8, <2>10, <2>15, <3>1 DEF Stream!Announce, RangeHeaders
  <2> QED BY <2>9, <2>10, <2>13, <2>14 DEF VideoInv, Streams, Stream!StreamNext
<1> QED BY <1>3, <1>4, <1>5, <1>6

(* A piece passed on extends the stream by the bytes that follow.          *)
LEMMA PassStep == ASSUME VideoInv, NEW t \in Threads, Pass(t) PROVE VideoInv' /\ Streams(t)
<1>1. /\ conn[t].phase = "sending" /\ conn[t] \in Conns /\ out[t] \in Outs
      /\ Announced(conn[t], out[t]) /\ UpToDate(conn[t], out[t])
  BY DEF Pass, VideoInv, Good
<1>2. PICK n \in 1..(conn[t].last - conn[t].next + 1) :
       IF Len(out[t].body) + n > MaxBytes
       THEN End(t, "broken")
       ELSE /\ out' = [out EXCEPT ![t].body =
                 @ \o [i \in 1..n |-> <<conn[t].url, conn[t].next + i - 1, conn[t].tells>>]]
            /\ conn' = [conn EXCEPT ![t].next = @ + n]
            /\ UNCHANGED slots
  BY DEF Pass
<1>3. CASE Len(out[t].body) + n > MaxBytes
  BY <1>2, <1>3, EndStep
<1>4. CASE ~(Len(out[t].body) + n > MaxBytes)
  <2> DEFINE body == out[t].body
             piece == [i \in 1..n |-> <<conn[t].url, conn[t].next + i - 1, conn[t].tells>>]
  <2>1. /\ n \in Nat /\ n > 0 /\ body \in Seq(Bytes) /\ Len(body) \in Nat
        /\ conn[t].next \in Nat /\ conn[t].last \in Nat /\ conn[t].ask.from \in Nat
        /\ conn[t].url \in Files /\ conn[t].tells \in BOOLEAN
        /\ conn[t].next + n <= conn[t].last + 1
    <3>1. body \in Seq(Bytes) /\ Len(body) \in Nat
      BY <1>1 DEF Outs
    <3>2. /\ conn[t].next \in Nat /\ conn[t].last \in Nat /\ conn[t].tells \in BOOLEAN
          /\ conn[t].ask \in RangeHeaders
      BY <1>1 DEF Conns
    <3>3. conn[t].ask.from \in Nat /\ conn[t].url \in Files
      BY <1>1, <3>2, AskTypes DEF Announced
    <3>4. n \in Nat /\ n > 0 /\ conn[t].next + n <= conn[t].last + 1
      BY <3>2
    <3> QED BY <3>1, <3>2, <3>3, <3>4
  <2>2. piece \in Seq(Bytes) /\ Len(piece) = n
    <3>1. \A i \in 1..n : <<conn[t].url, conn[t].next + i - 1, conn[t].tells>> \in Bytes
      <4> SUFFICES ASSUME NEW i \in 1..n
                   PROVE  <<conn[t].url, conn[t].next + i - 1, conn[t].tells>> \in Bytes
        OBVIOUS
      <4> DEFINE place == conn[t].next + i - 1
      <4>1. place \in Nat
        BY <2>1
      <4> HIDE DEF place
      <4>2. <<conn[t].url, place, conn[t].tells>> \in Bytes
        BY <2>1, <4>1 DEF Bytes
      <4> QED BY <4>2 DEF place
    <3>2. piece \in [1..n -> Bytes]
      BY <3>1
    <3>3. piece \in Seq(Bytes)
      BY <2>1, <3>2
    <3> HIDE DEF piece
    <3> QED BY <2>1, <3>2, <3>3, LenProperties
  <2>3. /\ body \o piece \in Seq(Bytes) /\ Len(body \o piece) = Len(body) + n
        /\ \A i \in 1..Len(body \o piece) :
             (body \o piece)[i] = IF i <= Len(body) THEN body[i] ELSE piece[i - Len(body)]
    <3> HIDE DEF piece, body
    <3> QED BY <2>1, <2>2, ConcatProperties
  <2>4. /\ conn' \in [Threads -> Conns] /\ \A u \in Threads \ {t} : conn'[u] = conn[u]
        /\ conn'[t] = [conn[t] EXCEPT !.next = conn[t].next + n]
    <3> DEFINE upcoming == conn[t].next + n
    <3>1. upcoming \in Nat
      BY <2>1
    <3>2. conn' = [conn EXCEPT ![t].next = upcoming]
      BY <1>2, <1>4
    <3> HIDE DEF upcoming
    <3>3. conn' \in [Threads -> Conns] /\ \A u \in Threads \ {t} : conn'[u] = conn[u]
      BY <3>1, <3>2 DEF VideoInv, Conns
    <3>4. conn'[t] = [conn[t] EXCEPT !.next = upcoming]
      BY <3>2 DEF VideoInv
    <3> QED BY <3>3, <3>4 DEF upcoming
  <2>5. /\ conn'[t].phase = conn[t].phase /\ conn'[t].ask = conn[t].ask /\ conn'[t].url = conn[t].url
        /\ conn'[t].tells = conn[t].tells /\ conn'[t].end = conn[t].end /\ conn'[t].next = conn[t].next + n
        /\ conn'[t].last = conn[t].last /\ conn'[t].resumes = conn[t].resumes
        /\ conn'[t].hurt = conn[t].hurt
    BY <1>1, <2>4 DEF Conns
  <2>6. out' = [out EXCEPT ![t].body = body \o piece]
    BY <1>2, <1>4
  <2>7. /\ out' \in [Threads -> Outs] /\ \A u \in Threads \ {t} : out'[u] = out[u]
        /\ out'[t].body = body \o piece /\ out'[t].start = out[t].start
        /\ out'[t].promised = out[t].promised /\ out'[t].total = out[t].total
        /\ out'[t].state = out[t].state
    <3> HIDE DEF piece
    <3> QED BY <2>3, <2>6, <1>1 DEF VideoInv, Outs
  <2>8. out[t].promised > 0 => Len(body) + n <= out[t].promised
    <3>1. /\ conn[t].end \in Nat \cup {None} /\ out[t].promised \in Nat
          /\ conn[t].next = conn[t].ask.from + Len(body)
          /\ conn[t].end = None => out[t].promised = 0
          /\ conn[t].end # None => /\ conn[t].last <= conn[t].end
                                  /\ out[t].promised = conn[t].end - conn[t].ask.from + 1
      <4>1. conn[t].end \in Nat \cup {None}
        BY <1>1 DEF Conns
      <4>2. out[t].promised \in 0..MaxBytes
        BY <1>1 DEF Outs
      <4>3. out[t].promised \in Nat
        BY <4>2, ChunkAssumption
      <4>4. /\ conn[t].next = conn[t].ask.from + Len(body)
            /\ conn[t].end # None => conn[t].last <= conn[t].end
        BY <1>1 DEF UpToDate
      <4>5. /\ conn[t].end = None => out[t].promised = 0
            /\ conn[t].end # None => out[t].promised = conn[t].end - conn[t].ask.from + 1
        BY <1>1 DEF Announced
      <4> QED BY <4>1, <4>3, <4>4, <4>5
    <3> HIDE DEF body
    <3>2. CASE conn[t].end = None
      BY <3>1, <3>2
    <3>3. CASE conn[t].end # None
      <4>1. conn[t].end \in Nat /\ conn[t].last <= conn[t].end
            /\ out[t].promised = conn[t].end - conn[t].ask.from + 1
        BY <3>1, <3>3
      <4> DEFINE sent == Len(body)
                 from == conn[t].ask.from
                 upcoming == conn[t].next
                 last == conn[t].last
                 end == conn[t].end
      <4>2. /\ sent \in Nat /\ n \in Nat /\ from \in Nat /\ upcoming \in Nat /\ last \in Nat /\ end \in Nat
            /\ upcoming = from + sent /\ upcoming + n <= last + 1 /\ last <= end
        BY <2>1, <3>1, <4>1
      <4> HIDE DEF sent, from, upcoming, last, end
      <4>3. sent + n <= end - from + 1
        BY ONLY <4>2
      <4> QED BY <4>1, <4>3 DEF sent, from, end
    <3> QED BY <3>2, <3>3
  <2>9. Announced(conn'[t], out'[t])
    <3> HIDE DEF piece
    <3>2. Len(out'[t].body) <= MaxBytes /\ (out[t].promised > 0 => Len(out'[t].body) <= out[t].promised)
      BY <1>4, <2>1, <2>3, <2>7, <2>8, ChunkAssumption
    <3> QED BY <1>1, <2>5, <2>7, <3>2 DEF Announced
  <2>10. UpToDate(conn'[t], out'[t])
    <3>1. conn[t].next = conn[t].ask.from + Len(body)
      BY <1>1 DEF UpToDate
    <3> HIDE DEF piece, body
    <3>2. conn'[t].next = conn'[t].ask.from + Len(out'[t].body)
      BY <2>1, <2>3, <2>5, <2>7, <3>1
    <3>3. conn'[t].next <= conn'[t].last + 1
      BY <2>1, <2>5
    <3>4. conn'[t].tells /\ out'[t].total > 0 => Size[conn'[t].url] = out'[t].total
      BY <1>1, <2>5, <2>7 DEF UpToDate
    <3>5. /\ conn'[t].end # None => conn'[t].last <= conn'[t].end
          /\ ~conn'[t].hurt => \/ conn'[t].last = conn'[t].end
                               \/ conn'[t].last + 1 - conn'[t].ask.from
                                    >= Chunk * (conn'[t].resumes + 1)
      BY <1>1, <2>5 DEF UpToDate
    <3> QED BY <3>2, <3>3, <3>4, <3>5 DEF UpToDate
  <2>11. Good(conn'[t], out'[t])
    BY <1>1, <2>5, <2>9, <2>10 DEF Good
  <2>12. Stream(t)!Extend
    <3>1. n \in 1..MaxBytes
      <4> DEFINE sent == Len(out[t].body)
      <4>1. /\ sent \in Nat /\ n \in Nat /\ n > 0 /\ MaxBytes \in Nat
            /\ ~(sent + n > MaxBytes)
        BY <1>4, <2>1, ChunkAssumption
      <4> HIDE DEF sent
      <4> QED BY ONLY <4>1
    <3>2. conn[t].tells /\ out[t].total > 0 => Size[conn[t].url] = out[t].total
      BY <1>1 DEF UpToDate
    <3>3. piece = Stream(t)!Run(conn[t].url, conn[t].tells, out[t].start + Len(out[t].body), n)
      BY <1>1, <2>1 DEF Announced, UpToDate, Stream!Run
    <3>4. out'[t].body = out[t].body \o Stream(t)!Run(conn[t].url, conn[t].tells, out[t].start + Len(out[t].body), n)
      BY <3>3, <2>7
    <3>5. Len(out'[t].body) <= MaxBytes /\ (out'[t].promised > 0 => Len(out'[t].body) <= out'[t].promised)
      BY <2>9 DEF Announced
    <3> HIDE DEF piece, body
    <3> QED BY <1>1, <2>1, <2>7, <3>1, <3>2, <3>4, <3>5 DEF Stream!Extend, Announced
  <2> QED BY <2>4, <2>7, <2>11, <2>12 DEF VideoInv, Streams, Stream!StreamNext
<1> QED BY <1>3, <1>4

(* A response whose chunk has been passed on in full, or a faultless one,  *)
(* has brought the bytes of all chunks asked for, or all of the body.      *)
LEMMA WholeChunks ==
  ASSUME NEW c \in Conns, NEW o \in Outs, Announced(c, o), UpToDate(c, o), ~c.hurt, c.next > c.last
  PROVE  \/ o.promised > 0 /\ Len(o.body) = o.promised
         \/ Len(o.body) >= Chunk * (c.resumes + 1)
<1> DEFINE sent == Len(o.body)
           from == c.ask.from
           chunks == Chunk * (c.resumes + 1)
<1>1. /\ sent \in Nat /\ from \in Nat /\ c.next \in Nat /\ c.last \in Nat
      /\ c.next = from + sent /\ c.next = c.last + 1 /\ o.promised \in Nat
      /\ c.last = c.end \/ c.last + 1 - from >= chunks
  <2>1. sent \in Nat /\ o.promised \in 0..MaxBytes
    BY DEF Outs
  <2>2. c.ask \in RangeHeaders /\ c.next \in Nat /\ c.last \in Nat
    BY DEF Conns
  <2>3. from \in Nat
    BY <2>2, AskTypes
  <2>4. o.promised \in Nat
    BY <2>1, ChunkAssumption
  <2>5. /\ c.next = from + sent /\ c.next <= c.last + 1
        /\ c.last = c.end \/ c.last + 1 - from >= chunks
    BY DEF UpToDate
  <2>6. c.next = c.last + 1
    BY <2>2, <2>5
  <2> HIDE DEF sent, from, chunks
  <2> QED BY <2>1, <2>2, <2>3, <2>4, <2>5, <2>6
<1>2. c.last = c.end => o.promised = c.last - from + 1 /\ from <= c.last
  BY <1>1, RangeAssumption DEF Announced
<1> HIDE DEF sent, from, chunks
<1>3. CASE c.last = c.end
  <2>1. o.promised = sent /\ o.promised > 0
    BY <1>1, <1>2, <1>3
  <2> QED BY <2>1 DEF sent
<1>4. CASE c.last + 1 - from >= chunks
  <2>1. sent >= chunks
    BY <1>1, <1>4
  <2> QED BY <2>1 DEF sent, chunks
<1> QED BY <1>1, <1>3, <1>4

(* The stream finishes in full, breaks, or waits for a resume.             *)
LEMMA ResponseEndsStep == ASSUME VideoInv, NEW t \in Threads, ResponseEnds(t) PROVE VideoInv' /\ Streams(t)
<1>1. /\ conn[t].phase = "sending" /\ conn[t] \in Conns /\ out[t] \in Outs
      /\ Announced(conn[t], out[t]) /\ UpToDate(conn[t], out[t])
  BY DEF ResponseEnds, VideoInv, Good
<1>2. PICK broken \in BOOLEAN :
       /\ conn[t].next <= conn[t].last => broken
       /\ \/ Done(t) /\ End(t, IF broken /\ out[t].promised = 0 THEN "broken" ELSE "complete")
          \/ /\ ~Done(t) /\ conn[t].resumes >= MaxResumes
             /\ End(t, "broken")
          \/ /\ ~Done(t) /\ conn[t].resumes < MaxResumes
             /\ conn' = [conn EXCEPT ![t] = Attempt(@, broken)]
             /\ UNCHANGED <<slots, out>>
  BY DEF ResponseEnds
<1>3. Len(out[t].body) \in Nat /\ out[t].promised \in Nat
  BY <1>1, ChunkAssumption DEF Outs
<1>4. CASE Done(t) /\ End(t, IF broken /\ out[t].promised = 0 THEN "broken" ELSE "complete")
  <2>1. out[t].promised > 0 => Len(out[t].body) = out[t].promised
    BY <1>1, <1>3, <1>4 DEF Done, Announced
  <2> DEFINE state == IF broken /\ out[t].promised = 0 THEN "broken" ELSE "complete"
  <2>2. state \in {"complete", "broken"} /\ End(t, state)
    BY <1>4
  <2> HIDE DEF state
  <2> QED BY <2>1, <2>2, EndStep
<1>5. CASE End(t, "broken")
  BY <1>5, EndStep
<1>6. CASE /\ ~Done(t) /\ conn[t].resumes < MaxResumes
           /\ conn' = [conn EXCEPT ![t] = Attempt(conn[t], broken)]
           /\ UNCHANGED <<slots, out>>
  <2> DEFINE c == Attempt(conn[t], broken)
             hurt == conn[t].hurt \/ broken
  <2>1. hurt \in BOOLEAN /\ (~hurt => ~conn[t].hurt /\ ~broken)
    OBVIOUS
  <2>2. conn[t].resumes + 1 \in 0..MaxResumes
    BY <1>1, <1>6, ChunkAssumption DEF Conns
  <2>3. c = [conn[t] EXCEPT !.phase = "resuming", !.resumes = conn[t].resumes + 1, !.hurt = hurt]
    BY DEF Attempt
  <2> HIDE DEF c, hurt
  <2>4. /\ c \in Conns /\ c.phase = "resuming" /\ c.ask = conn[t].ask /\ c.url = conn[t].url
        /\ c.end = conn[t].end /\ c.resumes = conn[t].resumes + 1 /\ c.hurt = hurt
    <3> DEFINE resumes == conn[t].resumes + 1
    <3>1. c = [conn[t] EXCEPT !.phase = "resuming", !.resumes = resumes, !.hurt = hurt]
      BY <2>3
    <3>2. resumes \in 0..MaxResumes
      BY <2>2
    <3> HIDE DEF resumes
    <3>3. /\ c \in Conns /\ c.phase = "resuming" /\ c.ask = conn[t].ask /\ c.url = conn[t].url
          /\ c.end = conn[t].end /\ c.resumes = resumes /\ c.hurt = hurt
      BY <1>1, <2>1, <3>1, <3>2 DEF Conns
    <3> QED BY <3>3 DEF resumes
  <2>5. /\ conn' \in [Threads -> Conns] /\ \A u \in Threads \ {t} : conn'[u] = conn[u]
        /\ conn'[t] = c /\ out' = out
    BY <1>6, <2>4 DEF VideoInv, c
  <2>6. out[t].promised > 0 /\ Len(out[t].body) < out[t].promised
    BY <1>3, <1>6 DEF Done
  <2>7. ~c.hurt => Len(out[t].body) >= Chunk * c.resumes
    <3> SUFFICES ASSUME ~c.hurt PROVE Len(out[t].body) >= Chunk * c.resumes
      OBVIOUS
    <3>1. ~conn[t].hurt /\ ~broken
      BY <2>1, <2>4
    <3>2. conn[t].next > conn[t].last
      BY <1>1, <1>2, <3>1 DEF Conns
    <3>3. Len(out[t].body) >= Chunk * (conn[t].resumes + 1)
      BY <1>1, <1>3, <2>6, <3>1, <3>2, WholeChunks
    <3> QED BY <2>4, <3>3
  <2>8. Good(c, out[t])
    <3>1. Announced(c, out[t])
      BY <1>1, <2>4 DEF Announced
    <3> QED BY <2>4, <2>6, <2>7, <3>1 DEF Good, Behind
  <2> QED BY <2>5, <2>8 DEF VideoInv, Streams
<1> QED BY <1>2, <1>4, <1>5, <1>6

(* The resumed response goes on where the body ends.                       *)
LEMMA ResumeStep == ASSUME VideoInv, NEW t \in Threads, Resume(t) PROVE VideoInv' /\ Streams(t)
<1>1. /\ conn[t].phase = "resuming" /\ conn[t] \in Conns /\ out[t] \in Outs
      /\ Announced(conn[t], out[t]) /\ Behind(conn[t], out[t])
  BY DEF Resume, VideoInv, Good
<1>2. conn[t].url \in Files
  BY <1>1 DEF Announced
<1>3. PICK url \in Files, tells \in BOOLEAN : \E answer \in Answers(url, NextByte(t), conn[t].end) :
         /\ Resumable(t, url, tells, answer)
         /\ conn' = [conn EXCEPT ![t] = Reading(@, url, tells, answer, @.end)]
  BY <1>2 DEF Resume
<1>4. PICK answer \in Answers(url, NextByte(t), conn[t].end) :
         /\ Resumable(t, url, tells, answer)
         /\ conn' = [conn EXCEPT ![t] = Reading(conn[t], url, tells, answer, conn[t].end)]
  BY <1>3
<1> DEFINE sent == Len(out[t].body)
           from == conn[t].ask.from
           end == conn[t].end
           upcoming == NextByte(t)
           c == Reading(conn[t], url, tells, answer, end)
<1>5. /\ sent \in Nat /\ from \in Nat /\ end \in Nat \cup {None} /\ out[t].promised \in Nat
      /\ upcoming = from + sent /\ sent < out[t].promised /\ out[t].promised > 0
      /\ end # None => out[t].promised = end - from + 1
      /\ end = None => out[t].promised = 0
  BY <1>1, AskTypes, ChunkAssumption DEF Conns, Outs, NextByte, Announced, Behind
<1>6. end \in Nat /\ upcoming \in Nat /\ upcoming <= end
  <2>1. end \in Nat /\ out[t].promised = end - from + 1
    BY <1>5
  <2> HIDE DEF sent, from, end, upcoming
  <2> QED BY <1>5, <2>1
<1>7. answer.partial /\ answer.from = upcoming
  BY <1>4 DEF Resumable
<1>8. /\ answer.upto \in Nat /\ upcoming <= answer.upto
      /\ answer.upto <= end
  BY <1>6, <1>7, AnswerRange, RangeAssumption
<1>9. Reads(c, conn[t], url, tells, answer, end)
  BY <1>1, <1>6, <1>7, <1>8, ReadingFields
<1>10. /\ conn' \in [Threads -> Conns] /\ \A u \in Threads \ {t} : conn'[u] = conn[u]
       /\ conn'[t] = c /\ out' = out
  BY <1>4, <1>9 DEF VideoInv, Reads, Resume
<1> HIDE DEF c
<1>11. Announced(c, out[t])
  <2>1. c.url \in Files /\ c.ask = conn[t].ask /\ c.end = conn[t].end
    BY <1>9 DEF Reads
  <2> QED BY <1>1, <2>1 DEF Announced
<1>12. UpToDate(c, out[t])
  <2>1. c.next = upcoming /\ c.last = answer.upto /\ c.end = end /\ c.resumes = conn[t].resumes
        /\ c.ask = conn[t].ask /\ (~c.hurt => ~conn[t].hurt /\ answer.upto = ChunkEnd(upcoming, end))
    BY <1>7, <1>9 DEF Reads
  <2>2. c.next = c.ask.from + Len(out[t].body) /\ c.next <= c.last + 1
    BY <1>5, <1>6, <1>8, <2>1
  <2>3. c.end # None => c.last <= c.end
    BY <1>8, <2>1
  <2>4. ~c.hurt => c.last = c.end \/ c.last + 1 - c.ask.from >= Chunk * (c.resumes + 1)
    <3> DEFINE earlier == Chunk * conn[t].resumes
    <3>1. earlier \in Nat /\ Chunk * (c.resumes + 1) = earlier + Chunk
      <4>1. conn[t].resumes \in Nat
        BY <1>1, ChunkAssumption DEF Conns
      <4> QED BY <2>1, <4>1, ChunkSteps
    <3>2. ~c.hurt => sent >= earlier
      BY <1>1, <2>1 DEF Behind
    <3>3. Chunk \in Nat \ {0}
      BY ChunkAssumption
    <3>4. ~c.hurt => answer.upto = end \/ answer.upto = upcoming + Chunk - 1
      BY <1>6, <2>1, <3>3, RangeAssumption DEF ChunkEnd, Smaller
    <3> HIDE DEF earlier, sent, from, end, upcoming
    <3>5. ~c.hurt => answer.upto = end \/ answer.upto + 1 - from >= earlier + Chunk
      BY <1>5, <1>6, <1>8, <3>1, <3>2, <3>3, <3>4
    <3> QED BY <2>1, <3>1, <3>5 DEF from, end
  <2>5. c.tells /\ out[t].total > 0 => Size[c.url] = out[t].total
    BY <1>4, <1>9 DEF Resumable, Reads
  <2> QED BY <2>2, <2>3, <2>4, <2>5 DEF UpToDate
<1>13. Good(c, out[t])
  BY <1>9, <1>11, <1>12 DEF Good, Reads
<1> QED BY <1>10, <1>13 DEF VideoInv, Streams

(* Every step of a thread.                                                 *)
LEMMA StepKeeps == ASSUME VideoInv, NEW t \in Threads, Accept(t) \/ VideoStep(t)
  PROVE VideoInv' /\ Streams(t)
<1>1. CASE ResumeFails(t) \/ ClientLeaves(t)
  BY <1>1, EndStep DEF ResumeFails, ClientLeaves
<1> QED
  BY <1>1, AcceptStep, OpenFailsStep, OpenedStep, PassStep, ResponseEndsStep, ResumeStep DEF VideoStep

(* No stream has begun.                                                    *)
LEMMA InitGood == ASSUME VideoInit PROVE VideoInv /\ \A t \in Threads : Stream(t)!Silent
<1>1. conn \in [Threads -> Conns] /\ out \in [Threads -> Outs]
  BY FreeType DEF VideoInit
<1>2. ASSUME NEW t \in Threads PROVE Good(conn[t], out[t]) /\ Stream(t)!Silent
  BY DEF VideoInit, Good, Free, Nothing, Stream!Silent
<1> QED BY <1>1, <1>2 DEF VideoInv

(* What every request of proxy_video keeps between its steps.              *)
THEOREM VideoInvariant == VideoSpec => []VideoInv
<1>1. VideoInit => VideoInv
  BY InitGood
<1>2. VideoInv /\ [VideoNext]_videoVars => VideoInv'
  <2> SUFFICES ASSUME VideoInv, [VideoNext]_videoVars PROVE VideoInv'
    OBVIOUS
  <2>1. CASE VideoNext
    BY <2>1, StepKeeps DEF VideoNext
  <2>2. CASE UNCHANGED videoVars
    BY <2>2 DEF videoVars, VideoInv
  <2> QED BY <2>1, <2>2
<1> QED BY <1>1, <1>2, PTL DEF VideoSpec

(* The response of every handler thread is a ByteStream, whatever upstream *)
(* answers to the chunks, resumes and refreshed URLs of proxy_video.       *)
THEOREM VideoStreams == VideoSpec => ImplementsStream
<1>1. VideoInit => \A t \in Threads : Stream(t)!Silent
  BY InitGood
<1>2. VideoInv /\ [VideoNext]_videoVars
        => [\A t \in Threads : Stream(t)!StreamNext \/ UNCHANGED Stream(t)!streamVars]_videoVars
  <2> SUFFICES ASSUME VideoInv, VideoNext, NEW u \in Threads
               PROVE  Stream(u)!StreamNext \/ UNCHANGED Stream(u)!streamVars
    OBVIOUS
  <2>1. PICK t \in Threads : Accept(t) \/ VideoStep(t)
    BY DEF VideoNext
  <2>2. Streams(t)
    BY <2>1, StepKeeps
  <2>3. out'[u] = out[u] => UNCHANGED Stream(u)!streamVars
    BY DEF Stream!streamVars
  <2> QED BY <2>2, <2>3 DEF Streams
<1> QED BY <1>1, <1>2, VideoInvariant, PTL DEF VideoSpec, ImplementsStream

(* An upstream that delivers all of every chunk it is asked for never      *)
(* exhausts the resume attempts of proxy_video, which whole chunks use up. *)
THEOREM AttemptsEnough == VideoSpec => []AttemptsSuffice
<1>1. VideoInv => AttemptsSuffice
  <2> SUFFICES ASSUME VideoInv, NEW t \in Threads,
                      conn[t].phase = "sending", conn[t].next > conn[t].last,
                      conn[t].resumes = MaxResumes, ~conn[t].hurt
               PROVE  Done(t)
    BY DEF AttemptsSuffice
  <2>1. /\ conn[t] \in Conns /\ out[t] \in Outs
        /\ Announced(conn[t], out[t]) /\ UpToDate(conn[t], out[t])
    BY DEF VideoInv, Good
  <2>2. Len(out[t].body) \in Nat /\ out[t].promised \in Nat /\ out[t].promised <= MaxBytes
    BY <2>1, ChunkAssumption DEF Outs
  <2>3. \/ Len(out[t].body) = out[t].promised
        \/ Len(out[t].body) >= Chunk * (MaxResumes + 1)
    BY <2>1, WholeChunks
  <2> QED BY <2>2, <2>3, ChunkAssumption DEF Done
<1> QED BY <1>1, VideoInvariant, PTL

---------------------------------------------------------------------------
Busy == {t \in Threads : conn[t].phase # "free"}

SlotsInv == slots \in Nat /\ SlotsBalanced

(* Busy threads can be counted.                                            *)
LEMMA BusyFinite == IsFiniteSet(Busy) /\ Cardinality(Busy) \in Nat
<1>1. IsFiniteSet(Busy)
  BY ThreadsAssumption, FS_Subset DEF Busy
<1> QED BY <1>1, FS_CardinalityType

(* Whoever ends gives its slot back.                                       *)
LEMMA EndGives == ASSUME VideoInv, SlotsInv, NEW t \in Threads, NEW state,
                         conn[t].phase # "free", End(t, state)
  PROVE SlotsInv'
<1>1. Busy' = Busy \ {t} /\ t \in Busy
  BY DEF Busy, End, VideoInv, Free
<1>2. Cardinality(Busy') = Cardinality(Busy) - 1
  <2> HIDE DEF Busy
  <2> QED BY <1>1, BusyFinite, FS_RemoveElement
<1> QED BY <1>2, BusyFinite DEF End, SlotsInv, SlotsBalanced, Busy

(* Whoever is accepted takes a slot.                                       *)
LEMMA AcceptTakes == ASSUME VideoInv, SlotsInv, NEW t \in Threads, Accept(t) PROVE SlotsInv'
<1>1. conn[t].phase = "free" /\ conn'[t].phase # "free" /\ \A u \in Threads \ {t} : conn'[u] = conn[u]
  <2>1. PICK url \in Files, ask \in RangeHeaders, ranged \in BOOLEAN :
        conn' = [conn EXCEPT ![t] =
            [Free EXCEPT !.phase = "opening", !.ask = ask, !.ranged = ranged, !.todo = {url}]]
    BY DEF Accept, RangeHeaders
  <2>2. [Free EXCEPT !.phase = "opening", !.ask = ask, !.ranged = ranged, !.todo = {url}].phase = "opening"
    BY FreeType DEF Conns
  <2> QED BY <2>1, <2>2 DEF Accept, VideoInv
<1>2. Busy' = Busy \cup {t} /\ t \notin Busy
  BY <1>1 DEF Busy
<1>3. Cardinality(Busy') = Cardinality(Busy) + 1
  <2> HIDE DEF Busy
  <2> QED BY <1>2, BusyFinite, FS_AddElement
<1> QED BY <1>3, BusyFinite DEF Accept, SlotsInv, SlotsBalanced, Busy

(* A busy thread that stays busy keeps its slot.                           *)
LEMMA SamePhases ==
  ASSUME VideoInv, SlotsInv, NEW t \in Threads, UNCHANGED slots, conn[t].phase # "free",
         NEW c, conn' = [conn EXCEPT ![t] = c], c.phase # "free"
  PROVE  SlotsInv'
<1>1. Busy' = Busy
  BY DEF VideoInv, Busy
<1> QED BY <1>1 DEF SlotsInv, SlotsBalanced, Busy

(* Every step of a thread, for the slots.                                  *)
LEMMA StepBalances == ASSUME VideoInv, SlotsInv, NEW t \in Threads, Accept(t) \/ VideoStep(t)
  PROVE SlotsInv'
<1>1. CASE Accept(t)
  BY <1>1, AcceptTakes
<1>2. CASE OpenFails(t)
  <2> DEFINE again(urls) == [conn[t] EXCEPT !.todo = urls, !.refreshed = TRUE]
             more(urls) == [conn[t] EXCEPT !.todo = urls]
  <2>1. conn[t].phase = "opening" /\ conn[t] \in Conns /\ conn \in [Threads -> Conns]
    BY <1>2 DEF OpenFails, VideoInv
  <2>2. \A urls : more(urls).phase # "free" /\ again(urls).phase # "free"
    BY <2>1 DEF Conns
  <2>3. \A urls : /\ [conn EXCEPT ![t].todo = urls, ![t].refreshed = TRUE]
                       = [conn EXCEPT ![t] = again(urls)]
                  /\ [conn EXCEPT ![t].todo = urls] = [conn EXCEPT ![t] = more(urls)]
    BY <2>1
  <2> HIDE DEF again, more
  <2>4. PICK url \in conn[t].todo :
          \/ /\ conn' = [conn EXCEPT ![t].todo = conn[t].todo \ {url}]
             /\ UNCHANGED slots
          \/ /\ \E urls \in SUBSET Files \ {{}} :
                  conn' = [conn EXCEPT ![t].todo = urls, ![t].refreshed = TRUE]
             /\ UNCHANGED slots
          \/ End(t, "broken")
    BY <1>2 DEF OpenFails
  <2>5. CASE /\ conn' = [conn EXCEPT ![t].todo = conn[t].todo \ {url}]
             /\ UNCHANGED slots
    <3>1. conn' = [conn EXCEPT ![t] = more(conn[t].todo \ {url})]
      BY <2>3, <2>5
    <3> QED BY <2>1, <2>2, <2>5, <3>1, SamePhases
  <2>6. ASSUME NEW urls, conn' = [conn EXCEPT ![t].todo = urls, ![t].refreshed = TRUE], UNCHANGED slots
        PROVE  SlotsInv'
    <3>1. conn' = [conn EXCEPT ![t] = again(urls)]
      BY <2>3, <2>6
    <3> QED BY <2>1, <2>2, <2>6, <3>1, SamePhases
  <2> QED BY <2>1, <2>4, <2>5, <2>6, EndGives
<1>3. CASE Opened(t)
  <2>1. conn[t].phase = "opening" /\ conn[t] \in Conns
    BY <1>3 DEF Opened, VideoInv
  <2>2. \A url, tells, answer, to : Reading(conn[t], url, tells, answer, to).phase = "sending"
    BY <2>1 DEF Reading, Conns
  <2>3. \/ End(t, "broken") \/ End(t, "complete")
        \/ UNCHANGED slots /\ \E c : conn' = [conn EXCEPT ![t] = c] /\ c.phase # "free"
    BY <1>3, <2>2 DEF Opened
  <2> QED BY <2>1, <2>3, EndGives, SamePhases
<1>4. CASE Pass(t)
  <2> DEFINE c(n) == [conn[t] EXCEPT !.next = conn[t].next + n]
  <2>1. conn[t].phase = "sending" /\ conn[t] \in Conns
    BY <1>4 DEF Pass, VideoInv
  <2>2. \A n : c(n).phase # "free"
    BY <2>1 DEF Conns
  <2>3. \A n : [conn EXCEPT ![t].next = @ + n] = [conn EXCEPT ![t] = c(n)]
    BY DEF VideoInv
  <2> HIDE DEF c
  <2>4. PICK n : End(t, "broken") \/ (conn' = [conn EXCEPT ![t].next = @ + n] /\ UNCHANGED slots)
    BY <1>4 DEF Pass
  <2>5. CASE conn' = [conn EXCEPT ![t].next = @ + n] /\ UNCHANGED slots
    <3>1. conn' = [conn EXCEPT ![t] = c(n)]
      BY <2>3, <2>5
    <3> QED BY <2>1, <2>2, <2>5, <3>1, SamePhases
  <2> QED BY <2>1, <2>4, <2>5, EndGives
<1>5. CASE ResponseEnds(t)
  <2>1. conn[t].phase = "sending" /\ conn[t] \in Conns
    BY <1>5 DEF ResponseEnds, VideoInv
  <2>2. \A broken : Attempt(conn[t], broken).phase = "resuming"
    BY <2>1 DEF Attempt, Conns
  <2>3. \/ \E state : End(t, state)
        \/ UNCHANGED slots /\ \E c : conn' = [conn EXCEPT ![t] = c] /\ c.phase # "free"
    BY <1>5, <2>2 DEF ResponseEnds
  <2> QED BY <2>1, <2>3, EndGives, SamePhases
<1>6. CASE Resume(t)
  <2>1. conn[t].phase = "resuming" /\ conn[t] \in Conns
    BY <1>6 DEF Resume, VideoInv
  <2>2. \A url, tells, answer, to : Reading(conn[t], url, tells, answer, to).phase = "sending"
    BY <2>1 DEF Reading, Conns
  <2>3. UNCHANGED slots /\ \E c : conn' = [conn EXCEPT ![t] = c] /\ c.phase # "free"
    BY <1>6, <2>2 DEF Resume
  <2> QED BY <2>1, <2>3, SamePhases
<1>7. CASE ResumeFails(t) \/ ClientLeaves(t)
  BY <1>7, EndGives DEF ResumeFails, ClientLeaves
<1> QED BY <1>1, <1>2, <1>3, <1>4, <1>5, <1>6, <1>7 DEF VideoStep

(* The semaphore's slots, the busy threads' added, are all there.          *)
THEOREM VideoSlotted == VideoSpec => []SlotsInv
<1>1. VideoInit => SlotsInv
  <2> SUFFICES ASSUME VideoInit PROVE SlotsInv
    OBVIOUS
  <2>1. {t \in Threads : conn[t].phase # "free"} = {}
    BY DEF VideoInit, Free
  <2>2. Cardinality({}) = 0
    BY FS_EmptySet
  <2> QED BY <2>1, <2>2, ChunkAssumption DEF VideoInit, SlotsInv, SlotsBalanced
<1>2. VideoInv /\ SlotsInv /\ [VideoNext]_videoVars => SlotsInv'
  <2> SUFFICES ASSUME VideoInv, SlotsInv, [VideoNext]_videoVars PROVE SlotsInv'
    OBVIOUS
  <2>1. CASE VideoNext
    BY <2>1, StepBalances DEF VideoNext
  <2>2. CASE UNCHANGED videoVars
    BY <2>2 DEF videoVars, SlotsInv, SlotsBalanced
  <2> QED BY <2>1, <2>2
<1> QED BY <1>1, <1>2, VideoInvariant, PTL DEF VideoSpec

(* The slots taken are those of the busy threads over every way a video    *)
(* request of proxy_video can end: none is lost, none given back twice.    *)
THEOREM SlotsCounted == VideoSpec => []SlotsBalanced
<1>1. SlotsInv => SlotsBalanced
  BY DEF SlotsInv
<1> QED BY <1>1, VideoSlotted, PTL

(* Every field of the route's requests keeps its type, resumes and slots   *)
(* their bounds: proxy_video never resumes more often than it may.         *)
THEOREM VideoTypeCorrect == VideoSpec => []VideoTypeOK
<1>1. VideoInv /\ SlotsInv => VideoTypeOK
  <2> SUFFICES ASSUME VideoInv, SlotsInv PROVE VideoTypeOK
    OBVIOUS
  <2>1. slots \in 0..Slots
    BY BusyFinite, ChunkAssumption DEF SlotsInv, SlotsBalanced, Busy
  <2> QED BY <2>1 DEF VideoInv, Conns, Outs, RangeHeaders, VideoTypeOK
<1> QED BY <1>1, VideoSlotted, VideoInvariant, PTL

---------------------------------------------------------------------------
(* The composition.  A step of it is a step of one part and leaves the     *)
(* others alone, so what every part keeps by itself it keeps in it.        *)
ProxiesRun == part = "proxies"

LEMMA PartsStart ==
  HandlersInit => /\ Init /\ ReportInit /\ OffloadInit /\ VideoInit /\ CompactInit
                  /\ ProxiesRun => ProxyInit
BY DEF HandlersInit, ProxiesRun

LEMMA PartsStep ==
  [HandlersNext]_handlerVars =>
    /\ [Next]_vars /\ [ReportNext]_reportVars /\ [OffloadNext]_offloadVars
    /\ [VideoNext]_videoVars /\ [CompactNext]_compactVars /\ [ProxyNext]_proxyVars
    /\ ProxiesRun' <=> ProxiesRun
BY DEF HandlersNext, handlerVars, ProxiesRun

LEMMA HandlersRun == HandlersSpec => HandlersInit /\ [][HandlersNext]_handlerVars
BY PTL DEF HandlersSpec

LEMMA PartsRun ==
  HandlersSpec => /\ Spec /\ ReportSpec /\ OffloadSpec /\ VideoSpec /\ CompactSpec
                  /\ ProxySpec \/ []~ProxiesRun
<1>1. HandlersInit /\ [][HandlersNext]_handlerVars => Spec
  BY PartsStart, PartsStep, PTL DEF Spec
<1>2. HandlersInit /\ [][HandlersNext]_handlerVars => ReportSpec
  BY PartsStart, PartsStep, PTL DEF ReportSpec
<1>3. HandlersInit /\ [][HandlersNext]_handlerVars => OffloadSpec /\ VideoSpec /\ CompactSpec
  BY PartsStart, PartsStep, PTL DEF OffloadSpec, VideoSpec, CompactSpec
<1>4. HandlersInit /\ [][HandlersNext]_handlerVars => (ProxySpec \/ []~ProxiesRun)
  BY PartsStart, PartsStep, PTL DEF ProxySpec
<1>. QED
  BY <1>1, <1>2, <1>3, <1>4, HandlersRun, PTL

(* Handlers: all parts have their types.                                   *)
THEOREM HandlersTypes == HandlersSpec => []HandlersTypeOK
<1>1. TypeOK /\ ReportTypeOK /\ OffloadTypeOK /\ VideoTypeOK /\ CompactTypeOK
      /\ (ProxyTypeOK \/ ~ProxiesRun) => HandlersTypeOK
  BY DEF HandlersTypeOK, ProxiesRun
<1>. QED
  BY <1>1, PartsRun, BreakerTypeCorrect, TypeCorrect, OffloadTypeCorrect, VideoTypeCorrect,
     CompactTypeCorrect, ProxyTypeCorrect, PTL

(* Handlers: what each part promises holds whichever of them runs, and the *)
(* video of the auth helper (proxy_video) implements the abstract stream.  *)
THEOREM HandlersSafe ==
  HandlersSpec =>
    /\ [](/\ OpenIffFailing /\ RetainedUntilConfirmed /\ NothingReportedTwice /\ CountersAgree
          /\ NoChainDuringMiss /\ AttemptsSuffice /\ SourcesBest /\ ServedFresh
          /\ ProxiesRun => ProxiesFirst)
    /\ ImplementsStream
BY PartsRun, OpenMeansFailing, Retained, ReportedOnce, CountsAgree, ChainsNotRepeated,
   AttemptsEnough, PairBest, FreshServed, ProxiesAskedFirst, VideoStreams, PTL

=============================================================================
