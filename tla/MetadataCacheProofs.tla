------------------------ MODULE MetadataCacheProofs ------------------------
(***************************************************************************)
(* Theorems about MetadataCache for every set of posts, items and workers, *)
(* every combination of lifetimes and an unbounded clock: the workers and  *)
(* the eviction loop write through the transactions of BucketsProofs,      *)
(* however late their commits come.                                        *)
(***************************************************************************)
EXTENDS MetadataCache, BucketsProofs

(* No write and no eviction pass carries a clock reading of the future.    *)
ReadingsPast ==
  /\ \A w \in Workers : op[w].at <= clock
  /\ evictAt # None => evictAt <= clock

(* The inductive invariant. *)
IInv == TypeOK /\ ReadingsPast /\ BucketsInv

---------------------------------------------------------------------------
(* Every step is a transaction on the buckets with a clock reading of now  *)
(* or earlier, a restart, the passing of time, or leaves the cache alone.  *)
LEMMA StepIsCacheStep == IInv /\ [Next]_vars => [CacheStep]_cache
<1> SUFFICES ASSUME IInv, [Next]_vars PROVE CacheStep \/ UNCHANGED cache
  OBVIOUS
<1>1. ASSUME NEW w \in Workers
      PROVE  /\ op[w] \in Op /\ op[w].at \in 0..clock
             /\ op[w].kind # "idle" => op[w].post \in Posts
             /\ op[w].kind = "save" => op[w].item \in Items
  BY DEF IInv, TypeOK, BucketsTypeOK, Op, ReadingsPast
<1>2. ASSUME NEW w \in Workers, CommitSave(w)
      PROVE  CacheStep
  BY <1>1, <1>2 DEF CommitSave, Finish, CacheStep, Transaction
<1>3. ASSUME NEW w \in Workers, CommitNegative(w) \/ CommitForget(w)
      PROVE  CacheStep
  BY <1>1, <1>3 DEF CommitNegative, CommitForget, Finish, CacheStep, Transaction
<1>4. CASE CommitEvict
  <2>1. evictAt \in 0..clock
    BY <1>4 DEF CommitEvict, IInv, TypeOK, BucketsTypeOK, ReadingsPast
  <2>2. QED
    BY <1>4, <2>1 DEF CommitEvict, CacheStep, Transaction
<1>5. CASE Restart
  BY <1>5 DEF Restart, CacheStep
<1>6. CASE Elapse
  BY <1>6 DEF Elapse, CacheStep, buckets
<1>7. CASE UNCHANGED cache
  BY <1>7
<1>8. QED
  BY <1>2, <1>3, <1>4, <1>5, <1>6, <1>7
  DEF Next, vars, cache, buckets, BeginSave, BeginNegative, BeginForget, Prepare,
      Finish, CommitFails, BeginEvict, EvictFails

(* A prepared write keeps its types and its clock reading.                 *)
LEMMA OpsKept ==
  ASSUME IInv, [Next]_vars, BucketsTypeOK'
  PROVE  TypeOK' /\ ReadingsPast'
<1> USE DEF Prepare, Finish, Idle, Op, IInv, TypeOK, BucketsTypeOK, ReadingsPast
<1>1. ASSUME NEW w \in Workers, NEW p \in Posts, NEW i \in Items, BeginSave(w, p, i)
      PROVE  TypeOK' /\ ReadingsPast'
  BY <1>1 DEF BeginSave
<1>2. ASSUME NEW w \in Workers, NEW p \in Posts, BeginNegative(w, p)
      PROVE  TypeOK' /\ ReadingsPast'
  BY <1>2 DEF BeginNegative
<1>3. ASSUME NEW w \in Workers, NEW p \in Posts, BeginForget(w, p)
      PROVE  TypeOK' /\ ReadingsPast'
  BY <1>3 DEF BeginForget
<1>4. ASSUME NEW w \in Workers, Finish(w)
      PROVE  TypeOK' /\ ReadingsPast'
  BY <1>4
<1>5. CASE BeginEvict \/ CommitEvict \/ EvictFails
  BY <1>5 DEF BeginEvict, CommitEvict, EvictFails
<1>6. CASE Restart
  BY <1>6 DEF Restart
<1>7. CASE Elapse
  BY <1>7 DEF Elapse, Tick
<1>8. CASE UNCHANGED vars
  BY <1>8 DEF vars
<1> HIDE DEF Prepare, Finish, Idle, Op, IInv, TypeOK, BucketsTypeOK, ReadingsPast
<1>9. QED
  BY <1>1, <1>2, <1>3, <1>4, <1>5, <1>6, <1>7, <1>8
  DEF Next, CommitSave, CommitNegative, CommitForget, CommitFails

(* Every reachable state satisfies the inductive invariant.                *)
LEMMA Invariance == Spec => []IInv
<1>1. Init => IInv
  <2> SUFFICES ASSUME Init PROVE IInv
    OBVIOUS
  <2>1. BucketsInv
    BY BucketsInitInv DEF Init
  <2>2. TypeOK /\ ReadingsPast
    BY <2>1 DEF Init, BucketsInit, BucketsInv, TypeOK, Idle, Op, ReadingsPast
  <2>3. QED
    BY <2>1, <2>2 DEF IInv
<1>2. IInv /\ [Next]_vars => IInv'
  <2> SUFFICES ASSUME IInv, [Next]_vars PROVE IInv'
    OBVIOUS
  <2>1. BucketsInv'
    BY StepIsCacheStep, CacheStepKeeps DEF IInv
  <2>2. QED
    BY <2>1, OpsKept DEF IInv, BucketsInv
<1>3. QED
  BY <1>1, <1>2, PTL DEF Spec

---------------------------------------------------------------------------
(* The buckets and the prepared writes are always well-typed.              *)
THEOREM TypeCorrect == Spec => []TypeOK
BY Invariance, PTL DEF IInv

(* deleteTTLForPost in the save transaction is enough: whatever saves,     *)
(* evictions and restarts interleave, no post has two expiries.            *)
THEOREM SingleExpiry == Spec => []OneExpiryPerPost
BY Invariance, PTL DEF IInv, BucketsInv

(* No freshness without data, no expiry without data, and fresh never      *)
(* outlives stale - also when FreshTTL is configured above StaleTTL.       *)
THEOREM BucketsConsistent == Spec => []FreshWithinStale
BY Invariance, PTL DEF IInv, BucketsInv

(* A post is not answered as fresh once its signed media URLs are within   *)
(* SignedMargin of expiring.                                               *)
THEOREM SignatureHonoured == Spec => []FreshHonoursSignature
BY SignatureHonouredBy, Invariance, PTL DEF IInv

(* When two posts never share an expiry key, every post in the data bucket *)
(* is in the ttl bucket too and will be met by evictCache.                 *)
THEOREM EntriesExpire ==
  ASSUME ~ExpiryTies
  PROVE  Spec => []EveryEntryExpires
<1>1. IInv => EveryEntryExpires
  BY DEF IInv, BucketsInv
<1>2. QED
  BY <1>1, Invariance, PTL

(* When two posts never share an expiry key, the four buckets implement    *)
(* the contract: entries are replaced whole, kept and answered as fresh    *)
(* exactly as long as CacheContract promises.                              *)
THEOREM Refinement ==
  ASSUME ~ExpiryTies
  PROVE  Spec => ImplementsContract
<1>1. Init => Contract!Init
  BY BucketsInitImplements DEF Init
<1>2. IInv /\ [Next]_vars => [Contract!Next]_<<clock, entries>>
  BY StepIsCacheStep, CacheStepImplements DEF IInv
<1>3. QED
  BY <1>1, <1>2, Invariance, PTL DEF Spec, ImplementsContract, Contract!Spec

(* An eviction pass drops a post only if its one expiry lies before the    *)
(* pass's clock reading, even if the post was saved again after that       *)
(* reading.                                                                *)
LEMMA EvictStepKeepsLive ==
  ASSUME IInv, CommitEvict, NEW p \in Posts, data[p] # None, data'[p] = None,
         NEW e \in ttl, e.post = p
  PROVE  e.exp < clock
<1>1. PICK gone \in SUBSET {x \in ttl : x.exp < evictAt} :
        \A q \in Posts : q \notin {x.post : x \in gone} => data'[q] = data[q]
  BY EvictDrops DEF CommitEvict, IInv
<1>2. PICK g \in gone : g.post = p
  BY <1>1
<1>3. g = e /\ g.exp < evictAt
  BY <1>1, <1>2 DEF IInv, BucketsInv, OneExpiryPerPost
<1>4. evictAt \in Nat /\ evictAt <= clock /\ clock \in Nat /\ e.exp \in Nat
  BY DEF CommitEvict, IInv, TypeOK, BucketsTypeOK, TtlEntry, ReadingsPast
<1>5. QED
  BY <1>3, <1>4

(* No step other than a committed eviction pass removes data from a        *)
(* durable database, and an eviction pass removes expired data only.       *)
THEOREM EvictionSafe == Spec => EvictKeepsLive
<1>1. ASSUME IInv, Next, Durable,
             NEW p \in Posts, data[p] # None, data'[p] = None,
             NEW e \in ttl, e.post = p
      PROVE  e.exp < clock
  <2>1. ASSUME NEW w \in Workers, CommitSave(w)
        PROVE  FALSE
    <3>1. op[w].item \in Items /\ data' = [data EXCEPT ![op[w].post] = op[w].item]
      BY <1>1, <2>1 DEF CommitSave, SaveTxn, IInv, TypeOK
    <3>2. QED
      BY <1>1, <3>1, BucketsAssumption DEF IInv, TypeOK, BucketsTypeOK
  <2>2. CASE CommitEvict
    BY <1>1, <2>2, EvictStepKeepsLive
  <2>3. CASE UNCHANGED data
    BY <1>1, <2>3
  <2>4. QED
    BY <1>1, <2>1, <2>2, <2>3
    DEF Next, BeginSave, BeginNegative, BeginForget, Prepare, CommitNegative,
        SaveNegativeTxn, CommitForget, ForgetNegativeTxn, CommitFails, buckets,
        BeginEvict, EvictFails, Restart, ReopenDB, Elapse
<1>2. IInv /\ [Next]_vars =>
        [\A p \in Posts :
           Durable /\ data[p] # None /\ data'[p] = None =>
             \A e \in ttl : e.post = p => e.exp < clock]_vars
  BY <1>1
<1>3. QED
  BY <1>2, Invariance, PTL DEF Spec, EvictKeepsLive
=============================================================================
