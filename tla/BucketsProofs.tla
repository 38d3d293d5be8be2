--------------------------- MODULE BucketsProofs ---------------------------
(***************************************************************************)
(* What the transactions of MetadataBuckets keep, whoever runs them and in *)
(* whatever order: the buckets stay consistent, and each transaction is a  *)
(* step of CacheContract.  MetadataCacheProofs and ResolverProofs only     *)
(* have to show that their processes write through these transactions.     *)
(***************************************************************************)
EXTENDS MetadataBuckets, TLAPS

cache == <<clock, data, ttl, fresh, negative>>

(* A transaction carries a clock reading that may lie in the past.         *)
Transaction ==
  \/ \E p \in Posts, i \in Items, at \in 0..clock : SaveTxn(p, i, at)
  \/ \E p \in Posts, at \in 0..clock : SaveNegativeTxn(p, at)
  \/ \E p \in Posts : ForgetNegativeTxn(p)
  \/ \E at \in 0..clock : EvictTxn(at)

CacheStep ==
  \/ (Transaction \/ ReopenDB) /\ UNCHANGED clock
  \/ Tick /\ UNCHANGED buckets

(* What a save leaves of the signed expiry in the fresh bucket.            *)
SignatureBound ==
  \A p \in Posts :
    fresh[p] # None /\ SignedExpiry[data[p]] # None =>
      fresh[p] <= clock \/ fresh[p] <= SignedExpiry[data[p]] - SignedMargin

(* The inductive invariant. *)
BucketsInv ==
  /\ BucketsTypeOK
  /\ OneExpiryPerPost
  /\ FreshWithinStale
  /\ SignatureBound
  /\ ~ExpiryTies => EveryEntryExpires

USE DEF TtlEntry

---------------------------------------------------------------------------
(* The expiry arithmetic of saveDataToCache stays in Nat, orders fresh     *)
(* before stale, and keeps the margin to the signed expiry.                *)
LEMMA ExpiryBounds ==
  ASSUME NEW i \in Items, NEW at \in Nat
  PROVE  /\ FreshExpiry(i, at) \in Nat
         /\ StaleExpiry(i, at) \in Nat
         /\ at <= FreshExpiry(i, at)
         /\ FreshExpiry(i, at) <= at + FreshTTL
         /\ FreshExpiry(i, at) <= StaleExpiry(i, at)
         /\ at + StaleTTL <= StaleExpiry(i, at)
         /\ StaleExpiry(i, at) <= at + FreshTTL + StaleTTL
         /\ SignedExpiry[i] # None =>
              \/ FreshExpiry(i, at) <= at
              \/ FreshExpiry(i, at) <= SignedExpiry[i] - SignedMargin
<1>1. SignedExpiry[i] \in Nat \cup {None} /\ FreshTTL \in Nat
      /\ StaleTTL \in Nat /\ SignedMargin \in Nat
  BY BucketsAssumption
<1>2. CASE SignedExpiry[i] = None
  BY <1>1, <1>2 DEF FreshExpiry, StaleExpiry, Later
<1>3. CASE SignedExpiry[i] # None
  BY <1>1, <1>3 DEF FreshExpiry, StaleExpiry, Later, Earlier
<1>4. QED
  BY <1>2, <1>3

(* Transactions keep the types of the buckets. *)
LEMMA SaveTypes ==
  ASSUME BucketsTypeOK, NEW p \in Posts, NEW i \in Items, NEW at \in Nat,
         SaveTxn(p, i, at), clock' = clock
  PROVE  BucketsTypeOK'
<1>1. FreshExpiry(i, at) \in Nat /\ StaleExpiry(i, at) \in Nat
  BY ExpiryBounds
<1>2. ttl' \subseteq TtlEntry
  BY <1>1 DEF BucketsTypeOK, SaveTxn, PutTTL, DeleteTTLForPost
<1> QED
  BY <1>1, <1>2 DEF BucketsTypeOK, SaveTxn

LEMMA NegativeTypes ==
  ASSUME BucketsTypeOK, NEW p \in Posts, NEW at \in Nat, clock' = clock,
         SaveNegativeTxn(p, at) \/ ForgetNegativeTxn(p)
  PROVE  BucketsTypeOK'
<1>1. at + NegativeTTL \in Nat
  BY BucketsAssumption
<1> QED
  BY <1>1 DEF BucketsTypeOK, SaveNegativeTxn, ForgetNegativeTxn

LEMMA EvictTypes ==
  ASSUME BucketsTypeOK, NEW at, EvictTxn(at), clock' = clock
  PROVE  BucketsTypeOK'
BY DEF BucketsTypeOK, EvictTxn

LEMMA SameBuckets ==
  ASSUME BucketsTypeOK, UNCHANGED cache
  PROVE  BucketsTypeOK'
BY DEF BucketsTypeOK, cache

---------------------------------------------------------------------------
(* The initial buckets: empty, or the rows of a version without freshness. *)
LEMMA BucketsInitInv == BucketsInit => BucketsInv
<1> SUFFICES ASSUME BucketsInit PROVE BucketsInv
  OBVIOUS
<1>1. ttl \in SUBSET [exp : LegacyExpiries, post : Posts]
      /\ \A e, f \in ttl : e # f => e.post # f.post
  BY DEF BucketsInit, LegacyTtl
<1>2. BucketsTypeOK
  BY <1>1, BucketsAssumption DEF BucketsInit, BucketsTypeOK, NoRows
<1>3. OneExpiryPerPost /\ FreshWithinStale /\ SignatureBound /\ EveryEntryExpires
  BY <1>1
  DEF BucketsInit, NoRows, OneExpiryPerPost, FreshWithinStale, SignatureBound,
      EveryEntryExpires
<1>4. QED
  BY <1>2, <1>3 DEF BucketsInv

(* A save replaces the one expiry of its post; without ties it removes no  *)
(* other post's.                                                           *)
LEMMA SaveKeeps ==
  ASSUME BucketsInv, NEW p \in Posts, NEW i \in Items, NEW at \in 0..clock,
         SaveTxn(p, i, at), clock' = clock
  PROVE  BucketsInv'
<1> DEFINE exp == StaleExpiry(i, at)
           f == FreshExpiry(i, at)
           row == [exp |-> exp, post |-> p]
<1>1. at \in Nat /\ at <= clock
  BY DEF BucketsInv, BucketsTypeOK
<1>2. /\ f \in Nat /\ exp \in Nat /\ f <= exp
      /\ SignedExpiry[i] # None => f <= at \/ f <= SignedExpiry[i] - SignedMargin
  BY <1>1, ExpiryBounds
<1>3. /\ ExpiryTies \/ \A e \in ttl : e.exp = exp => e.post = p
      /\ ttl' = {e \in {e \in ttl : e.post # p} : e.exp # exp} \cup {row}
      /\ data' = [data EXCEPT ![p] = i]
      /\ fresh' = [fresh EXCEPT ![p] = f]
  BY DEF SaveTxn, PutTTL, DeleteTTLForPost, ExpiryAvailable
<1> HIDE DEF exp, f
<1>4. row \in TtlEntry /\ row.post = p /\ row.exp = exp
  BY <1>2
<1>5. BucketsTypeOK'
  BY <1>1, SaveTypes DEF BucketsInv
<1>6. OneExpiryPerPost'
  BY <1>3, <1>4 DEF BucketsInv, OneExpiryPerPost
<1>7. ASSUME NEW q \in Posts
      PROVE  \/ q = p /\ data'[q] = i /\ fresh'[q] = f
             \/ q # p /\ data'[q] = data[q] /\ fresh'[q] = fresh[q]
  BY <1>3 DEF BucketsInv, BucketsTypeOK
<1>8. FreshWithinStale'
  <2> SUFFICES ASSUME NEW q \in Posts
               PROVE  /\ fresh'[q] # None => data'[q] # None
                      /\ \A e \in ttl' : e.post = q =>
                           /\ data'[q] # None
                           /\ fresh'[q] # None => fresh'[q] <= e.exp
    BY DEF FreshWithinStale
  <2>1. CASE q = p
    <3>1. \A e \in ttl' : e.post = q => e.exp = exp
      BY <1>3, <1>4, <2>1
    <3> QED
      BY <1>2, <1>7, <2>1, <3>1, BucketsAssumption
  <2>2. CASE q # p
    <3>1. \A e \in ttl' : e.post = q => e \in ttl
      BY <1>3, <1>4, <2>2
    <3> QED
      BY <1>7, <2>2, <3>1 DEF BucketsInv, FreshWithinStale
  <2>3. QED
    BY <2>1, <2>2
<1>9. SignatureBound'
  <2> SUFFICES ASSUME NEW q \in Posts,
                      fresh'[q] # None, SignedExpiry[data'[q]] # None
               PROVE  \/ fresh'[q] <= clock
                      \/ fresh'[q] <= SignedExpiry[data'[q]] - SignedMargin
    BY DEF SignatureBound
  <2>1. CASE q = p
    <3>1. f <= at => f <= clock
      BY <1>1, <1>2 DEF BucketsInv, BucketsTypeOK
    <3>2. QED
      BY <1>2, <1>7, <2>1, <3>1
  <2>2. CASE q # p
    BY <1>7, <2>2 DEF BucketsInv, SignatureBound
  <2>3. QED
    BY <2>1, <2>2
<1>10. ASSUME ~ExpiryTies, NEW q \in Posts, data'[q] # None
       PROVE  \E e \in ttl' : e.post = q
  <2>1. CASE q = p
    <3>1. row \in ttl' /\ row.post = q
      BY <1>3, <2>1
    <3>2. QED
      BY <3>1
  <2>2. CASE q # p
    <3>1. PICK e \in ttl : e.post = q
      BY <1>7, <1>10, <2>2 DEF BucketsInv, EveryEntryExpires
    <3>2. e \in ttl'
      BY <1>3, <1>10, <2>2, <3>1
    <3>3. QED
      BY <3>1, <3>2
  <2>3. QED
    BY <2>1, <2>2
<1>11. QED
  BY <1>5, <1>6, <1>8, <1>9, <1>10 DEF BucketsInv, EveryEntryExpires

(* What an eviction pass leaves of the rows it does not drop. *)
LEMMA EvictDrops ==
  ASSUME BucketsInv, NEW at, EvictTxn(at)
  PROVE  \E gone \in SUBSET {e \in ttl : e.exp < at} :
           /\ ttl' = ttl \ gone
           /\ \A e \in ttl' : e \in ttl /\ e.post \notin {x.post : x \in gone}
           /\ \A q \in Posts :
                IF q \in {x.post : x \in gone}
                  THEN data'[q] = None /\ fresh'[q] = None
                  ELSE data'[q] = data[q] /\ fresh'[q] = fresh[q]
<1>1. PICK gone \in SUBSET {e \in ttl : e.exp < at} :
        /\ ttl' = ttl \ gone
        /\ data' = [p \in Posts |->
             IF p \in {e.post : e \in gone} THEN None ELSE data[p]]
        /\ fresh' = [p \in Posts |->
             IF p \in {e.post : e \in gone} THEN None ELSE fresh[p]]
  BY DEF EvictTxn
<1>2. \A e \in ttl' : e \in ttl /\ e.post \notin {x.post : x \in gone}
  BY <1>1 DEF BucketsInv, OneExpiryPerPost
<1>3. QED
  BY <1>1, <1>2

(* A post that loses its data loses its freshness and, having one expiry   *)
(* only, its whole presence in the ttl bucket.                             *)
LEMMA EvictKeeps ==
  ASSUME BucketsInv, NEW at, EvictTxn(at), clock' = clock
  PROVE  BucketsInv'
<1>1. PICK gone \in SUBSET {e \in ttl : e.exp < at} :
        /\ ttl' = ttl \ gone
        /\ \A e \in ttl' : e \in ttl /\ e.post \notin {x.post : x \in gone}
        /\ \A q \in Posts :
             IF q \in {x.post : x \in gone}
               THEN data'[q] = None /\ fresh'[q] = None
               ELSE data'[q] = data[q] /\ fresh'[q] = fresh[q]
  BY EvictDrops
<1>2. BucketsTypeOK'
  BY EvictTypes DEF BucketsInv
<1>3. OneExpiryPerPost'
  BY <1>1 DEF BucketsInv, OneExpiryPerPost
<1>4. FreshWithinStale'
  BY <1>1 DEF BucketsInv, FreshWithinStale
<1>5. SignatureBound'
  BY <1>1 DEF BucketsInv, SignatureBound
<1>6. EveryEntryExpires => EveryEntryExpires'
  BY <1>1 DEF EveryEntryExpires
<1>7. QED
  BY <1>2, <1>3, <1>4, <1>5, <1>6 DEF BucketsInv

(* Steps that touch at most the negative bucket. *)
LEMMA QuietKeeps ==
  ASSUME BucketsInv, BucketsTypeOK', UNCHANGED <<clock, data, ttl, fresh>>
  PROVE  BucketsInv'
BY DEF BucketsInv, OneExpiryPerPost, FreshWithinStale, SignatureBound,
       EveryEntryExpires

LEMMA ReopenKeeps ==
  ASSUME BucketsInv, ReopenDB, clock' = clock
  PROVE  BucketsInv'
<1>1. BucketsTypeOK'
  BY BucketsAssumption DEF ReopenDB, NoRows, buckets, BucketsInv, BucketsTypeOK
<1>2. CASE Durable
  BY <1>1, <1>2, QuietKeeps DEF ReopenDB, buckets
<1>3. CASE ~Durable
  <2>1. OneExpiryPerPost' /\ FreshWithinStale' /\ SignatureBound' /\ EveryEntryExpires'
    BY <1>3
    DEF ReopenDB, NoRows, OneExpiryPerPost, FreshWithinStale, SignatureBound,
        EveryEntryExpires
  <2>2. QED
    BY <1>1, <2>1 DEF BucketsInv
<1>4. QED
  BY <1>2, <1>3

LEMMA TickKeeps ==
  ASSUME BucketsInv, Tick, UNCHANGED buckets
  PROVE  BucketsInv'
<1>1. BucketsTypeOK'
  BY DEF Tick, buckets, BucketsInv, BucketsTypeOK
<1>2. OneExpiryPerPost' /\ FreshWithinStale' /\ (EveryEntryExpires => EveryEntryExpires')
  BY DEF buckets, BucketsInv, OneExpiryPerPost, FreshWithinStale, EveryEntryExpires
<1>3. SignatureBound'
  BY DEF Tick, buckets, BucketsInv, BucketsTypeOK, SignatureBound
<1>4. QED
  BY <1>1, <1>2, <1>3 DEF BucketsInv

LEMMA CacheStepKeeps == BucketsInv /\ [CacheStep]_cache => BucketsInv'
<1> SUFFICES ASSUME BucketsInv, [CacheStep]_cache PROVE BucketsInv'
  OBVIOUS
<1>1. ASSUME NEW p \in Posts, NEW i \in Items, NEW at \in 0..clock,
             SaveTxn(p, i, at), clock' = clock
      PROVE  BucketsInv'
  BY <1>1, SaveKeeps
<1>2. ASSUME NEW p \in Posts, NEW at \in Nat,
             SaveNegativeTxn(p, at) \/ ForgetNegativeTxn(p), clock' = clock
      PROVE  BucketsInv'
  <2>1. BucketsTypeOK' /\ UNCHANGED <<clock, data, ttl, fresh>>
    BY <1>2, NegativeTypes DEF BucketsInv, SaveNegativeTxn, ForgetNegativeTxn
  <2>2. QED
    BY <2>1, QuietKeeps
<1>3. ASSUME NEW at, EvictTxn(at), clock' = clock
      PROVE  BucketsInv'
  BY <1>3, EvictKeeps
<1>4. CASE ReopenDB /\ clock' = clock
  BY <1>4, ReopenKeeps
<1>5. CASE Tick /\ UNCHANGED buckets
  BY <1>5, TickKeeps
<1>6. CASE UNCHANGED cache
  BY <1>6, SameBuckets, QuietKeeps DEF BucketsInv, cache
<1>7. 0..clock \subseteq Nat /\ 0 \in Nat
  BY DEF BucketsInv, BucketsTypeOK
<1>8. QED
  BY <1>1, <1>2, <1>3, <1>4, <1>5, <1>6, <1>7 DEF CacheStep, Transaction

(* Freshness that honours the signature, from what the saves left.         *)
LEMMA SignatureHonouredBy == BucketsInv => FreshHonoursSignature
<1> SUFFICES ASSUME BucketsInv, NEW p \in Posts,
                    Fresh(p, clock), fresh[p] # None,
                    SignedExpiry[data[p]] # None
             PROVE  clock < SignedExpiry[data[p]] - SignedMargin
  BY DEF FreshHonoursSignature
<1>1. data[p] \in Items /\ fresh[p] \in Nat /\ fresh[p] > clock /\ clock \in Nat
  BY DEF Fresh, Found, BucketsInv, BucketsTypeOK
<1>2. SignedExpiry[data[p]] \in Nat /\ SignedMargin \in Nat
  BY <1>1, BucketsAssumption
<1>3. \/ fresh[p] <= clock
      \/ fresh[p] <= SignedExpiry[data[p]] - SignedMargin
  BY DEF BucketsInv, SignatureBound
<1>4. QED
  BY <1>1, <1>2, <1>3

---------------------------------------------------------------------------
(* Refinement of CacheContract, entry by entry of the ttl bucket.          *)

LEMMA BucketsInitImplements == BucketsInit => Contract!Init
<1> SUFFICES ASSUME BucketsInit PROVE Contract!Init
  OBVIOUS
<1>1. BucketsInv
  BY BucketsInitInv
<1>2. clock = 0
  BY DEF BucketsInit
<1>3. ASSUME NEW x \in entries
      PROVE  x \in Contract!Entry /\ x.fresh = x.keep
  <2>1. PICK e \in ttl : x = EntryOf(e)
    BY <1>3 DEF entries
  <2>2. e.exp \in Nat /\ e.post \in Posts /\ fresh[e.post] = None
        /\ data[e.post] \in Items
    BY <1>1 DEF BucketsInit, NoRows, BucketsInv, BucketsTypeOK
  <2>3. QED
    BY <2>1, <2>2 DEF EntryOf, FreshUntil, Contract!Entry
<1>4. ASSUME NEW x \in entries, NEW y \in entries, x.post = y.post
      PROVE  x = y
  BY <1>1, <1>4 DEF entries, EntryOf, BucketsInv, OneExpiryPerPost
<1>5. QED
  BY <1>2, <1>3, <1>4 DEF Contract!Init

(* Without ties a save is one Publish step of the contract.                *)
LEMMA SaveImplements ==
  ASSUME ~ExpiryTies, BucketsInv, NEW p \in Posts, NEW i \in Items,
         NEW at \in 0..clock, SaveTxn(p, i, at), clock' = clock
  PROVE  Contract!Publish(p, i)
<1> DEFINE exp == StaleExpiry(i, at)
           f == FreshExpiry(i, at)
           row == [exp |-> exp, post |-> p]
           new == [post |-> p, item |-> i, fresh |-> f, keep |-> exp]
<1>1. at \in Nat
  BY DEF BucketsInv, BucketsTypeOK
<1>2. /\ f \in Nat /\ exp \in Nat /\ at <= f /\ f <= at + FreshTTL /\ f <= exp
      /\ at + StaleTTL <= exp /\ exp <= at + FreshTTL + StaleTTL
      /\ SignedExpiry[i] # None => f <= at \/ f <= SignedExpiry[i] - SignedMargin
  BY <1>1, ExpiryBounds
<1>3. /\ \A e \in ttl : e.exp = exp => e.post = p
      /\ ttl' = {e \in {e \in ttl : e.post # p} : e.exp # exp} \cup {row}
      /\ data' = [data EXCEPT ![p] = i]
      /\ fresh' = [fresh EXCEPT ![p] = f]
  BY DEF SaveTxn, ExpiryAvailable, PutTTL, DeleteTTLForPost
<1>4. FreshTTL \in Nat /\ StaleTTL \in Nat
  BY BucketsAssumption
<1> HIDE DEF exp, f
<1>5. row.post = p /\ row.exp = exp /\ f # None
  BY <1>2, BucketsAssumption
<1>6. data'[p] = i /\ fresh'[p] = f
  BY <1>3 DEF BucketsInv, BucketsTypeOK
<1>7. EntryOf(row)' = new
  BY <1>5, <1>6 DEF EntryOf, FreshUntil
<1>8. \A e \in ttl : e.post # p => EntryOf(e)' = EntryOf(e)
  BY <1>3 DEF BucketsInv, BucketsTypeOK, EntryOf, FreshUntil
<1>9. entries' = {EntryOf(e)' : e \in ttl'}
  BY DEF entries
<1>10. entries' = (entries \ Contract!Of(p)) \cup {new}
  <2>1. ASSUME NEW x \in entries'
        PROVE  x \in (entries \ Contract!Of(p)) \cup {new}
    <3>1. PICK e \in ttl' : x = EntryOf(e)'
      BY <1>9, <2>1
    <3>2. CASE e = row
      BY <1>7, <3>1, <3>2
    <3>3. CASE e # row
      <4>1. e \in ttl /\ e.post # p
        BY <1>3, <3>3
      <4>2. x = EntryOf(e) /\ x.post = e.post
        BY <1>8, <3>1, <4>1 DEF EntryOf
      <4>3. QED
        BY <4>1, <4>2 DEF entries, Contract!Of
    <3>4. QED
      BY <3>2, <3>3
  <2>2. ASSUME NEW x \in entries \ Contract!Of(p)
        PROVE  x \in entries'
    <3>1. PICK e \in ttl : x = EntryOf(e)
      BY <2>2 DEF entries
    <3>2. e.post # p
      BY <2>2, <3>1 DEF EntryOf, Contract!Of
    <3>3. e \in ttl' /\ x = EntryOf(e)'
      BY <1>3, <1>8, <3>1, <3>2
    <3>4. QED
      BY <1>9, <3>3
  <2>3. new \in entries'
    BY <1>3, <1>7, <1>9
  <2>4. QED
    BY <2>1, <2>2, <2>3
<1>11. Contract!Promise(new, at)
  BY <1>2 DEF Contract!Promise
<1>12. /\ f \in at..(at + FreshTTL)
       /\ exp \in at..(at + FreshTTL + StaleTTL)
  BY <1>1, <1>2, <1>4
<1>13. QED
  BY <1>10, <1>11, <1>12 DEF Contract!Publish

(* An eviction pass is one Expire step.                                    *)
LEMMA EvictImplements ==
  ASSUME BucketsInv, NEW at \in 0..clock, EvictTxn(at), clock' = clock
  PROVE  Contract!Expire
<1>1. PICK gone \in SUBSET {e \in ttl : e.exp < at} :
        /\ ttl' = ttl \ gone
        /\ \A e \in ttl' : e \in ttl /\ e.post \notin {x.post : x \in gone}
        /\ \A q \in Posts :
             IF q \in {x.post : x \in gone}
               THEN data'[q] = None /\ fresh'[q] = None
               ELSE data'[q] = data[q] /\ fresh'[q] = fresh[q]
  BY EvictDrops
<1>2. at \in Nat /\ at <= clock /\ clock \in Nat
  BY DEF BucketsInv, BucketsTypeOK
<1>3. ASSUME NEW e \in ttl'
      PROVE  e \in ttl /\ EntryOf(e)' = EntryOf(e)
  <2>1. e \in ttl /\ e.post \in Posts /\ e.post \notin {x.post : x \in gone}
    BY <1>1, <1>3 DEF BucketsInv, BucketsTypeOK
  <2>2. data'[e.post] = data[e.post] /\ fresh'[e.post] = fresh[e.post]
    BY <1>1, <2>1
  <2>3. QED
    BY <2>1, <2>2 DEF EntryOf, FreshUntil
<1>4. entries' = {EntryOf(e)' : e \in ttl'}
  BY DEF entries
<1>5. entries' \subseteq entries
  BY <1>3, <1>4 DEF entries
<1>6. ASSUME NEW x \in entries \ entries'
      PROVE  x.keep < clock
  <2>1. PICK e \in ttl : x = EntryOf(e)
    BY <1>6 DEF entries
  <2>2. e \in gone
    BY <1>1, <1>3, <1>4, <1>6, <2>1
  <2>3. e.exp \in Nat /\ e.exp < at /\ x.keep = e.exp
    BY <2>1, <2>2 DEF EntryOf, BucketsInv, BucketsTypeOK
  <2>4. QED
    BY <1>2, <2>3
<1>7. QED
  BY <1>5, <1>6 DEF Contract!Expire

LEMMA SameEntries ==
  ASSUME UNCHANGED <<data, ttl, fresh>>
  PROVE  UNCHANGED entries
BY DEF entries, EntryOf, FreshUntil

(* Every step of the cache is a step of the contract, or none.             *)
LEMMA CacheStepImplements ==
  ASSUME ~ExpiryTies, BucketsInv, [CacheStep]_cache
  PROVE  [Contract!Next]_<<clock, entries>>
<1> SUFFICES Contract!Next \/ UNCHANGED <<clock, entries>>
  OBVIOUS
<1>1. ASSUME NEW p \in Posts, NEW i \in Items, NEW at \in 0..clock,
             SaveTxn(p, i, at), clock' = clock
      PROVE  Contract!Next
  BY <1>1, SaveImplements DEF Contract!Next
<1>2. ASSUME NEW at \in 0..clock, EvictTxn(at), clock' = clock
      PROVE  Contract!Next
  BY <1>2, EvictImplements DEF Contract!Next
<1>3. CASE ReopenDB /\ clock' = clock /\ ~Durable
  <2>1. Contract!Lose
    BY <1>3 DEF ReopenDB, entries, Contract!Lose
  <2>2. QED
    BY <2>1 DEF Contract!Next
<1>4. CASE Tick /\ UNCHANGED buckets
  <2>1. Contract!Advance
    BY <1>4, SameEntries DEF Tick, buckets, Contract!Advance
  <2>2. QED
    BY <2>1 DEF Contract!Next
<1>5. CASE UNCHANGED <<clock, data, ttl, fresh>>
  BY <1>5, SameEntries
<1>6. QED
  BY <1>1, <1>2, <1>3, <1>4, <1>5
  DEF CacheStep, Transaction, cache, buckets, SaveNegativeTxn, ForgetNegativeTxn,
      ReopenDB
=============================================================================
