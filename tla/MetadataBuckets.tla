-------------------------- MODULE MetadataBuckets --------------------------
(***************************************************************************)
(* The four buckets of the metadata cache and the transactions that read   *)
(* and write them: handlers/scraper/cache.go, the cache half of            *)
(* handlers/scraper/data.go, and evictCache of main.go.                    *)
(*                                                                         *)
(*   data[p]      the marshalled metadata of post p                        *)
(*   ttl          stale expiry -> post; the expiry IS the key, so writing  *)
(*                an expiry that is already there replaces its post        *)
(*   fresh[p]     until when data[p] is answered without a new scrape      *)
(*   negative[p]  until when a failed scrape of p is remembered            *)
(*                                                                         *)
(* bbolt (external) runs every function given to Batch or View in a        *)
(* serialised transaction, so a transaction is one step here.  What the    *)
(* callers do before and between transactions is left to the modules that  *)
(* extend this one.                                                        *)
(***************************************************************************)
EXTENDS Absent, Integers, FiniteSets

CONSTANTS
  Posts,            \* post identifiers
  Items,            \* metadata values, told apart by what the model needs
  SignedExpiry,     \* [Items -> Nat \cup {None}]: earliest `oe` of the item
  FreshTTL, StaleTTL, NegativeTTL,   \* INSTAFIX_CACHE_*_TTL_SECONDS
  SignedMargin,     \* the 30 minutes kept before a signed URL expires
  LegacyExpiries,   \* expiries an older version may have left in ttl
  Durable,          \* TRUE: InitDB (cache.db); FALSE: InitEphemeralDB
  ExpiryTies,       \* may two posts be saved with the same expiry key?
  MaxTime           \* bound on the clock

ASSUME BucketsAssumption ==
  /\ None \notin Items /\ None \notin Nat /\ None \notin Posts
  /\ \A i \in Items : SignedExpiry[i] \in Nat \cup {None}
  /\ FreshTTL \in Nat /\ StaleTTL \in Nat /\ NegativeTTL \in Nat
  /\ SignedMargin \in Nat /\ MaxTime \in Nat
  /\ LegacyExpiries \subseteq Nat
  /\ Durable \in BOOLEAN /\ ExpiryTies \in BOOLEAN

VARIABLES clock, data, ttl, fresh, negative

buckets == <<data, ttl, fresh, negative>>

TtlEntry == [exp : Nat, post : Posts]

BucketsTypeOK ==
  /\ clock \in Nat
  /\ data \in [Posts -> Items \cup {None}]
  /\ ttl \subseteq TtlEntry
  /\ fresh \in [Posts -> Nat \cup {None}]
  /\ negative \in [Posts -> Nat \cup {None}]

---------------------------------------------------------------------------
(* Expiry arithmetic of saveDataToCache.                                   *)

Earlier(a, b) == IF a < b THEN a ELSE b
Later(a, b)   == IF a < b THEN b ELSE a

(* Mutants: an expiry that has passed is kept, or the signature ignored. *)
FreshExpiryInThePast(i, at) ==
  IF SignedExpiry[i] = None
    THEN at + FreshTTL
    ELSE Earlier(at + FreshTTL, SignedExpiry[i] - SignedMargin)

FreshExpiryUnsigned(i, at) == at + FreshTTL

FreshExpiry(i, at) ==
  IF SignedExpiry[i] = None
    THEN at + FreshTTL
    ELSE Earlier(at + FreshTTL, Later(at, SignedExpiry[i] - SignedMargin))

(* Mutant: a fresh TTL above the stale TTL is not accounted for. *)
StaleExpiryAlone(i, at) == at + StaleTTL

StaleExpiry(i, at) == Later(at + StaleTTL, FreshExpiry(i, at))

---------------------------------------------------------------------------
(* Reads.                                                                  *)

Found(p) == data[p] # None

(* The expiry an older version wrote to ttl is the freshness of an entry   *)
(* that has no row in the fresh bucket.                                    *)
Fresh(p, now) ==
  /\ Found(p)
  /\ IF fresh[p] # None
       THEN fresh[p] > now
       ELSE \E e \in ttl : e.post = p /\ e.exp > now

NegativeLive(p, now)    == negative[p] # None /\ negative[p] > now
NegativeExpired(p, now) == negative[p] # None /\ negative[p] <= now

---------------------------------------------------------------------------
(* Writes.                                                                 *)

(* Mutant: the old expiry of the post stays. *)
DeleteNoTTL(p) == ttl

DeleteTTLForPost(p) == {e \in ttl : e.post # p}

PutTTL(rows, exp, p) ==
  {e \in rows : e.exp # exp} \cup {[exp |-> exp, post |-> p]}

(* Without ExpiryTies two posts never get the same expiry.           *)
ExpiryAvailable(p, exp) ==
  ExpiryTies \/ \A e \in ttl : e.exp = exp => e.post = p

(* Mutant: the old expiries are deleted after the new one is written. *)
SaveThenDeleteTTL(p, i, at) ==
  /\ ExpiryAvailable(p, StaleExpiry(i, at))
  /\ ttl' = {e \in PutTTL(ttl, StaleExpiry(i, at), p) : e.post # p}
  /\ data' = [data EXCEPT ![p] = i]
  /\ fresh' = [fresh EXCEPT ![p] = FreshExpiry(i, at)]
  /\ negative' = [negative EXCEPT ![p] = None]

SaveTxn(p, i, at) ==
  /\ ExpiryAvailable(p, StaleExpiry(i, at))
  /\ ttl' = PutTTL(DeleteTTLForPost(p), StaleExpiry(i, at), p)
  /\ data' = [data EXCEPT ![p] = i]
  /\ fresh' = [fresh EXCEPT ![p] = FreshExpiry(i, at)]
  /\ negative' = [negative EXCEPT ![p] = None]

SaveNegativeTxn(p, at) ==
  /\ negative' = [negative EXCEPT ![p] = at + NegativeTTL]
  /\ UNCHANGED <<data, ttl, fresh>>

ForgetNegativeTxn(p) ==
  /\ negative' = [negative EXCEPT ![p] = None]
  /\ UNCHANGED <<data, ttl, fresh>>

(* bbolt leaves open what a cursor shows next when keys are deleted while  *)
(* it walks: it may step over the key right after a deleted one.           *)
CursorDeletes(expired, gone) ==
  \A e \in expired \ gone :
    \E g \in gone : /\ g.exp < e.exp
                    /\ \A x \in expired : ~(g.exp < x.exp /\ x.exp < e.exp)

(* Mutants: an entry goes a moment too early; the walked key is not deleted. *)
EvictOnExpiry(at) ==
  LET dropped == {e.post : e \in {x \in ttl : x.exp <= at}}
  IN /\ ttl' = {e \in ttl : e.exp > at}
     /\ data' = [p \in Posts |-> IF p \in dropped THEN None ELSE data[p]]
     /\ fresh' = [p \in Posts |-> IF p \in dropped THEN None ELSE fresh[p]]
     /\ UNCHANGED negative

EvictKeepingTTL(at) ==
  LET dropped == {e.post : e \in {x \in ttl : x.exp < at}}
  IN /\ data' = [p \in Posts |-> IF p \in dropped THEN None ELSE data[p]]
     /\ fresh' = [p \in Posts |-> IF p \in dropped THEN None ELSE fresh[p]]
     /\ UNCHANGED <<ttl, negative>>

EvictTxn(at) ==
  LET expired    == {e \in ttl : e.exp < at}
      outdated   == {p \in Posts : negative[p] # None /\ negative[p] < at}
  IN \E gone \in SUBSET expired, forgotten \in SUBSET outdated :
       LET dropped == {e.post : e \in gone}
       IN /\ CursorDeletes(expired, gone)
          /\ outdated # {} => forgotten # {}
          /\ ttl' = ttl \ gone
          /\ data' = [p \in Posts |-> IF p \in dropped THEN None ELSE data[p]]
          /\ fresh' = [p \in Posts |-> IF p \in dropped THEN None ELSE fresh[p]]
          /\ negative' = [p \in Posts |->
                            IF p \in forgotten THEN None ELSE negative[p]]

---------------------------------------------------------------------------
(* Opening the database.                                                   *)

NoRows == [p \in Posts |-> None]

(* cache.db may have been written by a version without the fresh bucket.   *)
LegacyTtl ==
  {t \in SUBSET [exp : LegacyExpiries, post : Posts] :
     \A e, f \in t : e # f => e.exp # f.exp /\ e.post # f.post}

BucketsInit ==
  /\ clock = 0
  /\ fresh = NoRows /\ negative = NoRows
  /\ ttl \in IF Durable THEN LegacyTtl ELSE {{}}
  /\ data \in [Posts -> Items \cup {None}]
  /\ \A p \in Posts : data[p] # None <=> \E e \in ttl : e.post = p

(* Mutant: the ephemeral database starts with the expiries of the last one. *)
ReopenKeepingTTL ==
  IF Durable
    THEN UNCHANGED buckets
    ELSE data' = NoRows /\ UNCHANGED ttl /\ fresh' = NoRows /\ negative' = NoRows

(* A restart keeps cache.db; the ephemeral file is a new, empty one.       *)
ReopenDB ==
  IF Durable
    THEN UNCHANGED buckets
    ELSE data' = NoRows /\ ttl' = {} /\ fresh' = NoRows /\ negative' = NoRows

Tick ==
  /\ clock < MaxTime
  /\ clock' = clock + 1

---------------------------------------------------------------------------
(* However saves of a post interleave with each other and with eviction,   *)
(* the ttl bucket holds at most one expiry for it: deleteTTLForPost runs   *)
(* in the transaction that writes the new expiry (data.go).                *)
OneExpiryPerPost == \A e, f \in ttl : e.post = f.post => e = f

(* Every cached post can still be evicted: its expiry is in the ttl        *)
(* bucket, the only bucket evictCache walks.                               *)
EveryEntryExpires ==
  \A p \in Posts : data[p] # None => \E e \in ttl : e.post = p

(* No bucket speaks of a post without data, and a post is never answered   *)
(* as fresh after evictCache may drop it.                                  *)
FreshWithinStale ==
  \A p \in Posts :
    /\ fresh[p] # None => data[p] # None
    /\ \A e \in ttl : e.post = p =>
         /\ data[p] # None
         /\ fresh[p] # None => fresh[p] <= e.exp

(* Metadata with signed media URLs is never answered as fresh within       *)
(* SignedMargin of their expiry, whichever save of the post came last.     *)
(* (A legacy row has no fresh expiry and follows its ttl key alone.)       *)
FreshHonoursSignature ==
  \A p \in Posts :
    /\ Fresh(p, clock) /\ fresh[p] # None
    /\ SignedExpiry[data[p]] # None
    => clock < SignedExpiry[data[p]] - SignedMargin

---------------------------------------------------------------------------
(* The buckets seen as the entries of the contract. *)
FreshUntil(e) == IF fresh[e.post] = None THEN e.exp ELSE fresh[e.post]

EntryOf(e) == [post |-> e.post, item |-> data[e.post],
               fresh |-> FreshUntil(e), keep |-> e.exp]

entries == {EntryOf(e) : e \in ttl}

Contract == INSTANCE CacheContract WITH clock <- clock, entries <- entries

(* The four buckets implement the contract.                                *)
ImplementsContract == Contract!Spec
=============================================================================
