--------------------------- MODULE MetadataCache ---------------------------
(***************************************************************************)
(* The metadata cache under concurrent use.  A worker is a request         *)
(* goroutine: it reads the clock (or finds a negative entry expired) in    *)
(* one step and its write transaction commits in a later one, so the       *)
(* writes of several workers and of the eviction loop commit in any order. *)
(***************************************************************************)
EXTENDS MetadataBuckets

CONSTANT Workers

VARIABLES
  op,       \* op[w]: the write worker w has prepared
  evictAt   \* the clock reading of the running eviction pass, or None

vars == <<clock, data, ttl, fresh, negative, op, evictAt>>

Idle == [kind |-> "idle", post |-> None, item |-> None, at |-> 0]

Op == [kind : {"idle", "save", "negative", "forget"},
       post : Posts \cup {None}, item : Items \cup {None}, at : Nat]

(* Types; a prepared write names a post, a prepared save also an item.     *)
TypeOK ==
  /\ BucketsTypeOK
  /\ op \in [Workers -> Op]
  /\ \A w \in Workers : op[w].kind # "idle" => op[w].post \in Posts
  /\ \A w \in Workers : op[w].kind = "save" => op[w].item \in Items
  /\ evictAt \in Nat \cup {None}

Init ==
  /\ BucketsInit
  /\ op = [w \in Workers |-> Idle]
  /\ evictAt = None

---------------------------------------------------------------------------
Prepare(w, kind, p, i, at) ==
  /\ op[w].kind = "idle"
  /\ op' = [op EXCEPT ![w] = [kind |-> kind, post |-> p, item |-> i, at |-> at]]
  /\ UNCHANGED <<clock, data, ttl, fresh, negative, evictAt>>

(* saveDataToCache up to DB.Batch. *)
BeginSave(w, p, i) == Prepare(w, "save", p, i, clock)

(* saveNegativeCacheIfUseful up to DB.Batch. *)
BeginNegative(w, p) == NegativeTTL > 0 /\ Prepare(w, "negative", p, None, clock)

(* negativeCacheHit: the View that finds the entry expired. *)
BeginForget(w, p) ==
  /\ NegativeTTL > 0
  /\ NegativeExpired(p, clock)
  /\ Prepare(w, "forget", p, None, 0)

Finish(w) ==
  /\ op' = [op EXCEPT ![w] = Idle]
  /\ UNCHANGED <<clock, evictAt>>

CommitSave(w) ==
  /\ op[w].kind = "save"
  /\ SaveTxn(op[w].post, op[w].item, op[w].at)
  /\ Finish(w)

CommitNegative(w) ==
  /\ op[w].kind = "negative"
  /\ SaveNegativeTxn(op[w].post, op[w].at)
  /\ Finish(w)

CommitForget(w) ==
  /\ op[w].kind = "forget"
  /\ ForgetNegativeTxn(op[w].post)
  /\ Finish(w)

(* DB.Batch returns an error: nothing was written. *)
CommitFails(w) ==
  /\ op[w].kind # "idle"
  /\ Finish(w)
  /\ UNCHANGED buckets

---------------------------------------------------------------------------
(* The eviction goroutine of main.go. *)
BeginEvict ==
  /\ evictAt = None
  /\ evictAt' = clock
  /\ UNCHANGED <<clock, data, ttl, fresh, negative, op>>

CommitEvict ==
  /\ evictAt # None
  /\ EvictTxn(evictAt)
  /\ evictAt' = None
  /\ UNCHANGED <<clock, op>>

EvictFails ==
  /\ evictAt # None
  /\ evictAt' = None
  /\ UNCHANGED <<clock, data, ttl, fresh, negative, op>>

(* The process stops with writes in flight and is started again. *)
Restart ==
  /\ op' = [w \in Workers |-> Idle]
  /\ evictAt' = None
  /\ ReopenDB
  /\ UNCHANGED clock

Elapse == Tick /\ UNCHANGED <<data, ttl, fresh, negative, op, evictAt>>

Next ==
  \/ \E w \in Workers, p \in Posts :
       \/ \E i \in Items : BeginSave(w, p, i)
       \/ BeginNegative(w, p)
       \/ BeginForget(w, p)
  \/ \E w \in Workers :
       CommitSave(w) \/ CommitNegative(w) \/ CommitForget(w) \/ CommitFails(w)
  \/ BeginEvict \/ CommitEvict \/ EvictFails
  \/ Restart \/ Elapse

Spec == Init /\ [][Next]_vars

(* The eviction loop never ends: a pass is begun after every sleep, and    *)
(* passes that are begun for ever do not all fail or die in a restart.     *)
EvictionFairness == WF_vars(BeginEvict) /\ SF_vars(CommitEvict)

FairSpec == Spec /\ EvictionFairness

---------------------------------------------------------------------------
(* While the database stays open or is durable, a post's data disappears   *)
(* only when every stale expiry stored for it has passed: an eviction pass *)
(* that read the clock before a save does not undo the save.               *)
EvictKeepsLive ==
  [][\A p \in Posts :
       Durable /\ data[p] # None /\ data'[p] = None =>
         \A e \in ttl : e.post = p => e.exp < clock]_vars

(* The eviction loop catches up: an expired entry is dropped or replaced,  *)
(* although a pass may skip keys, fail or be cut off by a restart.         *)
ExpiredEntriesGo ==
  \A p \in Posts :
    (\E e \in ttl : e.post = p /\ e.exp < clock)
      ~> ~(\E e \in ttl : e.post = p /\ e.exp < clock)
=============================================================================
