--------------------------- MODULE CacheContract ---------------------------
(***************************************************************************)
(* What the metadata cache promises its readers, without buckets: a set of *)
(* entries, at most one per post, that are replaced as a whole, that are   *)
(* answered as fresh for no longer than the configuration and the signed   *)
(* media URLs allow, and that disappear only once their stale lifetime is  *)
(* over (or with an ephemeral database).                                   *)
(***************************************************************************)
EXTENDS Integers

CONSTANTS Posts, Items, None, SignedExpiry, FreshTTL, StaleTTL, SignedMargin,
          Durable, MaxTime

VARIABLES clock, entries

Entry == [post : Posts, item : Items, fresh : Nat, keep : Nat]

Of(p) == {e \in entries : e.post = p}

(* An entry built from a scrape whose clock reading was `at`.              *)
Promise(e, at) ==
  /\ e.fresh <= e.keep
  /\ e.fresh <= at + FreshTTL
  /\ at + StaleTTL <= e.keep
  /\ SignedExpiry[e.item] # None =>
       e.fresh <= at \/ e.fresh <= SignedExpiry[e.item] - SignedMargin

Init ==
  /\ clock = 0
  /\ \A e \in entries : e \in Entry /\ e.fresh = e.keep
  /\ \A e, f \in entries : e.post = f.post => e = f

Publish(p, i) ==
  \E at \in 0..clock :
    \E f \in at..(at + FreshTTL), k \in at..(at + FreshTTL + StaleTTL) :
      LET e == [post |-> p, item |-> i, fresh |-> f, keep |-> k]
      IN /\ Promise(e, at)
         /\ entries' = (entries \ Of(p)) \cup {e}
         /\ UNCHANGED clock

Expire ==
  /\ entries' \subseteq entries
  /\ \A e \in entries \ entries' : e.keep < clock
  /\ UNCHANGED clock

Lose ==
  /\ ~Durable
  /\ entries' = {}
  /\ UNCHANGED clock

Advance ==
  /\ clock < MaxTime
  /\ clock' = clock + 1
  /\ UNCHANGED entries

Next == (\E p \in Posts, i \in Items : Publish(p, i)) \/ Expire \/ Lose \/ Advance

Spec == Init /\ [][Next]_<<clock, entries>>
=============================================================================
