-------------------------- MODULE RequestProtector --------------------------
(***************************************************************************)
(* The request budgets of protection.go: fixed windows per client and for  *)
(* all clients, and the set of posts a client asked for recently.  allow   *)
(* reads the clock before it takes the lock, so requests are charged with  *)
(* readings that may be up to Lag old and in any order.                    *)
(***************************************************************************)
EXTENDS Absent, Integers, FiniteSets

CONSTANTS
  IPs,          \* clients with an address of their own
  Unknown,      \* unknownProxyClient
  All,          \* the holder of the global windows
  Costs,        \* route costs
  Posts,
  PerIP,        \* PerIP[k]: a client's limit for window k; 0: unlimited
  Global,       \* the same for all clients together
  UniquePerIP,
  Window, UniqueWindow, IdleLimit,
  Lag,          \* how long a request may wait for the lock
  MaxTime       \* bound on the clock

Clients == IPs \cup {Unknown}
Holders == Clients \cup {All}
Keys == Costs \cup {"invalid", "miss"}

(* One minute, ten minutes and fifteen minutes in the code.                *)
ASSUME ProtectorAssumption ==
  /\ Window \in Nat \ {0} /\ UniqueWindow \in Nat /\ IdleLimit \in Nat
  /\ Lag \in Nat /\ MaxTime \in Nat /\ UniquePerIP \in Nat
  /\ Window <= UniqueWindow /\ UniqueWindow + Lag <= IdleLimit
  /\ PerIP \in [Keys -> Nat] /\ Global \in [Keys -> Nat]
  /\ Global["invalid"] = 0
  /\ None \notin Nat
  /\ Unknown \notin IPs /\ All \notin Clients

VARIABLES
  clock,
  lastSeen,   \* lastSeen[c], or None: the client has no entry
  windows,    \* windows[h][k]: start and count
  unique,     \* unique[c][p]: when c last asked for p, or None
  admitted    \* history: what was admitted during the last Window, by client

vars == <<clock, lastSeen, windows, unique, admitted>>

(* take on a window that does not exist yet finds it over.                 *)
NoWindow == [start |-> -Window, count |-> 0]
NoWindows == [k \in Keys |-> NoWindow]
NoPosts == [p \in Posts |-> None]

Init ==
  /\ clock = 0
  /\ lastSeen = [c \in Clients |-> None]
  /\ windows = [h \in Holders |-> NoWindows]
  /\ unique = [c \in Clients |-> NoPosts]
  /\ admitted = [c \in Clients |-> {}]

(* knownClient: the requests of unknown clients only count globally. *)
Limit(h, k) == IF h = All THEN Global[k] ELSE IF h = Unknown THEN 0 ELSE PerIP[k]

(* An admitted request: when, and the how manieth it was of which window. *)
Admission == [cost : Costs, at : Nat, start : Int, no : Nat]

(* Types; no window is charged above its limit.                            *)
TypeOK ==
  /\ clock \in Nat
  /\ lastSeen \in [Clients -> Nat \cup {None}]
  /\ windows \in [Holders -> [Keys -> [start : Int, count : Nat]]]
  /\ \A h \in Holders, k \in Keys : windows[h][k].count <= Limit(h, k)
  /\ unique \in [Clients -> [Posts -> Nat \cup {None}]]
  /\ admitted \in [Clients -> SUBSET Admission]

---------------------------------------------------------------------------
(* take, on the window named by the pair c of a holder and a key. *)
Over(c, now) == now - windows[c[1]][c[2]].start >= Window

(* Mutant: one request too many. *)
CanTakeOneMore(c, now) ==
  \/ Limit(c[1], c[2]) = 0 \/ Over(c, now)
  \/ windows[c[1]][c[2]].count <= Limit(c[1], c[2])

CanTake(c, now) ==
  \/ Limit(c[1], c[2]) = 0 \/ Over(c, now)
  \/ windows[c[1]][c[2]].count < Limit(c[1], c[2])

(* Mutant: the request that opens a window is not counted. *)
TakenUncounted(c, now) ==
  IF Limit(c[1], c[2]) = 0 THEN windows[c[1]][c[2]]
  ELSE IF Over(c, now) THEN [start |-> now, count |-> 0]
  ELSE [windows[c[1]][c[2]] EXCEPT !.count = @ + 1]

Taken(c, now) ==
  IF Limit(c[1], c[2]) = 0 THEN windows[c[1]][c[2]]
  ELSE IF Over(c, now) THEN [start |-> now, count |-> 1]
  ELSE [windows[c[1]][c[2]] EXCEPT !.count = @ + 1]

Take(cs, now) ==
  /\ \A c \in cs : CanTake(c, now)
  /\ windows' = [h \in Holders |-> [k \in Keys |->
                   IF <<h, k>> \in cs THEN Taken(<<h, k>>, now) ELSE windows[h][k]]]

(* Mutant: a client is only seen when its entry is made. *)
SeenOnce(c, now) ==
  lastSeen' = [lastSeen EXCEPT ![c] = IF @ = None THEN now ELSE @]

Seen(c, now) == lastSeen' = [lastSeen EXCEPT ![c] = now]

(* The windows charged before a limit was met stay charged. *)
Refuse(c, paid, due, now) ==
  /\ Seen(c, now)
  /\ Take(paid, now)
  /\ ~CanTake(due, now)
  /\ UNCHANGED <<clock, admitted>>

Admit(c, cost, paid, now) ==
  /\ Seen(c, now)
  /\ Take(paid, now)
  /\ admitted' = [admitted EXCEPT ![c] = @ \cup
                    {[cost |-> cost, at |-> clock, start |-> windows'[c][cost].start,
                      no |-> windows'[c][cost].count]}]
  /\ UNCHANGED clock

---------------------------------------------------------------------------
(* allow, by what the path names. *)
Route(c, cost) == {<<c, cost>>, <<All, cost>>}

OverRouteLimit(c, cost, now) ==
  /\ \/ Refuse(c, {}, <<c, cost>>, now)
     \/ Refuse(c, {<<c, cost>>}, <<All, cost>>, now)
  /\ UNCHANGED unique

NoPost(c, cost, now) == Admit(c, cost, Route(c, cost), now) /\ UNCHANGED unique

(* A story: its numeric ID passes validRoutePostID and, if it is longer    *)
(* than a shortcode, not validPublicPostID.                                *)
LongID(c, cost, now) ==
  /\ \/ Admit(c, cost, Route(c, cost) \cup {<<c, "invalid">>}, now)
     \/ Refuse(c, Route(c, cost), <<c, "invalid">>, now)
  /\ UNCHANGED unique

Recent(seen, now) ==
  [p \in Posts |-> IF seen[p] # None /\ now - seen[p] > UniqueWindow
                     THEN None ELSE seen[p]]

Asked(c, p, now) == Recent([unique[c] EXCEPT ![p] = now], now)

TooMany(seen) ==
  UniquePerIP > 0 /\ Cardinality({p \in Posts : seen[p] # None}) > UniquePerIP

(* A refused request was recorded all the same. *)
TooManyPosts(c, cost, p, now) ==
  /\ c \in IPs
  /\ TooMany(Asked(c, p, now))
  /\ Seen(c, now)
  /\ Take(Route(c, cost), now)
  /\ unique' = [unique EXCEPT ![c] = Asked(c, p, now)]
  /\ UNCHANGED <<clock, admitted>>

(* HasCachedData decides whether the request also counts as a miss.        *)
Post(c, cost, p, now) ==
  /\ IF c = Unknown THEN UNCHANGED unique
     ELSE /\ ~TooMany(Asked(c, p, now))
          /\ unique' = [unique EXCEPT ![c] = Asked(c, p, now)]
  /\ \/ Admit(c, cost, Route(c, cost), now)
     \/ Admit(c, cost, Route(c, cost) \cup {<<c, "miss">>, <<All, "miss">>}, now)
     \/ Refuse(c, Route(c, cost), <<c, "miss">>, now)
     \/ Refuse(c, Route(c, cost) \cup {<<c, "miss">>}, <<All, "miss">>, now)

Allow(c, cost, now) ==
  \/ OverRouteLimit(c, cost, now) \/ NoPost(c, cost, now) \/ LongID(c, cost, now)
  \/ \E p \in Posts : TooManyPosts(c, cost, p, now) \/ Post(c, cost, p, now)

(* cleanupLoop, once a minute. *)
Gone(c, now) == lastSeen[c] # None /\ now - lastSeen[c] > IdleLimit

Cleanup(now) ==
  /\ lastSeen' = [c \in Clients |-> IF Gone(c, now) THEN None ELSE lastSeen[c]]
  /\ windows' = [h \in Holders |->
                   IF h \in Clients /\ Gone(h, now) THEN NoWindows ELSE windows[h]]
  /\ unique' = [c \in Clients |->
                  IF Gone(c, now) THEN NoPosts ELSE Recent(unique[c], now)]
  /\ UNCHANGED <<clock, admitted>>

Elapse ==
  /\ clock < MaxTime
  /\ clock' = clock + 1
  /\ admitted' = [c \in Clients |->
                    {a \in admitted[c] : a.at > clock + 1 - Window}]
  /\ UNCHANGED <<lastSeen, windows, unique>>

(* What a goroutine may have read before it got the lock. *)
Readings == {t \in 0..clock : clock - Lag <= t}

Next ==
  \/ \E now \in Readings :
       Cleanup(now) \/ \E c \in Clients, cost \in Costs : Allow(c, cost, now)
  \/ Elapse

Spec == Init /\ [][Next]_vars

---------------------------------------------------------------------------
(* Fixed windows let a client through less than twice its limit in the     *)
(* time of one window, however its requests fall on the windows' edges and *)
(* however late they get the lock (less the time they may wait for it).    *)
SlidingBudget ==
  \A c \in IPs, k \in Costs :
    PerIP[k] > 0 =>
      Cardinality({a \in admitted[c] : a.cost = k /\ a.at > clock - (Window - Lag)})
        < 2 * PerIP[k]

(* cleanupLoop forgets only clients for whom nothing counts any more: each *)
(* of their windows is over and each of their posts is outside the unique  *)
(* window, although lastSeen may come from an older reading than they do.  *)
CleanupForgetsNothing ==
  [][\A c \in Clients :
       lastSeen[c] # None /\ lastSeen'[c] = None =>
         /\ \A k \in Keys : clock - windows[c][k].start >= Window
         /\ \A p \in Posts : unique[c][p] # None => clock - unique[c][p] > UniqueWindow]_vars
=============================================================================
