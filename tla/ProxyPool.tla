----------------------------- MODULE ProxyPool ------------------------------
(***************************************************************************)
(* The way out of the logged-out scrapes: the pool of public proxies with  *)
(* its round robin and cooldowns, and the fetches that go through it, one  *)
(* client after the other or, for GraphQL, several proxies at once with    *)
(* the first answer winning (doGraphQLRequestHedged).  An attempt runs in  *)
(* a goroutine of its own and outlives the fetch that has called it off.   *)
(***************************************************************************)
EXTENDS Absent, Naturals, Sequences, FiniteSets

CONSTANTS
  Proxies,       \* publicProxyURLs, a sequence
  BadURLs,       \* those among them no client can be made for
  Direct,        \* the client without a proxy
  ProxyAttempts, \* INSTAFIX_PUBLIC_PROXY_ATTEMPTS
  HedgeInitial,  \* INSTAFIX_PUBLIC_PROXY_HEDGE_INITIAL
  ProxyCooldown, \* INSTAFIX_PUBLIC_PROXY_COOLDOWN_SECONDS
  Fetches,       \* goroutines that fetch; one is taken again once its attempts are over
  MaxProxyTime   \* bound of the clock

ASSUME ProxyAssumption ==
  /\ Proxies \in Seq({Proxies[i] : i \in DOMAIN Proxies}) \ {<<>>}
  /\ \A i \in DOMAIN Proxies : Proxies[i] # Direct
  /\ ProxyAttempts \in Nat \ {0} /\ HedgeInitial \in Nat \ {0}
  /\ ProxyCooldown \in Nat /\ MaxProxyTime \in Nat

VARIABLES
  proxyTime, \* the wall clock
  policy,    \* INSTAFIX_PUBLIC_PROXY_ONLY and ..._HEDGED: [only, hedged]
  cursor,    \* publicProxyCursor
  cooling,   \* publicProxyCooldowns: until when, 0 for none
  failedAt,  \* when a proxy has last failed by itself, or None
  fetch      \* fetch[f]: a fetch, and by client how far its attempt is

proxyVars == <<proxyTime, policy, cursor, cooling, failedAt, fetch>>

ProxySet == {Proxies[i] : i \in DOMAIN Proxies}

NoFetch == [phase |-> "idle", graphql |-> FALSE, at |-> 0, clients |-> <<>>,
            status |-> <<>>, results |-> <<>>, turn |-> 0]

ProxyInit ==
  /\ proxyTime = 0 /\ cursor = 0
  /\ policy \in [only : BOOLEAN, hedged : BOOLEAN]
  /\ cooling = [p \in ProxySet |-> 0]
  /\ failedAt = [p \in ProxySet |-> None]
  /\ fetch = [f \in Fetches |-> NoFetch]

ProxyTick ==
  /\ proxyTime < MaxProxyTime /\ proxyTime' = proxyTime + 1
  /\ UNCHANGED <<policy, cursor, cooling, failedAt, fetch>>

---------------------------------------------------------------------------
(* The proxies from the cursor on, each the client of an attempt that a    *)
(* fetch may make, and the direct client after them.                       *)
Places == 1..Len(Proxies)
DirectPlace == Len(Proxies) + 1

Order == [k \in Places |-> Proxies[((cursor + k - 1) % Len(Proxies)) + 1]]

Before(k, indexes) == Cardinality({j \in indexes : j < k})

(* selectPublicProxyURLs: the first that are not cooling, from the cursor. *)
Selected ==
  LET ready == {k \in Places : proxyTime >= cooling[Order[k]]}
  IN  {k \in ready : Before(k, ready) < ProxyAttempts}

(* publicProxyClient: a URL that parses has one.                           *)
HasClient(p) == p \notin BadURLs

(* publicInstagramClientAttempts: the clients that a fetch may take.       *)
ProxyClients == {k \in Selected : HasClient(Order[k])}

Taken == ProxyClients \cup (IF policy.only THEN {} ELSE {DirectPlace})

Clients == [k \in Places \cup {DirectPlace} |-> IF k \in Places THEN Order[k] ELSE Direct]

ProxyIndexes(q) == {i \in DOMAIN q.clients : q.clients[i] # Direct /\ q.status[i] # "unused"}

Indexes(q, status) == {i \in DOMAIN q.clients : q.status[i] = status}

(* The one that is next in the order of the clients.                       *)
First(indexes) == {i \in indexes : \A j \in indexes : i <= j}

Begin(q, i) == [q EXCEPT !.status[i] = "upstream"]

Put(f, q) == fetch' = [fetch EXCEPT ![f] = q]

(* doGraphQLRequest races proxies only if there are several.               *)
Hedged(graphql) == graphql /\ policy.hedged /\ \E i, j \in ProxyClients : i # j

(* Those that begin at once, where proxies race.                           *)
StatusAtFirst(phase) ==
  [k \in Places \cup {DirectPlace} |->
     IF k \notin Taken THEN "unused"
     ELSE IF phase = "hedged" /\ k \in ProxyClients /\ Before(k, ProxyClients) < HedgeInitial
     THEN "upstream" ELSE "new"]

(* A fetch of GraphQL or of a page.  Without any client it is refused.     *)
Fetch(f, graphql) ==
  /\ fetch[f].phase = "idle"
  /\ cursor' = (cursor + 1) % Len(Proxies)
  /\ \E phase \in {"refused", "hedged", "sequential"} :
       /\ phase = "refused" <=> Taken = {}
       /\ phase = "hedged" <=> Hedged(graphql)
       /\ Put(f, [NoFetch EXCEPT !.phase = phase, !.graphql = graphql, !.at = proxyTime,
                                 !.clients = Clients, !.status = StatusAtFirst(phase)])
  /\ UNCHANGED <<proxyTime, policy, cooling, failedAt>>

---------------------------------------------------------------------------
(* An attempt ends; that of a hedged fetch sends its result.               *)
EndAttempt(f, i, status) ==
  Put(f, [fetch[f] EXCEPT !.status[i] = status,
            !.results = IF fetch[f].phase = "hedged" THEN Append(@, i) ELSE @])

(* markPublicProxyFailure, which knows no reason.                          *)
Cool(client) ==
  cooling' = IF client = Direct THEN cooling
             ELSE [cooling EXCEPT ![client] = proxyTime + ProxyCooldown]

Delivers(f, i) ==
  /\ fetch[f].status[i] = "upstream"
  /\ EndAttempt(f, i, "ok")
  /\ UNCHANGED <<proxyTime, policy, cursor, cooling, failedAt>>

(* No answer, or a status that blames the proxy.                           *)
Fails(f, i) ==
  LET client == fetch[f].clients[i] IN
  /\ fetch[f].status[i] = "upstream"
  /\ EndAttempt(f, i, "failed")
  /\ Cool(client)
  /\ failedAt' = IF client = Direct THEN failedAt
                 ELSE [failedAt EXCEPT ![client] = proxyTime]
  /\ UNCHANGED <<proxyTime, policy, cursor>>

(* A GraphQL answer that is of no use and blames nobody: another status, a *)
(* body that is no JSON or names a reason.                                 *)
Useless(f, i) ==
  /\ fetch[f].status[i] = "upstream" /\ fetch[f].graphql
  /\ EndAttempt(f, i, "failed")
  /\ UNCHANGED <<proxyTime, policy, cursor, cooling, failedAt>>

(* The context of a lost attempt is cancelled, which is an error of the    *)
(* network to it.                                                          *)
CalledOff(f, i) ==
  /\ fetch[f].status[i] = "upstream" /\ fetch[f].phase = "answered"
  /\ EndAttempt(f, i, "failed")
  /\ Cool(fetch[f].clients[i])
  /\ UNCHANGED <<proxyTime, policy, cursor, failedAt>>

AttemptStep(f, i) == Delivers(f, i) \/ Fails(f, i) \/ Useless(f, i) \/ CalledOff(f, i)

---------------------------------------------------------------------------
(* doGraphQLRequestSequential, doPublicInstagramRequest                    *)
Sequential(f) ==
  LET q == fetch[f]
      new == Indexes(q, "new")
      ended == IF q.turn = 0 THEN "failed" ELSE q.status[q.turn]
  IN  /\ q.phase = "sequential"
      /\ \/ ended = "ok" /\ Put(f, [q EXCEPT !.phase = "answered"])
         \/ ended = "failed" /\ \E i \in First(new) : Put(f, [Begin(q, i) EXCEPT !.turn = i])
         \/ ended = "failed" /\ new = {} /\ Put(f, [q EXCEPT !.phase = "failed"])
      /\ UNCHANGED <<proxyTime, policy, cursor, cooling, failedAt>>

Waiting(q) == Indexes(q, "new") \cap ProxyIndexes(q)

(* The delay is over: one more proxy joins the race.                       *)
HedgeDelay(f) ==
  /\ fetch[f].phase = "hedged"
  /\ \E i \in First(Waiting(fetch[f])) : Put(f, Begin(fetch[f], i))
  /\ UNCHANGED <<proxyTime, policy, cursor, cooling, failedAt>>

(* Mutant: the first failure ends the race.                                *)
RaceOverAtOnce(q) == TRUE

(* All have failed and their results are taken.                            *)
RaceOver(q) == \A i \in ProxyIndexes(q) : q.status[i] = "failed"

(* The next result: the first answer wins and calls the others off, a      *)
(* failure lets the next one join, after the last the direct client        *)
(* follows if the policy allows it.                                        *)
Receive(f) ==
  LET i == Head(fetch[f].results)
      q == [fetch[f] EXCEPT !.results = Tail(@)]
  IN  /\ fetch[f].phase = "hedged" /\ fetch[f].results # <<>>
      /\ \/ q.status[i] = "ok" /\ Put(f, [q EXCEPT !.phase = "answered"])
         \/ q.status[i] = "failed" /\ \E next \in First(Waiting(q)) : Put(f, Begin(q, next))
         \/ /\ q.status[i] = "failed" /\ Waiting(q) = {}
            /\ Put(f, IF q.results = <<>> /\ RaceOver(q)
                      THEN [q EXCEPT !.phase = "sequential"] ELSE q)
      /\ UNCHANGED <<proxyTime, policy, cursor, cooling, failedAt>>

(* The caller has its answer; the next fetch does not look back.           *)
Return(f) ==
  /\ fetch[f].phase \in {"answered", "failed", "refused"}
  /\ Indexes(fetch[f], "upstream") = {}
  /\ Put(f, NoFetch)
  /\ UNCHANGED <<proxyTime, policy, cursor, cooling, failedAt>>

FetchStep(f) ==
  \/ \E i \in DOMAIN fetch[f].clients : AttemptStep(f, i)
  \/ Sequential(f) \/ HedgeDelay(f) \/ Receive(f) \/ Return(f)

ProxyNext ==
  \/ ProxyTick
  \/ \E f \in Fetches : (\E graphql \in BOOLEAN : Fetch(f, graphql)) \/ FetchStep(f)

(* Every client has a timeout.                                             *)
ProxyFairness == \A f \in Fetches : WF_proxyVars(FetchStep(f))

ProxySpec == ProxyInit /\ [][ProxyNext]_proxyVars

---------------------------------------------------------------------------
ProxyTypeOK ==
  /\ proxyTime \in 0..MaxProxyTime /\ cursor \in 0..(Len(Proxies) - 1)
  /\ cooling \in [ProxySet -> 0..(MaxProxyTime + ProxyCooldown)]
  /\ failedAt \in [ProxySet -> (0..MaxProxyTime) \cup {None}]
  /\ \A f \in Fetches :
       /\ fetch[f].phase \in {"idle", "refused", "sequential", "hedged", "answered", "failed"}
       /\ DOMAIN fetch[f].status = DOMAIN fetch[f].clients

(* A fetch leaves the proxies for the server's own address, or gives up,   *)
(* only when every proxy it has chosen was asked and has failed: no proxy  *)
(* of a race is passed over, and no answer that is in the channel lost     *)
(* (doGraphQLRequest, doGraphQLRequestHedged).                             *)
ProxiesFirst ==
  \A f \in Fetches :
    LET q == fetch[f] IN
    q.phase = "failed" \/ (\E i \in DOMAIN q.clients : q.clients[i] = Direct /\ q.status[i] \notin {"new", "unused"})
      => \A i \in ProxyIndexes(q) : q.status[i] = "failed"

(* "When true, missing/unavailable configured proxies stop public          *)
(* Instagram requests" (.env.example): a fetch is refused only if every    *)
(* proxy that has a client has failed within the cooldown.                 *)
RefusedOnlyIfUnavailable ==
  \A f \in Fetches :
    fetch[f].phase = "refused" =>
      \A p \in ProxySet \ BadURLs :
        failedAt[p] # None /\ failedAt[p] + ProxyCooldown > fetch[f].at

(* Every fetch ends, however long attempts take within their timeouts: the *)
(* race neither waits for an attempt it has not begun nor for a result     *)
(* that was taken.                                                         *)
FetchesEnd ==
  \A f \in Fetches : fetch[f].phase # "idle" ~> fetch[f].phase = "idle"
=============================================================================
