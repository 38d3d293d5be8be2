---------------------------- MODULE GuardsProofs ----------------------------
(***************************************************************************)
(* What protects the program and its accounts: the budget of each client   *)
(* (RequestProtector), and in the auth helper, for any number of accounts, *)
(* threads and cookies, its limits per minute (HelperRate), the pool of    *)
(* cookies (CookiePool) and the quarantines and their file (Quarantines).  *)
(* In the end all parts of Guards together.                                *)
(***************************************************************************)
EXTENDS Guards, PagesProofs, FiniteSetTheorems, TLAPS

---------------------------------------------------------------------------
(* The budget of a client.  The history of admitted requests names the     *)
(* window each was counted in, so that the sliding budget follows from two *)
(* facts about windows: they start at least Window apart, and whatever was *)
(* counted in one was admitted before the next started.                    *)


(* Nothing a client is remembered for is later than its last request by    *)
(* more than Lag, and nothing is remembered of a client without an entry.  *)
Recorded ==
  \A c \in Clients :
    /\ \A k \in Keys : /\ windows[c][k].start <= clock
                       /\ lastSeen[c] # None => windows[c][k].start <= lastSeen[c] + Lag
                       /\ windows[c][k].count = 0 => windows[c][k].start = -Window
    /\ \A p \in Posts : unique[c][p] # None =>
         unique[c][p] <= clock /\ (lastSeen[c] # None => unique[c][p] <= lastSeen[c] + Lag)
    /\ \A a \in admitted[c] : /\ lastSeen[c] # None /\ a.at <= lastSeen[c] + Lag
                              /\ clock - Window < a.at /\ a.at <= clock

(* An admitted request of a client with a limit, against its window now:   *)
(* counted in it, or in one that began at least Window before.             *)
Counted ==
  \A c \in IPs, k \in Costs : \A a \in admitted[c] :
    PerIP[k] > 0 /\ a.cost = k =>
      /\ a.no \in 1..PerIP[k]
      /\ a.start <= a.at
      /\ a.no = 1 => a.at <= a.start + Lag
      /\ a.start = windows[c][k].start => a.no <= windows[c][k].count
      /\ a.start # windows[c][k].start =>
           a.start + Window <= windows[c][k].start /\ a.at <= windows[c][k].start + Lag

(* Two admitted requests of a client with a limit: one number each in one  *)
(* window, or windows at least Window apart, one after the other.          *)
Spaced ==
  \A c \in IPs, k \in Costs : \A a, b \in admitted[c] :
    PerIP[k] > 0 /\ a.cost = k /\ b.cost = k =>
      /\ a.start = b.start /\ a.no = b.no => a = b
      /\ a.start < b.start => a.start + Window <= b.start /\ a.at <= b.start + Lag

IInv == TypeOK /\ Recorded /\ Counted /\ Spaced

(* The initial state satisfies the invariant. *)
LEMMA InitInv == Init => IInv
<1> SUFFICES ASSUME Init PROVE IInv
  OBVIOUS
<1>. USE ProtectorAssumption DEF Init, Clients, Holders, NoWindows, NoWindow, NoPosts, Keys
<1>1. TypeOK
  BY DEF TypeOK, Limit, Admission
<1>2. Recorded /\ Counted /\ Spaced
  BY DEF Recorded, Counted, Spaced
<1>. QED
  BY <1>1, <1>2 DEF IInv

---------------------------------------------------------------------------
(* What a request does, whichever way it goes. *)

(* Its windows are left alone or charged by take, no other client's are.   *)
Charged(c, now) ==
  /\ windows' \in [Holders -> [Keys -> [start : Int, count : Nat]]]
  /\ \A h \in Holders, k \in Keys :
       windows'[h][k] # windows[h][k] =>
         CanTake(<<h, k>>, now) /\ windows'[h][k] = Taken(<<h, k>>, now)
  /\ \A d \in Clients \ {c} : windows'[d] = windows[d]

(* It is admitted by its route's window or not admitted. *)
Answered(c, cost, now) ==
  \/ admitted' = admitted
  \/ /\ CanTake(<<c, cost>>, now)
     /\ windows'[c][cost] = Taken(<<c, cost>>, now)
     /\ admitted' = [admitted EXCEPT ![c] = @ \cup
          {[cost |-> cost, at |-> clock, start |-> windows'[c][cost].start,
            no |-> windows'[c][cost].count]}]

Looked(c, now) ==
  \/ unique' = unique
  \/ \E p \in Posts : unique' = [unique EXCEPT ![c] = Asked(c, p, now)]

(* take leaves a window as it is, starts it anew or counts one more.       *)
LEMMA TakenCases ==
  ASSUME TypeOK, NEW h \in Holders, NEW k \in Keys, NEW now \in Nat
  PROVE  /\ Taken(<<h, k>>, now) \in [start : Int, count : Nat]
         /\ \/ Limit(h, k) = 0 /\ Taken(<<h, k>>, now) = windows[h][k]
            \/ /\ Limit(h, k) > 0 /\ now - windows[h][k].start >= Window
               /\ Taken(<<h, k>>, now) = [start |-> now, count |-> 1]
            \/ /\ Limit(h, k) > 0 /\ now - windows[h][k].start < Window
               /\ Taken(<<h, k>>, now) = [start |-> windows[h][k].start,
                                          count |-> windows[h][k].count + 1]
<1>. USE ProtectorAssumption
<1>1. windows[h][k] \in [start : Int, count : Nat] /\ Limit(h, k) \in Nat
  BY DEF TypeOK, Limit
<1>2. CASE Limit(h, k) = 0
  BY <1>1, <1>2 DEF Taken
<1>3. CASE Limit(h, k) > 0 /\ now - windows[h][k].start >= Window
  BY <1>1, <1>3 DEF Taken, Over
<1>4. CASE Limit(h, k) > 0 /\ now - windows[h][k].start < Window
  BY <1>1, <1>4 DEF Taken, Over
<1>. QED
  BY <1>1, <1>2, <1>3, <1>4

(* Charging only windows of c and of everybody is what Charged says.       *)
LEMMA TakeCharges ==
  ASSUME TypeOK, NEW c \in Clients, NEW cs, NEW now \in Nat, Take(cs, now),
         \A h \in Holders, k \in Keys : <<h, k>> \in cs => h \in {c, All}
  PROVE  Charged(c, now)
<1>1. \A h \in Holders, k \in Keys :
        /\ windows[h][k] \in [start : Int, count : Nat]
        /\ Taken(<<h, k>>, now) \in [start : Int, count : Nat]
  BY TakenCases DEF TypeOK
<1>2. /\ windows' \in [Holders -> [Keys -> [start : Int, count : Nat]]]
      /\ \A h \in Holders, k \in Keys :
           windows'[h][k] = IF <<h, k>> \in cs THEN Taken(<<h, k>>, now) ELSE windows[h][k]
  BY <1>1 DEF Take
<1>3. \A h \in Holders, k \in Keys : <<h, k>> \in cs => CanTake(<<h, k>>, now)
  BY DEF Take
<1>4. \A d \in Clients \ {c} : windows'[d] = windows[d]
  <2>. TAKE d \in Clients \ {c}
  <2>1. d \in Holders /\ d \notin {c, All}
    BY ProtectorAssumption DEF Holders, Clients
  <2>2. windows[d] \in [Keys -> [start : Int, count : Nat]]
        /\ windows'[d] \in [Keys -> [start : Int, count : Nat]]
    BY <1>2, <2>1 DEF TypeOK
  <2>3. \A k \in Keys : windows'[d][k] = windows[d][k]
    BY <1>2, <2>1
  <2>. QED
    BY <2>2, <2>3
<1>. QED
  BY <1>2, <1>3, <1>4 DEF Charged

(* Every disjunct of Allow keeps the clock, records the reading, and does  *)
(* no more than the three definitions above.                               *)
LEMMA AllowDoes ==
  ASSUME TypeOK, NEW c \in Clients, NEW cost \in Costs, NEW now \in Nat,
         Allow(c, cost, now)
  PROVE  /\ clock' = clock /\ Seen(c, now)
         /\ Charged(c, now) /\ Answered(c, cost, now) /\ Looked(c, now)
<1>1. \A paid, due : Refuse(c, paid, due, now) =>
        clock' = clock /\ Seen(c, now) /\ Take(paid, now) /\ Answered(c, cost, now)
  BY DEF Refuse, Answered
<1>2. \A paid : <<c, cost>> \in paid /\ Admit(c, cost, paid, now) =>
        clock' = clock /\ Seen(c, now) /\ Take(paid, now) /\ Answered(c, cost, now)
  BY DEF Admit, Answered, Take, Holders, Keys
<1>3. \A paid : Take(paid, now) /\ paid \subseteq {c, All} \X Keys => Charged(c, now)
  BY TakeCharges
<1>4. /\ {} \subseteq {c, All} \X Keys
      /\ {<<c, cost>>} \subseteq {c, All} \X Keys
      /\ Route(c, cost) \subseteq {c, All} \X Keys
      /\ Route(c, cost) \cup {<<c, "invalid">>} \subseteq {c, All} \X Keys
      /\ Route(c, cost) \cup {<<c, "miss">>} \subseteq {c, All} \X Keys
      /\ Route(c, cost) \cup {<<c, "miss">>, <<All, "miss">>} \subseteq {c, All} \X Keys
      /\ <<c, cost>> \in Route(c, cost)
  BY DEF Route, Keys
<1>5. CASE OverRouteLimit(c, cost, now)
  BY <1>1, <1>3, <1>4, <1>5 DEF OverRouteLimit, Looked
<1>6. CASE NoPost(c, cost, now)
  BY <1>2, <1>3, <1>4, <1>6 DEF NoPost, Looked
<1>7. CASE LongID(c, cost, now)
  BY <1>1, <1>2, <1>3, <1>4, <1>7 DEF LongID, Looked
<1>8. ASSUME NEW p \in Posts, TooManyPosts(c, cost, p, now)
      PROVE  /\ clock' = clock /\ Seen(c, now)
             /\ Charged(c, now) /\ Answered(c, cost, now) /\ Looked(c, now)
  BY <1>3, <1>4, <1>8 DEF TooManyPosts, Looked, Answered
<1>9. ASSUME NEW p \in Posts, Post(c, cost, p, now)
      PROVE  /\ clock' = clock /\ Seen(c, now)
             /\ Charged(c, now) /\ Answered(c, cost, now) /\ Looked(c, now)
  BY <1>1, <1>2, <1>3, <1>4, <1>9 DEF Post, Looked
<1>. QED
  BY <1>5, <1>6, <1>7, <1>8, <1>9 DEF Allow

---------------------------------------------------------------------------
(* A request preserves the invariant.                                      *)
LEMMA AllowPreserves ==
  ASSUME IInv, NEW now \in Readings, NEW c \in Clients, NEW cost \in Costs,
         Allow(c, cost, now)
  PROVE  IInv'
<1>. USE ProtectorAssumption
<1>1. TypeOK /\ Recorded /\ Counted /\ Spaced
  BY DEF IInv
<1>2. now \in Nat /\ clock \in Nat /\ now <= clock /\ clock <= now + Lag
  BY <1>1 DEF Readings, TypeOK
<1>3. /\ clock' = clock /\ lastSeen' = [lastSeen EXCEPT ![c] = now]
      /\ Charged(c, now) /\ Answered(c, cost, now) /\ Looked(c, now)
  BY <1>1, <1>2, AllowDoes DEF Seen
<1>4. /\ cost \in Keys /\ Costs \subseteq Keys
      /\ Clients \subseteq Holders /\ IPs \subseteq Clients /\ c \in Holders
  BY DEF Keys, Clients, Holders
(* What became of each window. *)
<1>5. ASSUME NEW h \in Holders, NEW k \in Keys
      PROVE  /\ windows[h][k].start \in Int /\ windows[h][k].count \in Nat
             /\ windows'[h][k].start \in Int /\ windows'[h][k].count \in Nat
             /\ windows[h][k].count <= Limit(h, k) /\ Limit(h, k) \in Nat
             /\ \/ windows'[h][k] = windows[h][k]
                \/ /\ Limit(h, k) > 0 /\ now - windows[h][k].start >= Window
                   /\ windows'[h][k].start = now /\ windows'[h][k].count = 1
                \/ /\ Limit(h, k) > 0 /\ now - windows[h][k].start < Window
                   /\ windows[h][k].count < Limit(h, k)
                   /\ windows'[h][k].start = windows[h][k].start
                   /\ windows'[h][k].count = windows[h][k].count + 1
  <2>1. /\ windows[h][k] \in [start : Int, count : Nat] /\ Limit(h, k) \in Nat
        /\ windows'[h][k] \in [start : Int, count : Nat]
        /\ windows[h][k].count <= Limit(h, k)
    BY <1>1, <1>3 DEF TypeOK, Limit, Charged
  <2>2. CASE windows'[h][k] = windows[h][k]
    BY <2>1, <2>2
  <2>3. CASE windows'[h][k] # windows[h][k]
    <3>1. CanTake(<<h, k>>, now) /\ windows'[h][k] = Taken(<<h, k>>, now)
      BY <1>3, <2>3 DEF Charged
    <3>2. Limit(h, k) = 0 \/ now - windows[h][k].start >= Window
            \/ windows[h][k].count < Limit(h, k)
      BY <3>1 DEF CanTake, Over
    <3>3. CASE Limit(h, k) = 0 /\ Taken(<<h, k>>, now) = windows[h][k]
      BY <2>3, <3>1, <3>3
    <3>4. CASE /\ Limit(h, k) > 0 /\ now - windows[h][k].start >= Window
               /\ Taken(<<h, k>>, now) = [start |-> now, count |-> 1]
      BY <2>1, <3>1, <3>4
    <3>5. CASE /\ Limit(h, k) > 0 /\ now - windows[h][k].start < Window
               /\ Taken(<<h, k>>, now) = [start |-> windows[h][k].start,
                                          count |-> windows[h][k].count + 1]
      <4>1. ~ (now - windows[h][k].start >= Window) /\ ~ (Limit(h, k) = 0)
        BY <1>2, <2>1, <3>5
      <4>2. windows[h][k].count < Limit(h, k)
        BY <3>2, <4>1
      <4>. QED
        BY <2>1, <3>1, <3>5, <4>2
    <3>. QED
      BY <1>1, <1>2, <3>3, <3>4, <3>5, TakenCases
  <2>. QED
    BY <2>2, <2>3
(* And of the set of admitted requests. *)
<1>6. ASSUME NEW d \in Clients, NEW a \in admitted'[d]
      PROVE  \/ a \in admitted[d]
             \/ /\ d = c /\ a.cost = cost /\ a.at = clock
                /\ a.start = windows'[c][cost].start /\ a.no = windows'[c][cost].count
                /\ CanTake(<<c, cost>>, now)
                /\ windows'[c][cost] = Taken(<<c, cost>>, now)
  BY <1>1, <1>3, <1>6 DEF Answered, TypeOK
<1>7. TypeOK'
  <2>1. clock' \in Nat /\ lastSeen' \in [Clients -> Nat \cup {None}]
    BY <1>1, <1>2, <1>3 DEF TypeOK
  <2>2. windows' \in [Holders -> [Keys -> [start : Int, count : Nat]]]
    BY <1>3 DEF Charged
  <2>3. \A h \in Holders, k \in Keys : windows'[h][k].count <= Limit(h, k)
    BY <1>5
  <2>4. unique' \in [Clients -> [Posts -> Nat \cup {None}]]
    <3>1. \A p \in Posts : Asked(c, p, now) \in [Posts -> Nat \cup {None}]
      BY <1>1, <1>2 DEF Asked, Recent, TypeOK
    <3>. QED
      BY <1>1, <1>3, <3>1 DEF Looked, TypeOK
  <2>5. admitted' \in [Clients -> SUBSET Admission]
    <3>1. CASE admitted' = admitted
      BY <1>1, <3>1 DEF TypeOK
    <3>2. ASSUME NEW r, r \in Admission,
                 admitted' = [admitted EXCEPT ![c] = @ \cup {r}]
          PROVE  admitted' \in [Clients -> SUBSET Admission]
      BY <1>1, <3>2 DEF TypeOK
    <3>3. [cost |-> cost, at |-> clock, start |-> windows'[c][cost].start,
           no |-> windows'[c][cost].count] \in Admission
      BY <1>2, <1>4, <1>5 DEF Admission
    <3>. QED
      BY <1>3, <3>1, <3>2, <3>3 DEF Answered
  <2>. QED
    BY <2>1, <2>2, <2>3, <2>4, <2>5 DEF TypeOK, Limit
(* The windows of other clients, their readings and posts are untouched. *)
<1>8. Recorded'
  <2>. SUFFICES ASSUME NEW d \in Clients
                PROVE  /\ \A k \in Keys :
                            /\ windows'[d][k].start <= clock'
                            /\ lastSeen'[d] # None => windows'[d][k].start <= lastSeen'[d] + Lag
                            /\ windows'[d][k].count = 0 => windows'[d][k].start = -Window
                       /\ \A p \in Posts : unique'[d][p] # None =>
                            /\ unique'[d][p] <= clock'
                            /\ lastSeen'[d] # None => unique'[d][p] <= lastSeen'[d] + Lag
                       /\ \A a \in admitted'[d] :
                            /\ lastSeen'[d] # None /\ a.at <= lastSeen'[d] + Lag
                            /\ clock' - Window < a.at /\ a.at <= clock'
    BY DEF Recorded
  <2>1. CASE d # c
    <3>1. windows'[d] = windows[d] /\ lastSeen'[d] = lastSeen[d]
      BY <1>1, <1>3, <2>1 DEF Charged, TypeOK
    <3>2. unique'[d] = unique[d] /\ admitted'[d] = admitted[d]
      BY <1>1, <1>3, <2>1 DEF Looked, Answered, TypeOK
    <3>. QED
      BY <1>1, <1>3, <3>1, <3>2 DEF Recorded
  <2>2. CASE d = c
    <3>1. lastSeen'[c] = now
      BY <1>1, <1>3 DEF TypeOK
    <3>2. ASSUME NEW k \in Keys
          PROVE  /\ windows'[c][k].start <= clock
                 /\ windows'[c][k].count = 0 => windows'[c][k].start = -Window
      <4>1. windows[c][k].start <= clock
            /\ (windows[c][k].count = 0 => windows[c][k].start = -Window)
        BY <1>1 DEF Recorded
      <4>. QED
        BY <1>2, <1>4, <1>5, <4>1
    <3>3. \A k \in Keys : windows'[c][k].start \in Int
      BY <1>4, <1>5
    <3>4. ASSUME NEW p \in Posts, unique'[c][p] # None
          PROVE  unique'[c][p] \in Nat /\ unique'[c][p] <= clock
      <4>1. unique[c] \in [Posts -> Nat \cup {None}]
            /\ \A q \in Posts : unique[c][q] # None => unique[c][q] <= clock
        BY <1>1 DEF TypeOK, Recorded
      <4>2. unique'[c][p] = unique[c][p] \/ unique'[c][p] = now
        BY <1>1, <1>3, <3>4, <4>1 DEF Looked, Asked, Recent, TypeOK
      <4>. QED
        BY <1>2, <3>4, <4>1, <4>2
    <3>5. ASSUME NEW a \in admitted'[c]
          PROVE  a.at \in Nat /\ a.at <= clock /\ clock - Window < a.at
      <4>1. CASE a \in admitted[c]
        <5>1. /\ a.at \in Nat /\ clock - Window < a.at
              /\ a.at <= clock
          BY <1>1, <1>2, <4>1 DEF TypeOK, Recorded, Admission
        <5>. QED
          BY <5>1
      <4>2. CASE a.at = clock
        BY <1>2, <4>2
      <4>. QED
        BY <1>6, <4>1, <4>2
    <3>. QED
      BY <1>2, <1>3, <2>2, <3>1, <3>2, <3>3, <3>4, <3>5
  <2>. QED
    BY <2>1, <2>2
(* A new admission in a limited window either starts it or adds to it. *)
<1>9. ASSUME NEW d \in Clients, NEW a \in admitted'[d], a \notin admitted[d],
             Limit(d, a.cost) > 0
      PROVE  /\ d = c /\ a.cost = cost /\ a.at = clock
             /\ a.start = windows'[c][cost].start /\ a.no = windows'[c][cost].count
             /\ \/ now - windows[c][cost].start >= Window /\ a.start = now /\ a.no = 1
                \/ /\ now - windows[c][cost].start < Window
                   /\ windows[c][cost].count \in 1..(Limit(c, cost) - 1)
                   /\ a.start = windows[c][cost].start
                   /\ a.no = windows[c][cost].count + 1
  <2>1. /\ d = c /\ a.cost = cost /\ a.at = clock
        /\ a.start = windows'[c][cost].start /\ a.no = windows'[c][cost].count
        /\ CanTake(<<c, cost>>, now) /\ windows'[c][cost] = Taken(<<c, cost>>, now)
    BY <1>6, <1>9
  <2>2. /\ windows[c][cost].start \in Int /\ windows[c][cost].count \in Nat
        /\ Limit(c, cost) \in Nat
        /\ windows[c][cost].count = 0 => windows[c][cost].start = -Window
    BY <1>1, <1>4, <1>5 DEF Recorded
  <2>3. CASE /\ now - windows[c][cost].start >= Window
             /\ Taken(<<c, cost>>, now) = [start |-> now, count |-> 1]
    BY <2>1, <2>3
  <2>4. CASE /\ now - windows[c][cost].start < Window
             /\ Taken(<<c, cost>>, now) = [start |-> windows[c][cost].start,
                                           count |-> windows[c][cost].count + 1]
    <3>1. windows[c][cost].count < Limit(c, cost)
      BY <1>2, <1>9, <2>1, <2>2, <2>4 DEF CanTake, Over
    <3>2. windows[c][cost].count # 0
      BY <1>2, <2>2, <2>4
    <3>. QED
      BY <2>1, <2>2, <2>4, <3>1, <3>2
  <2>. QED
    BY <1>1, <1>2, <1>4, <1>9, <2>1, <2>3, <2>4, TakenCases
<1>10. Counted'
  <2>. SUFFICES ASSUME NEW d \in IPs, NEW k \in Costs, NEW a \in admitted'[d],
                       PerIP[k] > 0, a.cost = k
                PROVE  /\ a.no \in 1..PerIP[k]
                       /\ a.start <= a.at
                       /\ a.no = 1 => a.at <= a.start + Lag
                       /\ a.start = windows'[d][k].start => a.no <= windows'[d][k].count
                       /\ a.start # windows'[d][k].start =>
                            /\ a.start + Window <= windows'[d][k].start
                            /\ a.at <= windows'[d][k].start + Lag
    BY DEF Counted
  <2>1. d \in Clients /\ d \in Holders /\ k \in Keys /\ Limit(d, k) = PerIP[k]
    BY <1>4 DEF Limit
  <2>2. CASE a \in admitted[d]
    <3>1. a.no \in Nat /\ a.start \in Int /\ a.at \in Nat /\ a.at <= clock
      BY <1>1, <2>1, <2>2 DEF TypeOK, Admission, Recorded
    <3>2. /\ a.no \in 1..PerIP[k]
          /\ a.start <= a.at
          /\ a.no = 1 => a.at <= a.start + Lag
          /\ a.start = windows[d][k].start => a.no <= windows[d][k].count
          /\ a.start # windows[d][k].start =>
               a.start + Window <= windows[d][k].start /\ a.at <= windows[d][k].start + Lag
      BY <1>1, <2>2 DEF Counted
    <3>. QED
      BY <1>2, <1>5, <2>1, <3>1, <3>2
  <2>3. CASE a \notin admitted[d]
    <3>1. windows[d][k].start \in Int /\ windows[d][k].start <= clock
      BY <1>1, <1>5, <2>1 DEF Recorded
    <3>. QED
      BY <1>2, <1>9, <2>1, <2>3, <3>1
  <2>. QED
    BY <2>2, <2>3
<1>11. Spaced'
  <2>. SUFFICES ASSUME NEW d \in IPs, NEW k \in Costs,
                       NEW a \in admitted'[d], NEW b \in admitted'[d],
                       PerIP[k] > 0, a.cost = k, b.cost = k
                PROVE  /\ a.start = b.start /\ a.no = b.no => a = b
                       /\ a.start < b.start =>
                            a.start + Window <= b.start /\ a.at <= b.start + Lag
    BY DEF Spaced
  <2>1. d \in Clients /\ d \in Holders /\ k \in Keys /\ Limit(d, k) = PerIP[k]
    BY <1>4 DEF Limit
  <2>2. /\ windows[d][k].start \in Int /\ windows[d][k].count \in Nat
    BY <1>5, <2>1
  <2>3. \A e \in admitted[d] : e.cost = k =>
          /\ e.no \in Nat /\ e.start \in Int /\ e.at \in Nat /\ e.at <= clock
          /\ e.start = windows[d][k].start => e.no <= windows[d][k].count
          /\ e.start # windows[d][k].start =>
               e.start + Window <= windows[d][k].start /\ e.at <= windows[d][k].start + Lag
    BY <1>1, <2>1 DEF TypeOK, Admission, Recorded, Counted
  <2>4. CASE a \in admitted[d] /\ b \in admitted[d]
    BY <1>1, <2>4 DEF Spaced
  <2>5. CASE a \in admitted[d] /\ b \notin admitted[d]
    BY <1>2, <1>9, <2>1, <2>2, <2>3, <2>5
  <2>6. CASE a \notin admitted[d] /\ b \in admitted[d]
    BY <1>2, <1>9, <2>1, <2>2, <2>3, <2>6
  <2>7. CASE a \notin admitted[d] /\ b \notin admitted[d]
    <3>1. a = b
      <4>1. ASSUME NEW r, admitted' = [admitted EXCEPT ![c] = @ \cup {r}]
            PROVE  a = b
        BY <1>1, <2>1, <2>7, <4>1 DEF TypeOK
      <4>. QED
        BY <1>3, <2>7, <4>1 DEF Answered
    <3>2. a.start \in Int
      BY <1>2, <1>9, <2>1, <2>2, <2>7
    <3>. QED
      BY <3>1, <3>2
  <2>. QED
    BY <2>4, <2>5, <2>6, <2>7
<1>. QED
  BY <1>7, <1>8, <1>10, <1>11 DEF IInv

(* What cleanupLoop takes a client out for is long past. *)
LEMMA GoneIsPast ==
  ASSUME IInv, NEW now \in Readings, NEW c \in Clients, Gone(c, now)
  PROVE  /\ \A k \in Keys : clock - windows[c][k].start >= Window
         /\ \A p \in Posts : unique[c][p] # None => clock - unique[c][p] > UniqueWindow
         /\ admitted[c] = {}
<1>. USE ProtectorAssumption
<1>1. TypeOK /\ Recorded /\ clock \in Nat /\ now \in Nat /\ now <= clock
  BY DEF IInv, TypeOK, Readings
<1>2. lastSeen[c] \in Nat /\ lastSeen[c] + IdleLimit < now
  BY <1>1 DEF Gone, TypeOK
<1>3. lastSeen[c] + Lag + UniqueWindow < clock /\ lastSeen[c] + Lag + Window < clock
  BY <1>1, <1>2
<1>4. ASSUME NEW k \in Keys PROVE clock - windows[c][k].start >= Window
  <2>1. windows[c][k].start \in Int
    BY <1>1 DEF TypeOK, Holders
  <2>2. windows[c][k].start <= lastSeen[c] + Lag
    BY <1>1, <1>2 DEF Recorded
  <2>. QED
    BY <1>1, <1>2, <1>3, <2>1, <2>2
<1>5. ASSUME NEW p \in Posts, unique[c][p] # None
      PROVE  clock - unique[c][p] > UniqueWindow
  <2>1. unique[c][p] \in Nat
    BY <1>1, <1>5 DEF TypeOK
  <2>2. unique[c][p] <= lastSeen[c] + Lag
    BY <1>1, <1>2, <1>5 DEF Recorded
  <2>. QED
    BY <1>1, <1>2, <1>3, <2>1, <2>2
<1>6. admitted[c] = {}
  <2>. SUFFICES ASSUME NEW a \in admitted[c] PROVE FALSE
    OBVIOUS
  <2>1. a.at \in Nat /\ a.at <= lastSeen[c] + Lag /\ clock - Window < a.at
    BY <1>1 DEF TypeOK, Recorded, Admission
  <2>. QED
    BY <1>1, <1>2, <1>3, <2>1
<1>. QED
  BY <1>4, <1>5, <1>6

(* So cleanupLoop preserves the invariant: it forgets nothing of a client  *)
(* with an admitted request, and only posts of the others.                 *)
LEMMA CleanupPreserves ==
  ASSUME IInv, NEW now \in Readings, Cleanup(now)
  PROVE  IInv'
<1>. USE ProtectorAssumption
<1>1. /\ TypeOK /\ Recorded /\ Counted /\ Spaced /\ clock \in Nat
      /\ now \in Nat /\ clock' = clock /\ admitted' = admitted
  BY DEF IInv, TypeOK, Readings, Cleanup
<1>2. Clients \subseteq Holders /\ IPs \subseteq Clients
  BY DEF Clients, Holders
<1>3. ASSUME NEW c \in Clients, Gone(c, now)
      PROVE  /\ windows'[c] = NoWindows /\ unique'[c] = NoPosts /\ lastSeen'[c] = None
             /\ admitted[c] = {}
  BY <1>2, <1>3, GoneIsPast DEF Cleanup
<1>4. ASSUME NEW c \in Clients, ~Gone(c, now)
      PROVE  /\ windows'[c] = windows[c] /\ unique'[c] = Recent(unique[c], now)
             /\ lastSeen'[c] = lastSeen[c]
  BY <1>2, <1>4 DEF Cleanup
<1>5. NoWindow \in [start : Int, count : Nat] /\ NoWindow.count = 0
      /\ NoWindow.start = -Window /\ NoWindows = [k \in Keys |-> NoWindow]
  BY DEF NoWindow, NoWindows
<1>6. TypeOK'
  <2>1. lastSeen' \in [Clients -> Nat \cup {None}]
    BY <1>1 DEF Cleanup, TypeOK
  <2>2. windows' \in [Holders -> [Keys -> [start : Int, count : Nat]]]
    BY <1>1, <1>5 DEF Cleanup, TypeOK
  <2>3. \A h \in Holders, k \in Keys : windows'[h][k].count <= Limit(h, k)
    <3>. TAKE h \in Holders, k \in Keys
    <3>1. windows[h][k].count <= Limit(h, k) /\ Limit(h, k) \in Nat
      BY <1>1 DEF TypeOK, Limit
    <3>2. windows'[h][k] = windows[h][k] \/ windows'[h][k] = NoWindow
      BY <1>5 DEF Cleanup
    <3>. QED
      BY <1>5, <3>1, <3>2
  <2>4. unique' \in [Clients -> [Posts -> Nat \cup {None}]]
    <3>1. NoPosts \in [Posts -> Nat \cup {None}]
          /\ \A c \in Clients : Recent(unique[c], now) \in [Posts -> Nat \cup {None}]
      BY <1>1 DEF NoPosts, Recent, TypeOK
    <3>. QED
      BY <3>1 DEF Cleanup
  <2>. QED
    BY <1>1, <2>1, <2>2, <2>3, <2>4 DEF TypeOK, Limit
<1>7. Recorded'
  <2>. SUFFICES ASSUME NEW c \in Clients
                PROVE  /\ \A k \in Keys :
                            /\ windows'[c][k].start <= clock'
                            /\ lastSeen'[c] # None => windows'[c][k].start <= lastSeen'[c] + Lag
                            /\ windows'[c][k].count = 0 => windows'[c][k].start = -Window
                       /\ \A p \in Posts : unique'[c][p] # None =>
                            /\ unique'[c][p] <= clock'
                            /\ lastSeen'[c] # None => unique'[c][p] <= lastSeen'[c] + Lag
                       /\ \A a \in admitted'[c] :
                            /\ lastSeen'[c] # None /\ a.at <= lastSeen'[c] + Lag
                            /\ clock' - Window < a.at /\ a.at <= clock'
    BY DEF Recorded
  <2>1. CASE Gone(c, now)
    BY <1>1, <1>3, <1>5, <2>1 DEF NoPosts
  <2>2. CASE ~Gone(c, now)
    <3>1. \A p \in Posts : unique'[c][p] # None => unique'[c][p] = unique[c][p]
      BY <1>4, <2>2 DEF Recent
    <3>2. /\ \A k \in Keys :
               /\ windows[c][k].start <= clock
               /\ lastSeen[c] # None => windows[c][k].start <= lastSeen[c] + Lag
               /\ windows[c][k].count = 0 => windows[c][k].start = -Window
          /\ \A p \in Posts : unique[c][p] # None =>
               /\ unique[c][p] <= clock
               /\ lastSeen[c] # None => unique[c][p] <= lastSeen[c] + Lag
          /\ \A a \in admitted[c] :
               /\ lastSeen[c] # None /\ a.at <= lastSeen[c] + Lag
               /\ clock - Window < a.at /\ a.at <= clock
      BY <1>1 DEF Recorded
    <3>. QED
      BY <1>1, <1>4, <2>2, <3>1, <3>2
  <2>. QED
    BY <2>1, <2>2
<1>8. Counted'
  <2>1. \A c \in IPs : admitted'[c] # {} => windows'[c] = windows[c]
    BY <1>1, <1>2, <1>3, <1>4
  <2>. QED
    BY <1>1, <2>1 DEF Counted
<1>9. Spaced'
  BY <1>1 DEF Spaced
<1>. QED
  BY <1>6, <1>7, <1>8, <1>9 DEF IInv

(* And so does the passing of time, which only shortens the history.       *)
LEMMA ElapsePreserves == IInv /\ Elapse => IInv'
<1>. SUFFICES ASSUME IInv, Elapse PROVE IInv'
  OBVIOUS
<1>. USE ProtectorAssumption
<1>1. /\ TypeOK /\ Recorded /\ Counted /\ Spaced
      /\ clock \in Nat /\ clock' = clock + 1
      /\ lastSeen' = lastSeen /\ windows' = windows /\ unique' = unique
  BY DEF IInv, TypeOK, Elapse
<1>2. \A c \in Clients : admitted'[c] \subseteq admitted[c]
        /\ \A a \in admitted'[c] : clock' - Window < a.at
  <2>1. \A c \in Clients : \A a \in admitted[c] : a.at \in Nat
    BY <1>1 DEF TypeOK, Admission
  <2>. QED
    BY <1>1, <2>1 DEF Elapse
<1>3. TypeOK'
  BY <1>1, <1>2 DEF TypeOK, Elapse, Limit
<1>4. Recorded'
  <2>. SUFFICES ASSUME NEW c \in Clients
                PROVE  /\ \A k \in Keys :
                            /\ windows[c][k].start <= clock + 1
                            /\ lastSeen[c] # None => windows[c][k].start <= lastSeen[c] + Lag
                            /\ windows[c][k].count = 0 => windows[c][k].start = -Window
                       /\ \A p \in Posts : unique[c][p] # None =>
                            /\ unique[c][p] <= clock + 1
                            /\ lastSeen[c] # None => unique[c][p] <= lastSeen[c] + Lag
                       /\ \A a \in admitted'[c] :
                            /\ lastSeen[c] # None /\ a.at <= lastSeen[c] + Lag
                            /\ clock' - Window < a.at /\ a.at <= clock + 1
    BY <1>1 DEF Recorded
  <2>1. \A k \in Keys : windows[c][k].start \in Int
    BY <1>1 DEF TypeOK, Holders
  <2>2. \A p \in Posts : unique[c][p] \in Nat \cup {None}
    BY <1>1 DEF TypeOK
  <2>3. \A a \in admitted[c] : a.at \in Nat
    BY <1>1 DEF TypeOK, Admission
  <2>4. \A k \in Keys :
          /\ windows[c][k].start <= clock
          /\ lastSeen[c] # None => windows[c][k].start <= lastSeen[c] + Lag
          /\ windows[c][k].count = 0 => windows[c][k].start = -Window
    BY <1>1 DEF Recorded
  <2>5. \A p \in Posts : unique[c][p] # None =>
          /\ unique[c][p] <= clock
          /\ lastSeen[c] # None => unique[c][p] <= lastSeen[c] + Lag
    BY <1>1 DEF Recorded
  <2>6. \A a \in admitted[c] :
          lastSeen[c] # None /\ a.at <= lastSeen[c] + Lag /\ a.at <= clock
    BY <1>1 DEF Recorded
  <2>7. \A k \in Keys : windows[c][k].start <= clock + 1
    BY <1>1, <2>1, <2>4
  <2>8. \A p \in Posts : unique[c][p] # None => unique[c][p] <= clock + 1
    BY <1>1, <2>2, <2>5
  <2>9. \A a \in admitted[c] : a.at <= clock + 1
    BY <1>1, <2>3, <2>6
  <2>. QED
    BY <1>2, <2>4, <2>5, <2>6, <2>7, <2>8, <2>9
<1>5. Counted'
  BY <1>1, <1>2 DEF Counted, Clients
<1>6. Spaced'
  BY <1>1, <1>2 DEF Spaced, Clients
<1>. QED
  BY <1>3, <1>4, <1>5, <1>6 DEF IInv

LEMMA NextPreservesInv == IInv /\ [Next]_vars => IInv'
<1>. SUFFICES ASSUME IInv, [Next]_vars PROVE IInv'
  OBVIOUS
<1>1. CASE UNCHANGED vars
  BY <1>1 DEF vars, IInv, TypeOK, Limit, Recorded, Counted, Spaced
<1>2. ASSUME NEW now \in Readings, Cleanup(now) PROVE IInv'
  BY <1>2, CleanupPreserves
<1>3. ASSUME NEW now \in Readings, NEW c \in Clients, NEW cost \in Costs,
             Allow(c, cost, now)
      PROVE  IInv'
  BY <1>3, AllowPreserves
<1>4. CASE Elapse
  BY <1>4, ElapsePreserves
<1>. QED
  BY <1>1, <1>2, <1>3, <1>4 DEF Next

THEOREM Invariance == Spec => []IInv
BY InitInv, NextPreservesInv, PTL DEF Spec

---------------------------------------------------------------------------
(* TypeOK is an invariant: in particular no window is ever charged above   *)
(* its limit, whatever the limits and the clients are.                     *)
THEOREM TypeCorrect == Spec => []TypeOK
BY Invariance, PTL DEF IInv

(* CleanupForgetsNothing: only Cleanup takes a client out, and GoneIsPast  *)
(* says that nothing of it counted any more.                               *)
THEOREM CleanupSafe == Spec => CleanupForgetsNothing
<1> DEFINE P == \A c \in Clients :
                  lastSeen[c] # None /\ lastSeen'[c] = None =>
                    /\ \A k \in Keys : clock - windows[c][k].start >= Window
                    /\ \A p \in Posts :
                         unique[c][p] # None => clock - unique[c][p] > UniqueWindow
<1>1. IInv /\ [Next]_vars => [P]_vars
  <2>. SUFFICES ASSUME IInv, [Next]_vars, NEW c \in Clients,
                       lastSeen[c] # None, lastSeen'[c] = None
                PROVE  /\ \A k \in Keys : clock - windows[c][k].start >= Window
                       /\ \A p \in Posts :
                            unique[c][p] # None => clock - unique[c][p] > UniqueWindow
    OBVIOUS
  <2>1. CASE UNCHANGED vars \/ Elapse
    BY <2>1 DEF vars, Elapse
  <2>2. ASSUME NEW now \in Readings, Cleanup(now)
        PROVE  Gone(c, now)
    BY <2>2 DEF Cleanup
  <2>3. ASSUME NEW now \in Readings, NEW d \in Clients, NEW cost \in Costs,
               Allow(d, cost, now)
        PROVE  FALSE
    <3>1. TypeOK /\ now \in Nat
      BY DEF IInv, Readings
    <3>2. lastSeen' = [lastSeen EXCEPT ![d] = now]
      BY <2>3, <3>1, AllowDoes DEF Seen
    <3>. QED
      BY <3>1, <3>2, ProtectorAssumption DEF TypeOK
  <2>. QED
    BY <2>1, <2>2, <2>3, GoneIsPast DEF Next
<1>2. IInv /\ [Next]_vars => [P]_vars
  BY <1>1
<1>. QED
  BY <1>2, Invariance, PTL DEF Spec, CleanupForgetsNothing

(* The requests admitted during the last Window - Lag were counted in at   *)
(* most two windows, and the one that opened the first of them is older:   *)
(* number them, those of the later window first.                           *)
LEMMA BudgetLemma == IInv => SlidingBudget
<1> SUFFICES ASSUME IInv, NEW c \in IPs, NEW k \in Costs, PerIP[k] > 0
             PROVE  Cardinality({a \in admitted[c] :
                                   a.cost = k /\ a.at > clock - (Window - Lag)})
                      < 2 * PerIP[k]
  BY DEF SlidingBudget
<1>. USE ProtectorAssumption
<1> DEFINE L == PerIP[k]
           S == {a \in admitted[c] : a.cost = k /\ a.at > clock - (Window - Lag)}
<1>1. /\ TypeOK /\ Recorded /\ Counted /\ Spaced
      /\ clock \in Nat /\ L \in Nat /\ L > 0 /\ c \in Clients
  BY DEF IInv, TypeOK, Keys, Clients
<1>2. \A a \in S : /\ a.start \in Int /\ a.at \in Nat /\ a.no \in 1..L
                   /\ a.start <= clock /\ a.at > clock - Window + Lag
                   /\ a.no = 1 => a.at <= a.start + Lag
  BY <1>1 DEF TypeOK, Admission, Recorded, Counted
<1>3. \A a, b \in S : /\ a.start = b.start /\ a.no = b.no => a = b
                      /\ a.start < b.start =>
                           a.start + Window <= b.start /\ a.at <= b.start + Lag
  BY <1>1 DEF Spaced
<1>4. \A a, b \in S : a.start < b.start => a.no >= 2
  BY <1>1, <1>2, <1>3
<1>5. \A a, b, d \in S : ~ (a.start < b.start /\ b.start < d.start)
  BY <1>1, <1>2, <1>3
<1>6. CASE S = {}
  <2>1. Cardinality(S) = 0
    <3>. HIDE DEF S
    <3>. QED
      BY <1>6, FS_EmptySet
  <2>. QED
    BY <1>1, <2>1
<1>7. CASE S # {}
  <2>1. PICK z \in S : \A a \in S : a.start <= z.start
    <3>1. PICK y \in S : TRUE
      BY <1>7
    <3>2. CASE \A a \in S : a.start <= y.start
      BY <3>2
    <3>3. CASE \E b \in S : ~ (b.start <= y.start)
      <4>1. PICK b \in S : y.start < b.start
        BY <1>2, <3>1, <3>3
      <4>. QED
        BY <1>2, <1>5, <4>1
    <3>. QED
      BY <3>2, <3>3
  <2> DEFINE f == [a \in S |-> IF a.start = z.start THEN a.no ELSE L + a.no - 1]
             T == 1..(2 * L - 1)
  <2>2. \A a \in S : f[a] \in T
    BY <1>1, <1>2, <1>4, <2>1
  <2>3. \A a, b \in S : f[a] = f[b] => a = b
    <3>. SUFFICES ASSUME NEW a \in S, NEW b \in S, f[a] = f[b] PROVE a = b
      OBVIOUS
    <3>1. CASE a.start = z.start /\ b.start = z.start
      BY <1>3, <3>1
    <3>2. CASE a.start # z.start /\ b.start # z.start
      <4>1. a.start = b.start
        BY <1>2, <1>5, <2>1, <3>2
      <4>2. a.no = b.no
        BY <1>1, <1>2, <3>2
      <4>. QED
        BY <1>3, <4>1, <4>2
    <3>3. CASE a.start = z.start /\ b.start # z.start
      BY <1>1, <1>2, <1>4, <2>1, <3>3
    <3>4. CASE a.start # z.start /\ b.start = z.start
      BY <1>1, <1>2, <1>4, <2>1, <3>4
    <3>. QED
      BY <3>1, <3>2, <3>3, <3>4
  <2>4. f \in Injection(S, T)
    <3>1. f \in [S -> T]
      BY <2>2
    <3>. HIDE DEF f, S, T
    <3>. QED
      BY <2>3, <3>1 DEF Injection, IsInjective
  <2>5. IsFiniteSet(T) /\ Cardinality(T) = 2 * L - 1
    <3>1. 1 \in Int /\ 2 * L - 1 \in Int /\ ~ (1 > 2 * L - 1)
      BY <1>1
    <3>2. \A a \in Int, b \in Int : /\ IsFiniteSet(a..b)
                                   /\ Cardinality(a..b) = IF a > b THEN 0 ELSE b - a + 1
      BY FS_Interval
    <3>3. IsFiniteSet(T) /\ Cardinality(T) = (2 * L - 1) - 1 + 1
      BY <3>1, <3>2
    <3>. QED
      BY <1>1, <3>3
  <2>6. Cardinality(S) <= 2 * L - 1 /\ IsFiniteSet(S)
    <3>. HIDE DEF f, S, T
    <3>. QED
      BY <2>4, <2>5, FS_Injection
  <2>7. Cardinality(S) \in Nat
    <3>. HIDE DEF S
    <3>. QED
      BY <2>6, FS_CardinalityType
  <2>. QED
    <3>. HIDE DEF S
    <3>1. Cardinality(S) < 2 * PerIP[k]
      BY <1>1, <2>6, <2>7
    <3>. QED
      BY <3>1 DEF S
<1>. QED
  BY <1>6, <1>7

(* SlidingBudget holds for every limit, window and delay at the lock.      *)
THEOREM BudgetKept == Spec => []SlidingBudget
BY Invariance, BudgetLemma, PTL

---------------------------------------------------------------------------
(* The limits per minute. *)

Late(n) == PerMinute * n

RateTyped ==
  /\ minute \in 0..MaxMinute /\ window \in 0..MaxMinute
  /\ count \in 0..PerMinute /\ late \in Nat
  /\ reading \in [Askers -> (0..MaxMinute) \cup {None}]
  /\ granted \in [0..MaxMinute -> Nat]

(* A minute ahead of the window owes what it let through to requests that  *)
(* set the window back; the window's own minute has count more, and one    *)
(* behind it at most a full limit more.                                    *)
RateInv ==
  /\ RateTyped
  /\ \A m \in 0..MaxMinute :
       granted[m] <= Late(late) + (IF m < window THEN PerMinute
                                   ELSE IF m = window THEN count ELSE 0)

(* One more late request is worth one more limit.                          *)
LEMMA LateSteps == ASSUME NEW n \in Nat
  PROVE Late(n) \in Nat /\ Late(n + 1) = Late(n) + PerMinute /\ Late(1 + n) = Late(n) + PerMinute
  BY RateAssumption DEF Late

(* A request at the lock moves or keeps the window.                        *)
LEMMA TakeLockStep == ASSUME RateInv, NEW a \in Askers, TakeLock(a) PROVE RateInv'
<1> DEFINE m == reading[a]
           n == IF m # window THEN 0 ELSE count
<1>1. /\ m \in 0..MaxMinute /\ n \in 0..PerMinute /\ PerMinute \in Nat /\ MaxMinute \in Nat
      /\ window \in 0..MaxMinute /\ count \in 0..PerMinute /\ late \in Nat
  BY RateAssumption DEF TakeLock, RateInv, RateTyped
<1>2. /\ window' = m /\ late' = IF m < window THEN late + 1 ELSE late
      /\ count' = IF Full(n) THEN n ELSE n + 1
      /\ granted' = IF Full(n) THEN granted ELSE [granted EXCEPT ![m] = @ + 1]
      /\ UNCHANGED minute /\ reading' = [reading EXCEPT ![a] = None]
  BY DEF TakeLock
<1>3. count' \in 0..PerMinute /\ late' \in Nat
  BY <1>1, <1>2 DEF Full
<1>4. granted' \in [0..MaxMinute -> Nat]
  BY <1>1, <1>2 DEF RateInv, RateTyped
<1>5. RateTyped'
  BY <1>1, <1>2, <1>3, <1>4 DEF RateInv, RateTyped
<1>6. ASSUME NEW k \in 0..MaxMinute
      PROVE  granted'[k] <= Late(late') + (IF k < window' THEN PerMinute
                                           ELSE IF k = window' THEN count' ELSE 0)
  <2>1. /\ granted[k] \in Nat /\ Late(late) \in Nat /\ Late(late + 1) = Late(late) + PerMinute
        /\ granted[k] <= Late(late) + (IF k < window THEN PerMinute
                                       ELSE IF k = window THEN count ELSE 0)
    BY <1>1, LateSteps DEF RateInv, RateTyped
  <2>2. granted'[k] = IF k = m THEN granted[k] + count' - n ELSE granted[k]
    <3>1. granted \in [0..MaxMinute -> Nat]
      BY DEF RateInv, RateTyped
    <3>2. CASE Full(n)
      <4>1. count' = n /\ granted' = granted
        BY <1>2, <3>2
      <4> HIDE DEF m, n
      <4> QED BY <1>1, <2>1, <4>1
    <3>3. CASE ~Full(n)
      <4>1. count' = n + 1 /\ granted' = [granted EXCEPT ![m] = @ + 1]
        BY <1>2, <3>3
      <4> HIDE DEF m, n
      <4>2. granted'[k] = IF k = m THEN granted[k] + 1 ELSE granted[k]
        BY <3>1, <4>1
      <4> QED BY <1>1, <2>1, <4>1, <4>2
    <3> QED BY <3>2, <3>3
  <2>3. CASE m < window
    <3>1. Late(late') = Late(late) + PerMinute /\ n = 0
      BY <1>1, <1>2, <2>1, <2>3
    <3> HIDE DEF m, n
    <3> QED BY <1>1, <1>2, <1>3, <2>1, <2>2, <2>3, <3>1
  <2>4. CASE ~(m < window)
    <3>1. late' = late /\ (m # window => n = 0) /\ (m = window => n = count)
      BY <1>2, <2>4
    <3> HIDE DEF m, n
    <3> QED BY <1>1, <1>2, <1>3, <2>1, <2>2, <2>4, <3>1
  <2> QED BY <2>3, <2>4
<1> QED BY <1>5, <1>6 DEF RateInv

(* The rate limits of the helper let through no more per minute than the   *)
(* limit, once more for every request that brought an old minute.          *)
THEOREM MinuteKept == RateSpec => []MinuteBudget
<1>1. RateInit => RateInv
  <2> SUFFICES ASSUME RateInit PROVE RateInv
    OBVIOUS
  <2>1. RateTyped
    BY RateAssumption DEF RateInit, RateTyped
  <2>2. Late(0) \in Nat
    BY LateSteps
  <2> QED BY <2>1, <2>2, RateAssumption DEF RateInit, RateInv
<1>2. RateInv /\ [RateNext]_rateVars => RateInv'
  <2> SUFFICES ASSUME RateInv, [RateNext]_rateVars PROVE RateInv'
    OBVIOUS
  <2>1. CASE NextMinute
    BY <2>1, RateAssumption DEF NextMinute, RateInv, RateTyped
  <2>2. ASSUME NEW a \in Askers, ReadMinute(a) PROVE RateInv'
    BY <2>2, RateAssumption DEF ReadMinute, RateInv, RateTyped
  <2>3. CASE UNCHANGED rateVars
    BY <2>3 DEF rateVars, RateInv, RateTyped
  <2> QED BY <2>1, <2>2, <2>3, TakeLockStep DEF RateNext
<1>3. RateInv => MinuteBudget
  <2> SUFFICES ASSUME RateInv, NEW m \in 0..MaxMinute PROVE granted[m] <= PerMinute * (1 + late)
    BY DEF MinuteBudget
  <2>1. Late(late) \in Nat /\ Late(1 + late) = Late(late) + PerMinute
    BY LateSteps DEF RateInv, RateTyped
  <2>2. granted[m] <= Late(late) + PerMinute
    BY <2>1, RateAssumption DEF RateInv, RateTyped
  <2> QED BY <2>1, <2>2 DEF Late
<1> QED BY <1>1, <1>2, <1>3, PTL DEF RateSpec

---------------------------------------------------------------------------
(* The pool of cookies. *)

CallerPhases ==
  {"idle", "reading", "discovered", "choosing", "using", "failing", "freeing", "clearing"}

CallerRecords ==
  [phase : CallerPhases, want : {"none", "choose", "test", "update", "updated"},
   at : Nat, seen : [Slots -> Versions \cup {None}], eligible : SUBSET Slots,
   slot : Slots \cup {None}, cookie : Versions \cup {None}, barredAll : SUBSET Slots]

(* Version v of slot s was in its file at time t or later.                 *)
InFileAt(s, v, t) == replaced[s][v] = None \/ replaced[s][v] >= t

(* Version v of slot s may be used by a request that began at time t.      *)
StillUsable(s, v, t) == replaced[s][v] = None \/ replaced[s][v] + Reload > t

PoolTyped ==
  /\ time \in 0..MaxPoolTime /\ loadedAt \in 0..time
  /\ disk \in [Slots -> Versions] /\ pool \in [Slots -> Versions]
  /\ replaced \in [Slots -> [Versions -> 0..time \cup {None}]]
  /\ cooling \in [Slots -> Nat] /\ login \subseteq Slots
  /\ caller \in [Callers -> CallerRecords]

(* Versions are replaced one after the other, the newest is in its file.   *)
NewestInFile == \A s \in Slots : \A v \in Versions : v >= disk[s] => replaced[s][v] = None

(* What a thread has seen of the files was there when it began; what it    *)
(* chooses from was there so recently that it may be used.                 *)
CallerKnows(q) ==
  /\ q.at <= time /\ q.barredAll \subseteq login
  /\ q.phase \in {"failing", "freeing", "clearing"} => q.slot # None
  /\ q.want \in {"test", "update", "updated"} => q.slot # None
  /\ q.phase = "reading" =>
       \A s \in Slots : q.seen[s] # None => InFileAt(s, q.seen[s], q.at)
  /\ (q.phase = "discovered" /\ q.want = "choose") \/ q.phase = "choosing" =>
       \A s \in Slots : q.seen[s] # None /\ StillUsable(s, q.seen[s], q.at)
  /\ q.phase = "choosing" => q.eligible \cap q.barredAll = {}
  /\ q.phase = "using" =>
       /\ q.slot # None /\ q.cookie # None
       /\ StillUsable(q.slot, q.cookie, q.at) /\ q.slot \notin q.barredAll

PoolInv ==
  /\ PoolTyped /\ NewestInFile
  /\ \A s \in Slots : InFileAt(s, pool[s], loadedAt)
  /\ \A c \in Callers : CallerKnows(caller[c])

LEMMA IdleKnows ==
  /\ Idle \in CallerRecords /\ Idle.phase = "idle" /\ Idle.want = "none" /\ Idle.at = 0
  /\ Idle.barredAll = {} /\ Idle.slot = None /\ Idle.cookie = None /\ Idle.eligible = {}
  /\ Idle.seen = [s \in Slots |-> None]
BY DEF Idle, CallerRecords, CallerPhases

Begun(phase, want, slot, at) ==
  [Idle EXCEPT !.phase = phase, !.want = want, !.slot = slot, !.at = at]

LEMMA BegunRecord ==
  ASSUME NEW phase \in CallerPhases, NEW want \in {"none", "choose", "test", "update", "updated"},
         NEW slot \in Slots \cup {None}, NEW at \in Nat, NEW q,
         q = Begun(phase, want, slot, at)
  PROVE  /\ q \in CallerRecords /\ q.phase = phase /\ q.want = want /\ q.slot = slot
         /\ q.at = at /\ q.barredAll = {} /\ q.seen = [s \in Slots |-> None]
<1>1. q \in CallerRecords
  BY IdleKnows DEF CallerRecords, Begun
<1>2. /\ q.phase = phase /\ q.want = want /\ q.slot = slot
      /\ q.at = at /\ q.barredAll = {} /\ q.seen = [s \in Slots |-> None]
  BY IdleKnows DEF CallerRecords, Begun
<1> QED
  BY <1>1, <1>2

LEMMA PoolTypes ==
  ASSUME PoolInv
  PROVE  /\ time \in Nat /\ loadedAt \in Nat /\ Reload \in Nat /\ Reload > 0
         /\ \A s \in Slots, v \in Versions : replaced[s][v] \in Nat \cup {None}
         /\ \A s \in Slots, v \in Versions : replaced[s][v] # None => replaced[s][v] <= time
         /\ disk \in [Slots -> Versions] /\ pool \in [Slots -> Versions]
         /\ cooling \in [Slots -> Nat] /\ login \subseteq Slots
         /\ None \notin Nat /\ None \notin Slots /\ None \notin Versions
<1>1. Reload \in Nat /\ Reload > 0 /\ None \notin Nat /\ None \notin Slots /\ Versions \subseteq Nat
      /\ MaxPoolTime \in Nat
  BY PoolAssumption DEF Versions
<1>2. ASSUME NEW s \in Slots, NEW v \in Versions
      PROVE  replaced[s][v] \in 0..time \cup {None}
  BY DEF PoolInv, PoolTyped
<1>3. /\ time \in 0..MaxPoolTime /\ loadedAt \in 0..time
      /\ disk \in [Slots -> Versions] /\ pool \in [Slots -> Versions]
      /\ cooling \in [Slots -> Nat] /\ login \subseteq Slots
  BY DEF PoolInv, PoolTyped
<1>4. time \in Nat /\ loadedAt \in Nat
  BY <1>1, <1>3
<1>5. ASSUME NEW s \in Slots, NEW v \in Versions
      PROVE  /\ replaced[s][v] \in Nat \cup {None}
             /\ replaced[s][v] # None => replaced[s][v] <= time
  BY <1>2, <1>4
<1> QED
  BY <1>1, <1>3, <1>4, <1>5

(* A thread goes on to state q, and nothing else changes but what cools.   *)
LEMMA BecomeStep ==
  ASSUME PoolInv, NEW c \in Callers, NEW q \in CallerRecords, CallerKnows(q),
         Become(c, q), UNCHANGED <<time, disk, replaced, pool, loadedAt, login>>,
         cooling' \in [Slots -> Nat]
  PROVE  PoolInv'
<1>1. ASSUME NEW d \in Callers PROVE CallerKnows(caller[d])'
  <2>1. CASE d = c
    <3>1. caller'[d] = q
      BY <2>1 DEF Become, PoolInv, PoolTyped
    <3> QED
      BY <3>1 DEF CallerKnows, InFileAt, StillUsable
  <2>2. CASE d # c
    <3>1. caller'[d] = caller[d] /\ CallerKnows(caller[d])
      BY <2>2 DEF Become, PoolInv, PoolTyped
    <3> QED
      BY <3>1 DEF CallerKnows, InFileAt, StillUsable
  <2> QED
    BY <2>1, <2>2
<1>2. PoolTyped' /\ NewestInFile'
  BY DEF PoolInv, PoolTyped, NewestInFile, Become
<1>3. \A s \in Slots : InFileAt(s, pool[s], loadedAt)'
  BY DEF PoolInv, InFileAt
<1> QED
  BY <1>1, <1>2, <1>3 DEF PoolInv

(* One that changes the quarantines too, and itself bars nothing.          *)
LEMMA LoginStep ==
  ASSUME PoolInv, NEW c \in Callers, NEW q \in CallerRecords,
         q.phase \in {"idle", "reading"}, q.barredAll = {}, q.at <= time,
         q.phase = "reading" => q.seen = [s \in Slots |-> None],
         q.want \in {"test", "update", "updated"} => q.slot # None,
         NEW slots \in SUBSET Slots, Login(slots, c, q),
         UNCHANGED <<time, disk, replaced, pool, loadedAt>>,
         cooling' \in [Slots -> Nat]
  PROVE  PoolInv'
<1>1. ASSUME NEW d \in Callers PROVE caller'[d] \in CallerRecords /\ CallerKnows(caller[d])'
  <2> DEFINE old == IF d = c THEN q ELSE caller[d]
             new == [old EXCEPT !.barredAll = @ \cap slots]
  <2>1. old \in CallerRecords /\ CallerKnows(old)
    BY DEF PoolInv, PoolTyped, CallerKnows
  <2>2. caller'[d] = new
    BY DEF Login
  <2> HIDE DEF old
  <2>3. /\ new \in CallerRecords /\ new.barredAll = old.barredAll \cap slots
        /\ new.phase = old.phase /\ new.want = old.want /\ new.at = old.at
        /\ new.seen = old.seen /\ new.eligible = old.eligible /\ new.slot = old.slot
        /\ new.cookie = old.cookie
    BY <2>1 DEF CallerRecords
  <2> HIDE DEF new
  <2>4. login' = slots
    BY DEF Login
  <2> QED
    BY <2>1, <2>2, <2>3, <2>4 DEF CallerKnows, InFileAt, StillUsable
<1>2. caller' \in [Callers -> CallerRecords]
  BY <1>1 DEF Login
<1>3. PoolTyped' /\ NewestInFile'
  BY <1>2 DEF PoolInv, PoolTyped, NewestInFile, Login
<1>4. \A s \in Slots : InFileAt(s, pool[s], loadedAt)'
  BY DEF PoolInv, InFileAt
<1> QED
  BY <1>1, <1>3, <1>4 DEF PoolInv

LEMMA CallerTypes ==
  ASSUME PoolInv, NEW c \in Callers
  PROVE  caller[c] \in CallerRecords /\ CallerKnows(caller[c])
BY DEF PoolInv, PoolTyped

LEMMA TickStep == ASSUME PoolInv, Tick PROVE PoolInv'
<1>1. /\ time' = time + 1 /\ time \in Nat /\ time' \in 0..MaxPoolTime
      /\ UNCHANGED <<disk, replaced, pool, loadedAt, cooling, login, caller>>
  BY PoolTypes, PoolAssumption DEF Tick, PoolInv, PoolTyped
<1>2. ASSUME NEW d \in Callers PROVE CallerKnows(caller[d])'
  <2>1. CallerKnows(caller[d]) /\ caller[d].at \in Nat
    BY CallerTypes DEF CallerRecords
  <2>2. caller[d].at <= time'
    BY <1>1, <2>1 DEF CallerKnows
  <2> QED
    BY <1>1, <2>1, <2>2 DEF CallerKnows, InFileAt, StillUsable
<1>3. PoolTyped'
  <2>1. 0..time \subseteq 0..time'
    BY <1>1
  <2>2. replaced' \in [Slots -> [Versions -> 0..time' \cup {None}]]
    BY <1>1, <2>1 DEF PoolInv, PoolTyped
  <2> QED
    BY <1>1, <2>1, <2>2 DEF PoolInv, PoolTyped
<1>4. NewestInFile' /\ \A s \in Slots : InFileAt(s, pool[s], loadedAt)'
  BY <1>1 DEF PoolInv, NewestInFile, InFileAt
<1> QED
  BY <1>2, <1>3, <1>4 DEF PoolInv

LEMMA DiscoverStep ==
  ASSUME PoolInv, NEW c \in Callers, NEW want \in {"choose", "test", "update"},
         NEW slot \in Slots \cup {None}, want # "choose" => slot # None,
         Discover(c, want, slot)
  PROVE  PoolInv'
<1> DEFINE cached == want = "choose" /\ time - loadedAt < Reload
           q == [Idle EXCEPT !.phase = IF cached THEN "discovered" ELSE "reading",
                             !.want = want, !.slot = slot, !.at = time,
                             !.seen = IF cached THEN pool ELSE @,
                             !.barredAll = IF want = "choose" THEN login ELSE {}]
<1>1. Become(c, q) /\ UNCHANGED <<time, disk, replaced, pool, loadedAt, cooling, login>>
  BY DEF Discover
<1>2. /\ q \in CallerRecords /\ q.phase = IF cached THEN "discovered" ELSE "reading"
      /\ q.want = want /\ q.slot = slot /\ q.at = time
      /\ q.seen = IF cached THEN pool ELSE [s \in Slots |-> None]
      /\ q.barredAll = IF want = "choose" THEN login ELSE {}
  <2>1. pool \in [Slots -> Versions \cup {None}]
    BY PoolTypes
  <2> QED
    BY <2>1, IdleKnows, PoolTypes DEF CallerRecords, CallerPhases
<1>3. cached => \A s \in Slots : pool[s] # None /\ StillUsable(s, pool[s], time)
  <2> SUFFICES ASSUME cached, NEW s \in Slots PROVE pool[s] # None /\ StillUsable(s, pool[s], time)
    OBVIOUS
  <2>1. pool[s] \in Versions /\ replaced[s][pool[s]] \in Nat \cup {None}
        /\ time \in Nat /\ loadedAt \in Nat /\ Reload \in Nat /\ None \notin Versions
    BY PoolTypes
  <2>2. replaced[s][pool[s]] = None \/ replaced[s][pool[s]] >= loadedAt
    BY DEF PoolInv, InFileAt
  <2>3. time < loadedAt + Reload
    BY <2>1
  <2> QED
    BY <2>1, <2>2, <2>3 DEF StillUsable
<1> HIDE DEF q
<1>4. CallerKnows(q)
  <2>1. q.at <= time /\ q.barredAll \subseteq login
    BY <1>2, PoolTypes
  <2>2. q.phase = "reading" => \A s \in Slots : q.seen[s] = None
    BY <1>2
  <2> HIDE DEF cached
  <2> QED
    BY <1>2, <1>3, <2>1, <2>2 DEF CallerKnows
<1> QED
  BY <1>1, <1>2, <1>4, BecomeStep, PoolTypes

LEMMA ReadFileStep == ASSUME PoolInv, NEW c \in Callers, ReadFile(c) PROVE PoolInv'
<1>1. PICK s \in Slots : Become(c, [caller[c] EXCEPT !.seen[s] = disk[s]])
  BY DEF ReadFile
<1> DEFINE o == caller[c]
           seen == [o.seen EXCEPT ![s] = disk[s]]
           q == [o EXCEPT !.seen = seen]
<1>2. o \in CallerRecords /\ CallerKnows(o) /\ o.phase = "reading"
  BY CallerTypes DEF ReadFile
<1>3. Become(c, q)
  BY <1>1
<1>4. seen \in [Slots -> Versions \cup {None}] /\ seen[s] = disk[s]
      /\ \A u \in Slots : u # s => seen[u] = o.seen[u]
  BY <1>2, PoolTypes DEF CallerRecords
<1> HIDE DEF o, seen
<1>5. /\ q \in CallerRecords /\ q.phase = "reading" /\ q.want = o.want /\ q.at = o.at
      /\ q.seen = seen /\ q.slot = o.slot /\ q.barredAll = o.barredAll
  BY <1>2, <1>4 DEF CallerRecords
<1> HIDE DEF q
<1>6. ASSUME NEW u \in Slots, seen[u] # None PROVE InFileAt(u, seen[u], o.at)
  <2>1. CASE u = s
    <3>1. disk[s] \in Versions /\ disk[s] >= disk[s]
      BY PoolAssumption, PoolTypes DEF Versions
    <3> QED
      BY <1>4, <2>1, <3>1 DEF PoolInv, NewestInFile, InFileAt
  <2>2. CASE u # s
    BY <1>2, <1>4, <1>6, <2>2 DEF CallerKnows
  <2> QED
    BY <2>1, <2>2
<1>7. CallerKnows(q)
  BY <1>2, <1>5, <1>6 DEF CallerKnows
<1>8. UNCHANGED <<time, disk, replaced, pool, loadedAt, cooling, login>>
  BY DEF ReadFile
<1> QED
  BY <1>3, <1>5, <1>7, <1>8, BecomeStep, PoolTypes

LEMMA StorePoolStep == ASSUME PoolInv, NEW c \in Callers, StorePool(c) PROVE PoolInv'
<1> DEFINE o == caller[c]
           q == IF o.want = "choose" THEN [o EXCEPT !.phase = "discovered"]
                ELSE [Idle EXCEPT !.phase = "discovered", !.want = o.want, !.slot = o.slot]
<1>1. /\ o \in CallerRecords /\ CallerKnows(o) /\ o.phase = "reading"
      /\ \A s \in Slots : o.seen[s] # None
  BY CallerTypes DEF StorePool
<1>2. /\ pool' = o.seen /\ loadedAt' = o.at /\ caller' = [caller EXCEPT ![c] = q]
      /\ UNCHANGED <<time, disk, replaced, cooling, login>>
  BY DEF StorePool, LoadedWhen, Become
<1>3. \A s \in Slots : o.seen[s] \in Versions /\ InFileAt(s, o.seen[s], o.at)
  BY <1>1 DEF CallerKnows, CallerRecords
<1>4. o.at \in Nat /\ o.at <= time /\ time \in Nat
  BY <1>1, PoolTypes DEF CallerRecords, CallerKnows
<1>5. /\ q \in CallerRecords /\ q.phase = "discovered" /\ q.want = o.want /\ q.slot = o.slot
      /\ q.at <= time /\ q.barredAll \subseteq login
      /\ o.want = "choose" => q.at = o.at /\ q.seen = o.seen
  <2>1. CASE o.want = "choose"
    BY <1>1, <1>4, <2>1 DEF CallerRecords, CallerPhases, CallerKnows
  <2>2. CASE o.want # "choose"
    <3>1. q = [Idle EXCEPT !.phase = "discovered", !.want = o.want, !.slot = o.slot]
      BY <2>2
    <3>2. o.want \in {"none", "choose", "test", "update", "updated"} /\ o.slot \in Slots \cup {None}
      BY <1>1 DEF CallerRecords
    <3> HIDE DEF o, q
    <3> QED
      <4>1. q \in CallerRecords
        BY <3>1, <3>2, IdleKnows DEF CallerRecords, CallerPhases
      <4>2. q.phase = "discovered" /\ q.want = o.want /\ q.slot = o.slot /\ q.at = 0 /\ q.barredAll = {}
        BY <3>1, <3>2, IdleKnows DEF CallerRecords
      <4> QED
        BY <1>4, <2>2, <4>1, <4>2
  <2> QED
    BY <2>1, <2>2
<1> HIDE DEF o, q
<1>6. ASSUME NEW s \in Slots PROVE StillUsable(s, o.seen[s], o.at)
  <2>1. replaced[s][o.seen[s]] \in Nat \cup {None} /\ Reload \in Nat /\ Reload > 0
    BY <1>3, PoolTypes
  <2> QED
    BY <1>3, <1>4, <2>1 DEF InFileAt, StillUsable
<1>7. CallerKnows(q)
  BY <1>1, <1>5, <1>6 DEF CallerKnows
<1>8. ASSUME NEW d \in Callers PROVE CallerKnows(caller[d])'
  <2>1. caller'[d] = q \/ caller'[d] = caller[d]
    BY <1>2, CallerTypes DEF PoolInv, PoolTyped
  <2>2. CallerKnows(caller'[d])
    BY <1>7, <2>1, CallerTypes
  <2> QED
    BY <1>2, <2>2 DEF CallerKnows, InFileAt, StillUsable
<1>9. PoolTyped'
  <2>1. pool' \in [Slots -> Versions]
    BY <1>1, <1>2, <1>3 DEF CallerRecords
  <2>2. loadedAt' \in 0..time
    BY <1>2, <1>4
  <2>3. caller' \in [Callers -> CallerRecords]
    BY <1>2, <1>5 DEF PoolInv, PoolTyped
  <2> QED
    BY <1>2, <2>1, <2>2, <2>3 DEF PoolInv, PoolTyped
<1>10. NewestInFile' /\ \A s \in Slots : InFileAt(s, pool[s], loadedAt)'
  BY <1>2, <1>3 DEF PoolInv, NewestInFile, InFileAt
<1> QED
  BY <1>8, <1>9, <1>10 DEF PoolInv

LEMMA FindEligibleStep == ASSUME PoolInv, NEW c \in Callers, FindEligible(c) PROVE PoolInv'
<1> DEFINE o == caller[c]
           q == [o EXCEPT !.phase = "choosing", !.eligible = Slots \ login]
<1>1. /\ o \in CallerRecords /\ CallerKnows(o) /\ o.phase = "discovered" /\ o.want = "choose"
      /\ Become(c, q) /\ UNCHANGED <<time, disk, replaced, pool, loadedAt, cooling, login>>
  BY CallerTypes DEF FindEligible, EligibleSlots
<1> HIDE DEF o
<1>2. /\ q \in CallerRecords /\ q.phase = "choosing" /\ q.want = o.want /\ q.at = o.at
      /\ q.seen = o.seen /\ q.slot = o.slot /\ q.barredAll = o.barredAll
      /\ q.eligible = Slots \ login
  BY <1>1 DEF CallerRecords, CallerPhases
<1> HIDE DEF q
<1>3. CallerKnows(q)
  BY <1>1, <1>2 DEF CallerKnows
<1> QED
  BY <1>1, <1>2, <1>3, BecomeStep, PoolTypes

LEMMA IdleStep ==
  ASSUME PoolInv, NEW c \in Callers, Become(c, Idle),
         UNCHANGED <<time, disk, replaced, pool, loadedAt, cooling, login>>
  PROVE  PoolInv'
<1>1. CallerKnows(Idle)
  BY IdleKnows, PoolTypes DEF CallerKnows
<1> QED
  BY <1>1, IdleKnows, PoolTypes, BecomeStep

LEMMA ChooseStep == ASSUME PoolInv, NEW c \in Callers, Choose(c) PROVE PoolInv'
<1> DEFINE o == caller[c]
<1>1. /\ o \in CallerRecords /\ CallerKnows(o) /\ o.phase = "choosing"
      /\ UNCHANGED <<time, disk, replaced, pool, loadedAt, cooling, login>>
  BY CallerTypes DEF Choose
<1>2. ASSUME NEW s \in o.eligible,
             Become(c, [Idle EXCEPT !.phase = "using", !.slot = s,
                          !.cookie = caller[c].seen[s], !.at = caller[c].at,
                          !.barredAll = caller[c].barredAll])
      PROVE  PoolInv'
  <2> DEFINE q == [Idle EXCEPT !.phase = "using", !.slot = s, !.cookie = o.seen[s],
                               !.at = o.at, !.barredAll = o.barredAll]
  <2>1. Become(c, q)
    BY <1>2
  <2> HIDE DEF o
  <2>2. s \in Slots /\ s \notin o.barredAll /\ o.seen[s] \in Versions
        /\ StillUsable(s, o.seen[s], o.at) /\ o.at \in Nat /\ o.at <= time
        /\ o.barredAll \subseteq login /\ o.barredAll \subseteq Slots
    BY <1>1 DEF CallerKnows, CallerRecords
  <2>3. /\ q \in CallerRecords /\ q.phase = "using" /\ q.want = "none" /\ q.at = o.at
        /\ q.slot = s /\ q.cookie = o.seen[s] /\ q.barredAll = o.barredAll
    BY <2>2, IdleKnows DEF CallerRecords, CallerPhases
  <2> HIDE DEF q
  <2>4. CallerKnows(q)
    BY <2>2, <2>3, PoolTypes DEF CallerKnows
  <2> QED
    BY <1>1, <2>1, <2>3, <2>4, BecomeStep, PoolTypes
<1>3. CASE Become(c, Idle)
  BY <1>1, <1>3, IdleStep
<1> QED
  BY <1>2, <1>3 DEF Choose

(* A thread that goes on with its slot, having seen and barred nothing.    *)
LEMMA SlotStep ==
  ASSUME PoolInv, NEW c \in Callers, NEW q \in CallerRecords,
         q.phase \in {"failing", "freeing", "clearing"}, q.slot # None,
         q.at <= time, q.barredAll \subseteq login,
         Become(c, q), UNCHANGED <<time, disk, replaced, pool, loadedAt, login>>,
         cooling' \in [Slots -> Nat]
  PROVE  PoolInv'
<1>1. CallerKnows(q)
  BY DEF CallerKnows
<1> QED
  BY <1>1, BecomeStep

LEMMA CoolingType ==
  ASSUME PoolInv, NEW s, NEW t \in Nat, cooling' = [cooling EXCEPT ![s] = t]
  PROVE  cooling' \in [Slots -> Nat]
BY PoolTypes

LEMMA AnswerBadStep == ASSUME PoolInv, NEW c \in Callers, AnswerBad(c) PROVE PoolInv'
<1> DEFINE q == [Idle EXCEPT !.phase = "failing", !.slot = caller[c].slot]
<1>1. caller[c].slot \in Slots \cup {None} /\ caller[c].slot # None
  BY CallerTypes DEF AnswerBad, CallerKnows, CallerRecords
<1>2. /\ q \in CallerRecords /\ q.phase = "failing" /\ q.slot = caller[c].slot
      /\ q.at = 0 /\ q.barredAll = {}
  BY <1>1, IdleKnows DEF CallerRecords, CallerPhases
<1>3. Become(c, q) /\ UNCHANGED <<time, disk, replaced, pool, loadedAt, login>>
  BY DEF AnswerBad
<1>4. cooling' \in [Slots -> Nat]
  <2>1. time + Cooldown \in Nat
    BY PoolTypes, PoolAssumption
  <2> QED
    BY <2>1, CoolingType DEF AnswerBad
<1> HIDE DEF q
<1> QED
  BY <1>1, <1>2, <1>3, <1>4, PoolTypes, SlotStep

LEMMA QuarantinedStep ==
  ASSUME PoolInv, NEW c \in Callers, Quarantined(c) \/ Tested(c)
  PROVE  PoolInv'
<1>1. caller[c].slot \in Slots
  BY CallerTypes DEF Quarantined, Tested, CallerKnows, CallerRecords
<1>2. PICK slots : /\ slots = login \cup {caller[c].slot} \/ slots = login \ {caller[c].slot}
                   /\ Login(slots, c, Idle)
                   /\ UNCHANGED <<time, disk, replaced, pool, loadedAt, cooling>>
  BY DEF Quarantined, Tested
<1>3. slots \in SUBSET Slots /\ Idle.at <= time /\ cooling' \in [Slots -> Nat]
  BY <1>1, <1>2, PoolTypes, IdleKnows
<1> QED
  BY <1>2, <1>3, IdleKnows, LoginStep

LEMMA ReplaceStep == ASSUME PoolInv, NEW c \in Callers, Replace(c) PROVE PoolInv'
<1> DEFINE o == caller[c]
           s == o.slot
           q == [o EXCEPT !.phase = "freeing"]
<1>1. /\ o \in CallerRecords /\ CallerKnows(o) /\ s \in Slots /\ o.want = "update"
  BY CallerTypes DEF Replace, CallerKnows, CallerRecords
<1>2. /\ disk[s] < MaxVersions /\ disk' = [disk EXCEPT ![s] = @ + 1]
      /\ replaced' = [replaced EXCEPT ![s][disk[s]] = time]
      /\ caller' = [caller EXCEPT ![c] = q]
      /\ UNCHANGED <<time, pool, loadedAt, cooling, login>>
  BY DEF Replace, Become
<1> HIDE DEF o
<1>3. /\ q \in CallerRecords /\ q.phase = "freeing" /\ q.slot = s /\ q.at <= time
      /\ q.barredAll \subseteq login
  BY <1>1 DEF CallerRecords, CallerPhases, CallerKnows
<1> HIDE DEF q, s
<1>4. /\ disk \in [Slots -> Versions] /\ time \in Nat /\ disk[s] \in Nat /\ MaxVersions \in Nat
      /\ \A u \in Slots : disk[u] \in Nat
  BY <1>1, PoolTypes, PoolAssumption DEF Versions
<1>5. disk' \in [Slots -> Versions]
  <2>1. disk[s] + 1 \in Versions
    BY <1>2, <1>4 DEF Versions
  <2> QED
    BY <1>2, <1>4, <2>1
<1>6. replaced' \in [Slots -> [Versions -> 0..time \cup {None}]]
  <2>1. time \in 0..time
    BY <1>4
  <2>2. [replaced[s] EXCEPT ![disk[s]] = time] \in [Versions -> 0..time \cup {None}]
    BY <1>1, <2>1 DEF PoolInv, PoolTyped
  <2> QED
    BY <1>1, <1>2, <2>2 DEF PoolInv, PoolTyped
<1>7. ASSUME NEW u \in Slots, NEW v \in Versions
      PROVE  \/ replaced'[u][v] = replaced[u][v]
             \/ replaced'[u][v] = time /\ replaced[u][v] = None /\ u = s /\ v = disk[s]
  <2>1. replaced[s][disk[s]] = None
    <3>1. disk[s] \in Versions /\ disk[s] >= disk[s]
      BY <1>1, <1>4
    <3> QED
      BY <1>1, <3>1 DEF PoolInv, NewestInFile
  <2>2. replaced[u] \in [Versions -> 0..time \cup {None}]
    BY DEF PoolInv, PoolTyped
  <2>3. replaced'[u] = IF u = s THEN [replaced[s] EXCEPT ![disk[s]] = time] ELSE replaced[u]
    BY <1>2 DEF PoolInv, PoolTyped
  <2> QED
    BY <2>1, <2>2, <2>3
<1>8. NewestInFile'
  <2> SUFFICES ASSUME NEW u \in Slots, NEW v \in Versions, v >= disk'[u]
               PROVE  replaced'[u][v] = None
    BY DEF NewestInFile
  <2>1. v \in Nat /\ disk[u] \in Nat
    BY <1>4, PoolAssumption DEF Versions
  <2>2. disk'[u] >= disk[u] /\ (u = s => disk'[u] = disk[s] + 1)
    BY <1>2, <1>4, <2>1
  <2>3. v >= disk[u] /\ ~(u = s /\ v = disk[s])
    <3>1. disk'[u] \in Nat
      BY <1>5, PoolAssumption DEF Versions
    <3> QED
      BY <1>4, <2>1, <2>2, <3>1
  <2> QED
    BY <1>7, <2>3 DEF PoolInv, NewestInFile
<1>9. ASSUME NEW u \in Slots, NEW v \in Versions, NEW t \in Nat, t <= time
      PROVE  /\ InFileAt(u, v, t) => InFileAt(u, v, t)'
             /\ StillUsable(u, v, t) => StillUsable(u, v, t)'
  <2>1. time >= t /\ time + Reload > t
    BY <1>4, <1>9, PoolTypes
  <2>2. CASE replaced'[u][v] = replaced[u][v]
    BY <2>2 DEF InFileAt, StillUsable
  <2>3. CASE replaced'[u][v] = time
    BY <2>1, <2>3 DEF InFileAt, StillUsable
  <2> QED
    BY <1>7, <2>2, <2>3
<1>10. \A u \in Slots : InFileAt(u, pool[u], loadedAt)'
  <2>1. loadedAt \in Nat /\ loadedAt <= time /\ \A u \in Slots : pool[u] \in Versions
    BY PoolTypes DEF PoolInv, PoolTyped
  <2>2. \A u \in Slots : InFileAt(u, pool[u], loadedAt)
    BY DEF PoolInv
  <2> QED
    BY <1>2, <1>9, <2>1, <2>2 DEF InFileAt
<1>11. ASSUME NEW d \in Callers PROVE CallerKnows(caller[d])'
  <2>1. CASE d = c
    <3>1. caller'[d] = q
      BY <1>2, <2>1 DEF PoolInv, PoolTyped
    <3> QED
      BY <1>1, <1>2, <1>3, <3>1, PoolTypes DEF CallerKnows
  <2>2. CASE d # c
    <3>1. PICK r \in CallerRecords : caller'[d] = r /\ CallerKnows(r)
      BY <1>2, <2>2, CallerTypes DEF PoolInv, PoolTyped
    <3>2. r.at \in Nat /\ r.at <= time
      BY <3>1 DEF CallerRecords, CallerKnows
    <3>3. \A u \in Slots : r.seen[u] # None =>
            /\ InFileAt(u, r.seen[u], r.at) => InFileAt(u, r.seen[u], r.at)'
            /\ StillUsable(u, r.seen[u], r.at) => StillUsable(u, r.seen[u], r.at)'
      BY <1>9, <3>1, <3>2 DEF CallerRecords
    <3>4. r.phase = "using" =>
            StillUsable(r.slot, r.cookie, r.at)'
      <4> SUFFICES ASSUME r.phase = "using" PROVE StillUsable(r.slot, r.cookie, r.at)'
        OBVIOUS
      <4>1. r.slot \in Slots /\ r.cookie \in Versions /\ StillUsable(r.slot, r.cookie, r.at)
        BY <3>1 DEF CallerKnows, CallerRecords
      <4> QED
        BY <1>9, <3>2, <4>1
    <3>5. CallerKnows(r)'
      BY <1>2, <3>1, <3>3, <3>4 DEF CallerKnows
    <3> QED
      BY <3>1, <3>5 DEF CallerKnows, InFileAt, StillUsable
  <2> QED
    BY <2>1, <2>2
<1>12. PoolTyped'
  BY <1>2, <1>3, <1>5, <1>6 DEF PoolInv, PoolTyped
<1> QED
  BY <1>8, <1>10, <1>11, <1>12 DEF PoolInv

LEMMA FreeSlotStep == ASSUME PoolInv, NEW c \in Callers, FreeSlot(c) PROVE PoolInv'
<1> DEFINE q == [caller[c] EXCEPT !.phase = "clearing"]
<1>1. caller[c] \in CallerRecords /\ CallerKnows(caller[c]) /\ caller[c].slot # None
  BY CallerTypes DEF FreeSlot, CallerKnows
<1>2. /\ cooling' = [cooling EXCEPT ![caller[c].slot] = 0] /\ Become(c, q)
      /\ UNCHANGED <<time, disk, replaced, pool, loadedAt, login>>
  BY DEF FreeSlot, Cool
<1>3. /\ q \in CallerRecords /\ q.phase = "clearing" /\ q.slot = caller[c].slot
      /\ q.at = caller[c].at /\ q.barredAll = caller[c].barredAll
  BY <1>1 DEF CallerRecords, CallerPhases
<1> HIDE DEF q
<1>4. q.at <= time /\ q.barredAll \subseteq login
  BY <1>1, <1>3 DEF CallerKnows
<1> QED
  BY <1>1, <1>2, <1>3, <1>4, CoolingType, SlotStep

LEMMA ClearSlotStep == ASSUME PoolInv, NEW c \in Callers, ClearSlot(c) PROVE PoolInv'
<1> DEFINE q == IF caller[c].want = "updated" THEN Idle
                ELSE [Idle EXCEPT !.phase = "reading", !.want = "updated",
                                  !.slot = caller[c].slot, !.at = time]
<1>1. caller[c].slot \in Slots
  BY CallerTypes DEF ClearSlot, CallerKnows, CallerRecords
<1>2. /\ q \in CallerRecords /\ q.phase \in {"idle", "reading"} /\ q.barredAll = {}
      /\ q.at <= time
      /\ q.phase = "reading" => q.seen = [s \in Slots |-> None]
      /\ q.want \in {"test", "update", "updated"} => q.slot # None
  <2>1. CASE caller[c].want = "updated"
    BY <2>1, IdleKnows, PoolTypes
  <2>2. CASE caller[c].want # "updated"
    <3>1. q = Begun("reading", "updated", caller[c].slot, time)
      BY <2>2 DEF Begun
    <3> HIDE DEF q
    <3> QED
      <4>1. "reading" \in CallerPhases /\ time \in Nat
        BY PoolTypes DEF CallerPhases
      <4>2. /\ q \in CallerRecords /\ q.phase = "reading" /\ q.want = "updated"
            /\ q.slot = caller[c].slot /\ q.at = time /\ q.barredAll = {}
            /\ q.seen = [s \in Slots |-> None]
        BY <1>1, <3>1, <4>1, BegunRecord
      <4> QED
        BY <1>1, <4>1, <4>2, PoolTypes
  <2> QED
    BY <2>1, <2>2
<1>3. /\ Login(login \ {caller[c].slot}, c, q)
      /\ UNCHANGED <<time, disk, replaced, pool, loadedAt, cooling>>
  BY DEF ClearSlot
<1> HIDE DEF q
<1>4. login \ {caller[c].slot} \in SUBSET Slots /\ cooling' \in [Slots -> Nat]
  BY <1>3, PoolTypes
<1> QED
  BY <1>2, <1>3, <1>4, LoginStep

LEMMA PoolNextInv == PoolInv /\ [PoolNext]_poolVars => PoolInv'
<1> SUFFICES ASSUME PoolInv, [PoolNext]_poolVars PROVE PoolInv'
  OBVIOUS
<1>1. ASSUME NEW c \in Callers, Discover(c, "choose", None) PROVE PoolInv'
  BY <1>1, DiscoverStep
<1>2. ASSUME NEW c \in Callers, NEW s \in Slots, NEW want \in {"test", "update"},
             Discover(c, want, s)
      PROVE  PoolInv'
  BY <1>2, PoolTypes, DiscoverStep
<1>3. ASSUME NEW c \in Callers, AnswerFine(c) \/ Reject(c) PROVE PoolInv'
  BY <1>3, IdleStep DEF AnswerFine, Reject
<1>4. ASSUME NEW c \in Callers, CallerStep(c) PROVE PoolInv'
  BY <1>3, <1>4, ReadFileStep, StorePoolStep, FindEligibleStep, ChooseStep, AnswerBadStep,
     QuarantinedStep, ReplaceStep, FreeSlotStep, ClearSlotStep DEF CallerStep
<1>5. CASE UNCHANGED poolVars
  BY <1>5 DEF poolVars, PoolInv, PoolTyped, NewestInFile, CallerKnows, InFileAt, StillUsable
<1> QED
  BY <1>1, <1>2, <1>4, <1>5, TickStep DEF PoolNext

LEMMA PoolInvariant == PoolSpec => []PoolInv
<1>1. PoolInit => PoolInv
  <2> SUFFICES ASSUME PoolInit PROVE PoolInv
    OBVIOUS
  <2>1. 0 \in Versions /\ 0 \in 0..MaxPoolTime /\ 0 \in 0..0
    BY PoolAssumption DEF Versions
  <2>2. PoolTyped
    BY <2>1, IdleKnows DEF PoolInit, PoolTyped
  <2>3. \A c \in Callers : CallerKnows(caller[c])
    BY IdleKnows DEF PoolInit, CallerKnows
  <2> QED
    BY <2>1, <2>2, <2>3 DEF PoolInit, PoolInv, NewestInFile, InFileAt
<1> QED
  BY <1>1, PoolNextInv, PTL DEF PoolSpec

(* What discover_cookie_accounts, choose_cookie_account and the account    *)
(* updates keep in memory has its types.                                   *)
THEOREM PoolTypeCorrect == PoolSpec => []PoolTypeOK
<1>1. PoolInv => PoolTypeOK
  <2> SUFFICES ASSUME PoolInv PROVE PoolTypeOK
    OBVIOUS
  <2>1. loadedAt \in 0..MaxPoolTime
    BY PoolAssumption DEF PoolInv, PoolTyped
  <2> QED
    BY <2>1, CallerTypes DEF PoolInv, PoolTyped, PoolTypeOK, CallerRecords
<1> QED
  BY <1>1, PoolInvariant, PTL

(* choose_cookie_account never hands out a cookie that was replaced more   *)
(* than the reload interval before, whatever the threads that read the     *)
(* files store in which order.                                             *)
THEOREM CookieRecent == PoolSpec => []UsedCookieRecent
<1>1. PoolInv => UsedCookieRecent
  BY DEF PoolInv, CallerKnows, StillUsable, UsedCookieRecent
<1> QED
  BY <1>1, PoolInvariant, PTL

(* choose_cookie_account never uses an account that has needed login since *)
(* before the request, although it asks for that without the lock.         *)
THEOREM BarredUnused == PoolSpec => []BarredNotUsed
<1>1. PoolInv => BarredNotUsed
  BY DEF PoolInv, CallerKnows, BarredNotUsed
<1> QED
  BY <1>1, PoolInvariant, PTL

---------------------------------------------------------------------------
(* The quarantines. *)

WriterRecords ==
  [phase : {"idle", "changed", "open", "write", "rename"}, alone : BOOLEAN,
   snapshot : SUBSET Accounts, handle : Inodes \cup {None}]

QuarantineTyped ==
  /\ barred \subseteq Accounts /\ before \subseteq Accounts
  /\ writer \in [Writers -> WriterRecords]
  /\ content \in [Inodes -> (SUBSET Accounts) \cup {Torn}]
  /\ stateFile \in Inodes \cup {None} /\ tmpFile \in Inodes \cup {None}
  /\ overlapped \in BOOLEAN

(* How far the thread has come that persists alone: what it has written so *)
(* far is the map, in the file of the temporary name.                      *)
Alone(w) ==
  /\ \A v \in Writers \ {w} : ~Persisting(v)
  /\ writer[w].phase \in {"open", "write", "rename"} => writer[w].snapshot = barred
  /\ writer[w].phase \in {"write", "rename"} =>
       writer[w].handle = tmpFile /\ tmpFile # None
  /\ writer[w].phase = "write" => content[tmpFile] = Torn
  /\ writer[w].phase = "rename" => content[tmpFile] = barred

QuarantineInv ==
  /\ QuarantineTyped
  /\ stateFile = tmpFile => stateFile = None
  /\ \A w \in Writers :
       /\ writer[w].handle # None <=> writer[w].phase \in {"write", "rename"}
       /\ Persisting(w) /\ writer[w].alone => Alone(w)
       /\ Persisting(w) /\ ~overlapped => writer[w].alone
  /\ SavedUnlessOverlapping

LEMMA WriterTypes ==
  ASSUME QuarantineInv, NEW w \in Writers
  PROVE  /\ writer[w] \in WriterRecords /\ writer[w].snapshot \subseteq Accounts
         /\ writer[w].handle \in Inodes \cup {None} /\ writer[w].alone \in BOOLEAN
         /\ writer[w].handle # None <=> writer[w].phase \in {"write", "rename"}
         /\ writer[w].phase \in {"idle", "changed", "open", "write", "rename"}
<1>1. writer[w] \in WriterRecords
  BY DEF QuarantineInv, QuarantineTyped
<1>2. writer[w].handle # None <=> writer[w].phase \in {"write", "rename"}
  BY DEF QuarantineInv
<1> QED
  BY <1>1, <1>2 DEF WriterRecords

(* The file never holds what would parse as a torn text.                   *)
LEMMA LoadedType ==
  ASSUME QuarantineInv
  PROVE  Loaded \in SUBSET Accounts /\ barred # Torn /\ \A a \in SUBSET Accounts : a # Torn
<1>1. \A a \in SUBSET Accounts : a # Torn
  BY QuarantineAssumption DEF Torn
<1>2. barred \in SUBSET Accounts
  BY DEF QuarantineInv, QuarantineTyped
<1>3. Loaded \in SUBSET Accounts
  <2>1. CASE stateFile = None
    BY <2>1 DEF Loaded
  <2>2. CASE stateFile # None
    <3>1. content[stateFile] \in SUBSET Accounts \/ content[stateFile] = Torn
      BY <2>2 DEF QuarantineInv, QuarantineTyped
    <3> QED
      BY <3>1 DEF Loaded
  <2> QED
    BY <2>1, <2>2
<1> QED
  BY <1>1, <1>2, <1>3

(* The names and the threads hold fewer inodes than there are.             *)
LEMMA NewInodeFree ==
  ASSUME QuarantineInv, tmpFile = None
  PROVE  NewInode \in Inodes /\ NewInode \notin InUse
<1> DEFINE f == [w \in Writers |-> writer[w].handle]
           held == {writer[w].handle : w \in Writers}
<1>1. /\ IsFiniteSet(Writers) /\ IsFiniteSet(Inodes) /\ None \notin Inodes
      /\ Cardinality(Inodes) >= Cardinality(Writers) + 2
      /\ Cardinality(Inodes) \in Nat /\ Cardinality(Writers) \in Nat
  BY QuarantineAssumption, FS_CardinalityType
<1>2. IsFiniteSet(held) /\ Cardinality(held) <= Cardinality(Writers)
  <2>1. f \in Surjection(Writers, held)
    BY DEF Surjection
  <2> QED
    BY <1>1, <2>1, FS_Surjection
<1>7. InUse = (held \cup {stateFile}) \cup {None}
  BY DEF InUse
<1> HIDE DEF held, f
<1>3. IsFiniteSet(held \cup {stateFile})
      /\ Cardinality(held \cup {stateFile}) <= Cardinality(held) + 1
  <2>1. Cardinality(held) \in Nat
    BY <1>2, FS_CardinalityType
  <2>2. /\ IsFiniteSet(held \cup {stateFile})
        /\ Cardinality(held \cup {stateFile}) =
             IF stateFile \in held THEN Cardinality(held) ELSE Cardinality(held) + 1
    BY <1>2, FS_AddElement
  <2> QED
    BY <2>1, <2>2
<1>4. IsFiniteSet(InUse) /\ Cardinality(InUse) <= Cardinality(Writers) + 2
  <2> DEFINE named == held \cup {stateFile}
  <2>2. Cardinality(held) \in Nat /\ Cardinality(named) \in Nat
        /\ IsFiniteSet(named) /\ Cardinality(named) <= Cardinality(held) + 1
    BY <1>2, <1>3, FS_CardinalityType
  <2>1. InUse = named \cup {None}
    BY <1>7
  <2> HIDE DEF named
  <2>3. /\ IsFiniteSet(named \cup {None})
        /\ Cardinality(named \cup {None}) =
             IF None \in named THEN Cardinality(named) ELSE Cardinality(named) + 1
    BY <2>2, FS_AddElement
  <2> QED
    BY <1>1, <1>2, <2>1, <2>2, <2>3
<1>5. /\ IsFiniteSet(InUse \ {None})
      /\ Cardinality(InUse \ {None}) = Cardinality(InUse) - 1
  BY <1>4, FS_RemoveElement DEF InUse
<1>6. \E i \in Inodes : i \notin InUse
  <2> SUFFICES ASSUME Inodes \subseteq InUse PROVE FALSE
    OBVIOUS
  <2>1. Inodes \in SUBSET (InUse \ {None})
    BY <1>1
  <2>2. Cardinality(Inodes) <= Cardinality(InUse \ {None})
    BY <1>5, <2>1, FS_Subset
  <2>3. Cardinality(InUse) \in Nat
    BY <1>4, FS_CardinalityType
  <2> QED
    BY <1>1, <1>4, <1>5, <2>2, <2>3
<1> QED
  BY <1>6 DEF NewInode

(* A thread that persists goes one step further, or is done.               *)
LEMMA PersistStep ==
  ASSUME QuarantineInv, NEW w \in Writers, Persisting(w), NEW record \in WriterRecords,
         writer' = [writer EXCEPT ![w] = record], UNCHANGED <<barred, before>>,
         record.handle # None <=> record.phase \in {"write", "rename"},
         content' \in [Inodes -> (SUBSET Accounts) \cup {Torn}],
         stateFile' \in Inodes \cup {None}, tmpFile' \in Inodes \cup {None},
         stateFile' = tmpFile' => stateFile' = None,
         overlapped' \in BOOLEAN, overlapped' = overlapped \/ writer[w].alone,
         record.phase # "idle" => record.alone = writer[w].alone /\ overlapped' = overlapped,
         record.phase # "idle" /\ writer[w].alone => Alone(w)',
         SavedUnlessOverlapping'
  PROVE  QuarantineInv'
<1>1. writer'[w] = record /\ \A v \in Writers \ {w} : writer'[v] = writer[v]
  BY DEF QuarantineInv, QuarantineTyped
<1>2. QuarantineTyped'
  BY DEF QuarantineInv, QuarantineTyped
<1>3. ASSUME NEW v \in Writers
      PROVE  /\ writer'[v].handle # None <=> writer'[v].phase \in {"write", "rename"}
             /\ Persisting(v)' /\ writer'[v].alone => Alone(v)'
             /\ Persisting(v)' /\ ~overlapped' => writer'[v].alone
  <2>1. CASE v = w
    BY <1>1, <2>1 DEF Persisting, QuarantineInv
  <2>2. CASE v # w
    <3>1. writer'[v] = writer[v]
      BY <1>1, <2>2
    <3>2. ~(Persisting(v) /\ writer[v].alone)
      BY <2>2 DEF QuarantineInv, Alone
    <3>3. Persisting(v) => overlapped
      BY <3>2 DEF QuarantineInv
    <3>4. writer[w].alone => ~Persisting(v)
      BY <2>2 DEF QuarantineInv, Alone
    <3> QED
      BY <3>1, <3>2, <3>3, <3>4 DEF Persisting, QuarantineInv
  <2> QED
    BY <2>1, <2>2
<1> QED
  BY <1>2, <1>3 DEF QuarantineInv

(* Who persists without having been alone does so where two persist.       *)
LEMMA AloneOrNot ==
  ASSUME QuarantineInv, NEW w \in Writers, Persisting(w)
  PROVE  (writer[w].alone => Alone(w)) /\ (~writer[w].alone => overlapped)
BY DEF QuarantineInv

LEMMA ChangeStep ==
  ASSUME QuarantineInv, NEW w \in Writers, NEW accounts \in SUBSET Accounts,
         Change(w, accounts)
  PROVE  QuarantineInv'
<1> DEFINE alone == \A v \in Writers : ~Persisting(v)
<1>1. /\ barred' = accounts /\ before' = barred /\ overlapped' = (overlapped \/ ~alone)
      /\ UNCHANGED <<content, stateFile, tmpFile>> /\ ~Persisting(w)
  BY DEF Change
<1>2. ASSUME NEW v \in Writers
      PROVE  /\ writer'[v] \in WriterRecords /\ writer'[v].alone = alone
             /\ writer'[v].phase = IF v = w THEN "changed" ELSE writer[v].phase
             /\ writer'[v].handle = writer[v].handle
             /\ writer'[v].snapshot = writer[v].snapshot
  <2>1. writer'[v] = [writer[v] EXCEPT !.phase = IF v = w THEN "changed" ELSE @, !.alone = alone]
    BY DEF Change
  <2>2. writer[v] \in WriterRecords /\ alone \in BOOLEAN
    BY WriterTypes
  <2> HIDE DEF alone
  <2> QED
    BY <2>1, <2>2 DEF WriterRecords
<1>3. QuarantineTyped'
  <2>1. writer' \in [Writers -> WriterRecords]
    BY <1>2 DEF Change
  <2> QED
    BY <1>1, <2>1 DEF QuarantineInv, QuarantineTyped
<1>4. ASSUME NEW v \in Writers
      PROVE  /\ writer'[v].handle # None <=> writer'[v].phase \in {"write", "rename"}
             /\ Persisting(v)' /\ writer'[v].alone => Alone(v)'
             /\ Persisting(v)' /\ ~overlapped' => writer'[v].alone
  <2>1. writer'[v].handle # None <=> writer'[v].phase \in {"write", "rename"}
    BY <1>1, <1>2, WriterTypes DEF Persisting
  <2>2. ASSUME Persisting(v)', writer'[v].alone PROVE Alone(v)'
    <3>1. alone
      BY <1>2, <2>2
    <3>2. v = w
      BY <1>2, <2>2, <3>1 DEF Persisting
    <3>3. \A u \in Writers \ {v} : ~Persisting(u)'
      BY <1>2, <3>1, <3>2 DEF Persisting
    <3>4. writer'[v].phase = "changed"
      BY <1>2, <3>2
    <3> QED
      BY <3>3, <3>4 DEF Alone
  <2>3. Persisting(v)' /\ ~overlapped' => writer'[v].alone
    BY <1>1, <1>2
  <2> QED
    BY <2>1, <2>2, <2>3
<1>5. SavedUnlessOverlapping'
  <2>1. Persisting(w)'
    BY <1>2 DEF Persisting
  <2>2. Loaded' = Loaded
    BY <1>1 DEF Loaded
  <2>3. alone /\ ~overlapped => Loaded = barred
    BY DEF QuarantineInv, SavedUnlessOverlapping
  <2> QED
    BY <1>1, <2>1, <2>2, <2>3 DEF SavedUnlessOverlapping
<1> QED
  BY <1>1, <1>3, <1>4, <1>5 DEF QuarantineInv

LEMMA SnapshotStep ==
  ASSUME QuarantineInv, NEW w \in Writers, Snapshot(w)
  PROVE  QuarantineInv'
<1> DEFINE r == [writer[w] EXCEPT !.phase = "open", !.snapshot = barred]
<1>1. /\ writer[w].phase = "changed" /\ writer' = [writer EXCEPT ![w] = r]
      /\ UNCHANGED <<barred, before, content, stateFile, tmpFile, overlapped>>
  BY DEF Snapshot, Step
<1>2. barred \in SUBSET Accounts /\ overlapped \in BOOLEAN
  BY DEF QuarantineInv, QuarantineTyped
<1>3. /\ r \in WriterRecords /\ r.phase = "open" /\ r.snapshot = barred
      /\ r.alone = writer[w].alone /\ r.handle = None
  BY <1>1, <1>2, WriterTypes DEF WriterRecords
<1> HIDE DEF r
<1>4. writer'[w] = r /\ \A v \in Writers \ {w} : writer'[v] = writer[v]
  BY <1>1 DEF QuarantineInv, QuarantineTyped
<1>5. Persisting(w) /\ Persisting(w)'
  BY <1>1, <1>3, <1>4 DEF Persisting
<1>6. writer[w].alone => Alone(w)'
  BY <1>1, <1>3, <1>4, <1>5, AloneOrNot DEF Alone, Persisting
<1>7. SavedUnlessOverlapping'
  BY <1>1, <1>5 DEF QuarantineInv, SavedUnlessOverlapping, Loaded
<1> QED
  BY <1>1, <1>2, <1>3, <1>5, <1>6, <1>7, PersistStep DEF QuarantineInv, QuarantineTyped

LEMMA OpenStep ==
  ASSUME QuarantineInv, NEW w \in Writers, Open(w)
  PROVE  QuarantineInv'
<1> DEFINE i == IF tmpFile # None THEN tmpFile ELSE NewInode
           r == [writer[w] EXCEPT !.phase = "write", !.handle = i]
<1>1. /\ writer[w].phase = "open" /\ writer' = [writer EXCEPT ![w] = r]
      /\ content' = [content EXCEPT ![i] = Torn] /\ tmpFile' = i
      /\ UNCHANGED <<barred, before, stateFile, overlapped>>
  BY DEF Open, Step
<1>2. i \in Inodes /\ i # None /\ i # stateFile
  <2>1. CASE tmpFile # None
    BY <2>1, QuarantineAssumption DEF QuarantineInv, QuarantineTyped
  <2>2. CASE tmpFile = None
    BY <2>2, NewInodeFree, QuarantineAssumption DEF InUse
  <2> QED
    BY <2>1, <2>2
<1> HIDE DEF i
<1>3. /\ r \in WriterRecords /\ r.phase = "write" /\ r.handle = i
      /\ r.snapshot = writer[w].snapshot /\ r.alone = writer[w].alone
  BY <1>2, WriterTypes DEF WriterRecords
<1> HIDE DEF r
<1>4. writer'[w] = r /\ \A v \in Writers \ {w} : writer'[v] = writer[v]
  BY <1>1 DEF QuarantineInv, QuarantineTyped
<1>5. Persisting(w) /\ Persisting(w)'
  BY <1>1, <1>3, <1>4 DEF Persisting
<1>6. /\ content' \in [Inodes -> (SUBSET Accounts) \cup {Torn}] /\ content'[i] = Torn
      /\ stateFile # None => content'[stateFile] = content[stateFile]
      /\ stateFile' \in Inodes \cup {None} /\ overlapped' \in BOOLEAN
  <2>1. content \in [Inodes -> (SUBSET Accounts) \cup {Torn}] /\ stateFile \in Inodes \cup {None}
    BY DEF QuarantineInv, QuarantineTyped
  <2>2. overlapped' \in BOOLEAN
    BY <1>1 DEF QuarantineInv, QuarantineTyped
  <2> QED
    BY <1>1, <1>2, <2>1, <2>2
<1>7. writer[w].alone => Alone(w)'
  BY <1>1, <1>2, <1>3, <1>4, <1>5, <1>6, AloneOrNot DEF Alone, Persisting
<1>8. SavedUnlessOverlapping'
  <2>1. Loaded' = Loaded
    BY <1>1, <1>6 DEF Loaded
  <2> QED
    BY <1>1, <1>5, <2>1 DEF QuarantineInv, SavedUnlessOverlapping
<1> QED
  BY <1>1, <1>2, <1>3, <1>5, <1>6, <1>7, <1>8, PersistStep

LEMMA WriteStep ==
  ASSUME QuarantineInv, NEW w \in Writers, Write(w)
  PROVE  QuarantineInv'
<1> DEFINE i == writer[w].handle
           shorter == content[i] # Torn /\ Cardinality(writer[w].snapshot) < Cardinality(content[i])
           text == IF shorter THEN Torn ELSE writer[w].snapshot
           r == [writer[w] EXCEPT !.phase = "rename"]
<1>1. /\ writer[w].phase = "write" /\ writer' = [writer EXCEPT ![w] = r]
      /\ content' = [content EXCEPT ![i] = text]
      /\ UNCHANGED <<barred, before, stateFile, tmpFile, overlapped>>
  BY DEF Write, Step
<1>2. i \in Inodes /\ i # None /\ text \in (SUBSET Accounts) \cup {Torn}
      /\ (content[i] = Torn => text = writer[w].snapshot)
  <2>1. i \in Inodes /\ i # None
    BY <1>1, WriterTypes, QuarantineAssumption
  <2>2. writer[w].snapshot \in SUBSET Accounts
    BY WriterTypes
  <2>3. content[i] = Torn => ~shorter
    OBVIOUS
  <2> HIDE DEF shorter
  <2> QED
    BY <2>1, <2>2, <2>3
<1> HIDE DEF text
<1>3. /\ r \in WriterRecords /\ r.phase = "rename" /\ r.handle = i
      /\ r.snapshot = writer[w].snapshot /\ r.alone = writer[w].alone
  BY WriterTypes DEF WriterRecords
<1> HIDE DEF r, i
<1>4. writer'[w] = r /\ \A v \in Writers \ {w} : writer'[v] = writer[v]
  BY <1>1 DEF QuarantineInv, QuarantineTyped
<1>5. Persisting(w) /\ Persisting(w)'
  BY <1>1, <1>3, <1>4 DEF Persisting
<1>6. /\ content' \in [Inodes -> (SUBSET Accounts) \cup {Torn}] /\ content'[i] = text
      /\ stateFile' \in Inodes \cup {None} /\ tmpFile' \in Inodes \cup {None}
      /\ stateFile' = tmpFile' => stateFile' = None
      /\ overlapped' \in BOOLEAN
  BY <1>1, <1>2 DEF QuarantineInv, QuarantineTyped
<1>7. ASSUME writer[w].alone
      PROVE  /\ i = tmpFile /\ tmpFile # None /\ content[i] = Torn /\ writer[w].snapshot = barred
             /\ \A v \in Writers \ {w} : ~Persisting(v)
  BY <1>1, <1>5, <1>7, AloneOrNot DEF Alone, i
<1>8. writer[w].alone => Alone(w)'
  BY <1>1, <1>2, <1>3, <1>4, <1>6, <1>7 DEF Alone, Persisting
<1>9. SavedUnlessOverlapping'
  <2>1. CASE writer[w].alone
    <3>1. i # stateFile
      BY <1>7, <2>1 DEF QuarantineInv
    <3>2. Loaded' = Loaded
      BY <1>1, <3>1 DEF Loaded, QuarantineInv, QuarantineTyped
    <3> QED
      BY <1>1, <1>5, <3>2 DEF QuarantineInv, SavedUnlessOverlapping
  <2>2. CASE ~writer[w].alone
    BY <1>1, <1>5, <2>2, AloneOrNot DEF SavedUnlessOverlapping
  <2> QED
    BY <2>1, <2>2
<1>10. r.handle # None <=> r.phase \in {"write", "rename"}
  BY <1>2, <1>3
<1>11. writer' = [writer EXCEPT ![w] = r] /\ UNCHANGED <<barred, before>> /\ overlapped' = overlapped
  BY <1>1
<1> QED
  BY <1>3, <1>5, <1>6, <1>8, <1>9, <1>10, <1>11, PersistStep

LEMMA RenameStep ==
  ASSUME QuarantineInv, NEW w \in Writers, Rename(w)
  PROVE  QuarantineInv'
<1>1. /\ writer[w].phase = "rename" /\ writer' = [writer EXCEPT ![w] = Resting]
      /\ UNCHANGED <<barred, before>>
      /\ overlapped' = (overlapped /\ ~writer[w].alone)
      /\ IF tmpFile # None THEN stateFile' = tmpFile /\ tmpFile' = None
         ELSE UNCHANGED <<stateFile, tmpFile>>
      /\ content' = [i \in Inodes |-> IF i \in InUse' THEN content[i] ELSE Torn]
  BY DEF Rename, Step, DropUnused
<1>2. Persisting(w)
  BY <1>1 DEF Persisting
<1>3. /\ Resting \in WriterRecords /\ Resting.phase = "idle" /\ Resting.handle = None
  BY DEF Resting, WriterRecords
<1>4. /\ content' \in [Inodes -> (SUBSET Accounts) \cup {Torn}]
      /\ stateFile' \in Inodes \cup {None} /\ tmpFile' \in Inodes \cup {None}
      /\ stateFile' = tmpFile' => stateFile' = None
      /\ overlapped' \in BOOLEAN /\ overlapped \in BOOLEAN
  <2>1. content \in [Inodes -> (SUBSET Accounts) \cup {Torn}] /\ stateFile \in Inodes \cup {None}
        /\ tmpFile \in Inodes \cup {None}
    BY DEF QuarantineInv, QuarantineTyped
  <2>2. overlapped' \in BOOLEAN /\ overlapped \in BOOLEAN
    BY <1>1 DEF QuarantineInv, QuarantineTyped
  <2>3. content' \in [Inodes -> (SUBSET Accounts) \cup {Torn}]
    BY <1>1, <2>1
  <2> QED
    BY <1>1, <2>1, <2>2, <2>3 DEF QuarantineInv
<1>5. SavedUnlessOverlapping'
  <2>1. CASE writer[w].alone
    <3>1. tmpFile # None /\ content[tmpFile] = barred
      BY <1>1, <1>2, <2>1, AloneOrNot DEF Alone
    <3>2. stateFile' = tmpFile /\ stateFile' \in InUse' /\ tmpFile \in Inodes
      BY <1>1, <3>1 DEF InUse, QuarantineInv, QuarantineTyped
    <3>3. content'[stateFile'] = barred
      BY <1>1, <3>1, <3>2
    <3>4. Loaded' = barred'
      BY <1>1, <3>1, <3>2, <3>3, LoadedType, QuarantineAssumption DEF Loaded
    <3> QED
      BY <3>4 DEF SavedUnlessOverlapping
  <2>2. CASE ~writer[w].alone
    BY <1>1, <1>2, <2>2, AloneOrNot DEF SavedUnlessOverlapping
  <2> QED
    BY <2>1, <2>2
<1> QED
  BY <1>1, <1>2, <1>3, <1>4, <1>5, PersistStep, WriterTypes

LEMMA RestartStep == ASSUME QuarantineInv, Restart PROVE QuarantineInv'
<1>1. /\ barred' = Loaded /\ before' = Loaded /\ writer' = [w \in Writers |-> Resting]
      /\ tmpFile' \in {tmpFile, None} /\ overlapped' = FALSE /\ stateFile' = stateFile
      /\ content' = [i \in Inodes |-> IF i \in InUse' THEN content[i] ELSE Torn]
  BY DEF Restart, DropUnused
<1>2. Resting \in WriterRecords /\ Resting.phase = "idle" /\ Resting.handle = None
  BY DEF Resting, WriterRecords
<1>3. QuarantineTyped'
  <2>1. content \in [Inodes -> (SUBSET Accounts) \cup {Torn}] /\ stateFile \in Inodes \cup {None}
        /\ tmpFile \in Inodes \cup {None}
    BY DEF QuarantineInv, QuarantineTyped
  <2>2. content' \in [Inodes -> (SUBSET Accounts) \cup {Torn}]
    BY <1>1, <2>1
  <2>3. overlapped' \in BOOLEAN
    BY <1>1
  <2>4. writer' \in [Writers -> WriterRecords]
    BY <1>1, <1>2
  <2> QED
    BY <1>1, <2>1, <2>2, <2>3, <2>4, LoadedType DEF QuarantineTyped
<1>4. stateFile' = tmpFile' => stateFile' = None
  BY <1>1 DEF QuarantineInv
<1>5. \A w \in Writers : writer'[w].handle = None /\ writer'[w].phase = "idle"
  BY <1>1, <1>2
<1>6. Loaded' = Loaded
  <2>1. stateFile # None => content'[stateFile] = content[stateFile]
    BY <1>1 DEF InUse, QuarantineInv, QuarantineTyped
  <2> QED
    BY <1>1, <2>1 DEF Loaded
<1> QED
  BY <1>1, <1>3, <1>4, <1>5, <1>6 DEF QuarantineInv, Persisting, SavedUnlessOverlapping

LEMMA QuarantineInvariant == QuarantineSpec => []QuarantineInv
<1>1. QuarantineInit => QuarantineInv
  <2> SUFFICES ASSUME QuarantineInit PROVE QuarantineInv
    OBVIOUS
  <2>1. Resting \in WriterRecords /\ Resting.phase = "idle" /\ Resting.handle = None
    BY DEF Resting, WriterRecords
  <2>2. QuarantineTyped
    <3>1. writer \in [Writers -> WriterRecords] /\ content \in [Inodes -> (SUBSET Accounts) \cup {Torn}]
      BY <2>1 DEF QuarantineInit
    <3>2. overlapped \in BOOLEAN
      BY DEF QuarantineInit
    <3> QED
      BY <3>1, <3>2 DEF QuarantineInit, QuarantineTyped
  <2>3. \A w \in Writers : writer[w] = Resting /\ ~Persisting(w)
    BY <2>1 DEF QuarantineInit, Persisting
  <2>4. SavedUnlessOverlapping
    BY DEF QuarantineInit, SavedUnlessOverlapping, Loaded
  <2> QED
    BY <2>1, <2>2, <2>3, <2>4 DEF QuarantineInit, QuarantineInv
<1>2. QuarantineInv /\ [QuarantineNext]_quarantineVars => QuarantineInv'
  <2> SUFFICES ASSUME QuarantineInv, [QuarantineNext]_quarantineVars PROVE QuarantineInv'
    OBVIOUS
  <2>1. ASSUME NEW w \in Writers, NEW a \in Accounts, Quarantine(w, a) \/ Clear(w, a)
        PROVE  QuarantineInv'
    <3>1. barred \cup {a} \in SUBSET Accounts /\ barred \ {a} \in SUBSET Accounts
      BY DEF QuarantineInv, QuarantineTyped
    <3> QED
      BY <2>1, <3>1, ChangeStep DEF Quarantine, Clear
  <2>2. CASE UNCHANGED quarantineVars
    BY <2>2 DEF quarantineVars, QuarantineInv, QuarantineTyped, Alone, Persisting,
       SavedUnlessOverlapping, Loaded
  <2> QED
    BY <2>1, <2>2, SnapshotStep, OpenStep, WriteStep, RenameStep, RestartStep DEF QuarantineNext
<1> QED
  BY <1>1, <1>2, PTL DEF QuarantineSpec

(* The map of the accounts that need login, what its threads are doing and *)
(* the files they write keep their types.                                  *)
THEOREM QuarantineTypeCorrect == QuarantineSpec => []QuarantineTypeOK
<1>1. QuarantineInv => QuarantineTypeOK
  <2> SUFFICES ASSUME QuarantineInv PROVE QuarantineTypeOK
    OBVIOUS
  <2>1. {stateFile, tmpFile} \subseteq Inodes \cup {None}
    BY DEF QuarantineInv, QuarantineTyped
  <2> QED
    BY <2>1, WriterTypes DEF QuarantineInv, QuarantineTyped, QuarantineTypeOK
<1> QED
  BY <1>1, QuarantineInvariant, PTL

(* persist_account_quarantines keeps the map in its file over a crash at   *)
(* any step of one thread that persists while no other does.               *)
THEOREM Saved == QuarantineSpec => []SavedUnlessOverlapping
<1>1. QuarantineInv => SavedUnlessOverlapping
  BY DEF QuarantineInv
<1> QED
  BY <1>1, QuarantineInvariant, PTL

---------------------------------------------------------------------------
(* The composition.  A step of it is a step of one part and leaves the     *)
(* others alone, so what every part keeps by itself it keeps in it.        *)
LegacyRuns == part = "legacy"

LEMMA PartsStart ==
  GuardsInit => /\ Init /\ PoolInit /\ QuarantineInit /\ RateInit /\ EmbedInit
                /\ LegacyRuns => LegacyInit
BY DEF GuardsInit, LegacyRuns

LEMMA PartsStep ==
  [GuardsNext]_guardVars =>
    /\ [Next]_vars /\ [PoolNext]_poolVars /\ [QuarantineNext]_quarantineVars
    /\ [RateNext]_rateVars /\ [EmbedNext]_embedVars /\ [LegacyNext]_legacyVars
    /\ LegacyRuns' <=> LegacyRuns
BY DEF GuardsNext, RateOver, guardVars, LegacyRuns

LEMMA PartsRun ==
  GuardsSpec => /\ Spec /\ PoolSpec /\ QuarantineSpec /\ RateSpec /\ EmbedSpec
                /\ LegacySpec \/ []~LegacyRuns
<1>1. GuardsSpec => Spec /\ PoolSpec
  BY PartsStart, PartsStep, PTL DEF GuardsSpec, Spec, PoolSpec
<1>2. GuardsSpec => QuarantineSpec /\ RateSpec
  BY PartsStart, PartsStep, PTL DEF GuardsSpec, QuarantineSpec, RateSpec
<1>3. GuardsSpec => EmbedSpec /\ (LegacySpec \/ []~LegacyRuns)
  BY PartsStart, PartsStep, PTL DEF GuardsSpec, EmbedSpec, LegacySpec
<1>. QED
  BY <1>1, <1>2, <1>3, PTL

(* Guards: all parts have their types.                                     *)
THEOREM GuardsTypes == GuardsSpec => []GuardsTypeOK
<1>1. TypeOK /\ PoolTypeOK /\ QuarantineTypeOK /\ EmbedTypeOK /\ (LegacyTypeOK \/ ~LegacyRuns)
      => GuardsTypeOK
  BY DEF GuardsTypeOK, LegacyRuns
<1>. QED
  BY <1>1, PartsRun, TypeCorrect, PoolTypeCorrect, QuarantineTypeCorrect, EmbedTypeCorrect,
     LegacyTypeCorrect, PTL

(* Guards: what each part promises holds whichever of them runs.           *)
THEOREM GuardsSafe ==
  GuardsSpec =>
    /\ [](/\ SlidingBudget /\ UsedCookieRecent /\ BarredNotUsed /\ SavedUnlessOverlapping
          /\ MinuteBudget /\ EdgeTTLSafe /\ JournalAgrees /\ SilentOnlyIfSaid
          /\ LegacyRuns => RecordedOnce /\ FailuresHandedOver)
    /\ CleanupForgetsNothing
BY PartsRun, BudgetKept, CookieRecent, BarredUnused, Saved, MinuteKept, EdgeSafe,
   JournalAgreesWithPage, SilentSaid, PagesRecordedOnce, HandedOver, CleanupSafe, PTL
=============================================================================
