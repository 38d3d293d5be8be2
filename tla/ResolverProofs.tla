--------------------------- MODULE ResolverProofs ---------------------------
(***************************************************************************)
(* Proofs about Resolver: stale data survives failures, quiet requests stay *)
(* away from the auth helper, no answer is poorer than what was known, and *)
(* the cache stays consistent and keeps its contract, for any number of    *)
(* callers, whatever the scrapes answer.                                   *)
(***************************************************************************)
EXTENDS Resolver, BucketsProofs

Requests ==
  [pc : CallerPCs, entry : AllEntries \cup {None}, cached : Items \cup {None},
   got : Items \cup {None}, item : Items \cup {None}]

Flights == [pc : FlightPCs, result : Items \cup Errors \cup {None}]

QuietEntries == {"GetDataQuiet", "GetDataPreferVideoQuiet"}
PreferEntries == {"GetDataPreferVideo", "GetDataPreferVideoQuiet"}

(* A request in state q asks lane l.                                       *)
Asks(q, l) ==
  \/ l = "scrape" /\ q.pc = "scrape" /\ q.entry \notin QuietEntries
  \/ l = "quiet" /\ q.pc = "scrape" /\ q.entry \in QuietEntries
  \/ l = "public" /\ q.pc \in {"stats", "public", "preserve"}
  \/ l = "crawler" /\ q.pc = "crawler"
  \/ l = "auth" /\ q.pc \in {"auth", "refresh"}
  \/ l = "forced" /\ q.pc = "forced"

(* What a lane may return.                                                 *)
Results(l) ==
  Errors \cup {i \in Items : /\ l \in {"public", "crawler"} => HasVideo(i)
                             /\ l = "auth" => i.media # "gallery"}

(* A request waits for the lane of its state or has its answer, not both.  *)
Waits(q, w, r) ==
  /\ w # None => Asks(q, w) /\ r = None
  /\ r # None => \E l \in Lanes : Asks(q, l) /\ r \in Results(l)

(* What a request may answer with, given what it knew.                     *)
Kept(q) ==
  /\ q.cached # None => q.item # None
  /\ q.got # None =>
       /\ q.entry \in PreferEntries =>
            q.item # None /\ q.item.media \in {q.got.media, "video"}
       /\ q.item # None => /\ q.got.named => q.item.named
                           /\ q.got.stats => q.item.stats

(* What the state of a request says about what it has.                     *)
Knows(q) ==
  /\ q.pc = "idle" => q = NoRequest
  /\ q.pc # "idle" => q.entry \in AllEntries
  /\ q.cached # None => q.entry \in CachedEntries
  /\ q.pc \in {"load", "enrich", "saveEnriched", "negative", "forget", "scrape",
               "saveNegative"} => q.entry \in CachedEntries /\ q.got = None
  /\ q.pc \in {"enrich", "saveEnriched"} => q.cached # None
  /\ q.pc = "saveEnriched" => q.item # None
  /\ q.pc \in {"prefer", "stats", "crawler", "public", "auth"} =>
       /\ q.entry \in PreferEntries
       /\ q.item = q.got /\ (q.cached # None => q.got # None)
  /\ q.pc = "auth" => q.entry \notin QuietEntries
  /\ q.pc \in {"forced", "refresh"} =>
       /\ q.entry \in {"RefreshDataPreferVideo", "RefreshDataFromAuthHelper"}
       /\ q.got = None
  /\ q.pc \in {"preserve", "direct"} => q.entry \in PreserveEntries /\ q.item = None
  /\ q.pc = "save" => q.item # None
  /\ q.pc \in {"save", "done"} => Kept(q)

(* A lane about to return has a result of its kind; the logged-out lanes   *)
(* call no other lane.                                                     *)
Flies(l, f, w) ==
  /\ f.pc \in {"save", "return"} => f.result \in Results(l)
  /\ f.pc = "save" => f.result \in Items
  /\ l \in {"quiet", "public", "crawler"} => w = None

CallersOK == \A c \in Callers : Waits(caller[c], waiting[c], answer[c]) /\ Knows(caller[c])
LanesOK == \A l \in Lanes : Flies(l, flight[l], waiting[l])

IInv == TypeOK /\ CallersOK /\ LanesOK

---------------------------------------------------------------------------
(* Transactions of the present keep the types of the buckets. *)

LEMMA SaveNowTypes ==
  ASSUME BucketsTypeOK, NEW p \in Posts, NEW i \in Items, SaveTxn(p, i, clock), clock' = clock
  PROVE  BucketsTypeOK'
BY SaveTypes DEF BucketsTypeOK

LEMMA NegativeNowTypes ==
  ASSUME BucketsTypeOK, NEW p \in Posts, clock' = clock,
         SaveNegativeTxn(p, clock) \/ ForgetNegativeTxn(p)
  PROVE  BucketsTypeOK'
BY NegativeTypes DEF BucketsTypeOK

LEMMA SameNowTypes ==
  ASSUME BucketsTypeOK, UNCHANGED <<clock, data, ttl, fresh, negative>>
  PROVE  BucketsTypeOK'
BY SameBuckets DEF cache

---------------------------------------------------------------------------
LEMMA Apart ==
  /\ None \notin Items /\ None \notin Errors /\ None \notin Lanes
  /\ Items \cap Errors = {} /\ Callers \cap Lanes = {} /\ Post \in Posts
BY BucketsAssumption, ResolverAssumption

LEMMA NoRequestOK ==
  NoRequest \in Requests /\ Knows(NoRequest) /\ Waits(NoRequest, None, None)
BY DEF NoRequest, Requests, CallerPCs, Knows, Waits, Asks

(* A step of caller c, given as its new state q, the lane w it waits for   *)
(* and the answer r it has.                                                *)
LEMMA CallerStep ==
  ASSUME IInv, NEW c \in Callers, NEW q \in Requests,
         NEW w \in Lanes \cup {None}, NEW r \in Items \cup Errors \cup {None},
         caller' = [caller EXCEPT ![c] = q],
         waiting' = [waiting EXCEPT ![c] = w],
         answer' = [answer EXCEPT ![c] = r],
         Waits(q, w, r), Knows(q),
         flight' \in [Lanes -> Flights],
         \A l \in Lanes : Flies(l, flight'[l], waiting[l]),
         BucketsTypeOK', publicNeg' \in Nat \cup {None}
  PROVE  IInv'
<1>1. TypeOK'
  BY DEF IInv, TypeOK, Requests, Flights
<1>2. CallersOK'
  <2> SUFFICES ASSUME NEW x \in Callers
               PROVE  Waits(caller'[x], waiting'[x], answer'[x]) /\ Knows(caller'[x])
    BY DEF CallersOK
  <2>1. CASE x = c
    BY <2>1 DEF IInv, TypeOK
  <2>2. CASE x # c
    <3>1. caller'[x] = caller[x] /\ waiting'[x] = waiting[x] /\ answer'[x] = answer[x]
      BY <2>2 DEF IInv, TypeOK
    <3> QED
      BY <3>1 DEF IInv, CallersOK
  <2> QED
    BY <2>1, <2>2
<1>3. LanesOK'
  <2> SUFFICES ASSUME NEW l \in Lanes PROVE Flies(l, flight'[l], waiting'[l])
    BY DEF LanesOK
  <2>1. waiting'[l] = waiting[l]
    BY Apart DEF IInv, TypeOK
  <2> QED
    BY <2>1
<1> QED
  BY <1>1, <1>2, <1>3 DEF IInv

LEMMA OwnTypes ==
  ASSUME IInv, NEW c \in Callers
  PROVE  /\ caller[c] \in Requests
         /\ waiting[c] \in Lanes \cup {None}
         /\ answer[c] \in Items \cup Errors \cup {None}
         /\ Waits(caller[c], waiting[c], answer[c]) /\ Knows(caller[c])
         /\ flight \in [Lanes -> Flights]
         /\ \A l \in Lanes : Flies(l, flight[l], waiting[l])
         /\ BucketsTypeOK /\ publicNeg \in Nat \cup {None}
BY DEF IInv, TypeOK, CallersOK, LanesOK, Requests, Flights

(* A step of a caller that touches no lane. *)
LEMMA QuietStep ==
  ASSUME IInv, NEW c \in Callers, NEW q \in Requests,
         caller' = [caller EXCEPT ![c] = q],
         UNCHANGED <<waiting, answer, flight>>,
         Waits(q, waiting[c], answer[c]), Knows(q),
         BucketsTypeOK', publicNeg' \in Nat \cup {None}
  PROVE  IInv'
<1>1. waiting' = [waiting EXCEPT ![c] = waiting[c]]
  BY DEF IInv, TypeOK
<1>2. answer' = [answer EXCEPT ![c] = answer[c]]
  BY DEF IInv, TypeOK
<1> QED
  BY OwnTypes, CallerStep, <1>1, <1>2

(* One that takes its answer. *)
LEMMA TakeStep ==
  ASSUME IInv, NEW c \in Callers, NEW q \in Requests,
         caller' = [caller EXCEPT ![c] = q],
         TakeAnswer(c), UNCHANGED <<waiting, flight>>,
         answer[c] # None, Knows(q),
         BucketsTypeOK', publicNeg' \in Nat \cup {None}
  PROVE  IInv'
<1>1. waiting[c] = None
  BY OwnTypes DEF Waits
<1>2. waiting' = [waiting EXCEPT ![c] = None]
  BY <1>1 DEF IInv, TypeOK
<1>3. answer' = [answer EXCEPT ![c] = None]
  BY DEF TakeAnswer
<1>4. Waits(q, None, None)
  BY DEF Waits
<1> QED
  BY OwnTypes, CallerStep, <1>2, <1>3, <1>4

---------------------------------------------------------------------------
(* Lanes. *)

(* A lane that is free is started, one that runs is joined. *)
LEMMA JoinLane ==
  ASSUME NEW lanes \in [Lanes -> Flights], NEW lane \in Lanes,
         NEW w \in [Lanes -> Lanes \cup {None}], NEW next,
         \A l \in Lanes : Flies(l, lanes[l], w[l]),
         next = IF lanes[lane].pc = "idle"
                THEN [lanes EXCEPT ![lane] = [NoFlight EXCEPT !.pc = "upstream"]] ELSE lanes
  PROVE  next \in [Lanes -> Flights] /\ \A l \in Lanes : Flies(l, next[l], w[l])
<1>1. [NoFlight EXCEPT !.pc = "upstream"] \in Flights
      /\ [NoFlight EXCEPT !.pc = "upstream"].pc = "upstream"
  BY DEF NoFlight, Flights, FlightPCs
<1> QED
  BY <1>1 DEF Flies

(* A step of caller c that calls a lane. *)
LEMMA AskStep ==
  ASSUME IInv, NEW c \in Callers, NEW q \in Requests, NEW lane \in Lanes,
         caller' = [caller EXCEPT ![c] = q],
         Join(c, lane, flight), Asks(q, lane), Knows(q),
         answer' = [answer EXCEPT ![c] = None],
         BucketsTypeOK', publicNeg' \in Nat \cup {None}
  PROVE  IInv'
<1> DEFINE w == [l \in Lanes |-> waiting[l]]
<1>1. w \in [Lanes -> Lanes \cup {None}] /\ \A l \in Lanes : Flies(l, flight[l], w[l])
  BY DEF IInv, TypeOK, LanesOK
<1>2. flight' \in [Lanes -> Flights] /\ \A l \in Lanes : Flies(l, flight'[l], w[l])
  <2> HIDE DEF w
  <2> QED
    BY <1>1, JoinLane, OwnTypes DEF Join
<1>3. Waits(q, lane, None)
  BY DEF Waits
<1>4. waiting' = [waiting EXCEPT ![c] = lane]
  BY DEF Join
<1> QED
  BY OwnTypes, CallerStep, <1>2, <1>3, <1>4

LEMMA NoAnswer ==
  ASSUME IInv, NEW c \in Callers, answer[c] = None
  PROVE  answer = [answer EXCEPT ![c] = None]
BY DEF IInv, TypeOK

(* A request that asks no lane waits for none and has no answer. *)
LEMMA Alone ==
  ASSUME IInv, NEW c \in Callers, \A l \in Lanes : ~Asks(caller[c], l)
  PROVE  waiting[c] = None /\ answer[c] = None
BY OwnTypes DEF Waits

(* A step of a request that asks no lane, before and after. *)
LEMMA AloneStep ==
  ASSUME IInv, NEW c \in Callers, NEW q \in Requests,
         caller' = [caller EXCEPT ![c] = q],
         UNCHANGED <<waiting, answer, flight>>,
         waiting[c] = None, answer[c] = None, Knows(q),
         BucketsTypeOK', publicNeg' \in Nat \cup {None}
  PROVE  IInv'
<1>1. Waits(q, waiting[c], answer[c])
  BY DEF Waits
<1> QED
  BY <1>1, QuietStep

(* The answer of the one lane a request asks. *)
LEMMA AnswerFrom ==
  ASSUME IInv, NEW c \in Callers, answer[c] # None, NEW lane \in Lanes, Asks(caller[c], lane)
  PROVE  /\ waiting[c] = None /\ answer[c] \in Results(lane)
         /\ answer[c] \in Items \cup Errors
<1>1. PICK l \in Lanes : Asks(caller[c], l) /\ answer[c] \in Results(l)
  BY OwnTypes DEF Waits
<1>2. l = lane
  BY <1>1 DEF Asks
<1> QED
  BY <1>1, <1>2, OwnTypes DEF Waits

---------------------------------------------------------------------------
(* Steps of a caller. *)

(* getData returns i. *)
Returned(q, i) ==
  [q EXCEPT !.pc = IF q.entry \in PreferEntries THEN "prefer" ELSE "done",
            !.got = i, !.item = i]

LEMMA ReturnedKnows ==
  ASSUME NEW q \in Requests, NEW i \in Items \cup {None}, q.entry \in CachedEntries,
         q.cached # None => i # None
  PROVE  /\ Returned(q, i) \in Requests /\ Knows(Returned(q, i))
         /\ \A l \in Lanes : ~Asks(Returned(q, i), l)
<1> DEFINE n == Returned(q, i)
<1>1. n \in Requests
  BY DEF Returned, Requests, CallerPCs
<1>2. /\ n.pc = IF q.entry \in PreferEntries THEN "prefer" ELSE "done"
      /\ n.got = i /\ n.item = i /\ n.cached = q.cached /\ n.entry = q.entry
  BY DEF Returned, Requests
<1> HIDE DEF n
<1>3. Knows(n)
  <2>1. i # None => i.media \in {i.media, "video"}
    OBVIOUS
  <2> QED
    BY <1>2, <2>1 DEF Knows, Kept, AllEntries
<1>4. \A l \in Lanes : ~Asks(n, l)
  BY <1>2 DEF Asks
<1> QED
  BY <1>1, <1>3, <1>4 DEF n

LEMMA GetReturnsIs ==
  ASSUME NEW c \in Callers, NEW i, GetReturns(c, i), IInv
  PROVE  caller' = [caller EXCEPT ![c] = Returned(caller[c], i)]
BY DEF GetReturns, Returned, Prefers, PreferEntries

LEMMA LoadStep == ASSUME IInv, NEW c \in Callers, Load(c) PROVE IInv'
<1> DEFINE q == [caller[c] EXCEPT !.pc = IF Fresh(Post, clock) THEN "enrich" ELSE "negative",
                                  !.cached = data[Post]]
<1>1. data[Post] \in Items \cup {None}
  BY Apart, OwnTypes DEF BucketsTypeOK
<1>2. q \in Requests
  BY <1>1, OwnTypes DEF Requests, CallerPCs
<1>3. /\ q.pc = IF Fresh(Post, clock) THEN "enrich" ELSE "negative"
      /\ q.cached = data[Post] /\ q.got = caller[c].got /\ q.entry = caller[c].entry
      /\ q.item = caller[c].item
  BY OwnTypes DEF Requests
<1>4. caller' = [caller EXCEPT ![c] = q]
  BY DEF Load
<1>5. caller[c].pc = "load"
  BY DEF Load
<1> HIDE DEF q
<1>6. Knows(q)
  BY <1>3, <1>5, OwnTypes DEF Knows, Fresh, Found
<1>7. waiting[c] = None /\ answer[c] = None
  BY <1>5, Alone DEF Asks
<1>8. BucketsTypeOK' /\ publicNeg' \in Nat \cup {None} /\ UNCHANGED <<waiting, answer, flight>>
  BY OwnTypes, SameNowTypes DEF Load
<1> QED
  BY <1>2, <1>4, <1>6, <1>7, <1>8, AloneStep

LEMMA EnrichStep == ASSUME IInv, NEW c \in Callers, Enrich(c) PROVE IInv'
<1>1. caller[c].pc = "enrich" /\ caller[c].cached # None /\ caller[c].entry \in CachedEntries
      /\ caller[c].cached \in Items /\ caller[c].got = None
  BY OwnTypes DEF Enrich, Knows, Requests
<1>2. waiting[c] = None /\ answer[c] = None
  BY <1>1, Alone DEF Asks
<1>0. BucketsTypeOK' /\ publicNeg' \in Nat \cup {None} /\ UNCHANGED <<waiting, answer, flight>>
  BY OwnTypes, SameNowTypes DEF Enrich
<1>3. CASE GetReturns(c, caller[c].cached)
  BY <1>0, <1>1, <1>2, <1>3, GetReturnsIs, ReturnedKnows, AloneStep, OwnTypes
<1>4. ASSUME NEW named \in BOOLEAN,
             caller' = [caller EXCEPT ![c].pc = "saveEnriched",
                          ![c].item = [caller[c].cached EXCEPT !.named = named]]
      PROVE  IInv'
  <2> DEFINE i == [caller[c].cached EXCEPT !.named = named]
             q == [caller[c] EXCEPT !.pc = "saveEnriched", !.item = i]
  <2>1. i \in Items /\ i # None
    BY <1>1, Apart, ResolverAssumption DEF Metadata
  <2>2. q \in Requests
    BY <2>1, OwnTypes DEF Requests, CallerPCs
  <2>3. /\ q.pc = "saveEnriched" /\ q.item = i /\ q.cached = caller[c].cached
        /\ q.got = caller[c].got /\ q.entry = caller[c].entry
    BY OwnTypes DEF Requests
  <2>4. caller' = [caller EXCEPT ![c] = q]
    BY <1>4
  <2> HIDE DEF q, i
  <2>5. Knows(q)
    BY <1>1, <2>1, <2>3 DEF Knows, AllEntries
  <2> QED
    BY <1>0, <1>2, <2>2, <2>4, <2>5, AloneStep
<1> QED
  BY <1>3, <1>4 DEF Enrich

LEMMA SaveEnrichedStep == ASSUME IInv, NEW c \in Callers, SaveEnriched(c) PROVE IInv'
<1>1. caller[c].pc = "saveEnriched" /\ caller[c].item # None
      /\ caller[c].entry \in CachedEntries /\ caller[c].item \in Items
  BY OwnTypes DEF SaveEnriched, Knows, Requests
<1>2. waiting[c] = None /\ answer[c] = None
  BY <1>1, Alone DEF Asks
<1>3. BucketsTypeOK'
  BY <1>1, Apart, OwnTypes, SaveNowTypes, SameNowTypes DEF SaveEnriched, buckets
<1> QED
  BY <1>1, <1>2, <1>3, GetReturnsIs, ReturnedKnows, AloneStep, OwnTypes
     DEF SaveEnriched

LEMMA PCs ==
  {"scrape", "forget", "saveNegative", "prefer", "stats", "crawler", "public", "auth",
   "save", "done"} \subseteq CallerPCs
BY DEF CallerPCs

(* Only the state changes. *)
Moved(q, pc) == [q EXCEPT !.pc = pc]

LEMMA MovedFields ==
  ASSUME NEW q \in Requests, NEW pc \in CallerPCs
  PROVE  /\ Moved(q, pc) \in Requests /\ Moved(q, pc).pc = pc
         /\ Moved(q, pc).entry = q.entry /\ Moved(q, pc).cached = q.cached
         /\ Moved(q, pc).got = q.got /\ Moved(q, pc).item = q.item
BY DEF Requests, Moved

LEMMA MoveIs ==
  ASSUME NEW c \in Callers, NEW pc, Move(c, pc)
  PROVE  caller' = [caller EXCEPT ![c] = Moved(caller[c], pc)]
BY DEF Move, Moved

(* getData goes on to its scrape. *)
LEMMA ToScrape ==
  ASSUME IInv, NEW c \in Callers, caller[c].pc \in {"negative", "forget"},
         Move(c, "scrape"), Join(c, ScrapeLane(c), flight), UNCHANGED answer,
         BucketsTypeOK', publicNeg' \in Nat \cup {None}
  PROVE  IInv'
<1> DEFINE q == Moved(caller[c], "scrape")
<1>1. /\ q \in Requests /\ q.pc = "scrape" /\ q.entry = caller[c].entry
      /\ q.cached = caller[c].cached /\ q.got = caller[c].got /\ q.item = caller[c].item
  BY MovedFields, OwnTypes, PCs
<1>2. caller' = [caller EXCEPT ![c] = q]
  BY MoveIs
<1> HIDE DEF q
<1>3. Knows(q)
  BY <1>1, OwnTypes DEF Knows, AllEntries
<1>4. ScrapeLane(c) \in Lanes /\ Asks(q, ScrapeLane(c))
  BY <1>1 DEF ScrapeLane, Quiet, Lanes, Asks, QuietEntries
<1>5. answer[c] = None
  BY Alone DEF Asks
<1> QED
  BY <1>1, <1>2, <1>3, <1>4, <1>5, AskStep, NoAnswer

LEMMA CheckNegativeStep == ASSUME IInv, NEW c \in Callers, CheckNegative(c) PROVE IInv'
<1>1. caller[c].pc = "negative" /\ caller[c].entry \in CachedEntries
      /\ caller[c].cached \in Items \cup {None} /\ caller[c].got = None
  BY OwnTypes DEF CheckNegative, Knows, Requests
<1>2. waiting[c] = None /\ answer[c] = None
  BY <1>1, Alone DEF Asks
<1>3. BucketsTypeOK'
  BY OwnTypes, SameNowTypes DEF CheckNegative
<1>4. CASE GetReturns(c, caller[c].cached) /\ UNCHANGED <<flight, waiting>>
  BY <1>1, <1>2, <1>3, <1>4, GetReturnsIs, ReturnedKnows, AloneStep, OwnTypes
     DEF CheckNegative
<1>5. CASE Move(c, "forget") /\ UNCHANGED <<flight, waiting>>
  <2> DEFINE q == Moved(caller[c], "forget")
  <2>1. /\ q \in Requests /\ q.pc = "forget" /\ q.entry = caller[c].entry
        /\ q.cached = caller[c].cached /\ q.got = caller[c].got /\ q.item = caller[c].item
    BY MovedFields, OwnTypes, PCs
  <2>2. caller' = [caller EXCEPT ![c] = q]
    BY <1>5, MoveIs
  <2> HIDE DEF q
  <2>3. Knows(q)
    BY <1>1, <2>1 DEF Knows, AllEntries
  <2> QED
    BY <1>2, <1>3, <1>5, <2>1, <2>2, <2>3, AloneStep, OwnTypes DEF CheckNegative
<1>6. CASE Move(c, "scrape") /\ Join(c, ScrapeLane(c), flight)
  BY <1>1, <1>3, <1>6, ToScrape, OwnTypes DEF CheckNegative
<1> QED
  BY <1>4, <1>5, <1>6 DEF CheckNegative

LEMMA ForgetStep == ASSUME IInv, NEW c \in Callers, Forget(c) PROVE IInv'
<1>1. BucketsTypeOK'
  BY Apart, OwnTypes, NegativeNowTypes, SameNowTypes DEF Forget, buckets
<1> QED
  BY <1>1, ToScrape, OwnTypes DEF Forget

LEMMA ScrapedStep == ASSUME IInv, NEW c \in Callers, Scraped(c) PROVE IInv'
<1>1. caller[c].pc = "scrape" /\ caller[c].entry \in CachedEntries
      /\ caller[c].cached \in Items \cup {None} /\ caller[c].got = None
  BY OwnTypes DEF Scraped, Knows, Requests
<1>2. BucketsTypeOK' /\ publicNeg' \in Nat \cup {None}
  BY OwnTypes, SameNowTypes DEF Scraped
<1>3. CASE answer[c] \in Items /\ GetReturns(c, answer[c])
  BY <1>1, <1>2, <1>3, GetReturnsIs, ReturnedKnows, TakeStep, OwnTypes, Apart DEF Scraped
<1>4. CASE caller' = [caller EXCEPT ![c].pc = "saveNegative"]
  <2> DEFINE q == Moved(caller[c], "saveNegative")
  <2>1. /\ q \in Requests /\ q.pc = "saveNegative" /\ q.entry = caller[c].entry
        /\ q.cached = caller[c].cached /\ q.got = caller[c].got /\ q.item = caller[c].item
    BY MovedFields, OwnTypes, PCs
  <2>2. caller' = [caller EXCEPT ![c] = q]
    BY <1>4 DEF Moved
  <2> HIDE DEF q
  <2>3. Knows(q)
    BY <1>1, <2>1 DEF Knows, AllEntries
  <2> QED
    BY <1>2, <2>1, <2>2, <2>3, TakeStep DEF Scraped
<1>5. CASE GetReturns(c, caller[c].cached)
  BY <1>1, <1>2, <1>5, GetReturnsIs, ReturnedKnows, TakeStep, OwnTypes DEF Scraped
<1> QED
  BY <1>3, <1>4, <1>5 DEF Scraped

LEMMA SaveNegativeStep == ASSUME IInv, NEW c \in Callers, SaveNegative(c) PROVE IInv'
<1>1. caller[c].pc = "saveNegative" /\ caller[c].entry \in CachedEntries
      /\ caller[c].cached \in Items \cup {None}
  BY OwnTypes DEF SaveNegative, Knows, Requests
<1>2. waiting[c] = None /\ answer[c] = None
  BY <1>1, Alone DEF Asks
<1>3. BucketsTypeOK'
  BY Apart, OwnTypes, NegativeNowTypes, SameNowTypes DEF SaveNegative, buckets
<1> QED
  BY <1>1, <1>2, <1>3, GetReturnsIs, ReturnedKnows, AloneStep, OwnTypes
     DEF SaveNegative

(* A request in getDataPreferVideo, and where it may go on to. *)
Preferring(q) ==
  /\ q.entry \in PreferEntries /\ q.item = q.got
  /\ q.cached # None => q.got # None

LEMMA PreferringMoves ==
  ASSUME NEW q \in Requests, Preferring(q),
         NEW pc \in {"stats", "crawler", "public", "auth", "done"},
         pc = "auth" => q.entry \notin QuietEntries
  PROVE  Moved(q, pc) \in Requests /\ Knows(Moved(q, pc))
<1>1. /\ Moved(q, pc) \in Requests /\ Moved(q, pc).pc = pc
      /\ Moved(q, pc).entry = q.entry /\ Moved(q, pc).cached = q.cached
      /\ Moved(q, pc).got = q.got /\ Moved(q, pc).item = q.item
  <2>1. pc \in CallerPCs
    BY PCs
  <2> QED
    BY <2>1, MovedFields
<1>2. q.entry \in CachedEntries
  BY DEF Preferring, PreferEntries, CachedEntries
<1> QED
  BY <1>1, <1>2 DEF Knows, Kept, Preferring, AllEntries

LEMMA PublicNegType ==
  ASSUME publicNeg \in Nat \cup {None}, clock \in Nat
  PROVE  /\ DropExpiredPublicNeg \in Nat \cup {None}
         /\ \A r : PublicNegAfter(r) \in Nat \cup {None}
BY ResolverAssumption DEF DropExpiredPublicNeg, PublicNegAfter

LEMMA AsksFields ==
  ASSUME NEW q \in Requests, NEW pc \in CallerPCs, NEW l
  PROVE  /\ pc \in {"stats", "public"} => Asks(Moved(q, pc), "public")
         /\ pc = "crawler" => Asks(Moved(q, pc), "crawler")
         /\ pc = "auth" => Asks(Moved(q, pc), "auth")
         /\ pc = "done" => ~Asks(Moved(q, pc), l)
BY MovedFields DEF Asks

LEMMA PreferStep == ASSUME IInv, NEW c \in Callers, Prefer(c) PROVE IInv'
<1>1. caller[c] \in Requests /\ caller[c].pc = "prefer" /\ Preferring(caller[c])
  BY OwnTypes DEF Prefer, Knows, Preferring
<1>2. BucketsTypeOK' /\ publicNeg' \in Nat \cup {None} /\ UNCHANGED answer
  BY OwnTypes, SameNowTypes, PublicNegType DEF Prefer, BucketsTypeOK
<1>3. waiting[c] = None /\ answer[c] = None /\ answer' = [answer EXCEPT ![c] = None]
  BY <1>1, <1>2, Alone, NoAnswer DEF Asks
<1>4. CASE Move(c, "crawler") /\ Join(c, "crawler", flight)
  BY <1>1, <1>2, <1>3, <1>4, MoveIs, PreferringMoves, AsksFields, PCs, AskStep DEF Lanes
<1>5. CASE Move(c, "stats") /\ Join(c, "public", flight)
  BY <1>1, <1>2, <1>3, <1>5, MoveIs, PreferringMoves, AsksFields, PCs, AskStep DEF Lanes
<1>6. CASE Move(c, "done") /\ UNCHANGED <<flight, waiting>>
  BY <1>1, <1>2, <1>3, <1>6, MoveIs, PreferringMoves, AloneStep
<1> QED
  BY <1>4, <1>5, <1>6 DEF Prefer

LEMMA MergedType ==
  ASSUME NEW r \in Items, NEW src \in Items \cup {None}
  PROVE  LET m == MergeAvailableMetadata(r, src) IN
         /\ m \in Items /\ m.media = r.media
         /\ (r.named => m.named) /\ (r.stats => m.stats)
         /\ src # None => (src.named => m.named) /\ (src.stats => m.stats)
BY ResolverAssumption DEF MergeAvailableMetadata, Metadata

(* The request after SaveMerged.                                           *)
Merged(q, r) ==
  [q EXCEPT !.pc = "save", !.item = MergeAvailableMetadata(r, q.got)]

LEMMA MergedKnows ==
  ASSUME NEW q \in Requests, NEW r \in Items, Knows(q),
         \/ Preferring(q) /\ (q.got # None => HasVideo(r))
         \/ q.entry \in PreserveEntries
         \/ q.got = None /\ q.pc # "idle"
  PROVE  Merged(q, r) \in Requests /\ Knows(Merged(q, r))
<1> DEFINE m == MergeAvailableMetadata(r, q.got)
           n == Merged(q, r)
<1>1. /\ m \in Items /\ m.media = r.media /\ m # None
      /\ q.got # None => (q.got.named => m.named) /\ (q.got.stats => m.stats)
  BY MergedType, Apart DEF Requests
<1>2. /\ n \in Requests /\ n.pc = "save" /\ n.item = m /\ n.got = q.got
      /\ n.cached = q.cached /\ n.entry = q.entry
  <2> HIDE DEF m
  <2> QED
    BY <1>1, PCs DEF Merged, Requests, m
<1> HIDE DEF m, n
<1>3. q.entry \in PreserveEntries => q.entry \notin PreferEntries
  BY DEF PreserveEntries, PreferEntries
<1>4. Knows(n)
  <2>1. n.entry \in AllEntries /\ (n.cached # None => n.entry \in CachedEntries)
    <3>1. q.entry \in PreferEntries \/ q.entry \in PreserveEntries => q.entry \in AllEntries
      BY DEF AllEntries, PreferEntries, PreserveEntries, CachedEntries
    <3> QED
      BY <1>2, <3>1 DEF Knows, Preferring
  <2>2. Kept(n)
    BY <1>1, <1>2, <1>3 DEF Kept, Preferring, HasVideo
  <2> QED
    BY <1>1, <1>2, <2>1, <2>2 DEF Knows
<1> QED
  BY <1>2, <1>4 DEF n

(* Others may see what c has added to the result they share: it is still a *)
(* result of their lane.                                                   *)
LEMMA SaveMergedStep ==
  ASSUME IInv, NEW c \in Callers, answer[c] \in Items, SaveMerged(c, answer[c]),
         waiting[c] = None, Knows(Merged(caller[c], answer[c])),
         Merged(caller[c], answer[c]) \in Requests,
         UNCHANGED <<waiting, flight>>, BucketsTypeOK', publicNeg' \in Nat \cup {None}
  PROVE  IInv'
<1> DEFINE q == Merged(caller[c], answer[c])
           m == MergeAvailableMetadata(answer[c], caller[c].got)
<1>1. m \in Items /\ m.media = answer[c].media
  BY MergedType, OwnTypes DEF Requests
<1>2. caller' = [caller EXCEPT ![c] = q]
  BY DEF SaveMerged, Merged
<1>3. PICK sees \in SUBSET {x \in (Callers \cup Lanes) \ {c} : answer[x] = answer[c]} :
        answer' = [x \in Callers \cup Lanes |->
                     IF x = c THEN None ELSE IF x \in sees THEN m ELSE answer[x]]
  BY DEF SaveMerged
<1> HIDE DEF m, q
<1>4. TypeOK'
  <2>1. answer' \in [Callers \cup Lanes -> Items \cup Errors \cup {None}]
    BY <1>1, <1>3 DEF IInv, TypeOK
  <2> QED
    BY <1>2, <2>1 DEF IInv, TypeOK, Requests, q
<1>5. ASSUME NEW x \in Callers PROVE Waits(caller'[x], waiting'[x], answer'[x]) /\ Knows(caller'[x])
  <2>1. CASE x = c
    BY <1>2, <1>3, <2>1 DEF Waits, IInv, TypeOK, q
  <2>2. CASE x # c
    <3>1. caller'[x] = caller[x] /\ waiting'[x] = waiting[x] /\ Knows(caller[x])
          /\ Waits(caller[x], waiting[x], answer[x])
      BY <1>2, <2>2, OwnTypes DEF IInv, TypeOK
    <3>2. CASE answer'[x] = answer[x]
      BY <3>1, <3>2
    <3>3. CASE answer[x] = answer[c] /\ answer'[x] = m
      <4>1. waiting[x] = None
        BY <3>1, <3>3, Apart DEF Waits
      <4>2. PICK l \in Lanes : Asks(caller[x], l) /\ answer[c] \in Results(l)
        BY <3>1, <3>3, Apart DEF Waits
      <4>3. m \in Results(l)
        BY <1>1, <4>2, Apart DEF Results, HasVideo
      <4> QED
        BY <3>1, <3>3, <4>1, <4>2, <4>3 DEF Waits
    <3> QED
      BY <1>3, <2>2, <3>2, <3>3
  <2> QED
    BY <2>1, <2>2
<1>6. LanesOK'
  BY DEF IInv, LanesOK
<1> QED
  BY <1>4, <1>5, <1>6 DEF IInv, CallersOK

LEMMA StatsRefreshedStep == ASSUME IInv, NEW c \in Callers, StatsRefreshed(c) PROVE IInv'
<1>1. caller[c] \in Requests /\ caller[c].pc = "stats" /\ Preferring(caller[c])
      /\ answer[c] # None /\ Knows(caller[c])
  BY OwnTypes DEF StatsRefreshed, Knows, Preferring
<1>2. BucketsTypeOK' /\ publicNeg' \in Nat \cup {None} /\ UNCHANGED <<waiting, flight>>
  BY OwnTypes, SameNowTypes, PublicNegType DEF StatsRefreshed, BucketsTypeOK
<1>3. waiting[c] = None /\ answer[c] \in Results("public")
  BY <1>1, AnswerFrom DEF Asks, Lanes
<1>4. CASE answer[c] \in Items
  <2>1. HasVideo(answer[c])
    BY <1>3, <1>4, Apart DEF Results
  <2> QED
    BY <1>1, <1>2, <1>3, <1>4, <2>1, MergedKnows, SaveMergedStep DEF StatsRefreshed
<1>5. CASE Move(c, "done") /\ TakeAnswer(c)
  BY <1>1, <1>2, <1>5, MoveIs, PreferringMoves, TakeStep
<1> QED
  BY <1>4, <1>5 DEF StatsRefreshed

(* The step to the auth helper, or the end for a quiet request. *)
LEMMA TryAuthStep ==
  ASSUME IInv, NEW c \in Callers, Preferring(caller[c]), TryAuth(c), TakeAnswer(c),
         answer[c] # None, BucketsTypeOK', publicNeg' \in Nat \cup {None}
  PROVE  IInv'
<1>1. caller[c] \in Requests /\ answer' = [answer EXCEPT ![c] = None]
  BY OwnTypes DEF TakeAnswer
<1>2. CASE Quiet(c) /\ Move(c, "done") /\ UNCHANGED <<flight, waiting>>
  BY <1>1, <1>2, MoveIs, PreferringMoves, TakeStep
<1>3. CASE ~Quiet(c) /\ Move(c, "auth") /\ Join(c, "auth", flight)
  <2>1. caller[c].entry \notin QuietEntries
    BY <1>3 DEF Quiet, QuietEntries
  <2>2. Moved(caller[c], "auth") \in Requests /\ Knows(Moved(caller[c], "auth"))
    BY <1>1, <2>1, PreferringMoves
  <2>3. Asks(Moved(caller[c], "auth"), "auth")
    BY <1>1, AsksFields, PCs
  <2> QED
    BY <1>1, <1>3, <2>2, <2>3, MoveIs, AskStep DEF Lanes
<1> QED
  BY <1>2, <1>3 DEF TryAuth

LEMMA CrawledStep == ASSUME IInv, NEW c \in Callers, Crawled(c) PROVE IInv'
<1>1. caller[c] \in Requests /\ caller[c].pc = "crawler" /\ Preferring(caller[c])
      /\ answer[c] # None /\ Knows(caller[c])
  BY OwnTypes DEF Crawled, Knows, Preferring
<1>2. BucketsTypeOK' /\ publicNeg' \in Nat \cup {None}
  BY OwnTypes, SameNowTypes, PublicNegType DEF Crawled, BucketsTypeOK
<1>3. waiting[c] = None /\ answer[c] \in Results("crawler")
  BY <1>1, AnswerFrom DEF Asks, Lanes
<1>4. CASE answer[c] \in Items
  <2>1. HasVideo(answer[c])
    BY <1>3, <1>4, Apart DEF Results
  <2> QED
    BY <1>1, <1>2, <1>3, <1>4, <2>1, MergedKnows, SaveMergedStep DEF Crawled
<1>5. CASE Move(c, "public") /\ Join(c, "public", flight) /\ TakeAnswer(c)
  <2>1. answer' = [answer EXCEPT ![c] = None]
    BY <1>5 DEF TakeAnswer
  <2>2. Moved(caller[c], "public") \in Requests /\ Knows(Moved(caller[c], "public"))
    BY <1>1, PreferringMoves
  <2>3. Asks(Moved(caller[c], "public"), "public")
    BY <1>1, AsksFields, PCs
  <2> QED
    BY <1>2, <1>5, <2>1, <2>2, <2>3, MoveIs, AskStep DEF Lanes
<1>6. CASE TryAuth(c) /\ TakeAnswer(c)
  BY <1>1, <1>2, <1>6, TryAuthStep
<1> QED
  BY <1>4, <1>5, <1>6 DEF Crawled

LEMMA PublicRefreshedStep == ASSUME IInv, NEW c \in Callers, PublicRefreshed(c) PROVE IInv'
<1>1. caller[c] \in Requests /\ caller[c].pc = "public" /\ Preferring(caller[c])
      /\ answer[c] # None /\ Knows(caller[c])
  BY OwnTypes DEF PublicRefreshed, Knows, Preferring
<1>2. BucketsTypeOK' /\ publicNeg' \in Nat \cup {None}
  BY OwnTypes, SameNowTypes, PublicNegType DEF PublicRefreshed, BucketsTypeOK
<1>3. waiting[c] = None /\ answer[c] \in Results("public")
  BY <1>1, AnswerFrom DEF Asks, Lanes
<1>4. CASE answer[c] \in Items
  <2>1. HasVideo(answer[c])
    BY <1>3, <1>4, Apart DEF Results
  <2> QED
    BY <1>1, <1>2, <1>3, <1>4, <2>1, MergedKnows, SaveMergedStep DEF PublicRefreshed
<1>5. CASE TryAuth(c) /\ TakeAnswer(c)
  BY <1>1, <1>2, <1>5, TryAuthStep
<1> QED
  BY <1>4, <1>5 DEF PublicRefreshed

LEMMA AuthFetchedStep == ASSUME IInv, NEW c \in Callers, AuthFetched(c) PROVE IInv'
<1>1. caller[c] \in Requests /\ caller[c].pc = "auth" /\ Preferring(caller[c])
      /\ answer[c] # None /\ Knows(caller[c])
  BY OwnTypes DEF AuthFetched, Knows, Preferring
<1>2. BucketsTypeOK' /\ publicNeg' \in Nat \cup {None} /\ TakeAnswer(c)
      /\ UNCHANGED <<waiting, flight>>
  BY OwnTypes, SameNowTypes DEF AuthFetched
<1>3. CASE Move(c, "done")
  BY <1>1, <1>2, <1>3, MoveIs, PreferringMoves, TakeStep
<1>4. CASE answer[c] \in Items /\ KeepsPublic(c, answer[c])
  <2> DEFINE q == [caller[c] EXCEPT !.pc = "save", !.item = caller[c].got]
  <2>1. caller[c].got \in Items /\ caller[c].got # None
    BY <1>1, <1>4 DEF KeepsPublic, Requests
  <2>2. /\ q \in Requests /\ q.pc = "save" /\ q.item = caller[c].got
        /\ q.got = caller[c].got /\ q.entry = caller[c].entry /\ q.cached = caller[c].cached
    BY <1>1, <2>1, PCs DEF Requests
  <2>3. caller' = [caller EXCEPT ![c] = q]
    BY <1>4 DEF AuthFetched
  <2> HIDE DEF q
  <2>4. Knows(q)
    BY <1>1, <2>1, <2>2 DEF Knows, Kept, Preferring
  <2> QED
    BY <1>1, <1>2, <2>2, <2>3, <2>4, TakeStep
<1>5. CASE answer[c] \in Items /\ ~KeepsPublic(c, answer[c])
  <2>1. caller[c].got # None => HasVideo(answer[c])
    BY <1>5 DEF KeepsPublic
  <2>2. caller' = [caller EXCEPT ![c] = Merged(caller[c], answer[c])]
    BY <1>5 DEF AuthFetched, Merged
  <2> QED
    BY <1>1, <1>2, <1>5, <2>1, <2>2, MergedKnows, TakeStep
<1> QED
  BY <1>3, <1>4, <1>5 DEF AuthFetched

LEMMA ForcedStep == ASSUME IInv, NEW c \in Callers, Forced(c) PROVE IInv'
<1> DEFINE i == IF answer[c] \in Items THEN answer[c] ELSE None
           q == [caller[c] EXCEPT !.pc = "done", !.item = i]
<1>1. caller[c] \in Requests /\ caller[c].pc = "forced" /\ answer[c] # None /\ Knows(caller[c])
  BY OwnTypes DEF Forced
<1>2. BucketsTypeOK' /\ publicNeg' \in Nat \cup {None} /\ TakeAnswer(c)
      /\ UNCHANGED <<waiting, flight>>
  BY OwnTypes, SameNowTypes DEF Forced
<1>3. /\ q \in Requests /\ q.pc = "done" /\ q.got = caller[c].got
      /\ q.entry = caller[c].entry /\ q.cached = caller[c].cached
  BY <1>1, PCs DEF Requests
<1>4. caller' = [caller EXCEPT ![c] = q]
  BY DEF Forced
<1> HIDE DEF q
<1>5. Knows(q)
  BY <1>1, <1>3 DEF Knows, Kept, CachedEntries
<1> QED
  BY <1>1, <1>2, <1>3, <1>4, <1>5, TakeStep

(* A refresh that failed: it answers with nothing. *)
LEMMA NothingKnows ==
  ASSUME NEW q \in Requests, Knows(q), q.pc \in {"refresh", "preserve", "direct"}
  PROVE  Moved(q, "done") \in Requests /\ Knows(Moved(q, "done"))
<1>1. /\ Moved(q, "done") \in Requests /\ Moved(q, "done").pc = "done"
      /\ Moved(q, "done").entry = q.entry /\ Moved(q, "done").cached = q.cached
      /\ Moved(q, "done").got = q.got /\ Moved(q, "done").item = q.item
  BY MovedFields, PCs
<1> QED
  BY <1>1 DEF Knows, Kept, CachedEntries, PreserveEntries, PreferEntries

LEMMA AuthRefreshedStep == ASSUME IInv, NEW c \in Callers, AuthRefreshed(c) PROVE IInv'
<1>1. caller[c] \in Requests /\ caller[c].pc = "refresh" /\ answer[c] # None /\ Knows(caller[c])
  BY OwnTypes DEF AuthRefreshed
<1>2. BucketsTypeOK' /\ publicNeg' \in Nat \cup {None} /\ TakeAnswer(c)
      /\ UNCHANGED <<waiting, flight>>
  BY OwnTypes, SameNowTypes DEF AuthRefreshed
<1>3. CASE Move(c, "done")
  BY <1>1, <1>2, <1>3, MoveIs, NothingKnows, TakeStep
<1>4. CASE /\ answer[c] \in Items
           /\ caller' = [caller EXCEPT ![c].pc = "save", ![c].item = answer[c]]
  <2> DEFINE q == [caller[c] EXCEPT !.pc = "save", !.item = answer[c]]
  <2>1. /\ q \in Requests /\ q.pc = "save" /\ q.item = answer[c] /\ q.got = caller[c].got
        /\ q.entry = caller[c].entry /\ q.cached = caller[c].cached
    BY <1>1, <1>4, PCs DEF Requests
  <2>2. caller' = [caller EXCEPT ![c] = q]
    BY <1>4
  <2> HIDE DEF q
  <2>3. Knows(q)
    BY <1>1, <2>1 DEF Knows, Kept, AllEntries
  <2> QED
    BY <1>1, <1>2, <2>1, <2>2, <2>3, TakeStep
<1> QED
  BY <1>3, <1>4 DEF AuthRefreshed

LEMMA PreservedStep == ASSUME IInv, NEW c \in Callers, Preserved(c) PROVE IInv'
<1>1. caller[c] \in Requests /\ caller[c].pc = "preserve" /\ answer[c] # None /\ Knows(caller[c])
      /\ caller[c].entry \in PreserveEntries
  BY OwnTypes DEF Preserved, Knows
<1>2. BucketsTypeOK' /\ publicNeg' \in Nat \cup {None} /\ UNCHANGED <<waiting, flight>>
  BY OwnTypes, SameNowTypes, PublicNegType DEF Preserved, BucketsTypeOK
<1>3. waiting[c] = None
  BY <1>1, AnswerFrom DEF Asks, Lanes
<1>4. CASE answer[c] \in Items
  BY <1>1, <1>2, <1>3, <1>4, MergedKnows, SaveMergedStep DEF Preserved
<1>5. CASE Move(c, "done") /\ TakeAnswer(c)
  BY <1>1, <1>2, <1>5, MoveIs, NothingKnows, TakeStep
<1> QED
  BY <1>4, <1>5 DEF Preserved

LEMMA DirectScrapedStep == ASSUME IInv, NEW c \in Callers, DirectScraped(c) PROVE IInv'
<1>1. caller[c] \in Requests /\ caller[c].pc = "direct" /\ Knows(caller[c])
      /\ caller[c].entry \in PreserveEntries
  BY OwnTypes DEF DirectScraped, Knows
<1>2. BucketsTypeOK' /\ publicNeg' \in Nat \cup {None} /\ UNCHANGED <<waiting, answer, flight>>
  BY OwnTypes, SameNowTypes DEF DirectScraped
<1>3. waiting[c] = None /\ answer[c] = None
  BY <1>1, Alone DEF Asks
<1>4. ASSUME NEW i \in PublicItems,
             caller' = [caller EXCEPT ![c].pc = "save",
                          ![c].item = MergeAvailableMetadata(i, caller[c].got)]
      PROVE  IInv'
  <2>1. i \in Items
    BY ResolverAssumption
  <2>2. caller' = [caller EXCEPT ![c] = Merged(caller[c], i)]
    BY <1>4 DEF Merged
  <2> QED
    BY <1>1, <1>2, <1>3, <2>1, <2>2, MergedKnows, AloneStep
<1>5. CASE Move(c, "done")
  BY <1>1, <1>2, <1>3, <1>5, MoveIs, NothingKnows, AloneStep
<1> QED
  BY <1>4, <1>5 DEF DirectScraped

LEMMA SaveStep == ASSUME IInv, NEW c \in Callers, Save(c) PROVE IInv'
<1>1. caller[c] \in Requests /\ caller[c].pc = "save" /\ Knows(caller[c])
  BY OwnTypes DEF Save
<1>2. caller[c].item \in Items /\ Kept(caller[c])
  BY <1>1 DEF Knows, Requests
<1>3. BucketsTypeOK' /\ publicNeg' \in Nat \cup {None} /\ UNCHANGED <<waiting, answer, flight>>
  BY <1>2, Apart, OwnTypes, SaveNowTypes, SameNowTypes DEF Save, buckets
<1>4. waiting[c] = None /\ answer[c] = None
  BY <1>1, Alone DEF Asks
<1>5. caller' = [caller EXCEPT ![c] = Moved(caller[c], "done")]
  BY MoveIs DEF Save
<1>6. Moved(caller[c], "done") \in Requests /\ Knows(Moved(caller[c], "done"))
  <2> DEFINE q == Moved(caller[c], "done")
  <2>1. /\ q \in Requests /\ q.pc = "done" /\ q.entry = caller[c].entry
        /\ q.cached = caller[c].cached /\ q.got = caller[c].got /\ q.item = caller[c].item
    BY <1>1, MovedFields, PCs
  <2> HIDE DEF q
  <2>2. Kept(q)
    BY <1>2, <2>1 DEF Kept
  <2>3. Knows(q)
    BY <1>1, <2>1, <2>2 DEF Knows
  <2> QED
    BY <2>1, <2>3 DEF q
<1> QED
  BY <1>3, <1>4, <1>5, <1>6, AloneStep

LEMMA ReplyStep == ASSUME IInv, NEW c \in Callers, Reply(c) PROVE IInv'
<1>1. waiting[c] = None /\ answer[c] = None
  BY Alone DEF Asks, Reply
<1>2. BucketsTypeOK' /\ publicNeg' \in Nat \cup {None} /\ UNCHANGED <<waiting, answer, flight>>
  BY OwnTypes, SameNowTypes DEF Reply
<1> QED
  BY <1>1, <1>2, NoRequestOK, AloneStep DEF Reply

(* A request as its function begins with it. *)
Begun(e, pc, previous) ==
  [NoRequest EXCEPT !.pc = pc, !.entry = e, !.got = previous]

LEMMA BegunKnows ==
  ASSUME NEW e \in AllEntries, NEW previous \in Items \cup {None},
         previous = None <=> e \notin PreserveEntries,
         NEW pc \in {"load", "forced", "refresh", "preserve", "done", "direct"},
         pc = "load" => e \in CachedEntries,
         pc \in {"forced", "refresh"} =>
           e \in {"RefreshDataPreferVideo", "RefreshDataFromAuthHelper"},
         pc \in {"preserve", "direct", "done"} => e \in PreserveEntries
  PROVE  Begun(e, pc, previous) \in Requests /\ Knows(Begun(e, pc, previous))
<1> DEFINE q == Begun(e, pc, previous)
<1>1. pc \in CallerPCs
  BY DEF CallerPCs
<1>2. /\ q \in Requests /\ q.pc = pc /\ q.entry = e /\ q.cached = None
      /\ q.got = previous /\ q.item = None
  <2>1. /\ NoRequest \in Requests /\ NoRequest.cached = None /\ NoRequest.item = None
    BY NoRequestOK DEF NoRequest
  <2> QED
    BY <1>1, <2>1 DEF Begun, Requests
<1> HIDE DEF q
<1>3. e \in PreserveEntries => e \notin PreferEntries /\ e \notin CachedEntries
  BY DEF PreserveEntries, PreferEntries, CachedEntries
<1>4. e \in CachedEntries => e \notin PreserveEntries
  BY DEF PreserveEntries, CachedEntries
<1>5. e \in {"RefreshDataPreferVideo", "RefreshDataFromAuthHelper"} => e \notin PreserveEntries
  BY DEF PreserveEntries
<1>6. Knows(q)
  BY <1>2, <1>3, <1>4, <1>5 DEF Knows, Kept
<1> QED
  BY <1>2, <1>6 DEF q

LEMMA StartStep == ASSUME IInv, NEW c \in Callers, Start(c) PROVE IInv'
<1>1. caller[c] = NoRequest
  BY OwnTypes DEF Start, Knows
<1>2. waiting[c] = None /\ answer[c] = None /\ answer' = [answer EXCEPT ![c] = None]
      /\ UNCHANGED answer
  BY <1>1, Alone, NoAnswer DEF Asks, Start, NoRequest
<1>3. PICK e \in Entries, previous \in PublicItems \cup AuthItems \cup {None} :
        LET Begin(pc) == caller' = [caller EXCEPT ![c].pc = pc, ![c].entry = e,
                                                  ![c].got = previous]
        IN /\ previous = None <=> e \notin PreserveEntries
           /\ \/ /\ e \in CachedEntries
                 /\ Begin("load") /\ UNCHANGED <<flight, waiting>>
              \/ /\ e = "RefreshDataPreferVideo"
                 /\ Begin("forced") /\ Join(c, "forced", flight)
              \/ /\ e = "RefreshDataFromAuthHelper"
                 /\ Begin("refresh") /\ Join(c, "auth", flight)
              \/ /\ e = "RefreshVideoFromPublicGraphQLPreserveMetadata"
                 /\ IF ShouldTryPublic
                      THEN Begin("preserve") /\ Join(c, "public", flight)
                      ELSE Begin("done") /\ UNCHANGED <<flight, waiting>>
              \/ /\ e = "RefreshDataNoAuthPreserveMetadata"
                 /\ Begin("direct") /\ UNCHANGED <<flight, waiting>>
           /\ publicNeg' = IF e = "RefreshVideoFromPublicGraphQLPreserveMetadata"
                             THEN DropExpiredPublicNeg ELSE publicNeg
  BY DEF Start
<1>4. e \in AllEntries /\ previous \in Items \cup {None}
  BY ResolverAssumption
<1>5. BucketsTypeOK' /\ publicNeg' \in Nat \cup {None}
  <2>1. clock \in Nat
    BY OwnTypes DEF BucketsTypeOK
  <2> QED
    BY <1>3, <2>1, OwnTypes, SameNowTypes, PublicNegType DEF Start
<1>6. ASSUME NEW pc,
             caller' = [caller EXCEPT ![c].pc = pc, ![c].entry = e, ![c].got = previous]
      PROVE  caller' = [caller EXCEPT ![c] = Begun(e, pc, previous)]
  BY <1>1, <1>6 DEF Begun
<1>7. CASE /\ e \in CachedEntries
           /\ caller' = [caller EXCEPT ![c].pc = "load", ![c].entry = e, ![c].got = previous]
           /\ UNCHANGED <<flight, waiting>>
  <2>1. Begun(e, "load", previous) \in Requests /\ Knows(Begun(e, "load", previous))
    BY <1>3, <1>4, <1>7, BegunKnows
  <2> QED
    BY <1>2, <1>5, <1>6, <1>7, <2>1, AloneStep
<1>8. CASE /\ e = "RefreshDataPreferVideo"
           /\ caller' = [caller EXCEPT ![c].pc = "forced", ![c].entry = e, ![c].got = previous]
           /\ Join(c, "forced", flight)
  <2>1. Begun(e, "forced", previous) \in Requests /\ Knows(Begun(e, "forced", previous))
    BY <1>3, <1>4, <1>8, BegunKnows
  <2>2. Asks(Begun(e, "forced", previous), "forced") /\ "forced" \in Lanes
    BY DEF Asks, Begun, NoRequest, Lanes
  <2> QED
    BY <1>2, <1>5, <1>6, <1>8, <2>1, <2>2, AskStep
<1>9. CASE /\ e = "RefreshDataFromAuthHelper"
           /\ caller' = [caller EXCEPT ![c].pc = "refresh", ![c].entry = e, ![c].got = previous]
           /\ Join(c, "auth", flight)
  <2>1. Begun(e, "refresh", previous) \in Requests /\ Knows(Begun(e, "refresh", previous))
    BY <1>3, <1>4, <1>9, BegunKnows
  <2>2. Asks(Begun(e, "refresh", previous), "auth") /\ "auth" \in Lanes
    BY DEF Asks, Begun, NoRequest, Lanes
  <2> QED
    BY <1>2, <1>5, <1>6, <1>9, <2>1, <2>2, AskStep
<1>10. CASE /\ e = "RefreshVideoFromPublicGraphQLPreserveMetadata"
            /\ caller' = [caller EXCEPT ![c].pc = "preserve", ![c].entry = e,
                                        ![c].got = previous]
            /\ Join(c, "public", flight)
  <2>1. e \in PreserveEntries
    BY <1>10 DEF PreserveEntries
  <2>2. Begun(e, "preserve", previous) \in Requests /\ Knows(Begun(e, "preserve", previous))
    BY <1>3, <1>4, <2>1, BegunKnows
  <2>3. Asks(Begun(e, "preserve", previous), "public") /\ "public" \in Lanes
    BY DEF Asks, Begun, NoRequest, Lanes
  <2> QED
    BY <1>2, <1>5, <1>6, <1>10, <2>2, <2>3, AskStep
<1>11. ASSUME NEW pc \in {"done", "direct"}, e \in PreserveEntries,
              caller' = [caller EXCEPT ![c].pc = pc, ![c].entry = e, ![c].got = previous],
              UNCHANGED <<flight, waiting>>
       PROVE  IInv'
  <2>1. Begun(e, pc, previous) \in Requests /\ Knows(Begun(e, pc, previous))
    BY <1>3, <1>4, <1>11, BegunKnows
  <2> QED
    BY <1>2, <1>5, <1>6, <1>11, <2>1, AloneStep
<1> QED
  BY <1>3, <1>7, <1>8, <1>9, <1>10, <1>11 DEF PreserveEntries

---------------------------------------------------------------------------
(* Steps of a lane. *)

LEMMA LaneStep ==
  ASSUME IInv, NEW l \in Lanes, NEW w \in Lanes \cup {None},
         NEW r \in Items \cup Errors \cup {None},
         UNCHANGED caller,
         waiting' = [waiting EXCEPT ![l] = w], answer' = [answer EXCEPT ![l] = r],
         flight' \in [Lanes -> Flights],
         \A k \in Lanes : Flies(k, flight'[k], waiting'[k]),
         BucketsTypeOK', publicNeg' \in Nat \cup {None}
  PROVE  IInv'
<1>1. TypeOK'
  BY DEF IInv, TypeOK, Flights
<1>2. CallersOK'
  <2> SUFFICES ASSUME NEW x \in Callers
               PROVE  Waits(caller'[x], waiting'[x], answer'[x]) /\ Knows(caller'[x])
    BY DEF CallersOK
  <2>1. waiting'[x] = waiting[x] /\ answer'[x] = answer[x]
    BY Apart DEF IInv, TypeOK
  <2> QED
    BY <2>1, OwnTypes
<1> QED
  BY <1>1, <1>2 DEF IInv, LanesOK

LEMMA LaneTypes ==
  ASSUME IInv, NEW l \in Lanes
  PROVE  /\ flight \in [Lanes -> Flights] /\ flight[l] \in Flights
         /\ waiting[l] \in Lanes \cup {None}
         /\ answer[l] \in Items \cup Errors \cup {None}
         /\ \A k \in Lanes : Flies(k, flight[k], waiting[k])
         /\ BucketsTypeOK /\ publicNeg \in Nat \cup {None}
BY DEF IInv, TypeOK, LanesOK, Flights

(* The lane keeps its answer or takes it. *)
LEMMA LaneAnswer ==
  ASSUME IInv, NEW l \in Lanes, UNCHANGED answer \/ TakeAnswer(l)
  PROVE  \E r \in Items \cup Errors \cup {None} : answer' = [answer EXCEPT ![l] = r]
BY DEF IInv, TypeOK, TakeAnswer

(* A lane that calls none has come to a new state f. *)
LEMMA FlightStep ==
  ASSUME IInv, NEW l \in Lanes, NEW f \in Flights, Flies(l, f, waiting[l]),
         flight' = [flight EXCEPT ![l] = f],
         UNCHANGED <<caller, waiting>>, UNCHANGED answer \/ TakeAnswer(l),
         BucketsTypeOK', publicNeg' \in Nat \cup {None}
  PROVE  IInv'
<1>1. PICK r \in Items \cup Errors \cup {None} : answer' = [answer EXCEPT ![l] = r]
  BY LaneAnswer
<1>2. waiting' = [waiting EXCEPT ![l] = waiting[l]]
  BY DEF IInv, TypeOK
<1>3. flight' \in [Lanes -> Flights]
  BY LaneTypes
<1>4. \A k \in Lanes : Flies(k, flight'[k], waiting'[k])
  BY LaneTypes
<1> QED
  BY <1>1, <1>2, <1>3, <1>4, LaneTypes, LaneStep

LEMMA ToSaveStep ==
  ASSUME IInv, NEW l \in Lanes, NEW i \in Items, i \in Results(l), ToSave(l, i),
         UNCHANGED <<caller, waiting>>, UNCHANGED answer \/ TakeAnswer(l),
         BucketsTypeOK', publicNeg' \in Nat \cup {None}
  PROVE  IInv'
<1> DEFINE f == [pc |-> "save", result |-> i]
<1>1. f \in Flights /\ Flies(l, f, waiting[l])
  BY LaneTypes DEF Flights, FlightPCs, Flies
<1> QED
  BY <1>1, FlightStep DEF ToSave

LEMMA ToReturnStep ==
  ASSUME IInv, NEW l \in Lanes, NEW r \in Results(l), ToReturn(l, r),
         UNCHANGED <<caller, waiting>>, UNCHANGED answer \/ TakeAnswer(l),
         BucketsTypeOK', publicNeg' \in Nat \cup {None}
  PROVE  IInv'
<1> DEFINE f == [flight[l] EXCEPT !.pc = "return", !.result = r]
<1>1. r \in Items \cup Errors
  BY DEF Results
<1>2. f \in Flights /\ f.pc = "return" /\ f.result = r
  BY <1>1, LaneTypes DEF Flights, FlightPCs
<1>3. flight' = [flight EXCEPT ![l] = f]
  BY DEF ToReturn
<1> HIDE DEF f
<1>4. Flies(l, f, waiting[l])
  BY <1>2, LaneTypes DEF Flies
<1> QED
  BY <1>2, <1>3, <1>4, FlightStep

LEMMA CallsStep ==
  ASSUME IInv, NEW l \in {"scrape", "forced"}, NEW lane \in {"public", "auth"},
         Calls(l, lane), UNCHANGED caller, UNCHANGED answer \/ TakeAnswer(l),
         BucketsTypeOK', publicNeg' \in Nat \cup {None}
  PROVE  IInv'
<1>1. l \in Lanes /\ lane \in Lanes
  BY DEF Lanes
<1>2. PICK r \in Items \cup Errors \cup {None} : answer' = [answer EXCEPT ![l] = r]
  BY <1>1, LaneAnswer
<1>3. waiting' = [waiting EXCEPT ![l] = lane]
  BY DEF Calls, Join
<1> DEFINE f == [flight[l] EXCEPT !.pc = lane]
           lanes == [flight EXCEPT ![l] = f]
           w == [k \in Lanes |-> waiting'[k]]
<1>4. f \in Flights /\ f.pc = lane
  BY <1>1, LaneTypes DEF Flights, FlightPCs
<1>5. lanes = [flight EXCEPT ![l].pc = lane]
  OBVIOUS
<1> HIDE DEF f
<1>6. w \in [Lanes -> Lanes \cup {None}] /\ lanes \in [Lanes -> Flights]
  BY <1>1, <1>3, <1>4, LaneTypes DEF IInv, TypeOK
<1>7. ASSUME NEW k \in Lanes PROVE Flies(k, lanes[k], w[k])
  <2>1. CASE k = l
    BY <1>1, <1>4, <2>1, LaneTypes DEF Flies
  <2>2. CASE k # l
    <3>1. lanes[k] = flight[k] /\ w[k] = waiting[k]
      BY <1>1, <1>3, <2>2, LaneTypes DEF IInv, TypeOK
    <3> QED
      BY <3>1, LaneTypes
  <2> QED
    BY <2>1, <2>2
<1>8. flight' = IF lanes[lane].pc = "idle"
                THEN [lanes EXCEPT ![lane] = [NoFlight EXCEPT !.pc = "upstream"]] ELSE lanes
  BY <1>5 DEF Calls, Join
<1> HIDE DEF lanes
<1>9. flight' \in [Lanes -> Flights] /\ \A k \in Lanes : Flies(k, flight'[k], w[k])
  <2> HIDE DEF w
  <2> QED
    BY <1>1, <1>6, <1>7, <1>8, JoinLane
<1>10. \A k \in Lanes : Flies(k, flight'[k], waiting'[k])
  BY <1>9
<1> QED
  BY <1>1, <1>2, <1>3, <1>9, <1>10, LaneStep

LEMMA LaneResults ==
  ASSUME NEW l \in Lanes
  PROVE  /\ Errors \subseteq Results(l)
         /\ \A i \in PublicItems : HasVideo(i) => i \in Results(l)
         /\ l \notin {"public", "crawler", "auth"} => Results(l) = Items \cup Errors
         /\ l = "auth" => AuthItems \subseteq Results(l)
BY ResolverAssumption DEF Results, HasVideo

LEMMA ScrapeStep == ASSUME IInv, NEW l \in Lanes, Scrape(l) PROVE IInv'
<1>1. BucketsTypeOK' /\ publicNeg' \in Nat \cup {None} /\ UNCHANGED <<caller, answer>>
  BY LaneTypes, SameNowTypes DEF Scrape
<1>2. l \in {"scrape", "quiet"} /\ Results(l) = Items \cup Errors
  BY LaneResults DEF Scrape
<1>3. ASSUME NEW i \in PublicItems, ToSave(l, i), UNCHANGED waiting PROVE IInv'
  BY <1>1, <1>2, <1>3, ToSaveStep, ResolverAssumption
<1>4. CASE l = "scrape" /\ Calls(l, "auth")
  BY <1>1, <1>4, CallsStep
<1>5. ASSUME NEW e \in Errors, ToReturn(l, e), UNCHANGED waiting PROVE IInv'
  BY <1>1, <1>2, <1>5, ToReturnStep
<1> QED
  BY <1>3, <1>4, <1>5 DEF Scrape

LEMMA ScrapeAuthStep == ASSUME IInv, NEW l \in Lanes, ScrapeAuth(l) PROVE IInv'
<1>1. /\ BucketsTypeOK' /\ publicNeg' \in Nat \cup {None} /\ UNCHANGED <<caller, waiting>>
      /\ TakeAnswer(l)
  BY LaneTypes, SameNowTypes DEF ScrapeAuth
<1>2. l = "scrape" /\ Results(l) = Items \cup Errors
  BY LaneResults DEF ScrapeAuth
<1>3. CASE answer[l] \in Items /\ ToSave(l, answer[l])
  BY <1>1, <1>2, <1>3, ToSaveStep
<1>4. ASSUME NEW e \in Errors, ToReturn(l, e) PROVE IInv'
  BY <1>1, <1>2, <1>4, ToReturnStep
<1> QED
  BY <1>3, <1>4 DEF ScrapeAuth

LEMMA RefreshVideoStep ==
  ASSUME IInv, NEW l \in Lanes, RefreshVideo(l) \/ CrawlPage(l)
  PROVE  IInv'
<1>1. /\ BucketsTypeOK' /\ publicNeg' \in Nat \cup {None}
      /\ UNCHANGED <<caller, waiting, answer>>
  BY LaneTypes, SameNowTypes DEF RefreshVideo, CrawlPage
<1>2. ASSUME NEW i \in PublicItems, HasVideo(i), ToSave(l, i) PROVE IInv'
  <2>1. i \in Items /\ i \in Results(l)
    BY <1>2, LaneResults, ResolverAssumption
  <2> QED
    BY <1>1, <1>2, <2>1, ToSaveStep
<1>3. ASSUME NEW e \in Errors, ToReturn(l, e) PROVE IInv'
  BY <1>1, <1>3, LaneResults, ToReturnStep
<1> QED
  BY <1>2, <1>3 DEF RefreshVideo, CrawlPage

LEMMA AskAuthHelperStep == ASSUME IInv, NEW l \in Lanes, AskAuthHelper(l) PROVE IInv'
<1>1. /\ BucketsTypeOK' /\ publicNeg' \in Nat \cup {None}
      /\ UNCHANGED <<caller, waiting, answer>>
  BY LaneTypes, SameNowTypes DEF AskAuthHelper
<1>2. PICK r \in AuthItems \cup Errors : ToReturn(l, r)
  BY DEF AskAuthHelper
<1>3. r \in Results(l)
  BY LaneResults DEF AskAuthHelper
<1> QED
  BY <1>1, <1>2, <1>3, ToReturnStep

LEMMA ForcedScrapeStep == ASSUME IInv, NEW l \in Lanes, ForcedScrape(l) PROVE IInv'
<1>1. BucketsTypeOK' /\ UNCHANGED <<caller, answer>> /\ clock \in Nat
  BY LaneTypes, SameNowTypes DEF ForcedScrape, BucketsTypeOK
<1>2. l = "forced"
  BY DEF ForcedScrape
<1>3. ASSUME NEW i \in PublicItems, HasVideo(i), ToSave(l, i), UNCHANGED <<waiting, publicNeg>>
      PROVE  IInv'
  <2>1. i \in Items /\ i \in Results(l) /\ publicNeg' \in Nat \cup {None}
    BY <1>3, LaneTypes, LaneResults, ResolverAssumption
  <2> QED
    BY <1>1, <1>3, <2>1, ToSaveStep
<1>4. CASE /\ Calls(l, IF ShouldTryPublic THEN "public" ELSE "auth")
           /\ publicNeg' = DropExpiredPublicNeg
  <2>1. publicNeg' \in Nat \cup {None}
    BY <1>1, <1>4, LaneTypes, PublicNegType
  <2>2. (IF ShouldTryPublic THEN "public" ELSE "auth") \in {"public", "auth"}
    OBVIOUS
  <2> QED
    BY <1>1, <1>2, <1>4, <2>1, <2>2, CallsStep
<1> QED
  BY <1>3, <1>4 DEF ForcedScrape

LEMMA ForcedPublicStep == ASSUME IInv, NEW l \in Lanes, ForcedPublic(l) PROVE IInv'
<1>1. /\ BucketsTypeOK' /\ publicNeg' \in Nat \cup {None} /\ UNCHANGED caller
      /\ TakeAnswer(l)
  BY LaneTypes, SameNowTypes, PublicNegType DEF ForcedPublic, BucketsTypeOK
<1>2. l = "forced" /\ Results(l) = Items \cup Errors
  BY LaneResults DEF ForcedPublic
<1>3. CASE answer[l] \in Items /\ ToReturn(l, answer[l]) /\ UNCHANGED waiting
  BY <1>1, <1>2, <1>3, ToReturnStep
<1>4. CASE Calls(l, "auth")
  BY <1>1, <1>2, <1>4, CallsStep
<1> QED
  BY <1>3, <1>4 DEF ForcedPublic

LEMMA ForcedAuthStep == ASSUME IInv, NEW l \in Lanes, ForcedAuth(l) PROVE IInv'
<1>1. /\ BucketsTypeOK' /\ publicNeg' \in Nat \cup {None} /\ UNCHANGED <<caller, waiting>>
      /\ TakeAnswer(l)
  BY LaneTypes, SameNowTypes DEF ForcedAuth
<1>2. /\ l = "forced" /\ Results(l) = Items \cup Errors
      /\ answer[l] \in Items \cup Errors
  BY LaneTypes, LaneResults DEF ForcedAuth
<1>3. CASE answer[l] \in Items /\ ToSave(l, answer[l])
  BY <1>1, <1>2, <1>3, ToSaveStep
<1>4. CASE ToReturn(l, answer[l])
  BY <1>1, <1>2, <1>4, ToReturnStep
<1> QED
  BY <1>3, <1>4 DEF ForcedAuth

LEMMA SaveResultStep == ASSUME IInv, NEW l \in Lanes, SaveResult(l) PROVE IInv'
<1>1. flight[l].result \in Items /\ flight[l].result \in Results(l)
  BY LaneTypes DEF SaveResult, Flies
<1>2. /\ BucketsTypeOK' /\ publicNeg' \in Nat \cup {None}
      /\ UNCHANGED <<caller, waiting, answer>>
  BY <1>1, Apart, LaneTypes, SaveNowTypes, SameNowTypes DEF SaveResult, buckets
<1>3. ASSUME NEW saved \in BOOLEAN PROVE ResultAfterSave(l, saved) \in Results(l)
  BY <1>1, LaneResults DEF ResultAfterSave, Errors
<1> QED
  BY <1>2, <1>3, ToReturnStep DEF SaveResult

(* The result is handed to everybody who waits for the lane. *)
LEMMA ReturnStep == ASSUME IInv, NEW l \in Lanes, Return(l) PROVE IInv'
<1> DEFINE r == flight[l].result
<1>1. r \in Results(l) /\ r # None /\ r \in Items \cup Errors
  <2>1. r \in Results(l)
    BY LaneTypes DEF Return, Flies
  <2> QED
    BY <2>1, Apart DEF Results
<1>2. /\ flight' = [flight EXCEPT ![l] = NoFlight]
      /\ waiting' = [x \in Callers \cup Lanes |->
                       IF waiting[x] = l THEN None ELSE waiting[x]]
      /\ answer' = [x \in Callers \cup Lanes |->
                      IF waiting[x] = l THEN r ELSE answer[x]]
      /\ UNCHANGED caller
  BY DEF Return, Complete, Waiters
<1> HIDE DEF r
<1>3. BucketsTypeOK' /\ publicNeg' \in Nat \cup {None}
  BY LaneTypes, SameNowTypes DEF Return
<1>4. TypeOK'
  <2>1. waiting' \in [Callers \cup Lanes -> Lanes \cup {None}]
    BY <1>2 DEF IInv, TypeOK
  <2>2. answer' \in [Callers \cup Lanes -> Items \cup Errors \cup {None}]
    BY <1>1, <1>2 DEF IInv, TypeOK
  <2>3. flight' \in [Lanes -> Flights]
    BY <1>2, LaneTypes DEF NoFlight, Flights, FlightPCs
  <2> QED
    BY <1>2, <1>3, <2>1, <2>2, <2>3 DEF IInv, TypeOK, Flights
<1>5. ASSUME NEW x \in Callers
      PROVE  Waits(caller'[x], waiting'[x], answer'[x]) /\ Knows(caller'[x])
  <2>1. Waits(caller[x], waiting[x], answer[x]) /\ Knows(caller[x]) /\ caller'[x] = caller[x]
    BY <1>2, OwnTypes
  <2>2. CASE waiting[x] = l
    <3>1. Asks(caller[x], l)
      BY <2>1, <2>2, Apart DEF Waits
    <3>2. waiting'[x] = None /\ answer'[x] = r
      BY <1>2, <2>2
    <3> QED
      BY <1>1, <2>1, <3>1, <3>2 DEF Waits
  <2>3. CASE waiting[x] # l
    BY <1>2, <2>1, <2>3
  <2> QED
    BY <2>2, <2>3
<1>6. ASSUME NEW k \in Lanes PROVE Flies(k, flight'[k], waiting'[k])
  <2>1. waiting'[k] = waiting[k] \/ waiting'[k] = None
    BY <1>2
  <2>2. CASE k = l
    <3>1. flight'[k] = NoFlight
      BY <1>2, <2>2, LaneTypes
    <3>2. NoFlight.pc = "idle"
      BY DEF NoFlight
    <3> QED
      BY <2>1, <3>1, <3>2, LaneTypes DEF Flies
  <2>3. CASE k # l
    <3>1. flight'[k] = flight[k]
      BY <1>2, <2>3, LaneTypes
    <3> QED
      BY <2>1, <3>1, LaneTypes DEF Flies
  <2> QED
    BY <2>2, <2>3
<1> QED
  BY <1>4, <1>5, <1>6 DEF IInv, CallersOK, LanesOK

LEMMA FlyStep == ASSUME IInv, NEW l \in Lanes, Fly(l) PROVE IInv'
BY ScrapeStep, ScrapeAuthStep, RefreshVideoStep, AskAuthHelperStep, ForcedScrapeStep,
   ForcedPublicStep, ForcedAuthStep, SaveResultStep, ReturnStep DEF Fly

LEMMA WorkStep == ASSUME IInv, NEW c \in Callers, Work(c) PROVE IInv'
BY LoadStep, EnrichStep, SaveEnrichedStep, CheckNegativeStep, ForgetStep, ScrapedStep,
   SaveNegativeStep, PreferStep, StatsRefreshedStep, CrawledStep, PublicRefreshedStep,
   AuthFetchedStep, ForcedStep, AuthRefreshedStep, PreservedStep, DirectScrapedStep,
   SaveStep DEF Work

(* Eviction and the clock touch no request and no lane. *)
LEMMA OutsideStep ==
  ASSUME IInv, BucketsTypeOK', UNCHANGED local
  PROVE  IInv'
BY DEF IInv, TypeOK, CallersOK, LanesOK, local

LEMMA InitIInv == Init => IInv
<1> SUFFICES ASSUME Init PROVE IInv
  OBVIOUS
<1>1. BucketsTypeOK
  <2>1. ttl \subseteq TtlEntry
    <3>1. ttl \in LegacyTtl \/ ttl = {}
      BY DEF Init, BucketsInit
    <3> QED
      BY <3>1, BucketsAssumption DEF LegacyTtl, TtlEntry
  <2> QED
    BY <2>1 DEF Init, BucketsInit, BucketsTypeOK, NoRows
<1>2. NoFlight \in Flights /\ NoFlight.pc = "idle"
  BY DEF NoFlight, Flights, FlightPCs
<1>3. TypeOK
  BY <1>1, <1>2, NoRequestOK DEF Init, TypeOK, Requests, Flights
<1>4. CallersOK
  BY NoRequestOK DEF Init, CallersOK
<1>5. LanesOK
  BY <1>2 DEF Init, LanesOK, Flies
<1> QED
  BY <1>3, <1>4, <1>5 DEF IInv

LEMMA NextIInv == IInv /\ [Next]_vars => IInv'
<1> SUFFICES ASSUME IInv, [Next]_vars PROVE IInv'
  OBVIOUS
<1>1. ASSUME NEW c \in Callers, Start(c) \/ Work(c) \/ Reply(c) PROVE IInv'
  BY <1>1, StartStep, WorkStep, ReplyStep
<1>2. ASSUME NEW l \in Lanes, Fly(l) PROVE IInv'
  BY <1>2, FlyStep
<1>3. CASE Evict
  BY <1>3, EvictTypes, OutsideStep DEF Evict, local, IInv, TypeOK
<1>4. CASE Elapse
  <2>1. BucketsTypeOK'
    BY <1>4 DEF Elapse, Tick, IInv, TypeOK, BucketsTypeOK
  <2> QED
    BY <1>4, <2>1, OutsideStep DEF Elapse, local
<1>5. CASE UNCHANGED vars
  BY <1>5, SameNowTypes, OutsideStep DEF vars, local, IInv, TypeOK
<1> QED
  BY <1>1, <1>2, <1>3, <1>4, <1>5 DEF Next

LEMMA Invariant == Spec => []IInv
BY InitIInv, NextIInv, PTL DEF Spec

---------------------------------------------------------------------------
(* The variables of requests, lanes and buckets keep their types,           *)
(* whatever the scrapes of data.go answer and in whatever order.           *)
THEOREM TypeCorrect == Spec => []TypeOK
<1>1. IInv => TypeOK
  BY DEF IInv
<1> QED
  BY <1>1, Invariant, PTL

(* getData: a request that loaded stale metadata is not answered with an    *)
(* error, whichever of the later steps fails.                              *)
THEOREM StaleSurvives == Spec => []StaleSurvivesFailure
<1>1. IInv => StaleSurvivesFailure
  BY DEF IInv, CallersOK, Knows, Kept, StaleSurvivesFailure
<1> QED
  BY <1>1, Invariant, PTL

(* The Quiet entries of data.go never wait for the auth helper, directly    *)
(* or through a lane that other requests share with them.                  *)
THEOREM QuietAnonymous == Spec => []QuietStaysAnonymous
<1>1. IInv => QuietStaysAnonymous
  <2> SUFFICES ASSUME IInv, NEW c \in Callers, Quiet(c) PROVE "auth" \notin WaitsOn(c)
    BY DEF QuietStaysAnonymous
  <2>1. caller[c].entry \in QuietEntries
    BY DEF Quiet, QuietEntries
  <2>2. waiting[c] \in {None, "quiet", "public", "crawler"}
    <3> SUFFICES ASSUME waiting[c] # None PROVE waiting[c] \in {"quiet", "public", "crawler"}
      OBVIOUS
    <3>1. Asks(caller[c], waiting[c]) /\ Knows(caller[c])
      BY OwnTypes DEF Waits
    <3> QED
      BY <2>1, <3>1 DEF Asks, Knows, QuietEntries
  <2>3. waiting[c] # None => waiting[waiting[c]] = None
    BY <2>2, LaneTypes DEF Flies, Lanes
  <2>4. WaitsOn(c) \subseteq {waiting[c]} \ {None}
    BY <2>3 DEF WaitsOn
  <2> QED
    BY <2>2, <2>4
<1> QED
  BY <1>1, Invariant, PTL

(* mergeAvailableMetadata and KeepsPublic: the answer knows what the        *)
(* request knew, a video stays a video, a carousel is not cut down.        *)
THEOREM NeverPoorer == Spec => []AnswerNeverPoorer
<1>1. IInv => AnswerNeverPoorer
  BY DEF IInv, CallersOK, Knows, Kept, AnswerNeverPoorer, Prefers, PreferEntries
<1> QED
  BY <1>1, Invariant, PTL

---------------------------------------------------------------------------
(* The cache under these requests.                                         *)

(* What a step does to the cache is a transaction of BucketsProofs on the  *)
(* post the requests are about, an eviction pass or the passing of time.   *)
LEMMA NowStep ==
  ASSUME IInv, UNCHANGED clock,
         \/ \E i \in Items : SaveTxn(Post, i, clock)
         \/ SaveNegativeTxn(Post, clock)
         \/ ForgetNegativeTxn(Post)
         \/ EvictTxn(clock)
  PROVE  CacheStep
<1>1. clock \in 0..clock /\ Post \in Posts
  BY Apart DEF IInv, TypeOK, BucketsTypeOK
<1> QED
  BY <1>1 DEF CacheStep, Transaction

LEMMA CallerWrites ==
  ASSUME IInv, NEW c \in Callers, Start(c) \/ Work(c) \/ Reply(c)
  PROVE  CacheStep \/ UNCHANGED cache
<1>1. CASE SaveEnriched(c)
  <2>1. caller[c].item \in Items
    BY <1>1, OwnTypes DEF SaveEnriched, Knows, Requests
  <2> QED
    BY <1>1, <2>1, NowStep DEF SaveEnriched, cache, buckets
<1>2. CASE Save(c)
  <2>1. caller[c].item \in Items
    BY <1>2, OwnTypes DEF Save, Knows, Requests
  <2> QED
    BY <1>2, <2>1, NowStep DEF Save, cache, buckets
<1>3. CASE Forget(c)
  BY <1>3, NowStep DEF Forget, cache, buckets
<1>4. CASE SaveNegative(c)
  BY <1>4, NowStep DEF SaveNegative, cache, buckets
<1>5. CASE UNCHANGED cache
  BY <1>5
<1> QED
  BY <1>1, <1>2, <1>3, <1>4, <1>5
  DEF Work, Start, Reply, Load, Enrich, CheckNegative, Scraped, Prefer, StatsRefreshed,
      Crawled, PublicRefreshed, AuthFetched, Forced, AuthRefreshed, Preserved,
      DirectScraped, cache

LEMMA LaneWrites ==
  ASSUME IInv, NEW l \in Lanes, Fly(l)
  PROVE  CacheStep \/ UNCHANGED cache
<1>1. CASE SaveResult(l)
  <2>1. flight[l].result \in Items
    BY <1>1, LaneTypes DEF SaveResult, Flies
  <2> QED
    BY <1>1, <2>1, NowStep DEF SaveResult, cache, buckets
<1>2. CASE UNCHANGED cache
  BY <1>2
<1> QED
  BY <1>1, <1>2
  DEF Fly, Scrape, ScrapeAuth, RefreshVideo, CrawlPage, AskAuthHelper, ForcedScrape,
      ForcedPublic, ForcedAuth, Return, cache

LEMMA StepIsCacheStep == IInv /\ [Next]_vars => [CacheStep]_cache
<1> SUFFICES ASSUME IInv, [Next]_vars PROVE CacheStep \/ UNCHANGED cache
  OBVIOUS
<1>1. CASE Evict
  BY <1>1, NowStep DEF Evict
<1>2. CASE Elapse
  BY <1>2 DEF Elapse, CacheStep, buckets
<1>3. CASE UNCHANGED vars
  BY <1>3 DEF vars, cache
<1> QED
  BY <1>1, <1>2, <1>3, CallerWrites, LaneWrites DEF Next

LEMMA CacheInvariant == Spec => []BucketsInv
<1>1. Init => BucketsInv
  BY BucketsInitInv DEF Init
<1>2. IInv /\ BucketsInv /\ [Next]_vars => BucketsInv'
  BY StepIsCacheStep, CacheStepKeeps
<1> QED
  BY <1>1, <1>2, Invariant, PTL DEF Spec

(* However requests of getData and the refreshes of data.go interleave,    *)
(* fail and merge, the post has one expiry, no freshness without data, and *)
(* is never answered as fresh after eviction may drop it or within         *)
(* SignedMargin of the end of its signed URLs.                             *)
THEOREM CacheConsistent ==
  Spec => [](OneExpiryPerPost /\ FreshWithinStale /\ FreshHonoursSignature)
<1>1. BucketsInv => OneExpiryPerPost /\ FreshWithinStale /\ FreshHonoursSignature
  BY SignatureHonouredBy DEF BucketsInv
<1> QED
  BY <1>1, CacheInvariant, PTL

(* When two posts never share an expiry key, all that the requests, the    *)
(* lanes and the eviction pass do to the cache are steps of CacheContract: *)
(* enriched, merged and refreshed metadata replaces an entry whole.        *)
THEOREM CacheImplemented ==
  ASSUME ~ExpiryTies
  PROVE  Spec => ImplementsContract
<1>1. Init => Contract!Init
  BY BucketsInitImplements DEF Init
<1>2. BucketsInv /\ IInv /\ [Next]_vars => [Contract!Next]_<<clock, entries>>
  BY StepIsCacheStep, CacheStepImplements
<1> QED
  BY <1>1, <1>2, CacheInvariant, Invariant, PTL
  DEF Spec, ImplementsContract, Contract!Spec
=============================================================================
