------------------------------ MODULE Resolver ------------------------------
(***************************************************************************)
(* How concurrent requests for ONE post share the metadata cache and the   *)
(* singleflight groups of handlers/scraper/data.go: getData,               *)
(* getDataPreferVideo, the public GraphQL and crawler refreshes, the       *)
(* forced refresh after a dead CDN URL, and the auth-helper refresh.       *)
(*                                                                         *)
(* A caller is a request goroutine, a lane a singleflight key of the post. *)
(* A lane runs in the goroutine of the caller that found its key free, and *)
(* that caller waits for it like every other one, so a lane is a process   *)
(* of its own here and all its callers are waiters.  Scrapes (external)    *)
(* answer with any item or error the code tells apart.  A write reads the  *)
(* clock when its transaction runs; MetadataCache keeps the two apart.     *)
(***************************************************************************)
EXTENDS MetadataBuckets

CONSTANTS
  Post,              \* the post the callers ask for
  Callers,
  Entries,           \* the functions the callers call
  PublicItems,       \* what logged-out sources return
  AuthItems,         \* what the auth helper returns: always one media
  PublicRefresh,     \* publicVideoRefreshEnabled()
  PublicNegativeTTL, \* INSTAFIX_PUBLIC_VIDEO_REFRESH_NEGATIVE_TTL_SECONDS
  Gone, Transient    \* errors that negativeReason keeps, and the others

VARIABLES
  caller,      \* the local state of each request
  flight,      \* the local state of each lane
  waiting,     \* waiting[x]: the lane x has called Do on, or None
  answer,      \* answer[x]: what that lane returned and x has not read yet
  publicNeg    \* publicVideoRefreshNeg[Post].until, or None

local == <<caller, flight, waiting, answer, publicNeg>>
vars == <<clock, data, ttl, fresh, negative, caller, flight, waiting, answer,
          publicNeg>>

Lanes == {"scrape", "quiet", "public", "crawler", "forced", "auth"}
Errors == {Gone, Transient}

(* media: one image, several images, or at least one video;                *)
(* named: owner and caption known, oEmbed can add nothing; stats: HasStats. *)
Metadata == [media : {"image", "gallery", "video"}, named : BOOLEAN, stats : BOOLEAN]

CachedEntries == {"GetData", "GetDataQuiet", "GetDataPreferVideo",
                  "GetDataPreferVideoQuiet"}
PreserveEntries == {"RefreshVideoFromPublicGraphQLPreserveMetadata",
                    "RefreshDataNoAuthPreserveMetadata"}
AllEntries == CachedEntries \cup PreserveEntries \cup
              {"RefreshDataPreferVideo", "RefreshDataFromAuthHelper"}

ASSUME ResolverAssumption ==
  /\ Post \in Posts
  /\ Items = Metadata
  /\ PublicItems \subseteq Items /\ AuthItems \subseteq Items
  /\ \A i \in AuthItems : i.media # "gallery"
  /\ Entries \subseteq AllEntries
  /\ PublicRefresh \in BOOLEAN /\ PublicNegativeTTL \in Nat
  /\ Gone # Transient /\ None \notin Errors /\ None \notin Lanes
  /\ Errors \cap Items = {}
  /\ Callers \cap Lanes = {}

HasVideo(i) == i.media = "video"

Quiet(c) == caller[c].entry \in {"GetDataQuiet", "GetDataPreferVideoQuiet"}

Prefers(c) == caller[c].entry \in {"GetDataPreferVideo", "GetDataPreferVideoQuiet"}

(* Mutant: the metadata the caller had is dropped. *)
MergeForgets(dst, src) == dst

(* mergeAvailableMetadata fills what dst lacks; src may be nil. *)
MergeAvailableMetadata(dst, src) ==
  IF src = None THEN dst
  ELSE [dst EXCEPT !.named = @ \/ src.named, !.stats = @ \/ src.stats]

---------------------------------------------------------------------------
CallerPCs == {"idle", "load", "enrich", "saveEnriched", "negative", "forget",
              "scrape", "saveNegative", "prefer", "stats", "crawler", "public",
              "auth", "forced", "refresh", "preserve", "direct", "save", "done"}

FlightPCs == {"idle", "upstream", "save", "public", "auth", "return"}

(* Types. `cached` is what loadDataFromCache found, `got` what getData     *)
(* returned, `item` what is about to be saved or returned.                 *)
TypeOK ==
  /\ BucketsTypeOK
  /\ caller \in [Callers ->
       [pc : CallerPCs, entry : AllEntries \cup {None}, cached : Items \cup {None},
        got : Items \cup {None}, item : Items \cup {None}]]
  /\ flight \in [Lanes ->
       [pc : FlightPCs, result : Items \cup Errors \cup {None}]]
  /\ waiting \in [Callers \cup Lanes -> Lanes \cup {None}]
  /\ answer \in [Callers \cup Lanes -> Items \cup Errors \cup {None}]
  /\ publicNeg \in Nat \cup {None}

NoRequest == [pc |-> "idle", entry |-> None, cached |-> None, got |-> None,
              item |-> None]
NoFlight == [pc |-> "idle", result |-> None]

Init ==
  /\ BucketsInit
  /\ caller = [c \in Callers |-> NoRequest]
  /\ flight = [l \in Lanes |-> NoFlight]
  /\ waiting = [x \in Callers \cup Lanes |-> None]
  /\ answer = [x \in Callers \cup Lanes |-> None]
  /\ publicNeg = None

---------------------------------------------------------------------------
(* singleflight.Group.Do: the first caller starts the flight, the others   *)
(* wait for it; its result is handed to everybody who waits.  The state of *)
(* the lanes is given, so that a lane can take a step of its own with it.  *)
Join(x, lane, lanes) ==
  /\ waiting' = [waiting EXCEPT ![x] = lane]
  /\ flight' = IF lanes[lane].pc = "idle"
                 THEN [lanes EXCEPT ![lane] = [NoFlight EXCEPT !.pc = "upstream"]]
                 ELSE lanes

Waiters(lane) == {x \in Callers \cup Lanes : waiting[x] = lane}

Complete(lane, result) ==
  /\ flight' = [flight EXCEPT ![lane] = NoFlight]
  /\ waiting' = [x \in Callers \cup Lanes |->
                   IF x \in Waiters(lane) THEN None ELSE waiting[x]]
  /\ answer' = [x \in Callers \cup Lanes |->
                  IF x \in Waiters(lane) THEN result ELSE answer[x]]

TakeAnswer(x) == answer' = [answer EXCEPT ![x] = None]

(* publicVideoRefreshNegativeHit drops the entry once it has expired. *)
PublicBlocked == publicNeg # None /\ clock <= publicNeg
ShouldTryPublic == PublicRefresh /\ ~PublicBlocked
DropExpiredPublicNeg == IF PublicBlocked THEN publicNeg ELSE None

(* savePublicVideoRefreshNegative, by everybody who waited in vain. *)
PublicNegAfter(result) ==
  IF result \in Errors /\ PublicNegativeTTL > 0
    THEN clock + PublicNegativeTTL ELSE publicNeg

---------------------------------------------------------------------------
(* Steps of a caller. *)

Move(c, pc) == caller' = [caller EXCEPT ![c].pc = pc]

(* `got` starts as the metadata the two Preserve functions are given.      *)
Start(c) ==
  /\ caller[c].pc = "idle"
  /\ \E e \in Entries, previous \in PublicItems \cup AuthItems \cup {None} :
       LET Begin(pc) == caller' = [caller EXCEPT ![c].pc = pc, ![c].entry = e,
                                                 ![c].got = previous]
       IN /\ previous = None <=> e \notin PreserveEntries
          /\ \/ /\ e \in CachedEntries
                /\ Begin("load") /\ UNCHANGED <<flight, waiting>>
             \/ /\ e = "RefreshDataPreferVideo"
                /\ Begin("forced") /\ Join(c, "forced", flight)
             \/ /\ e = "RefreshDataFromAuthHelper"
                /\ Begin("refresh") /\ Join(c, "auth", flight)
             \/ /\ e = "RefreshVideoFromPublicGraphQLPreserveMetadata"
                /\ IF ShouldTryPublic
                     THEN Begin("preserve") /\ Join(c, "public", flight)
                     ELSE Begin("done") /\ UNCHANGED <<flight, waiting>>
             \/ /\ e = "RefreshDataNoAuthPreserveMetadata"
                /\ Begin("direct") /\ UNCHANGED <<flight, waiting>>
          /\ publicNeg' = IF e = "RefreshVideoFromPublicGraphQLPreserveMetadata"
                            THEN DropExpiredPublicNeg ELSE publicNeg
  /\ UNCHANGED <<clock, data, ttl, fresh, negative, answer>>

(* getData returns i (None: an error), to its caller or to                 *)
(* getDataPreferVideo.                                                     *)
GetReturns(c, i) ==
  caller' = [caller EXCEPT ![c].pc = IF Prefers(c) THEN "prefer" ELSE "done",
                           ![c].got = i, ![c].item = i]

(* loadDataFromCache and the freshness test. *)
Load(c) ==
  /\ caller[c].pc = "load"
  /\ caller' = [caller EXCEPT ![c].pc = IF Fresh(Post, clock) THEN "enrich"
                                                              ELSE "negative",
                              ![c].cached = data[Post]]
  /\ UNCHANGED <<clock, data, ttl, fresh, negative, flight, waiting, answer, publicNeg>>

(* A fresh entry without owner or caption is completed from oEmbed, as far *)
(* as oEmbed knows them, and saved again; if either step fails the entry   *)
(* is still returned.                                                      *)
Enrich(c) ==
  /\ caller[c].pc = "enrich"
  /\ \/ GetReturns(c, caller[c].cached)
     \/ /\ ~caller[c].cached.named
        /\ \E named \in BOOLEAN :
             caller' = [caller EXCEPT ![c].pc = "saveEnriched",
                          ![c].item = [caller[c].cached EXCEPT !.named = named]]
  /\ UNCHANGED <<clock, data, ttl, fresh, negative, flight, waiting, answer, publicNeg>>

SaveEnriched(c) ==
  /\ caller[c].pc = "saveEnriched"
  /\ SaveTxn(Post, caller[c].item, clock) \/ UNCHANGED buckets
  /\ GetReturns(c, caller[c].item)
  /\ UNCHANGED <<clock, flight, waiting, answer, publicNeg>>

(* Mutant: quiet and recorded scrapes share one singleflight key. *)
SharedScrapeLane(c) == "scrape"

ScrapeLane(c) == IF Quiet(c) THEN "quiet" ELSE "scrape"

(* negativeCacheHit: a live entry answers, with the stale item if one was  *)
(* loaded; an expired one is deleted in a transaction of its own.          *)
CheckNegative(c) ==
  /\ caller[c].pc = "negative"
  /\ IF NegativeTTL > 0 /\ NegativeLive(Post, clock)
       THEN GetReturns(c, caller[c].cached) /\ UNCHANGED <<flight, waiting>>
     ELSE IF NegativeTTL > 0 /\ NegativeExpired(Post, clock)
       THEN Move(c, "forget") /\ UNCHANGED <<flight, waiting>>
     ELSE Move(c, "scrape") /\ Join(c, ScrapeLane(c), flight)
  /\ UNCHANGED <<clock, data, ttl, fresh, negative, answer, publicNeg>>

Forget(c) ==
  /\ caller[c].pc = "forget"
  /\ ForgetNegativeTxn(Post) \/ UNCHANGED buckets
  /\ Move(c, "scrape") /\ Join(c, ScrapeLane(c), flight)
  /\ UNCHANGED <<clock, answer, publicNeg>>

(* Mutant: the error of Do is not looked at before its value is used. *)
ScrapedUnchecked(c) ==
  /\ caller[c].pc = "scrape" /\ answer[c] # None
  /\ GetReturns(c, answer[c])
  /\ TakeAnswer(c)
  /\ UNCHANGED <<clock, data, ttl, fresh, negative, flight, waiting, publicNeg>>

(* The scrape flight returned. *)
Scraped(c) ==
  /\ caller[c].pc = "scrape" /\ answer[c] # None
  /\ \/ answer[c] \in Items /\ GetReturns(c, answer[c])
     \/ /\ answer[c] = Gone /\ NegativeTTL > 0
        /\ caller' = [caller EXCEPT ![c].pc = "saveNegative"]
     \/ /\ answer[c] = Transient \/ (answer[c] = Gone /\ NegativeTTL = 0)
        /\ GetReturns(c, caller[c].cached)
  /\ TakeAnswer(c)
  /\ UNCHANGED <<clock, data, ttl, fresh, negative, flight, waiting, publicNeg>>

(* Mutant: the error is returned although a stale item was loaded. *)
SaveNegativeHidesStale(c) ==
  /\ caller[c].pc = "saveNegative"
  /\ SaveNegativeTxn(Post, clock) \/ UNCHANGED buckets
  /\ GetReturns(c, None)
  /\ UNCHANGED <<clock, flight, waiting, answer, publicNeg>>

(* saveNegativeCacheIfUseful by every caller that waited for the flight;   *)
(* then the stale item, if one was loaded, hides the error.                *)
SaveNegative(c) ==
  /\ caller[c].pc = "saveNegative"
  /\ SaveNegativeTxn(Post, clock) \/ UNCHANGED buckets
  /\ GetReturns(c, caller[c].cached)
  /\ UNCHANGED <<clock, flight, waiting, answer, publicNeg>>

(* getDataPreferVideo after getData: a video may lack its statistics,      *)
(* anything else may be a shell of a video.                                *)
Prefer(c) ==
  /\ caller[c].pc = "prefer"
  /\ IF caller[c].got = None \/ ~HasVideo(caller[c].got)
       THEN Move(c, "crawler") /\ Join(c, "crawler", flight)
     ELSE IF ~caller[c].got.stats /\ ShouldTryPublic
       THEN Move(c, "stats") /\ Join(c, "public", flight)
     ELSE Move(c, "done") /\ UNCHANGED <<flight, waiting>>
  /\ publicNeg' = DropExpiredPublicNeg
  /\ UNCHANGED <<clock, data, ttl, fresh, negative, answer>>

(* A refresh returned r: it is completed with what the caller had, saved   *)
(* and returned, even if the save fails.  The callers of one flight merge  *)
(* into the one result they share, without a lock: whoever has not looked  *)
(* at it yet may or may not see what c added.                              *)
SaveMerged(c, r) ==
  LET merged == MergeAvailableMetadata(r, caller[c].got)
  IN /\ caller' = [caller EXCEPT ![c].pc = "save", ![c].item = merged]
     /\ \E sees \in SUBSET {x \in (Callers \cup Lanes) \ {c} : answer[x] = r} :
          answer' = [x \in Callers \cup Lanes |->
                       IF x = c THEN None ELSE IF x \in sees THEN merged ELSE answer[x]]

(* The public refresh for the statistics returned. *)
StatsRefreshed(c) ==
  /\ caller[c].pc = "stats" /\ answer[c] # None
  /\ IF answer[c] \in Items THEN SaveMerged(c, answer[c])
                            ELSE Move(c, "done") /\ TakeAnswer(c)
  /\ publicNeg' = PublicNegAfter(answer[c])
  /\ UNCHANGED <<clock, data, ttl, fresh, negative, flight, waiting>>

(* Without a video from the public sources: only callers that may use the  *)
(* auth helper go on.                                                      *)
TryAuth(c) ==
  IF Quiet(c) THEN Move(c, "done") /\ UNCHANGED <<flight, waiting>>
              ELSE Move(c, "auth") /\ Join(c, "auth", flight)

(* The crawler-page refresh returned. *)
Crawled(c) ==
  /\ caller[c].pc = "crawler" /\ answer[c] # None
  /\ IF answer[c] \in Items
       THEN SaveMerged(c, answer[c]) /\ UNCHANGED <<flight, waiting, publicNeg>>
     ELSE /\ IF ShouldTryPublic
               THEN Move(c, "public") /\ Join(c, "public", flight)
               ELSE TryAuth(c)
          /\ publicNeg' = DropExpiredPublicNeg
          /\ TakeAnswer(c)
  /\ UNCHANGED <<clock, data, ttl, fresh, negative>>

(* The public GraphQL refresh returned. *)
PublicRefreshed(c) ==
  /\ caller[c].pc = "public" /\ answer[c] # None
  /\ IF answer[c] \in Items
       THEN SaveMerged(c, answer[c]) /\ UNCHANGED <<flight, waiting>>
       ELSE TryAuth(c) /\ TakeAnswer(c)
  /\ publicNeg' = PublicNegAfter(answer[c])
  /\ UNCHANGED <<clock, data, ttl, fresh, negative>>

(* Mutant: whatever the auth helper answers replaces the public item. *)
KeepsNothing(c, r) == FALSE

(* FetchDataFromAuthHelperUncached returned, a copy for each of its         *)
(* callers: an image-only answer does not replace what the public sources  *)
(* gave, which is saved again instead.                                     *)
KeepsPublic(c, r) == ~HasVideo(r) /\ caller[c].got # None

AuthFetched(c) ==
  /\ caller[c].pc = "auth" /\ answer[c] # None
  /\ IF answer[c] \notin Items THEN Move(c, "done")
     ELSE caller' = [caller EXCEPT ![c].pc = "save",
            ![c].item = IF KeepsPublic(c, answer[c]) THEN caller[c].got
                        ELSE MergeAvailableMetadata(answer[c], caller[c].got)]
  /\ TakeAnswer(c)
  /\ UNCHANGED <<clock, data, ttl, fresh, negative, flight, waiting, publicNeg>>

(* RefreshDataPreferVideo returned. *)
Forced(c) ==
  /\ caller[c].pc = "forced" /\ answer[c] # None
  /\ caller' = [caller EXCEPT ![c].pc = "done",
                  ![c].item = IF answer[c] \in Items THEN answer[c] ELSE None]
  /\ TakeAnswer(c)
  /\ UNCHANGED <<clock, data, ttl, fresh, negative, flight, waiting, publicNeg>>

(* RefreshDataFromAuthHelper saves whatever the helper answered. *)
AuthRefreshed(c) ==
  /\ caller[c].pc = "refresh" /\ answer[c] # None
  /\ IF answer[c] \in Items
       THEN caller' = [caller EXCEPT ![c].pc = "save",
                                     ![c].item = answer[c]]
       ELSE Move(c, "done")
  /\ TakeAnswer(c)
  /\ UNCHANGED <<clock, data, ttl, fresh, negative, flight, waiting, publicNeg>>

(* RefreshVideoFromPublicGraphQLPreserveMetadata: the flight returned.     *)
Preserved(c) ==
  /\ caller[c].pc = "preserve" /\ answer[c] # None
  /\ IF answer[c] \in Items THEN SaveMerged(c, answer[c])
                            ELSE Move(c, "done") /\ TakeAnswer(c)
  /\ publicNeg' = PublicNegAfter(answer[c])
  /\ UNCHANGED <<clock, data, ttl, fresh, negative, flight, waiting>>

(* RefreshDataNoAuthPreserveMetadata scrapes outside any flight. *)
DirectScraped(c) ==
  /\ caller[c].pc = "direct"
  /\ \/ \E i \in PublicItems :
          caller' = [caller EXCEPT ![c].pc = "save",
                       ![c].item = MergeAvailableMetadata(i, caller[c].got)]
     \/ Move(c, "done")
  /\ UNCHANGED <<clock, data, ttl, fresh, negative, flight, waiting, answer, publicNeg>>

(* The save at the end of a refresh; its failure is only logged. *)
Save(c) ==
  /\ caller[c].pc = "save"
  /\ SaveTxn(Post, caller[c].item, clock) \/ UNCHANGED buckets
  /\ Move(c, "done")
  /\ UNCHANGED <<clock, flight, waiting, answer, publicNeg>>

(* The answer is sent; the goroutine may serve another request. *)
Reply(c) ==
  /\ caller[c].pc = "done"
  /\ caller' = [caller EXCEPT ![c] = NoRequest]
  /\ UNCHANGED <<clock, data, ttl, fresh, negative, flight, waiting, answer, publicNeg>>

---------------------------------------------------------------------------
(* Steps of a lane: the function given to Do.                              *)

ToSave(l, i) == flight' = [flight EXCEPT ![l] = [pc |-> "save", result |-> i]]
ToReturn(l, r) == flight' = [flight EXCEPT ![l].pc = "return", ![l].result = r]

(* The lane itself becomes a caller of another lane. *)
Calls(l, lane) == Join(l, lane, [flight EXCEPT ![l].pc = lane])

(* ScrapeData and ScrapeDataNoAuth, the latter without the auth helper. *)
Scrape(l) ==
  /\ l \in {"scrape", "quiet"} /\ flight[l].pc = "upstream"
  /\ \/ \E i \in PublicItems : ToSave(l, i) /\ UNCHANGED waiting
     \/ l = "scrape" /\ Calls(l, "auth")
     \/ l = "quiet" /\ (\E e \in Errors : ToReturn(l, e)) /\ UNCHANGED waiting
  /\ UNCHANGED <<clock, data, ttl, fresh, negative, caller, answer, publicNeg>>

(* scrapeFailureWithAuth decides which error the scrape ends with. *)
ScrapeAuth(l) ==
  /\ l = "scrape" /\ flight[l].pc = "auth" /\ answer[l] # None
  /\ IF answer[l] \in Items THEN ToSave(l, answer[l])
                            ELSE \E e \in Errors : ToReturn(l, e)
  /\ TakeAnswer(l)
  /\ UNCHANGED <<clock, data, ttl, fresh, negative, caller, waiting, publicNeg>>

(* RefreshVideoFromPublicGraphQL: without a video it fails.                *)
RefreshVideo(l) ==
  /\ l = "public" /\ flight[l].pc = "upstream"
  /\ \/ \E i \in PublicItems : HasVideo(i) /\ ToSave(l, i)
     \/ \E e \in Errors : ToReturn(l, e)
  /\ UNCHANGED <<clock, data, ttl, fresh, negative, caller, waiting, answer, publicNeg>>

(* RefreshVideoFromCrawlerPage: the page may be refused, hold no media     *)
(* object, or one without a video.                                         *)
CrawlPage(l) ==
  /\ l = "crawler" /\ flight[l].pc = "upstream"
  /\ \/ \E i \in PublicItems : HasVideo(i) /\ ToSave(l, i)
     \/ \E e \in Errors : ToReturn(l, e)
  /\ UNCHANGED <<clock, data, ttl, fresh, negative, caller, waiting, answer, publicNeg>>

AskAuthHelper(l) ==
  /\ l = "auth" /\ flight[l].pc = "upstream"
  /\ \E r \in AuthItems \cup Errors : ToReturn(l, r)
  /\ UNCHANGED <<clock, data, ttl, fresh, negative, caller, waiting, answer, publicNeg>>

(* RefreshDataPreferVideo: public scrape, public GraphQL, auth helper (one  *)
(* that is not configured answers with an error).                          *)
ForcedScrape(l) ==
  /\ l = "forced" /\ flight[l].pc = "upstream"
  /\ \/ \E i \in PublicItems : HasVideo(i) /\ ToSave(l, i)
        /\ UNCHANGED <<waiting, publicNeg>>
     \/ /\ Calls(l, IF ShouldTryPublic THEN "public" ELSE "auth")
        /\ publicNeg' = DropExpiredPublicNeg
  /\ UNCHANGED <<clock, data, ttl, fresh, negative, caller, answer>>

(* Mutant: the forced refresh calls itself under its own key. *)
ForcedAgain(l) ==
  /\ l = "forced" /\ flight[l].pc = "public" /\ answer[l] # None
  /\ IF answer[l] \in Items THEN ToReturn(l, answer[l]) /\ UNCHANGED waiting
                            ELSE Calls(l, "forced")
  /\ TakeAnswer(l)
  /\ publicNeg' = PublicNegAfter(answer[l])
  /\ UNCHANGED <<clock, data, ttl, fresh, negative, caller>>

ForcedPublic(l) ==
  /\ l = "forced" /\ flight[l].pc = "public" /\ answer[l] # None
  /\ IF answer[l] \in Items THEN ToReturn(l, answer[l]) /\ UNCHANGED waiting
                            ELSE Calls(l, "auth")
  /\ TakeAnswer(l)
  /\ publicNeg' = PublicNegAfter(answer[l])
  /\ UNCHANGED <<clock, data, ttl, fresh, negative, caller>>

ForcedAuth(l) ==
  /\ l = "forced" /\ flight[l].pc = "auth" /\ answer[l] # None
  /\ IF answer[l] \in Items THEN ToSave(l, answer[l]) ELSE ToReturn(l, answer[l])
  /\ TakeAnswer(l)
  /\ UNCHANGED <<clock, data, ttl, fresh, negative, caller, waiting, publicNeg>>

(* Only the scrape of getData fails when its save fails; a forced refresh  *)
(* saves the auth helper's answer first and then asks whether it is a video. *)
ResultAfterSave(l, saved) ==
  LET fails == \/ l \in {"scrape", "quiet"} /\ ~saved
               \/ l = "forced" /\ ~HasVideo(flight[l].result)
  IN IF fails THEN Transient ELSE flight[l].result

SaveResult(l) ==
  /\ flight[l].pc = "save"
  /\ \/ SaveTxn(Post, flight[l].result, clock) /\ ToReturn(l, ResultAfterSave(l, TRUE))
     \/ UNCHANGED buckets /\ ToReturn(l, ResultAfterSave(l, FALSE))
  /\ UNCHANGED <<clock, caller, waiting, answer, publicNeg>>

Return(l) ==
  /\ flight[l].pc = "return"
  /\ Complete(l, flight[l].result)
  /\ UNCHANGED <<clock, data, ttl, fresh, negative, caller, publicNeg>>

---------------------------------------------------------------------------
(* A pass of evictCache (its clock reading and its transaction are apart   *)
(* in MetadataCache).                                                      *)
Evict ==
  /\ EvictTxn(clock)
  /\ UNCHANGED <<clock, caller, flight, waiting, answer, publicNeg>>

Elapse == Tick /\ UNCHANGED <<data, ttl, fresh, negative, caller, flight, waiting,
                             answer, publicNeg>>

Work(c) ==
  \/ Load(c) \/ Enrich(c) \/ SaveEnriched(c) \/ CheckNegative(c) \/ Forget(c)
  \/ Scraped(c) \/ SaveNegative(c) \/ Prefer(c) \/ StatsRefreshed(c) \/ Crawled(c)
  \/ PublicRefreshed(c) \/ AuthFetched(c) \/ Forced(c) \/ AuthRefreshed(c)
  \/ Preserved(c) \/ DirectScraped(c) \/ Save(c)

Fly(l) ==
  \/ Scrape(l) \/ ScrapeAuth(l) \/ RefreshVideo(l) \/ CrawlPage(l) \/ AskAuthHelper(l)
  \/ ForcedScrape(l) \/ ForcedPublic(l) \/ ForcedAuth(l) \/ SaveResult(l) \/ Return(l)

Next ==
  \/ \E c \in Callers : Start(c) \/ Work(c) \/ Reply(c)
  \/ \E l \in Lanes : Fly(l)
  \/ Evict \/ Elapse

Spec == Init /\ [][Next]_vars

(* Goroutines are scheduled, transactions end, and every upstream call has *)
(* a timeout.                                                              *)
FairSpec ==
  /\ Spec
  /\ \A c \in Callers : WF_vars(Work(c))
  /\ \A l \in Lanes : WF_vars(Fly(l))

---------------------------------------------------------------------------
(* A request that found metadata in the cache is answered with metadata,   *)
(* whatever fails afterwards: stale data is better than an error.          *)
StaleSurvivesFailure ==
  \A c \in Callers :
    caller[c].pc = "done" /\ caller[c].cached # None => caller[c].item # None

(* The lanes whose result x waits for, directly or through another lane.   *)
WaitsOn(x) ==
  LET first == {waiting[x]} \ {None}
      second == {waiting[l] : l \in first} \ {None}
      third == {waiting[l] : l \in second} \ {None}
  IN first \cup second \cup third

(* A quiet request never causes or waits for a call of the auth helper,    *)
(* although it shares flights with requests that may: the quiet scrape has *)
(* a key of its own and the shared refreshes are logged-out.               *)
QuietStaysAnonymous == \A c \in Callers : Quiet(c) => "auth" \notin WaitsOn(c)

(* A refresh never gives less than the request had before it: owner,       *)
(* caption and statistics that were known stay known, and where getData    *)
(* gave something a video stays a video and several images are not cut     *)
(* down to one.                                                            *)
AnswerNeverPoorer ==
  \A c \in Callers :
    caller[c].pc = "done" /\ caller[c].got # None =>
      /\ Prefers(c) => /\ caller[c].item # None
                       /\ caller[c].item.media \in {caller[c].got.media, "video"}
      /\ caller[c].item # None =>
           /\ caller[c].got.named => caller[c].item.named
           /\ caller[c].got.stats => caller[c].item.stats

(* A carousel in the cache is not replaced by a thumbnail (the comment in  *)
(* getDataPreferVideo; RefreshDataFromAuthHelper does replace it).         *)
CarouselNotReplacedByThumbnail ==
  [][data[Post] # None /\ data'[Post] # None /\ data[Post].media = "gallery"
       => data'[Post].media # "image"]_vars

(* Every request is answered: nobody waits for a flight that never ends,   *)
(* whatever the other requests and the clock do.                           *)
AllAnswered == \A c \in Callers : caller[c].pc # "idle" ~> caller[c].pc = "done"
=============================================================================
