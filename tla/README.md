# A TLA+ model of InstaFix-Revived

InstaFix turns Instagram links into embeddable pages.  A request for a post is
answered from a metadata cache, or by a chain of logged-out scrapes with an
authenticated helper at its end; videos and images are then proxied, merged or
redirected.  The program is a Go server (`main.go`, `handlers/`,
`observability/`) and a Python side process (`auth-helper/app.py`).  Most of
what can go wrong lies between requests: they share the cache, the singleflight
groups, negative entries, cooldowns, budgets and counters, while upstream calls
fail or answer late.

## Inventory

| Component | Source | State | Operations | Hard behaviour |
|---|---|---|---|---|
| Metadata cache | `scraper/cache.go`, `scraper/data.go`, `main.go` | bbolt buckets data, ttl, fresh, negative | load, save, save/forget negative, evict, reopen | clock read before the transaction, eviction against saves, rows of older versions, restarts |
| Resolver | `scraper/data.go`, `crawler_page.go`, `stateless_*refresh.go` | singleflight lanes per post, in-memory negatives | getData, getDataPreferVideo, refreshes | shared results, lanes that wait for lanes, several writers of one cache entry |
| Public proxy pool, hedged GraphQL | `scraper/data.go` | round-robin cursor, cooldowns | select, attempt, mark failure | the losing attempt of a hedged pair, everything cooling |
| Auth-helper gate | `scraper/data.go` | slot semaphore, cached health, negative map | acquire, probe health, embed fallback | the next probe scheduled before this one has answered, slots on every way out |
| Request protection | `protection.go` | fixed windows per client and for all; posts a client asked for | allow, cleanup | window boundaries, budgets consumed by rejected requests |
| OGInstagram proxy | `oginstagram_*.go` | circuit breaker | begin, success, failure, release | late answers of requests begun in another state |
| Stateless offload | `offload_stateless.go`, `stateless_media.go` | miss cache, striped locks | recover, select media, edge TTL | a miss recorded by a slow recovery |
| Legacy offload, video streaming | `offload.go`, `videos.go`, `images.go` | none of its own | stream, redirect, range probes | refresh after a dead URL |
| Compact AV | `compact_av.go`, `scraper/compact_video.go` | merged files on disk, singleflight | merge, serve | the first caller's cancellation, temporary files |
| Grid | `grid.go`, `grid_stateless.go` | files on disk, LRU with eviction callback | generate, serve, evict | eviction and regeneration of a file being served |
| Observability | `observability/*.go` | counters, minute buckets, alert state, Telegram queue | record, alert, daily report | reset after a report that took time; a clock read before the lock, messages queued after it, full queue, retries |
| Stateless embed page | `embed_stateless.go` | none | fetch, refresh, measure, render, cache at the CDN | URLs that expire during the network calls of a request, a journal apart from the page |
| Legacy embed page, redirects | `embed.go`, `oginstagram_*.go` | none | redirect, proxy, scrape, fall back | a dozen exits, each of which records by itself |
| Router and main loop | `main.go`, `stateless_mode_compat.go` | configuration | routes, startup | stateless gate |
| Admin endpoints | `admin_cookies.go`, `admin_report.go` | none (forwards) | upload cookies, send report | a report sent twice |
| auth-helper accounts | `auth-helper/app.py` | cookie pool, cooldowns, quarantines and their file, rate windows, caches | fetch, rotate, test and replace cookies | several threads on one pool, a file written without a lock, restarts |
| auth-helper video proxy | `auth-helper/app.py` | slots, a thread's upstream response | open, pass on, resume, refresh | a body put together from responses of different URLs |
| Utilities | `utils/*.go` | none | JSON unescape, crawler detection | - |
| Pages, static files, scripts, example worker | `views/`, `video/`, `scripts/`, `examples/` | none | - | not modelled |

### What makes each component correct

* Metadata cache: at most one stale expiry per post; every cached post can be
  evicted; freshness never outlives the stale expiry or a signed URL; eviction
  never removes what was saved since.
* Resolver: stale data survives any failure; a quiet request never reaches the
  auth helper; a refresh never answers with less than was known; every request
  is answered.
* Proxy pool: a proxy that is cooling is not used while another is ready; in
  proxy-only mode nothing goes out directly.
* Auth-helper gate: at most the configured number of calls at a time; no slot
  leaks; a health status is used for its time to live and asked for once.
* Protection: no client gets more than its budget in a window.
* Circuit breaker: while open nothing passes before the cooldown; one probe.
* Stateless offload: one recovery per post and miss period; a stripe is always
  given back.
* Compact AV: what is served is complete and fresh, whoever merged it; the
  best pair of tracks that fits is chosen.
* Embed pages: a page is kept no longer than its URLs live; the journal says
  what the page does; a Reel is shown without sound only if it has none; one
  preview is recorded once.
* Grid: what is served is a complete grid; the directory stays bounded.
* Observability: a count is reported exactly once or stays for the next report.
  An alert says what the last minutes, or the last results of the helper, were;
  alerts and recoveries alternate and keep their order on the way to the chat.
* auth-helper: a cookie is used only while the pool it was read into is recent,
  never while its account is cooling or needs login; a quarantine survives a
  restart; a minute lets through no more than its limit.
* Video proxy: a body is a contiguous run of offsets, complete exactly if it
  ends with the last byte announced; its parts are of files of the announced
  size as far as they tell theirs; a slot is given back on every way out.

## Modules

| Module | Models | State and actions in the code |
|---|---|---|
| `Absent` | `None`, what Go has as nil, an absent row or a zero time | |
| `MetadataBuckets` | the bbolt buckets and the transactions on them | `data`, `ttl`, `fresh`, `negative` are the buckets; `SaveTxn`, `EvictTxn`, `SaveNegativeTxn`, `ForgetNegativeTxn` the functions given to `DB.Batch`, `ReopenDB` what `InitDB` and `InitEphemeralDB` find; with the properties of the buckets and their mapping to `CacheContract` (`EntryOf`) |
| `MetadataCache` | workers and the eviction loop that prepare and commit those transactions in any order; restarts | `op[w]` is the write a request goroutine has built from its reading of the clock, `evictAt` the reading of the eviction pass; `Begin...` runs up to `DB.Batch`, `Commit...` is the transaction |
| `CacheContract` | what the cache promises: one entry per post with a freshness and an expiry | abstract; `MetadataCache` and `Resolver` implement it |
| `Resolver` | requests for one post, the singleflight lanes and the cache they share (uses `MetadataBuckets`) | `caller[c]` are the locals of a request, `flight[l]` those of the function given to `singleflight.Do`, `waiting` who waits in `Do` for which key, `answer` what `Do` returned, `publicNeg` the in-memory negative of the public refresh |
| `CircuitBreaker` | the OGInstagram breaker and the requests that drive it | `failures`, `open`, `probe` are the breaker's fields, `pc` the request between `allow...` and `record...` or `release...` |
| `AuthHelperGate` | the way to the auth helper: flights, slots, cached health, negative entries of the embed fallback | `held` is the fill of `authHelperSlots`, `status` and `until` are `authHealthStatus` and `authHealthUntil`, `neg` is `embedAuthNeg`; a flight's `pc` is where its goroutine is in `scrapeAuthHelperSingleflight`, `caller` an embed fallback |
| `ProxyPool` | the public proxies and the fetches through them | `cursor` and `cooling` are `publicProxyCursor` and `publicProxyCooldowns`; `fetch[f]` has, for each place in the order from the cursor on and for the direct client after them, the client and how its attempt stands, and the channel `results`; places that the selection leaves out are `unused`; `failedAt` is history: when a proxy failed by itself |
| `RequestProtector` | `allow`, `take` and the cleanup loop | `windows`, `lastSeen`, `unique` are the fields of the same names; the disjuncts of `Allow` are its returns |
| `DailyReport` | previews that are counted, the report loop, the delivery and the reset | `counts` are the counters, `next[p]` how far a preview's `RecordPreviewWithReason` is, `phase` and `at` where the report loop is |
| `Alerts` | how a call tells the operator something: it decides under the lock, then hands its message to the bounded channel that one loop empties into Telegram | `active` and `lastAlert` are `alertActive`, `authAlertActive`, `lastAlert`, `lastDBAlert`, `lastAuthAlert`; `call[c]` is where a call is: clock read (`timed`), between its two sections (`counted`), decided (`tell`); `queue` is the channel, `sending` and `attempt` the loop of `Run`; `chat`, `unsent`, `decisions`, `priors` are history |
| `ScrapeAlert` | `RecordScrape` (extends `Alerts`) | `ring` is `buckets`, one action from the lock to its release |
| `AuthAlert` | `RecordAuthHelperResult`, `RecordDBError` (extends `Alerts`) | `streak` is `authFailureStreak`, `recovery` the file `requestCookieRecovery` writes; a failure takes two actions, one for each section under the lock |
| `Alerting` | all these calls with the lock and the channel they share | |
| `StatelessOffload` | `OffloadStateless`: requests for medias of posts, misses, stripes and the recovery chain | `miss` is `statelessOffloadMisses`, `lock` the stripes, `request[r]` where a goroutine is: before its stripe, waiting for it, at the n-th source of the chain |
| `CompactSources` | `ResolveCompactPreviewAV` and the choice among the tracks of a manifest, without state | `BestPair` and `WithAudios` are the two nested loops over the tracks (`compactAVFromDASHManifest`), `KeepBetter` their body, `Ask` a turn of the loop over sources |
| `CompactAV` | `ServeCompactAV` (uses `CompactSources`) | `avFile` is the MP4 at the cache path, `build` the flight of `compactAVMuxGroup`, `viewer[v]` a request that waits for it or has the file open |
| `EmbedPage` | `EmbedStateless` (uses `CompactSources`) | `embed[e]` are the locals of a request and where it is; one action per wait for the network, one per exit |
| `LegacyEmbed` | `Embed` with the redirect and the proxy it hands over to | `legacyMode` is the configuration, `legacy` one request: its step, its item, its errors, and what was recorded for it |
| `ByteStream` | what a video response promises: a contiguous body, complete with the last byte announced, of files of the size announced where parts tell it | abstract; every thread of `VideoProxy` implements it |
| `VideoProxy` | `proxy_video` of the auth helper | `slots` is the semaphore, `conn[t]` a thread's request and upstream response, `out[t]` what its client has got |
| `CookiePool` | cookie files, pool, cooldowns and quarantines of the auth helper in memory | `pool`, `loadedAt`, `cooling`, `login` are the globals, `disk` the files, `caller[c]` a thread between its readings and its steps under `cookie_pool_lock` |
| `Quarantines` | the file of the quarantines and the process that may die while it is written | `barred` is the map, `content`, `stateFile` and `tmpFile` the file system, `writer[w]` a thread in `persist_account_quarantines` |
| `HelperRate` | `allow_request` and `allow_auth_request` | `window` and `count` are the globals, `reading[a]` the minute a thread has read before the lock; `granted` and `late` are history |
| `Guards`, `Handlers` | components side by side that share no state | |
| `...Proofs` | theorems about the modules they extend: `BucketsProofs` what `MetadataCacheProofs` and `ResolverProofs` share, `PagesProofs` about the two pages, `GuardsProofs` about the other parts of `Guards` and about `Guards` as a whole, `ObservabilityProofs` about `DailyReport` and `Alerting`, `HandlersProofs` about the other parts of `Handlers` and about `Handlers` as a whole | |
| `MC...` | small instances for TLC | |

`MetadataCache` and `Resolver` are two compositions over the same
transactions: the first keeps the reading of the clock apart from the
transaction and leaves the requests abstract, the second follows the requests
and reads the clock when it commits.  `BucketsProofs` proves what the
transactions keep and promise whoever runs them; for each of the two it is then
shown that it writes through these transactions only.

`Guards` and `Handlers` put components side by side that share no state.
Their variable `part` is chosen once and names the component that runs; the
others stay where they start.  `MCBackground` does the same for the eviction of
the cache and the alerts.  So the states of a run are the sum of those of
its parts, not the product, and every property is checked on its part alone.

### Abstractions

* A post, a client and a request are model values.  Times are small numbers; a
  TTL of the code is a constant, and only its order relative to others counts.
* Metadata are a record of what the code tells apart: one image, several, or a
  video; whether owner and caption are known (`named`; the code completes each
  on its own); whether there are statistics.  `SignedExpiry` gives the earliest
  expiry in the signed URLs.
* Scrapes are external: they answer with any item of `PublicItems` or
  `AuthItems`, or with an error that is kept as a negative entry (`Gone`) or
  not (`Transient`).  A source that is switched off is one that fails.
* The callers of one flight share one result object and fill it in without a
  lock: in `SaveMerged` those who have not looked at it yet may or may not see
  the additions.
* The breaker reads the clock before its lock; the model reads it inside, so
  its cooldown is exact to the length of that wait.
* In `RequestProtector` such a wait is modelled: a request carries a reading up
  to `Lag` old.  Protection and the tracking of cache misses are switched on;
  unlimited windows (limit 0) are included.  The throttling of log lines is
  left out.
* `AuthHelperGate` follows the callers that keep something, the embed
  fallbacks; a scrape or a refresh only starts or joins a flight (`Refresh`),
  and what it does with the answer is in `Resolver`.  What the helper answers
  and how long it takes is external, up to the timeouts of the HTTP clients.
  Failures differ by how long they are kept.  The embed fallback's save to the
  metadata cache is one of the saves of `MetadataCache`.
* `DailyReport` takes a counter to be the set of the previews in it, so that
  properties can name what a number stands for.  The counters it has are one of
  each sort: the total, one per outcome, a detail map with its bound, one per
  client.  The others are added to and reset in the same way.  Telegram is
  configured.  `/report` (`SendReportPreview`) changes nothing and is a stutter.
  Peaks and media streams are left out.
* `Alerts`: the clock counts minutes.  The sections under the lock are short, so
  a scrape does not wait for the lock longer than `MaxWait`, which is less than
  the fifteen minutes of the ring (`ScrapeAssumption`).  What a message says, the
  health it asks the helper for (between decision and `Send`), the messages at
  startup, and the end of the process are left out.  Each of a bucket's numbers
  is the set of the scrapes it counts.  An attempt whose answer is lost may have
  arrived, so a message may stand in the chat more than once.
* `StatelessOffload`: what a source returns is any item of `OffItems`, of any
  age, or a failure.  The purge of old misses at 4096 posts only forgets misses,
  which the passing of time does too.  Headers, and the thumbnail and compact
  variants of the answer, are left out.
* `CompactSources` and `CompactAV`: a track is what the choice compares; the
  loops pass over tracks that the code has sorted out before them.
  ffmpeg succeeds or fails, as do downloads.
* `VideoProxy`: a URL stands for the file behind it.  Each response's
  Content-Range tells the size of the file or withholds it (`*`), whatever the
  others did; the code compares sizes if the first response and the resumed one
  tell them, and renditions of one size it cannot tell apart.  Upstream never sends more than was asked, and answers a range from 0 with one from 0.
  A requested end beyond the file is not cut to the file by the code, nor here.
* `CookiePool`: the round robin among eligible accounts is left open, a slot
  has one account, two forced discoveries at once count as one.  The auth
  circuit is closed, since no code opens it; the history of a slot and the
  cache of answers are left out.
* `EmbedPage`: a URL is its expiry, or one of the ways to have none.  The
  diagnostic variants (`tgdiag`), the redirect of clients that are no bots and
  the sharing of `ResolveCompactPreviewAV` between requests are left out, as is
  what is recorded of previews (`LegacyEmbed` is about that); a request whose
  number cannot be read is refused before the fetch (`RefuseNumber`); a
  Reel of unknown size counts as small, as in the code; Jina gives metadata
  without medias; the page the CDN keeps is the one stored last.
* `ProxyPool`: attempts and delays take any time; which answers are of use,
  and which blame the proxy, is external.  An error in a body with HTTP 200
  does not cool the proxy: `readGraphQLResponseBody` returns it before the
  branch of `doGraphQLAttempt` that would.  No fetch is called off from outside,
  as the scrapes use requests without a context of their own.  A goroutine of
  `Fetches` fetches again only when its attempts are over, including those it
  has called off; that a new fetch meets the losers of an older one takes two.
* `LegacyEmbed`: the upstream's configuration is valid.  The proxy may answer,
  fail or be refused each of the up to three times it is asked.

## Runs

Every passing run checks each of its properties, and each property is known to
fail for at least one mutated definition (under `mutants` in `PROJECT.json`).

| Run | Question | Bounds, and why they are enough |
|---|---|---|
| `cache_one_post` | Do saves, negatives, failures, evictions and restarts leave one post's rows consistent in a durable database? | Two workers and the eviction loop: a stale transaction of each against a newer one of the other. Time to 3 with TTLs of 1 and 2 lets an entry become stale, expire, be saved again and be met by an old eviction pass. A fresh TTL above the stale TTL, URLs that expire at 3 and URLs that were about to expire take every branch of the expiry computation; rows of older versions start with either expiry. |
| `background` | Each by itself, and fair: can every entry be evicted, and is it, in the ephemeral database of stateless mode? Is an alert what the window or the row of results says, do alerts and recoveries alternate, do their messages keep their order, and is each of them sent, dropped or given up? | See below. |
| `resolver_results` | Does stale data survive failures, does a quiet request stay away from the auth helper, and is no answer poorer than what was known? | Two callers, recorded and quiet, in `getDataPreferVideo`, which begins with `getData`, with all its refreshes, or in the refresh from the helper, share or miss each other's flights; six lanes. A negative of the public refresh blocks within the unit it was written in. The sources give a full carousel, a nameless video or a thumbnail, or fail in either way. One post: different posts share no lane and no row. |
| `resolver_answers` | Is every request answered, also through flights that wait for flights? | Four entry points reach each such pair (scrape to auth, forced to public and auth) and every wait of a lane for a lane; fair. |
| `resolver_carousel` | (violated) Does a thumbnail of the auth helper never replace a full carousel? | One recorded and one quiet request. |
| `breaker_probes` | (violated) Is there one probe at a time? | Four requests: two open, one probes, one is late. |
| `auth_helper_gate` | Are the slots respected and do they come free, is there one probe at a time, how old can a used health status be? | Three posts for two slots: one waits while two are inside and may both find the status expired. A probe takes up to one unit and the status lasts two; a call lasts up to one, and waiting for a slot ends in the unit it began in, so that it can be in vain. Time to 3: a status is learnt, used, expires and is learnt again. |
| `guards` | Each by itself: are the budgets of routes and of the helper kept, are cookies recent and accounts not barred, do quarantines survive a crash, does what an embed page says, keeps and records agree? | See below. |
| `handlers` | Each by itself, and fair: does the breaker probe again, is a preview reported once, is a chain not repeated, is a video body contiguous and an MP4 whole, are proxies asked before the server's own address, and is everybody answered? | See below. |
| `quarantine_lost` | (violated) Does an account that needs login stay quarantined? | Two accounts, two writers, four inodes. |
| `proxies_cooled` | (violated) Is a fetch refused only if every proxy has failed? | Two proxies, two goroutines, one cooldown. |
| `silent_video` | (violated) Is a Reel that has sound never advertised without it? | One request, two sources. |

Parts of `background`:

* `MetadataCache` (`EveryEntryExpires`, `ExpiredEntriesGo`): two posts are what it
  takes to compete for keys of the ttl bucket; one worker, as the order of
  writes is the first run's question.
* `Alerting`: three calls of one kind, as the topics share only the lock and the
  channel, in three minutes; they begin in the order of their names, which are
  interchangeable.  Scrapes (`WindowExact`, `ScrapeAlertRight`) with a ring of 2,
  a wait of up to 1, two outcomes for an outage and three for a rate: a late
  call meets a bucket of a newer minute, one of the last round is used again, an
  alert is raised, repeated after 2 and taken back.  Results of the helper
  (`CookieAlertRight`) with a streak of 2: a failure between its two sections
  meets a success or another failure.  Messages (`AlertsInOrder`,
  `AlertsSettle`): room for two and two attempts each, of which any may arrive
  without an answer.  `AlertsAlternate` is about all of them.
* `AlertsRight` joins `WindowExact`, `ScrapeAlertRight` and `CookieAlertRight`,
  `AlertsTold` joins `AlertsAlternate` and `AlertsInOrder`, and
  `BackgroundSettles` the two liveness properties.

Parts of `guards`:

* `RequestProtector` (`SlidingBudget`, `CleanupForgetsNothing`): a client with
  limit 1 (TLC looks for two admissions within `Window - Lag`), unknown
  clients, windows of 3 with readings 1 late, time to 5: a window ends, another
  begins and ends.  Any limit and any number of clients is the theorem.  The
  idle limit covers the unique window and the lag, as 15 minutes do 10.
* `CookiePool` (`UsedCookieRecent`, `BarredNotUsed`): two slots and two threads,
  one replacement per slot, a pool kept for 1: a slow reader of the old file
  stores after a quick reader of the new one, and a slot is barred, cleared or
  replaced between the look at the quarantines and the choice.
* `Quarantines` (`SavedUnlessOverlapping`): what is loaded after a crash is the
  map before or after the change under way, unless two threads have persisted
  at once and none alone since.  Two writers are what it takes to overlap, four
  inodes hold the state file, the temporary one and an old one open in each.
* `HelperRate` (`MinuteBudget`): two askers of which one is late by up to two
  minutes, limit 2, seven requests.  A minute lets through its limit, and once
  more the limit for each request that came late: the theorem for all sizes.
* `EmbedPage` (`EdgeTTLSafe`, `JournalAgrees`, `SilentOnlyIfSaid`): one request,
  as requests share nothing; URLs that expire at 2 to 5, are unsigned or
  malformed, against a margin of 2 and time to 4, so that one expires in every
  wait and in none.  Sources that are silent, fit and are too large.
* `LegacyEmbed` (`RecordedOnce`, `FailuresHandedOver`): one request at a time
  through all modes, clients, routes and items the handler tells apart.

Parts of `handlers`:

* `CircuitBreaker` (`OpenIffFailing`, `RefusedMeansProbed`): threshold 2 and
  three requests: two open it while a third, let through before, is still
  upstream and reports in any later state.  Cooldown 2 has a state in between.
* `DailyReport` (`ReportedExactlyOnce`: retained until confirmed, not twice;
  `CountersAgree`, `EventuallyReported`): two previews of two posts with room
  for one detail: every interleaving of two recordings with a reading, a
  delivery in two attempts, a reset and the next report.
* `StatelessOffload` (`NoChainDuringMiss`): two requests for one post with two
  sources: the second waits for the stripe while the first's chain finds
  something, nothing or the wrong media.  A miss of 1 and time to 2 let the
  miss end while somebody waits.  The chain of another post on the same
  stripe, which would only prolong the wait, does not occur.
* `VideoProxy` (`AttemptsSuffice`, `ImplementsStream`): two threads on one slot,
  files of 4 and 5 bytes in chunks of 2 with a limit of 5 and two resumes: a
  body takes up to three chunks, breaks off in or after a chunk, is continued
  from the same or the other file by a part that tells or withholds its size,
  and then by one that tells it: that is compared with the size told first, not
  with that of the file read last.  `ByteStream` keeps for each byte its file
  and whether its part told the size; a finished response's body is forgotten.
* `CompactAV`, `CompactSources` (`ServedFresh`, `SourcesBest`): two viewers, one
  of which leads the flight and may leave; a file that ages past 1 in time 2;
  manifests in which area, bandwidth and order rank the pairs differently.
* `ProxyPool` (`ProxiesFirst`): one fetch through three proxies of which one
  has no client, a race that begins with one of the two others: the delay or a
  failure lets the second join, and results come in any order.  The next fetch
  meets the proxies that cool.
* `HandlersAnswer` joins four liveness properties: every stream and every fetch
  ends, every offload and every viewer is answered.

A `violation` run records a disagreement between the code and a sentence of
the repository; `findings` in `PROJECT.json` quotes both.

* `resolver_carousel`: only `getDataPreferVideo`'s own refresh compares before
  it publishes; a recorded scrape may overwrite a carousel cached meanwhile.
* `breaker_probes`: a failure clears the probe slot whoever reports it.
* `quarantine_lost`: threads write their snapshots of the quarantines to one
  temporary file without a lock, so an older one may be the last.  After a
  restart the account that was quarantined later is in use again.
* `proxies_cooled`: the winner of a race cancels the other attempts, and to them
  the cancellation is an error of the network that marks their proxies as
  failed.  Two successes whose winners differ leave no proxy for the next fetch,
  which in proxy-only mode is refused.
* `silent_video`: the error that says "no audio" is wrapped by the joined error
  of all sources too, so one source's word that a Reel is silent stands against
  another that listed its audio.

Not a run: the ttl bucket is keyed by the expiry alone.  A second post saved
with the same nanosecond takes the first one's row, which is then never
evicted.  `EveryEntryExpires` assumes no ties (`ExpiryTies = FALSE`).

Nor is it one that the auth helper answers from its cache without using a cookie:
`AuthSucceeds` takes such a success (`cached`) for any other, as
`RecordAuthHelperResult` does, so the operator may be told that cookies
recovered which are still refused.

Every run checks for deadlock: a request that ends may be followed by another,
so a state in which nothing can happen has requests that wait for each other.
Where no call need come any more (`AllReturned`, `RateOver`) a stutter says so.

### Fairness

* Cache: the eviction loop of `main.go` sleeps and begins again for ever, so a
  pass is begun (weak fairness).  Passes may fail or die in a restart, but not
  all of them (strong fairness of the commit).  A disk that fails every
  transaction is excluded.
* Resolver: every goroutine goes on, and every upstream call ends, as its HTTP
  client has a timeout (weak fairness of each caller's and each lane's step).
  New requests are not assumed.
* Breaker: handlers end, since their clients have timeouts, and time passes.
  New requests are not assumed; the property speaks of requests that keep
  coming.
* Auth-helper gate: goroutines go on and calls end (weak fairness of each
  flight's step).
* Daily report: the loop goes on and every attempt ends (its client has a
  timeout).  Telegram does not fail every report for ever (strong fairness of
  `Confirm`).
* Alerts: a call that has decided goes on to `Send`, the loop of `Run` takes what
  the channel holds, and an attempt ends, as its client has a timeout (weak
  fairness of each call's `Tell`, of `TakeMessage` and of the end of an attempt).
  Nothing is assumed of Telegram.
* Stateless offload: goroutines go on, sources have timeouts (weak fairness of
  each request's step).  Who waits for a stripe gets it in the end (strong
  fairness of `Lock`): a `sync.Mutex` hands itself to a waiter that has starved
  for a millisecond.
* Proxy pool: fetches and attempts go on, every client has a timeout (weak
  fairness of each fetch's step).
* Video proxy: a thread goes on, and reads and connections have timeouts (weak
  fairness of each thread's step).  Without a free slot a request is answered
  503 at once; nobody waits.
* Compact AV: goroutines go on, ffmpeg and the downloads run under a context
  that ends (weak fairness of each viewer's and the flight's step).

In `handlers` and `background` the fairness of all parts holds together.  A part
that does not run stands at its start, where nothing that is fair could happen
but the start of a report or of an eviction pass; these are therefore asked for
where the report or the cache runs.

## Proofs

The theorems hold for every value of the constants that satisfies the modules'
`ASSUME`, in particular for any number of posts, workers, requests, clients,
threads and previews, any TTL, limit and threshold, and any items, manifests
and answers.  Bounds on the clock (`MaxTime` and the like) are constants too,
and arbitrary.  Every invariant that a run checks is stated by a theorem, and so
are the safety properties of steps and the refinements; `PROJECT.json` lists
them.  Each inductive invariant was first checked by TLC.

Most assumptions only say of what kind a constant is, and that `None` is not
one of the things it stands in for.  Those that say more are facts of the code
or of its defaults, and TLC evaluates them in the runs: a health probe times out
before the next is due (2 s and 30 s), the attempts of the video proxy cover the
largest body, the idle limit of a client covers its unique window and the wait
at the lock, the file system has inodes for the two names and for the files that
threads hold open, a scrape gets the lock before the ring has gone round.

* **Cache** (`BucketsProofs`, `MetadataCacheProofs`).  `CacheStep` is what may
  happen to the buckets: a transaction with a clock reading of now or earlier, a
  restart, time.  `BucketsInv` joins the types, `OneExpiryPerPost`,
  `FreshWithinStale` and, without expiry ties, `EveryEntryExpires` with a fact
  that none of them says: what a save left of the signed expiry
  (`SignatureBound`, which unlike `FreshHonoursSignature` does not depend on the
  moment).  `CacheStepKeeps` says that every `CacheStep` keeps it,
  `CacheStepImplements` that it is a step of the contract or none: a ttl row
  is an entry, a save a `Publish`, an eviction an `Expire`, a restart a `Lose` or
  a stutter.  The latter, like `EntriesExpire`, needs `ExpiryTies = FALSE`.
  What is left for `MetadataCache` is that late commits are such steps, for
  which their readings of the clock must lie in the past (`ReadingsPast`).
  `EvictionSafe` follows from the step: an eviction removes by the expiry that
  is stored, not by the reading at which the entry was saved.
* **Resolver** (`ResolverProofs`).  `StaleSurvives`, `QuietAnonymous` and
  `NeverPoorer` come from one invariant with three parts.  `Waits`: a request
  waits for the lane its state asks, or has an answer that this lane may give,
  never both.  `Knows`: what the state of a request says about what it has in
  hand, which is why stale data, once loaded, is carried through every failure
  up to `Kept`, what it may answer.  `Flies`: what a lane may return (no lane of
  videos returns an item without one, the auth helper's no gallery), and that
  the logged-out lanes wait for no other.  The last is what keeps quiet requests
  anonymous: no chain of waiting leads from them to the helper.  Two lemmas
  carry the rest: `MergedKnows` (a merge keeps owner, caption and statistics of
  both sides) and one per way a request moves on.
  The same invariant says that what a request or a lane saves is an item, so
  each of their steps is a `CacheStep` or leaves the cache alone: with the
  lemmas of `BucketsProofs` the requests leave the buckets as consistent as the
  workers of `MetadataCache` do (`CacheConsistent`), and what they do to the
  cache implements the contract (`CacheImplemented`).
* **Auth-helper gate** (`AuthHelperGateProofs`).  `SlotsCounted`: the slots held
  are those of the flights past the semaphore.  `Scheduled`: the schedule is a
  `HealthTTL` after the beginning of a probe under way, which has not timed out,
  so that no other can be due; this needs `ProbeTimeout < HealthTTL`.
  `Stamped`: without a probe and a failure the schedule stems from the probe
  that saw the status.
* **Guards** (`GuardsProofs`).
  *Budgets of clients.*  History: each admitted request carries the window it
  was counted in and its number there.  `Recorded` bounds a client's windows
  and posts by its `lastSeen` (for the cleanup), `Counted` bounds numbers by
  the limit, `Spaced` says that no two requests share a number of a window and
  that windows of different starts are a window apart.  `SlidingBudget`: the
  requests of the last `Window - Lag` belong to at most two windows, and if the
  later one has begun, the first request of the earlier one is too old to be
  among them; so window and number map them one to one into fewer than twice
  the limit of pairs.
  *Limits per minute.*  A late request sets the window back, and a minute can
  then be counted anew.  `RateInv` is what each minute may still let through: a
  minute ahead of the window has let through at most a limit for each late
  request, the window's minute `count` more, those behind a full limit more.
  *Cookies.*  Each cookie of the pool was in its file at `loadedAt` or later
  (`InFileAt`, with `NewestInFile`), and each that a thread has read so far when
  that thread began.  As `cookie_pool_loaded_at` is the clock before the
  reading, this survives a slow reader that stores over a newer pool; who finds
  the pool young enough then chooses among cookies that may be used.
  `CallerKnows` adds that no account is eligible that has been barred since the
  thread began to choose.
  *Quarantines.*  `SavedUnlessOverlapping` alone is not inductive:
  a thread that persists alone has a snapshot equal to the map, the handle of
  the temporary file, and in it a torn or the complete text (`Alone`), and the
  two names never share an inode.  That an inode is left for a new file is a
  matter of counting: two names and one handle per thread.
* **Handlers** (`HandlersProofs`).
  *Breaker.*  `TypeOK`, `OpenIffFailing` and `ProbeHasOwner` are inductive
  together: a probe exists only while open, which the first report that closes
  the circuit needs.
  *Offload.*  `NoChainDuringMiss` is inductive with the types and `Locked`: a
  request is in a chain only while it holds its post's stripe.  So nobody
  records a miss for the post while a chain of it runs, and who gets the stripe
  looks at the misses again.
  *Choice of tracks.*  `BestPairIsBest` is about two nested loops over a
  manifest of any length.  `BestSoFar` says that the pair kept is the best of
  those compared up to a track, `KeepsBest` that the body of the loop keeps it
  so.  The induction over the tracks is `CountUp`: a set that has 0 and with n
  also n + 1 has all numbers up to N, as otherwise there were a smallest one
  missing (a least element among finite sets of numbers, from the library).
  `PairBest` carries this to what a build joins: the pair of a flight comes from
  the manifest it has asked for.
  *Compact AV.*  `ViewerOK` dates what a viewer is about to open by the moment
  since which the property lets a file count, also while a build it waits for
  has made one but not renamed it (`BuildOK`).
  *Proxies.*  `FetchOK` is how far a fetch can be: the direct client begins only
  when every proxy of the fetch has ended, one client after the other there is
  one attempt at a time, and in a race the direct client has not begun.
  *Video proxy.*  `Good` says of each thread what its
  client was told (`Announced`), that the upstream response stands where the
  body ends and is of a file of the size announced if it tells one
  (`UpToDate`), or has ended before it (`Behind`); with the types it is
  inductive.  `VideoStreams` maps each thread to `ByteStream`, with its own
  variables: opening is `Announce`, a chunk `Extend`, the ways out `Finish`, the
  next request `Reset`.  `AttemptsEnough`: without a fault upstream each attempt
  has brought a whole chunk (in `UpToDate` and `Behind`), and `ChunkAssumption`
  says that the attempts cover a body of `MaxBytes`, as the defaults do.
  `SlotsCounted`: the slots taken are those of the busy threads, so none is
  leaked or given back twice.
* **Pages** (`PagesProofs`).
  *Production page.*  `PagesRecordedOnce` and `HandedOver` need that nothing is
  recorded before the answer (`NotYetRecorded`), how often the proxy may have
  been asked before each step (`ProxiedBefore`), and that a request whose
  failures are handed over never comes to the steps before the generic page
  (`HandsOver`).
  *Stateless page.*  `EmbedOK` says what a request knows in each phase: that the
  media selected exists in the item it has now, whichever refresh replaced it;
  that a track without sound is about to be shown only if a source said so;
  what was written to the journal.  `EdgeOK`: every URL in the stored page
  outlives its end by the margin.  It holds when the page is stored, since the
  lifetime counts from the earliest expiry of the item that is rendered
  (`EdgeTTLEnds`, `EarliestTime`), and neither time nor a later request changes
  it but by storing another page.
  *Together.*  A step of `Guards` or `Handlers` is a step of one part and leaves
  the others alone (`PartsStep`), so each part's specification follows from the
  whole's (`PartsRun`), and with it all that is proved of the part
  (`GuardsTypes`, `GuardsSafe`, `HandlersTypes`, `HandlersSafe`).  Two parts do
  not start where they do not run; what is said of these holds where they do.
* **Observability** (`ObservabilityProofs`).
  *Daily report.*  `Accounted` says that a counter the
  report has read shows all of it but what came late, `Renewed` that counters
  already reset hold nothing that was reported, `Earned` that nothing is
  counted before it is recorded (so a preview cannot return after a report).
  `CountsAgree` follows a preview that meets neither a reading nor a reset: one
  whose recording is under way when either is has met it (`Met`), what it has
  counted so far is still there (`StillThere`), the counters not yet emptied
  agree on it when it is done and the emptied ones do not know it (`LeftAgree`),
  and what the report reads is what is counted (`ReadAgrees`).
  *Alerts.*  One invariant with a part for each group of variables; lemmas first
  say what any step does to a group (`CallsStep`, `TopicsStep`, `ChannelStep`,
  `ScrapesStay`, `CookiesStay`), and the part is kept by these descriptions alone.
  `LastSays`: an alert is out when the last decision on its topic says so, which
  makes `AlertsAlternate` inductive.  `LineInv`: `AlertsInOrder` of the chat, the
  message under way and the channel taken as one line; a call that has yet to
  hand over its message has not returned, so nobody in the line can have decided
  after it (`BeforeInv`).  `RingInv`: a bucket is empty since the start or holds
  all outcomes of its minute, and no recorded scrape is newer than the bucket of
  its slot.  A late call keeps it because it is late by less than the ring is
  long (`MaxWait < WindowMinutes`): two minutes of one slot that close are the
  same (`SlotNear`).  So the window of the newest minute is exact
  (`WindowLemma`), and the alert is right whenever a newest outcome is recorded.
  Without the bound a bucket could be taken back to an older minute and the
  window lose what it held.  `StreakInv`: the streak is the length of the row of
  cookie failures at the end of what was weighed, and the alert is out when it
  has reached the threshold.

Only model-checked: all liveness (`BackgroundSettles`, `AllAnswered`,
`RefusedMeansProbed`, `SlotsComeFree`, `EventuallyReported`,
`HandlersAnswer`), which is out of the prover's reach.
Not claimed: the violated properties.

## Not modelled

`PROJECT.json` lists every component with the reason.

* Grid: files written in place behind an LRU; nothing in the repository says
  what a reader gets of a grid that is being written.
* Legacy offload and the streaming of videos and images keep no state; their
  refreshes are those of `Resolver`.
* Jina and oEmbed texts, utilities, pages and templates: text in, text out.
* Admin endpoints, router, configuration, scripts, the example worker: forward,
  read once, or run beside the server.
* Snapshots of the observability manager; the parsers of Instagram's
  formats; headers and bodies of proxied answers; ffmpeg.

`hazards` lists the lines that are hard to test, with the properties that watch
them.  Some that the code has are kept out of that list, since no sentence of
the repository says what should hold, or since they change no answer:

* `CloseDB` sets the global database to nil while requests and the eviction
  loop may still use it (`cache.go:121`).
* A quiet scrape's failure writes the negative entry that recorded requests
  obey (`data.go:177`); a fresh hit is completed from oEmbed and saved again
  over whatever was saved meanwhile (`data.go:165`); the public refresh saves
  its raw result; of two items the richer is kept, also if it is the older.
* A busy auth helper becomes `ErrNotFound` and is remembered as `not_found`
  (`data.go:1348`).
* Two entries with the same expiry share a row of the ttl bucket (see above); a
  second flight of a grid truncates the file others are being served, and a
  failed encoding leaves a part that a restart adopts (`grid.go`).
* A client that disconnects counts as an upstream failure of the breaker
  (`oginstagram_proxy.go:125`).
* A refused request stays charged to the limits before the one that refused it
  (`protection.go:201`), its post stays among the client's posts (`:219`), and
  the middleware checks post IDs by another function than `allow` (`:206`);
  the cleanup loop decides from `lastSeen` alone.
* `previewFallback` is loaded twice for one report (`manager.go:1130`), the peak
  of media streams is stored after it was loaded (`:1056`), and the messages of
  two calls that overlap may change places.
* The time to live of a miss counts from the start of the chain that recorded
  it, so a slow chain leaves a short miss.
* A resumed part whose Content-Range withholds the total is accepted even if the
  first response told it (`app.py:1336`), so after a refresh the body may go on
  with bytes of another rendition at the same offset.  `ByteStream` allows it
  for such parts alone; no document promises more.
* A requested end beyond the file makes the video proxy announce more than
  there is; its answer then breaks off.
* MP4s in the temporary directory are replaced when old and asked for, never
  removed otherwise.
* One path of `Embed` asks the proxy again without noting the first attempt; an
  item without medias and author leaves through an exit of its own.
* The redirect of a client is `no-store`, but an earlier CDN header stays; the
  path of an expired image renders a fallback without recording a preview.

## Plan

1. `GridCache`: files in place, LRU eviction with its callback, compared with a
   store that serves complete files only.
2. The thumbnail and compact variants of the offload, composed with `CompactAV`.
