---------------------------- MODULE PagesProofs -----------------------------
(***************************************************************************)
(* Proofs about the two preview pages (LegacyEmbed, EmbedPage): what they  *)
(* record, advertise and let the CDN keep.                                 *)
(***************************************************************************)
EXTENDS LegacyEmbed, EmbedPage, FiniteSetTheorems, TLAPS

---------------------------------------------------------------------------
(* The page of the production route. *)

LegacySteps ==
  {"idle", "parse", "redirect", "proxy", "fetch", "auth", "video", "medias", "mediaproxy",
   "name", "fallback", "render", "answered"}

LegacyErrs == {"none", "restricted", "missing"}

LegacyRecords ==
  [step : LegacySteps, req : LegacyRequests \cup {None}, prefers : BOOLEAN,
   item : LegacyItems \cup {None}, err : LegacyErrs, authErr : LegacyErrs,
   proxied : Nat, previews : Nat, redirects : Nat,
   answer : {"none", "og", "client", "proxied", "invalid", "instagram", "fallback", "page"}]

(* How often the proxy may have been asked before a step.                  *)
ProxiedBefore ==
  /\ legacy.step \in {"idle", "parse", "redirect", "proxy"} => legacy.proxied = 0
  /\ legacy.step \in {"fetch", "auth", "video"} => legacy.proxied <= 1
  /\ legacy.step \in {"medias", "mediaproxy", "name", "render"} => legacy.proxied <= 2
  /\ legacy.proxied <= 3

(* Nothing is recorded before the answer.                                  *)
NotYetRecorded ==
  legacy.step # "answered" => legacy.previews = 0 /\ legacy.redirects = 0

(* A request whose failures are handed over never gets to the proxy that   *)
(* comes before the generic page.                                          *)
HandsOver ==
  legacyMode.redirect = "preview_fallback" /\ IsPreview /\ legacy.req.plain
    /\ legacy.req.path \in {"p", "reel"}
  => legacy.step \notin {"mediaproxy", "fallback"}

LegacyInv ==
  /\ legacy \in LegacyRecords
  /\ legacy.step \in {"name", "render"} => ~NoMedia(legacy.item)
  /\ ProxiedBefore /\ NotYetRecorded /\ RecordedOnce
  /\ HandsOver /\ FailuresHandedOver

LEMMA LegacyStart == LegacyInit => LegacyInv
<1> SUFFICES ASSUME LegacyInit PROVE LegacyInv
  OBVIOUS
<1>1. legacy \in LegacyRecords /\ legacy.step = "idle"
  BY DEF LegacyInit, NoLegacy, LegacyRecords, LegacySteps, LegacyErrs
<1>2. legacy.proxied = 0 /\ legacy.previews = 0 /\ legacy.redirects = 0
  BY DEF LegacyInit, NoLegacy
<1> QED
  BY <1>1, <1>2 DEF LegacyInv, ProxiedBefore, NotYetRecorded, RecordedOnce, HandsOver,
                    FailuresHandedOver

(* A request that goes on has recorded nothing yet.                        *)
LEMMA LegacyGoesOn ==
  ASSUME LegacyInv, legacy' \in LegacyRecords, UNCHANGED legacyMode,
         legacy.step # "answered", legacy'.step # "answered",
         legacy'.previews = legacy.previews, legacy'.redirects = legacy.redirects,
         legacy'.step \in {"name", "render"} => ~NoMedia(legacy.item)', ProxiedBefore', HandsOver'
  PROVE  LegacyInv'
BY DEF LegacyInv, NotYetRecorded, RecordedOnce, FailuresHandedOver, NoMedia

LEMMA LegacyOnward ==
  ASSUME LegacyInv, NEW step \in LegacySteps \ {"answered"}, Onward(step), UNCHANGED legacyMode,
         legacy.step # "answered",
         step \in {"name", "render"} => ~NoMedia(legacy.item),
         step \in {"idle", "parse", "redirect", "proxy"} => legacy.proxied = 0,
         step \in {"fetch", "auth", "video"} => legacy.proxied <= 1,
         step \in {"medias", "mediaproxy", "name", "render"} => legacy.proxied <= 2,
         legacyMode.redirect = "preview_fallback" /\ IsPreview /\ legacy.req.plain
           /\ legacy.req.path \in {"p", "reel"} => step \notin {"mediaproxy", "fallback"}
  PROVE  LegacyInv'
<1> DEFINE q == [legacy EXCEPT !.step = step]
<1>1. /\ q \in LegacyRecords /\ q.step = step /\ q.proxied = legacy.proxied
      /\ q.previews = legacy.previews /\ q.redirects = legacy.redirects
      /\ q.item = legacy.item /\ q.req = legacy.req
  BY DEF LegacyInv, LegacyRecords
<1>2. legacy' = q /\ legacy.proxied <= 3
  BY DEF Onward, LegacyInv, ProxiedBefore
<1> HIDE DEF q
<1>3. ProxiedBefore'
  BY <1>1, <1>2 DEF ProxiedBefore
<1>4. HandsOver'
  BY <1>1, <1>2 DEF HandsOver, IsPreview
<1> QED
  BY <1>1, <1>2, <1>3, <1>4, LegacyGoesOn

(* Whoever answers records.                                                *)
LEMMA LegacyAnswers ==
  ASSUME LegacyInv, UNCHANGED legacyMode, legacy.step # "answered",
         legacy' \in LegacyRecords, legacy'.step = "answered", legacy'.proxied <= 3,
         legacy'.item = legacy.item, legacy'.req = legacy.req, legacy'.err = legacy.err,
         legacy'.prefers = legacy.prefers,
         legacy'.previews = (IF legacy'.answer \in {"og", "instagram"} THEN 0 ELSE 1),
         legacy'.redirects = (IF legacy'.answer \in {"og", "client"} THEN 1 ELSE 0),
         legacyMode.redirect = "preview_fallback" /\ IsPreview /\ legacy.req.plain
           /\ legacy.req.path \in {"p", "reel"} =>
             /\ legacy'.answer # "fallback"
             /\ legacy'.answer = "og" =>
                  ~(legacy.err = "none" /\ ~NoMedia(legacy.item) /\ legacy.item.named
                      /\ (legacy.prefers => legacy.item.video))
  PROVE  LegacyInv'
<1>1. ProxiedBefore' /\ NotYetRecorded' /\ RecordedOnce'
  BY DEF ProxiedBefore, NotYetRecorded, RecordedOnce
<1>2. HandsOver'
  BY DEF HandsOver
<1>3. NoMedia(legacy.item)' <=> NoMedia(legacy.item)
  BY DEF NoMedia
<1>4. FailuresHandedOver'
  BY <1>3 DEF FailuresHandedOver, IsPreview
<1> QED
  BY <1>1, <1>2, <1>4 DEF LegacyInv

LEMMA LegacyRecord ==
  ASSUME LegacyInv, legacy.step # "answered"
  PROVE  /\ legacy \in LegacyRecords /\ legacy.previews = 0 /\ legacy.redirects = 0
         /\ legacy.proxied \in 0..3
BY DEF LegacyInv, NotYetRecorded, LegacyRecords, ProxiedBefore

(* The ways to answer.                                                     *)
LEMMA PageAnswers ==
  ASSUME LegacyInv, UNCHANGED legacyMode, legacy.step # "answered",
         NEW answer \in {"invalid", "page", "fallback"}, AnswerPage(answer),
         answer = "fallback" =>
           ~(legacyMode.redirect = "preview_fallback" /\ IsPreview /\ legacy.req.plain
               /\ legacy.req.path \in {"p", "reel"})
  PROVE  LegacyInv'
<1>1. /\ legacy \in LegacyRecords /\ legacy.previews = 0 /\ legacy.redirects = 0
      /\ legacy.proxied \in 0..3
  BY LegacyRecord
<1>2. legacy' = [legacy EXCEPT !.step = "answered", !.answer = answer, !.previews = 1]
  BY <1>1 DEF AnswerPage
<1>3. /\ legacy' \in LegacyRecords /\ legacy'.step = "answered"
      /\ legacy'.proxied = legacy.proxied /\ legacy'.answer = answer
      /\ legacy'.previews = 1 /\ legacy'.redirects = 0
      /\ legacy'.item = legacy.item /\ legacy'.req = legacy.req /\ legacy'.err = legacy.err
      /\ legacy'.prefers = legacy.prefers
  BY <1>1, <1>2 DEF LegacyRecords, LegacySteps
<1> QED
  BY <1>1, <1>3, LegacyAnswers

LEMMA RedirectAnswers ==
  ASSUME LegacyInv, UNCHANGED legacyMode, legacy.step # "answered",
         RedirectOver,
         legacyMode.redirect = "preview_fallback" /\ IsPreview /\ legacy.req.plain =>
           ~(legacy.err = "none" /\ ~NoMedia(legacy.item) /\ legacy.item.named
               /\ (legacy.prefers => legacy.item.video))
  PROVE  LegacyInv'
<1>1. /\ legacy \in LegacyRecords /\ legacy.previews = 0 /\ legacy.redirects = 0
      /\ legacy.proxied \in 0..3
  BY LegacyRecord
<1>2. legacy' = [legacy EXCEPT !.step = "answered", !.answer = "og", !.redirects = 1]
  BY <1>1 DEF RedirectOver
<1>3. /\ legacy' \in LegacyRecords /\ legacy'.step = "answered"
      /\ legacy'.proxied = legacy.proxied /\ legacy'.answer = "og"
      /\ legacy'.previews = 0 /\ legacy'.redirects = 1
      /\ legacy'.item = legacy.item /\ legacy'.req = legacy.req /\ legacy'.err = legacy.err
      /\ legacy'.prefers = legacy.prefers
  BY <1>1, <1>2 DEF LegacyRecords, LegacySteps
<1> QED
  BY <1>1, <1>3, LegacyAnswers

LEMMA ClientAnswers ==
  ASSUME LegacyInv, UNCHANGED legacyMode, legacy.step # "answered",
         AnswerClientMedia
  PROVE  LegacyInv'
<1>1. /\ legacy \in LegacyRecords /\ legacy.previews = 0 /\ legacy.redirects = 0
      /\ legacy.proxied \in 0..3
  BY LegacyRecord
<1>2. legacy' = [legacy EXCEPT !.step = "answered", !.answer = "client",
                                    !.previews = 1, !.redirects = 1]
  BY <1>1 DEF AnswerClientMedia
<1>3. /\ legacy' \in LegacyRecords /\ legacy'.step = "answered"
      /\ legacy'.proxied = legacy.proxied /\ legacy'.answer = "client"
      /\ legacy'.previews = 1 /\ legacy'.redirects = 1
      /\ legacy'.item = legacy.item /\ legacy'.req = legacy.req /\ legacy'.err = legacy.err
      /\ legacy'.prefers = legacy.prefers
  BY <1>1, <1>2 DEF LegacyRecords, LegacySteps
<1> QED
  BY <1>1, <1>3, LegacyAnswers

(* The proxy answers, or the request goes on with it asked.                *)
LEMMA ProxyAnswers ==
  ASSUME LegacyInv, UNCHANGED legacyMode, legacy.step # "answered",
         NEW next \in {"fetch", "medias", "fallback"}, Proxy(next),
         legacy.proxied <= 2, next = "medias" => legacy.proxied <= 1,
         next = "fetch" => legacy.proxied = 0,
         next = "fallback" =>
           ~(legacyMode.redirect = "preview_fallback" /\ IsPreview /\ legacy.req.plain
               /\ legacy.req.path \in {"p", "reel"})
  PROVE  LegacyInv'
<1>1. /\ legacy \in LegacyRecords /\ legacy.previews = 0 /\ legacy.redirects = 0
      /\ legacy.proxied \in 0..3 /\ legacy.proxied + 1 \in Nat
  BY LegacyRecord
<1>2. CASE legacy' = [legacy EXCEPT !.step = "answered", !.answer = "proxied",
                                    !.previews = @ + 1, !.proxied = @ + 1]
  <2>1. legacy' = [legacy EXCEPT !.step = "answered", !.answer = "proxied",
                                 !.previews = 1, !.proxied = legacy.proxied + 1]
    BY <1>1, <1>2
  <2>2. /\ legacy' \in LegacyRecords /\ legacy'.step = "answered"
        /\ legacy'.proxied = legacy.proxied + 1 /\ legacy'.answer = "proxied"
        /\ legacy'.previews = 1 /\ legacy'.redirects = 0
        /\ legacy'.item = legacy.item /\ legacy'.req = legacy.req /\ legacy'.err = legacy.err
        /\ legacy'.prefers = legacy.prefers
    BY <1>1, <2>1 DEF LegacyRecords, LegacySteps
  <2> QED
    BY <1>1, <2>2, LegacyAnswers
<1>3. CASE legacy' = [legacy EXCEPT !.step = next,
                                    !.proxied = IF legacyMode.proxy THEN @ + 1 ELSE @]
  <2>1. legacy.proxied \in Nat /\ legacy.proxied + 1 \in Nat
    BY <1>1
  <2>2. /\ legacy' \in LegacyRecords /\ legacy'.step = next
        /\ legacy'.previews = legacy.previews /\ legacy'.redirects = legacy.redirects
        /\ legacy'.item = legacy.item /\ legacy'.req = legacy.req
    BY <1>1, <1>3, <2>1 DEF LegacyRecords, LegacySteps
  <2>3. legacy'.proxied = legacy.proxied \/ legacy'.proxied = legacy.proxied + 1
    BY <1>1, <1>3 DEF LegacyRecords
  <2>4. ProxiedBefore'
    BY <1>1, <2>2, <2>3 DEF ProxiedBefore
  <2>5. HandsOver'
    BY <2>2 DEF HandsOver, IsPreview
  <2> QED
    BY <2>2, <2>4, <2>5, LegacyGoesOn
<1> QED
  BY <1>2, <1>3 DEF Proxy
LEMMA MissingIsNamed == legacy \in LegacyRecords => MissingErr # "none"
BY DEF MissingErr, LegacyRecords, LegacyErrs

LEMMA FallbackRedirects ==
  ASSUME NEW err, legacyMode.redirect = "preview_fallback"
  PROVE  Redirects(err) <=> err # "none" /\ IsPreview /\ (IsReel \/ legacy.req.path = "p")
BY DEF Redirects

LEMMA AskLegacyStep ==
  ASSUME LegacyInv, NEW req \in LegacyRequests, AskLegacy(req)
  PROVE  LegacyInv'
<1>1. /\ legacy \in LegacyRecords /\ legacy.previews = 0 /\ legacy.redirects = 0
  BY LegacyRecord DEF AskLegacy
<1>2. /\ legacy' \in LegacyRecords /\ legacy'.step = "parse" /\ legacy'.proxied = 0
      /\ legacy'.previews = 0 /\ legacy'.redirects = 0
  BY DEF AskLegacy, NoLegacy, LegacyRecords, LegacySteps, LegacyErrs
<1>3. ProxiedBefore' /\ HandsOver'
  BY <1>2 DEF ProxiedBefore, HandsOver
<1> QED
  BY <1>1, <1>2, <1>3, LegacyGoesOn DEF AskLegacy

LEMMA ParseStep == ASSUME LegacyInv, Parse PROVE LegacyInv'
<1>1. legacy.step = "parse" /\ UNCHANGED legacyMode
  BY DEF Parse
<1>2. CASE AnswerPage("invalid")
  BY <1>1, <1>2, PageAnswers
<1>3. CASE legacy' = [legacy EXCEPT !.step = "answered", !.answer = "instagram"]
  <2>1. /\ legacy \in LegacyRecords /\ legacy.previews = 0 /\ legacy.redirects = 0
        /\ legacy.proxied \in 0..3
    BY <1>1, LegacyRecord
  <2>2. /\ legacy' \in LegacyRecords /\ legacy'.step = "answered"
        /\ legacy'.proxied = legacy.proxied /\ legacy'.answer = "instagram"
        /\ legacy'.previews = 0 /\ legacy'.redirects = 0
        /\ legacy'.item = legacy.item /\ legacy'.req = legacy.req /\ legacy'.err = legacy.err
        /\ legacy'.prefers = legacy.prefers
    BY <1>3, <2>1 DEF LegacyRecords, LegacySteps
  <2> QED
    BY <1>1, <2>1, <2>2, LegacyAnswers
<1>4. CASE Onward("redirect")
  <2>1. legacy.proxied = 0
    BY <1>1 DEF LegacyInv, ProxiedBefore
  <2> QED
    BY <1>1, <1>4, <2>1, LegacyOnward DEF LegacySteps
<1> QED
  BY <1>2, <1>3, <1>4 DEF Parse

LEMMA FirstSteps == ASSUME LegacyInv, RedirectFirst \/ ProxyFirst PROVE LegacyInv'
<1>1. legacy.step \in {"redirect", "proxy"} /\ UNCHANGED legacyMode
  BY DEF RedirectFirst, ProxyFirst
<1>2. legacy.proxied = 0
  BY <1>1 DEF LegacyInv, ProxiedBefore
<1>3. CASE legacy.req.plain /\ Redirects("none") /\ RedirectOver
  BY <1>1, <1>3, FallbackRedirects, RedirectAnswers
<1>4. CASE Onward("proxy") \/ Onward("fetch")
  BY <1>1, <1>2, <1>4, LegacyOnward DEF LegacySteps
<1>5. CASE Proxy("fetch")
  BY <1>1, <1>2, <1>5, ProxyAnswers
<1> QED
  BY <1>3, <1>4, <1>5 DEF RedirectFirst, ProxyFirst

(* The item or the error of a fetch.                                       *)
LEMMA LegacyFetches ==
  ASSUME LegacyInv, UNCHANGED legacyMode, legacy.step \in {"fetch", "auth"},
         legacy' \in LegacyRecords, legacy'.step \in {"auth", "video"},
         legacy'.previews = legacy.previews, legacy'.redirects = legacy.redirects,
         legacy'.proxied = legacy.proxied
  PROVE  LegacyInv'
<1>1. ProxiedBefore'
  BY DEF ProxiedBefore, LegacyInv
<1>2. HandsOver'
  BY DEF HandsOver
<1> QED
  BY <1>1, <1>2, LegacyGoesOn

LEMMA FetchLegacyStep == ASSUME LegacyInv, FetchLegacy PROVE LegacyInv'
<1>1. PICK item \in LegacyItems \cup {None}, err \in LegacyErrs, prefers \in BOOLEAN :
        legacy' = [legacy EXCEPT !.step = "auth", !.item = item, !.err = err,
                                 !.prefers = prefers]
  BY DEF FetchLegacy, LegacyErrs
<1>2. legacy \in LegacyRecords
  BY DEF LegacyInv
<1>3. /\ legacy' \in LegacyRecords /\ legacy'.step = "auth" /\ legacy'.proxied = legacy.proxied
      /\ legacy'.previews = legacy.previews /\ legacy'.redirects = legacy.redirects
  BY <1>1, <1>2 DEF LegacyRecords, LegacySteps
<1> QED
  BY <1>3, LegacyFetches DEF FetchLegacy

LEMMA AuthFallbackStep == ASSUME LegacyInv, AuthFallback PROVE LegacyInv'
<1>1. legacy.step = "auth" /\ UNCHANGED legacyMode /\ legacy \in LegacyRecords
  BY DEF AuthFallback, LegacyInv
<1>2. CASE Onward("video")
  <2>1. legacy.proxied <= 1
    BY <1>1 DEF LegacyInv, ProxiedBefore
  <2> QED
    BY <1>1, <1>2, <2>1, LegacyOnward DEF LegacySteps
<1>3. ASSUME NEW auth \in LegacyItems,
             legacy' = [legacy EXCEPT !.step = "video", !.err = "none",
                          !.item = IF UsesAuthItem(auth) THEN auth ELSE @]
      PROVE  LegacyInv'
  <2>1. /\ legacy' \in LegacyRecords /\ legacy'.step = "video"
        /\ legacy'.proxied = legacy.proxied
        /\ legacy'.previews = legacy.previews /\ legacy'.redirects = legacy.redirects
    BY <1>1, <1>3 DEF LegacyRecords, LegacySteps, LegacyErrs
  <2> QED
    BY <1>1, <2>1, LegacyFetches
<1>4. ASSUME NEW authErr \in {"none", "restricted", "missing"},
             legacy' = [legacy EXCEPT !.step = "video", !.authErr = authErr]
      PROVE  LegacyInv'
  <2>1. /\ legacy' \in LegacyRecords /\ legacy'.step = "video"
        /\ legacy'.proxied = legacy.proxied
        /\ legacy'.previews = legacy.previews /\ legacy'.redirects = legacy.redirects
    BY <1>1, <1>4 DEF LegacyRecords, LegacySteps, LegacyErrs
  <2> QED
    BY <1>1, <2>1, LegacyFetches
<1> QED
  BY <1>2, <1>3, <1>4 DEF AuthFallback

LEMMA LacksVideoStep == ASSUME LegacyInv, LacksVideo PROVE LegacyInv'
<1>1. legacy.step = "video" /\ UNCHANGED legacyMode /\ legacy.proxied <= 1
  BY DEF LacksVideo, LegacyInv, ProxiedBefore
<1>2. legacy.proxied <= 2
  BY <1>1, LegacyRecord
<1>3. CASE /\ legacy.prefers /\ (NoMedia(legacy.item) \/ ~legacy.item.video)
           /\ RedirectOver
  BY <1>1, <1>3, RedirectAnswers
<1>4. CASE AnswerClientMedia
  BY <1>1, <1>4, ClientAnswers
<1>5. CASE Proxy("medias")
  BY <1>1, <1>2, <1>5, ProxyAnswers
<1>6. CASE Onward("medias")
  BY <1>1, <1>2, <1>6, LegacyOnward DEF LegacySteps
<1> QED
  BY <1>3, <1>4, <1>5, <1>6 DEF LacksVideo

LEMMA LacksMediaStep == ASSUME LegacyInv, LacksMedia PROVE LegacyInv'
<1>1. /\ legacy.step = "medias" /\ UNCHANGED legacyMode /\ legacy.proxied <= 2
      /\ MissingErr # "none"
  BY MissingIsNamed DEF LacksMedia, LegacyInv, ProxiedBefore
<1>2. CASE legacy.err # "none" \/ NoMedia(legacy.item)
  <2>1. CASE RedirectOver
    BY <1>1, <1>2, <2>1, RedirectAnswers
  <2>2. CASE Onward("mediaproxy") /\ ~(legacy.req.plain /\ Redirects(MissingErr))
    <3>1. ~(legacyMode.redirect = "preview_fallback" /\ IsPreview /\ legacy.req.plain
             /\ legacy.req.path \in {"p", "reel"})
      BY <1>1, <2>2, FallbackRedirects DEF IsReel
    <3> QED
      BY <1>1, <2>2, <3>1, LegacyOnward DEF LegacySteps
  <2> QED
    BY <1>2, <2>1, <2>2 DEF LacksMedia
<1>3. CASE ~(legacy.err # "none" \/ NoMedia(legacy.item))
  BY <1>1, <1>3, LegacyOnward DEF LacksMedia, LegacySteps
<1> QED
  BY <1>2, <1>3

LEMMA MediaProxyStep == ASSUME LegacyInv, MediaProxy PROVE LegacyInv'
<1>1. /\ legacy.step = "mediaproxy" /\ UNCHANGED legacyMode /\ legacy.proxied <= 2
      /\ ~(legacyMode.redirect = "preview_fallback" /\ IsPreview /\ legacy.req.plain
             /\ legacy.req.path \in {"p", "reel"})
  BY DEF MediaProxy, LegacyInv, ProxiedBefore, HandsOver
<1>2. CASE Proxy("fallback")
  BY <1>1, <1>2, ProxyAnswers
<1>3. CASE Onward("fallback")
  BY <1>1, <1>3, LegacyOnward DEF LegacySteps
<1> QED
  BY <1>2, <1>3 DEF MediaProxy

LEMMA LacksNameStep == ASSUME LegacyInv, LacksName PROVE LegacyInv'
<1>1. /\ legacy.step = "name" /\ UNCHANGED legacyMode /\ legacy.proxied <= 2
      /\ ~NoMedia(legacy.item)
  BY DEF LacksName, LegacyInv, ProxiedBefore
<1>2. CASE AnswerPage("invalid")
  BY <1>1, <1>2, PageAnswers
<1>3. CASE Onward("render")
  BY <1>1, <1>3, LegacyOnward DEF LegacySteps
<1>4. CASE ~legacy.item.named /\ RedirectOver
  BY <1>1, <1>4, RedirectAnswers
<1>5. CASE AnswerClientMedia
  BY <1>1, <1>5, ClientAnswers
<1>6. CASE ~(legacy.req.plain /\ Redirects("missing")) /\ (Proxy("fallback") \/ Onward("fallback"))
  <2>1. ~(legacyMode.redirect = "preview_fallback" /\ IsPreview /\ legacy.req.plain
           /\ legacy.req.path \in {"p", "reel"})
    BY <1>6, FallbackRedirects DEF IsReel
  <2>2. CASE Proxy("fallback")
    BY <1>1, <2>1, <2>2, ProxyAnswers
  <2>3. CASE Onward("fallback")
    BY <1>1, <2>1, <2>3, LegacyOnward DEF LegacySteps
  <2> QED
    BY <1>6, <2>2, <2>3
<1> QED
  BY <1>2, <1>3, <1>4, <1>5, <1>6 DEF LacksName

LEMMA LastSteps == ASSUME LegacyInv, FallbackPage \/ RenderLegacy \/ LegacySent PROVE LegacyInv'
<1>1. CASE FallbackPage
  <2>1. ~(legacyMode.redirect = "preview_fallback" /\ IsPreview /\ legacy.req.plain
           /\ legacy.req.path \in {"p", "reel"})
    BY <1>1 DEF FallbackPage, LegacyInv, HandsOver
  <2> QED
    BY <1>1, <2>1, PageAnswers DEF FallbackPage
<1>2. CASE RenderLegacy
  BY <1>2, PageAnswers, ClientAnswers DEF RenderLegacy
<1>3. CASE LegacySent
  <2>1. /\ legacy' \in LegacyRecords /\ legacy'.step = "idle" /\ legacy'.proxied = 0
        /\ legacy'.previews = 0 /\ legacy'.redirects = 0
    BY <1>3 DEF LegacySent, NoLegacy, LegacyRecords, LegacySteps, LegacyErrs
  <2> QED
    BY <2>1 DEF LegacyInv, ProxiedBefore, NotYetRecorded, RecordedOnce, HandsOver,
                FailuresHandedOver
<1> QED
  BY <1>1, <1>2, <1>3

LEMMA LegacyInvariant == LegacySpec => []LegacyInv
<1>1. LegacyInv /\ [LegacyNext]_legacyVars => LegacyInv'
  <2> SUFFICES ASSUME LegacyInv, [LegacyNext]_legacyVars PROVE LegacyInv'
    OBVIOUS
  <2>1. CASE UNCHANGED legacyVars
    BY <2>1 DEF legacyVars, LegacyInv, ProxiedBefore, NotYetRecorded, RecordedOnce, HandsOver,
       FailuresHandedOver, IsPreview, NoMedia
  <2> QED
    BY <2>1, AskLegacyStep, ParseStep, FirstSteps, FetchLegacyStep, AuthFallbackStep,
       LacksVideoStep, LacksMediaStep, MediaProxyStep, LacksNameStep, LastSteps DEF LegacyNext
<1> QED
  BY <1>1, LegacyStart, PTL DEF LegacySpec

(* The request of the production route keeps its types; the proxy of       *)
(* OGInstagram is asked at most three times for it.                        *)
THEOREM LegacyTypeCorrect == LegacySpec => []LegacyTypeOK
<1>1. LegacyInv => LegacyTypeOK
  <2> SUFFICES ASSUME LegacyInv PROVE LegacyTypeOK
    OBVIOUS
  <2>1. legacy \in LegacyRecords /\ legacy.proxied <= 3
    BY DEF LegacyInv, ProxiedBefore
  <2>2. legacy.item \in LegacyItems \cup {None} /\ legacy.proxied \in Nat
    BY <2>1 DEF LegacyRecords
  <2>3. legacy.previews \in 0..1 /\ legacy.redirects \in 0..1
    BY DEF LegacyInv, NotYetRecorded, RecordedOnce
  <2> QED
    BY <2>1, <2>2, <2>3 DEF LegacyTypeOK
<1> QED
  BY <1>1, LegacyInvariant, PTL

(* Each page that a bot gets is counted once among the preview requests,   *)
(* on whichever exit of Embed, and a handoff once among the redirects.     *)
THEOREM PagesRecordedOnce == LegacySpec => []RecordedOnce
BY LegacyInvariant, PTL DEF LegacyInv

(* Under preview_fallback a preview client is handed over instead of       *)
(* getting the generic page, whatever failed, and keeps a preview that     *)
(* could be made (TryOGInstagramClientRedirect in every exit of Embed).    *)
THEOREM HandedOver == LegacySpec => []FailuresHandedOver
BY LegacyInvariant, PTL DEF LegacyInv
---------------------------------------------------------------------------
(* The stateless page. *)

EmbedPhases ==
  {"idle", "fetch", "select", "graphql", "anonymous", "original", "measure", "resolve",
   "render", "answered"}

Pairs == {BestPair(body.tracks) : body \in AVBodies} \cup {None}

AskedFields == [tried : 0..AVSources, silent : BOOLEAN, failed : BOOLEAN, pair : Pairs]

EmbedRecords ==
  [phase : EmbedPhases, kind : EmbedKinds \cup {None}, prefers : BOOLEAN, at : Nat,
   item : EmbedItems \cup {None}, big : BOOLEAN, asked : AskedFields, heard : BOOLEAN,
   show : {"direct", "compact", "silent", "cover"}, page : Pages \cup {None}]

(* The journal's entry for a page.                                         *)
Journalled(r, page) ==
  Tracked(r) =>
    /\ (page.decision = "compact") <=> (page.video = "compact")
    /\ (page.decision = "direct") => (page.video = "direct")
    /\ (page.decision = "blocked") <=> (page.kind \in {"fallback", "invalid"})
    /\ (page.decision = "none") => (page.kind \in {"redirect", "client"})

Dash(r) == Tracked(r) /\ Selected(r) = 1 /\ MediaOf(r).dash

(* How far a request is: it has the selected media from its choice on, and *)
(* a track without sound is only shown when that was said.                 *)
EmbedOK(r) ==
  /\ r \in EmbedRecords
  /\ r.phase # "idle" => r.kind \in EmbedKinds
  /\ r.phase \notin {"idle", "fetch", "answered"} => Has(r.item, Selected(r))
  /\ r.phase = "original" => r.kind.original
  /\ r.phase = "render" /\ Dash(r) /\ MediaOf(r).video =>
       r.show \in {"compact", "cover"} \/ (r.show = "silent" /\ r.asked.silent)
  /\ (r.page # None) <=> (r.phase = "answered")
  /\ r.phase = "answered" =>
       /\ Journalled(r, r.page)
       /\ r.page.video = "direct" /\ Dash(r) => r.asked.silent

(* The stored page expires before its URLs by the margin.                  *)
EdgeOK ==
  edge # None =>
    /\ edge.until \in 0..(MaxEmbedTime + NormalTTL + FallbackTTL)
    /\ \A url \in edge.ads :
         /\ url \notin {Foreign, Malformed}
         /\ Signed(url) => url \in Int /\ url - edge.until >= Margin

EmbedInv ==
  /\ embedTime \in 0..MaxEmbedTime
  /\ embed \in [Embeds -> EmbedRecords]
  /\ \A e \in Embeds : EmbedOK(embed[e])
  /\ EdgeOK

(* A finite set of times has an earliest one.                              *)
LEMMA EarliestTime ==
  ASSUME NEW S \in SUBSET Int, IsFiniteSet(S), S # {}
  PROVE  Earliest(S) \in S /\ \A t \in S : Earliest(S) <= t
<1> DEFINE UpTo(t) == {u \in S : u <= t}
           T == {UpTo(t) : t \in S}
<1>1. T \subseteq FiniteSubsetsOf(S) /\ T # {}
  <2>1. T \subseteq SUBSET S /\ T # {}
    OBVIOUS
  <2> HIDE DEF T
  <2> QED
    BY <2>1, FS_FiniteSubsetsOfFinite
<1>2. IsWellFoundedOn(StrictSubsetOrdering(S), FiniteSubsetsOf(S))
  BY FS_StrictSubsetOrderingWellFounded
<1>3. PICK X \in T : \A Y \in T : ~ (<<Y, X>> \in StrictSubsetOrdering(S))
  <2> HIDE DEF T
  <2> QED
    BY <1>1, <1>2, WFMin
<1>4. PICK t \in S : X = UpTo(t)
  BY <1>3
<1>5. ASSUME NEW u \in S PROVE t <= u
  <2> SUFFICES ASSUME u < t PROVE FALSE
    BY <1>5
  <2>1. UpTo(u) \subseteq X /\ UpTo(u) # X
    <3>1. u \in Int /\ t \in Int /\ u <= t /\ ~(t <= u)
      OBVIOUS
    <3>2. \A v \in S : v <= u => v <= t
      BY <3>1
    <3>3. t \in X /\ t \notin UpTo(u)
      BY <1>4, <3>1
    <3> QED
      BY <1>4, <3>2, <3>3
  <2>2. UpTo(u) \in T /\ UpTo(u) \in SUBSET S /\ X \in SUBSET S
    BY <1>4
  <2> QED
    BY <1>3, <2>1, <2>2 DEF StrictSubsetOrdering
<1> QED
  BY <1>5 DEF Earliest

LEMMA ExpiriesTypes ==
  ASSUME NEW item \in EmbedItems
  PROVE  Expiries(item) \subseteq Int /\ IsFiniteSet(Expiries(item))
<1> DEFINE urls == [i \in DOMAIN item |-> {item[i].url, item[i].thumb}]
           all == {urls[i] : i \in DOMAIN item}
<1>1. /\ item \in Seq([video : BOOLEAN, dash : BOOLEAN, url : Urls, thumb : Urls])
      /\ \A i \in DOMAIN item : item[i].url \in Urls /\ item[i].thumb \in Urls
  <2> DEFINE Medias == [video : BOOLEAN, dash : BOOLEAN, url : Urls, thumb : Urls]
  <2>1. item \in Seq(Medias)
    BY EmbedAssumption
  <2>2. \A i \in DOMAIN item : item[i] \in Medias
    <3> HIDE DEF Medias
    <3> QED
      BY <2>1
  <2>3. \A i \in DOMAIN item : item[i].url \in Urls /\ item[i].thumb \in Urls
    BY <2>2
  <2> QED
    BY <2>1, <2>3
<1>2. IsFiniteSet(DOMAIN item)
  BY <1>1, FS_Interval
<1>3. urls \in Surjection(DOMAIN item, all)
  BY DEF Surjection
<1>4. IsFiniteSet(all)
  BY <1>2, <1>3, FS_Surjection
<1>5. \A T \in all : IsFiniteSet(T)
  <2> SUFFICES ASSUME NEW i \in DOMAIN item PROVE IsFiniteSet({item[i].url, item[i].thumb})
    OBVIOUS
  <2>1. IsFiniteSet({item[i].url})
    BY FS_Singleton
  <2>2. {item[i].url, item[i].thumb} = {item[i].url} \cup {item[i].thumb}
    OBVIOUS
  <2> QED
    BY <2>1, <2>2, FS_AddElement
<1>6. IsFiniteSet(UNION all)
  BY <1>4, <1>5, FS_UNION
<1>7. UNION all = UNION {{item[i].url, item[i].thumb} : i \in DOMAIN item}
  OBVIOUS
<1>8. Expiries(item) \in SUBSET UNION all
  BY <1>7 DEF Expiries
<1>9. IsFiniteSet(Expiries(item))
  <2> HIDE DEF all
  <2> QED
    BY <1>6, <1>8, FS_Subset
<1>10. Expiries(item) \subseteq Int
  BY <1>1 DEF Expiries, Signed, Urls
<1> QED
  BY <1>9, <1>10

(* The lifetime that the page of an item gets ends before any of the       *)
(* item's URLs is within the margin of its expiry.                         *)
LEMMA EdgeTTLEnds ==
  ASSUME NEW item \in EmbedItems, NEW at \in Nat
  PROVE  /\ EdgeTTL(item, at) \in 0..NormalTTL
         /\ EdgeTTL(item, at) # 0 =>
              \A url \in Expiries(item) : url - (at + EdgeTTL(item, at)) >= Margin
<1> DEFINE all == Expiries(item)
           left == Earliest(all) - Margin - at
<1>1. all \subseteq Int /\ IsFiniteSet(all)
  BY ExpiriesTypes
<1>2. NormalTTL \in Nat /\ NormalTTL > 0 /\ Margin \in Nat
  BY EmbedAssumption
<1>3. all # {} => Earliest(all) \in Int /\ \A url \in all : Earliest(all) <= url
  BY <1>1, EarliestTime
<1>4. EdgeTTL(item, at) = IF all = {} \/ left >= NormalTTL THEN NormalTTL
                          ELSE IF left <= 0 THEN 0 ELSE left
  BY DEF EdgeTTL
<1>5. /\ EdgeTTL(item, at) \in 0..NormalTTL
      /\ EdgeTTL(item, at) # 0 => \A url \in all : url - (at + EdgeTTL(item, at)) >= Margin
  <2> HIDE DEF all
  <2> QED
    BY <1>1, <1>2, <1>3, <1>4
<1> QED
  BY <1>5

LEMMA EmbedTypes ==
  /\ NoEmbed \in EmbedRecords
  /\ \A kind \in EmbedKinds :
       /\ kind.number \in Nat /\ kind.telegram \in BOOLEAN
       /\ kind.original \in BOOLEAN /\ kind.direct \in BOOLEAN
<1>1. NothingAsked \in AskedFields
  <2>1. None \in Pairs
    BY DEF Pairs
  <2>2. 0 \in 0..AVSources
    BY SourcesAssumption
  <2> QED
    BY <2>1, <2>2 DEF NothingAsked, AskedFields
<1>2. NoEmbed \in EmbedRecords
  BY <1>1 DEF NoEmbed, EmbedRecords, EmbedPhases
<1>3. EmbedKinds \subseteq
        [number : Nat, telegram : BOOLEAN, original : BOOLEAN, direct : BOOLEAN]
  BY EmbedAssumption
<1> QED
  BY <1>2, <1>3

LEMMA EmbedStart == EmbedInit => EmbedInv
<1> SUFFICES ASSUME EmbedInit PROVE EmbedInv
  OBVIOUS
<1>1. embed \in [Embeds -> EmbedRecords] /\ \A e \in Embeds : embed[e] = NoEmbed
  BY EmbedTypes DEF EmbedInit
<1>2. EmbedOK(NoEmbed)
  BY EmbedTypes DEF EmbedOK, NoEmbed
<1>3. EdgeOK
  BY DEF EmbedInit, EdgeOK
<1>4. embedTime \in 0..MaxEmbedTime
  BY EmbedAssumption DEF EmbedInit
<1> QED
  BY <1>1, <1>2, <1>3, <1>4 DEF EmbedInv

(* A request may be replaced by one that is as far as it should be.        *)
LEMMA PutStep ==
  ASSUME EmbedInv, NEW e \in Embeds, NEW r, Put(e, r), EmbedOK(r), EdgeOK',
         UNCHANGED embedTime
  PROVE  EmbedInv'
<1>1. r \in EmbedRecords
  BY DEF EmbedOK
<1>2. embed' = [embed EXCEPT ![e] = r] /\ embed \in [Embeds -> EmbedRecords]
  BY DEF Put, EmbedInv
<1>3. embed' \in [Embeds -> EmbedRecords] /\ \A f \in Embeds : embed'[f] = embed[f] \/ embed'[f] = r
  BY <1>1, <1>2
<1>4. \A f \in Embeds : EmbedOK(embed'[f])
  BY <1>3 DEF EmbedInv
<1>5. (\A f \in Embeds : EmbedOK(embed[f]))'
  BY <1>4 DEF EmbedOK, Journalled, Tracked, Dash, Selected, MediaOf, Has
<1> QED
  BY <1>3, <1>5 DEF EmbedInv

(* Nor does what leaves the requests alone change how far they are.        *)
LEMMA RequestsKept ==
  ASSUME EmbedInv, UNCHANGED embed, EdgeOK', embedTime' \in 0..MaxEmbedTime
  PROVE  EmbedInv'
<1>1. \A f \in Embeds : EmbedOK(embed'[f])
  BY DEF EmbedInv
<1>2. (\A f \in Embeds : EmbedOK(embed[f]))'
  BY <1>1 DEF EmbedOK, Journalled, Tracked, Dash, Selected, MediaOf, Has
<1>3. embed' \in [Embeds -> EmbedRecords]
  BY DEF EmbedInv
<1> QED
  BY <1>2, <1>3 DEF EmbedInv

LEMMA EdgeKept == ASSUME EdgeOK, UNCHANGED edge PROVE EdgeOK'
  BY DEF EdgeOK, Signed

(* What is known of a request that is under way.                           *)
LEMMA UnderWay ==
  ASSUME EmbedInv, NEW e \in Embeds, embed[e].phase \notin {"idle", "answered"}
  PROVE  /\ embed[e] \in EmbedRecords /\ embed[e].kind \in EmbedKinds /\ embed[e].page = None
         /\ EmbedOK(embed[e]) /\ Selected(embed[e]) \in Nat
         /\ embed[e].phase # "fetch" =>
              embed[e].item \in EmbedItems /\ Has(embed[e].item, Selected(embed[e]))
<1>1. EmbedOK(embed[e])
  BY DEF EmbedInv
<1>2. /\ embed[e] \in EmbedRecords /\ embed[e].kind \in EmbedKinds /\ embed[e].page = None
      /\ embed[e].phase # "fetch" => Has(embed[e].item, Selected(embed[e]))
  BY <1>1 DEF EmbedOK
<1>3. embed[e].item \in EmbedItems \cup {None}
  BY <1>2 DEF EmbedRecords
<1>4. Selected(embed[e]) \in Nat
  BY <1>2, EmbedTypes DEF Selected
<1> QED
  BY <1>1, <1>2, <1>3, <1>4 DEF Has

(* An answer: the page is journalled as it is, a silent track only shown   *)
(* when a source said so, and the lifetime ends before the URLs.           *)
LEMMA ReplyStep ==
  ASSUME EmbedInv, NEW e \in Embeds, NEW r \in EmbedRecords, r.kind \in EmbedKinds,
         NEW page \in Pages, Journalled(r, page),
         page.video = "direct" /\ Dash(r) => r.asked.silent,
         NEW ttl \in 0..(NormalTTL + FallbackTTL),
         ttl # 0 => \A url \in page.ads :
                      /\ url \notin {Foreign, Malformed}
                      /\ Signed(url) => url \in Int /\ url - (embedTime + ttl) >= Margin,
         Reply(e, r, page, ttl), UNCHANGED embedTime
  PROVE  EmbedInv'
<1> DEFINE q == [r EXCEPT !.phase = "answered", !.page = page]
<1>1. /\ q \in EmbedRecords /\ q.phase = "answered" /\ q.page = page /\ q.kind = r.kind
      /\ q.prefers = r.prefers /\ q.item = r.item /\ q.asked = r.asked
  BY DEF EmbedRecords, EmbedPhases
<1>2. Put(e, q)
  BY DEF Reply
<1> HIDE DEF q
<1>3. Journalled(q, page) /\ (Dash(q) <=> Dash(r))
  BY <1>1 DEF Journalled, Dash, Tracked, Selected, MediaOf
<1>4. page # None
  BY EmbedAssumption
<1>5. EmbedOK(q)
  BY <1>1, <1>3, <1>4 DEF EmbedOK
<1>6. EdgeOK'
  <2>1. CASE ttl = 0
    <3>1. edge' = edge
      BY <2>1 DEF Reply
    <3> QED
      BY <3>1, EdgeKept DEF EmbedInv
  <2>2. CASE ttl # 0
    <3>1. edge' = [until |-> embedTime + ttl, ads |-> page.ads]
      BY <2>2 DEF Reply
    <3>2. edge'.until = embedTime + ttl /\ edge'.ads = page.ads
      BY <3>1
    <3>3. embedTime + ttl \in 0..(MaxEmbedTime + NormalTTL + FallbackTTL)
      BY EmbedAssumption DEF EmbedInv
    <3> QED
      BY <2>2, <3>2, <3>3 DEF EdgeOK, Signed
  <2> QED
    BY <2>1, <2>2
<1> QED
  BY <1>2, <1>5, <1>6, PutStep

(* The fallback page and the redirects show nothing of the post.           *)
LEMMA FallbackStep ==
  ASSUME EmbedInv, NEW e \in Embeds, NEW r \in EmbedRecords, r.kind \in EmbedKinds,
         Fallback(e, r) \/ Redirect(e, r), UNCHANGED embedTime
  PROVE  EmbedInv'
<1>1. FallbackTTL \in 0..(NormalTTL + FallbackTTL) /\ 0 \in 0..(NormalTTL + FallbackTTL)
  BY EmbedAssumption
<1>2. CASE Fallback(e, r)
  <2> DEFINE page == Page("fallback", "none", {}, IF Tracked(r) THEN "blocked" ELSE "none")
  <2>1. /\ page \in Pages /\ page.ads = {} /\ page.video = "none" /\ page.kind = "fallback"
        /\ Tracked(r) => page.decision = "blocked"
    BY DEF Page, Pages
  <2>2. Reply(e, r, page, FallbackTTL)
    BY <1>2 DEF Fallback
  <2> HIDE DEF page
  <2>3. Journalled(r, page)
    BY <2>1 DEF Journalled
  <2> QED
    BY <1>1, <2>1, <2>2, <2>3, ReplyStep
<1>3. CASE Redirect(e, r)
  <2> DEFINE page == Page("redirect", "none", {}, "none")
  <2>1. /\ page \in Pages /\ page.ads = {} /\ page.video = "none" /\ page.kind = "redirect"
        /\ page.decision = "none"
    BY DEF Page, Pages
  <2>2. Reply(e, r, page, 0)
    BY <1>3 DEF Redirect
  <2> HIDE DEF page
  <2>3. Journalled(r, page)
    BY <2>1 DEF Journalled
  <2> QED
    BY <1>1, <2>1, <2>2, <2>3, ReplyStep
<1> QED
  BY <1>2, <1>3

LEMMA AskPageStep ==
  ASSUME EmbedInv, NEW e \in Embeds, NEW kind \in EmbedKinds, AskPage(e, kind)
  PROVE  EmbedInv'
<1> DEFINE q == [NoEmbed EXCEPT !.phase = "fetch", !.kind = kind]
<1>1. q \in EmbedRecords /\ q.phase = "fetch" /\ q.kind = kind /\ q.page = None
  BY EmbedTypes DEF EmbedRecords, EmbedPhases, NoEmbed
<1>2. Put(e, q) /\ UNCHANGED <<embedTime, edge>>
  BY DEF AskPage
<1> HIDE DEF q
<1>3. EmbedOK(q)
  BY <1>1 DEF EmbedOK
<1> QED
  BY <1>2, <1>3, PutStep, EdgeKept DEF EmbedInv

(* The page for a bad number shows nothing of the post either.             *)
LEMMA RefuseNumberStep ==
  ASSUME EmbedInv, NEW e \in Embeds, NEW kind \in EmbedKinds, RefuseNumber(e, kind)
  PROVE  EmbedInv'
<1> DEFINE r(prefers) == [NoEmbed EXCEPT !.kind = kind, !.prefers = prefers]
           page(prefers) ==
             Page("invalid", "none", {}, IF Tracked(r(prefers)) THEN "blocked" ELSE "none")
<1>1. PICK prefers \in BOOLEAN : Reply(e, r(prefers), page(prefers), 0)
  BY DEF RefuseNumber
<1>2. r(prefers) \in EmbedRecords /\ r(prefers).kind = kind
  BY EmbedTypes DEF EmbedRecords, NoEmbed
<1>3. /\ page(prefers) \in Pages /\ page(prefers).ads = {} /\ page(prefers).video = "none"
      /\ page(prefers).kind = "invalid"
      /\ Tracked(r(prefers)) => page(prefers).decision = "blocked"
  BY DEF Page, Pages
<1>4. 0 \in 0..(NormalTTL + FallbackTTL) /\ UNCHANGED embedTime
  BY EmbedAssumption DEF RefuseNumber
<1> HIDE DEF r, page
<1>5. Journalled(r(prefers), page(prefers))
  BY <1>3 DEF Journalled
<1> QED
  BY <1>1, <1>2, <1>3, <1>4, <1>5, ReplyStep

LEMMA FetchItemStep ==
  ASSUME EmbedInv, NEW e \in Embeds, FetchItem(e)
  PROVE  EmbedInv'
<1>1. embed[e] \in EmbedRecords /\ embed[e].kind \in EmbedKinds /\ embed[e].page = None
  BY UnderWay DEF FetchItem
<1>2. embedTime \in Nat /\ UNCHANGED embedTime
  BY EmbedAssumption DEF EmbedInv, FetchItem
<1>3. PICK item \in EmbedItems \cup {None}, prefers \in BOOLEAN :
        LET r == [embed[e] EXCEPT !.prefers = prefers, !.at = embedTime, !.item = item] IN
        \/ /\ r.kind.telegram /\ prefers /\ ~(item # None /\ \E i \in DOMAIN item : item[i].video)
           /\ Reply(e, r, Page("client", "client", {}, "none"), 0)
        \/ Fallback(e, r)
        \/ /\ Has(item, Selected(r))
           /\ Put(e, [r EXCEPT !.phase = "select"])
           /\ UNCHANGED edge
  BY DEF FetchItem
<1> DEFINE r == [embed[e] EXCEPT !.prefers = prefers, !.at = embedTime, !.item = item]
<1>4. /\ r \in EmbedRecords /\ r.kind = embed[e].kind /\ r.page = None /\ r.item = item
  BY <1>1, <1>2 DEF EmbedRecords
<1>5. \/ Reply(e, r, Page("client", "client", {}, "none"), 0)
      \/ Fallback(e, r)
      \/ /\ Has(item, Selected(r)) /\ Put(e, [r EXCEPT !.phase = "select"]) /\ UNCHANGED edge
  BY <1>3
<1> HIDE DEF r
<1>6. CASE Reply(e, r, Page("client", "client", {}, "none"), 0)
  <2> DEFINE page == Page("client", "client", {}, "none")
  <2>1. /\ page \in Pages /\ page.ads = {} /\ page.video = "client" /\ page.kind = "client"
        /\ page.decision = "none"
    BY DEF Page, Pages
  <2>2. Reply(e, r, page, 0)
    BY <1>6
  <2> HIDE DEF page
  <2>3. Journalled(r, page)
    BY <2>1 DEF Journalled
  <2>4. 0 \in 0..(NormalTTL + FallbackTTL)
    BY EmbedAssumption
  <2> QED
    BY <1>1, <1>2, <1>4, <2>1, <2>2, <2>3, <2>4, ReplyStep
<1>7. CASE Fallback(e, r)
  BY <1>1, <1>2, <1>4, <1>7, FallbackStep
<1>8. CASE Has(item, Selected(r)) /\ Put(e, [r EXCEPT !.phase = "select"]) /\ UNCHANGED edge
  <2> DEFINE q == [r EXCEPT !.phase = "select"]
  <2>1. /\ q \in EmbedRecords /\ q.phase = "select" /\ q.kind = r.kind /\ q.page = None
        /\ q.item = item
    BY <1>4 DEF EmbedRecords, EmbedPhases
  <2>2. Put(e, q)
    BY <1>8
  <2> HIDE DEF q
  <2>3. EmbedOK(q)
    BY <1>1, <1>4, <1>8, <2>1 DEF EmbedOK, Selected
  <2> QED
    BY <1>2, <1>8, <2>2, <2>3, PutStep, EdgeKept DEF EmbedInv
<1> QED
  BY <1>5, <1>6, <1>7, <1>8

(* The chosen media is the selected one of the item that is kept.          *)
LEMMA ChooseMediaStep ==
  ASSUME EmbedInv, NEW e \in Embeds, NEW r \in EmbedRecords, r.kind \in EmbedKinds,
         r.page = None, NEW item \in EmbedItems, Has(item, Selected(r)),
         ChooseMedia(e, r, item), UNCHANGED embedTime
  PROVE  EmbedInv'
<1> DEFINE s == [r EXCEPT !.item = item]
           next == IF s.kind.original /\ MediaOf(s).video THEN "original"
                   ELSE IF Selected(s) = 1 /\ MediaOf(s).video /\ Tracked(s) THEN "measure"
                   ELSE "render"
           q == [s EXCEPT !.phase = next]
<1>1. Put(e, q) /\ UNCHANGED edge
  BY DEF ChooseMedia
<1>2. s \in EmbedRecords /\ s.kind = r.kind /\ s.page = None /\ s.item = item
  BY DEF EmbedRecords
<1> HIDE DEF s
<1>3. /\ q \in EmbedRecords /\ q.kind = s.kind /\ q.page = None /\ q.item = item
      /\ q.phase = next /\ q.prefers = s.prefers
  BY <1>2 DEF EmbedRecords, EmbedPhases
<1> HIDE DEF q
<1>4. /\ Selected(q) = Selected(s) /\ Selected(q) = Selected(r) /\ MediaOf(q) = MediaOf(s)
      /\ Tracked(q) <=> Tracked(s)
  BY <1>2, <1>3 DEF Selected, MediaOf, Tracked
<1>5. next = "render" => ~(Dash(q) /\ MediaOf(q).video)
  BY <1>4 DEF Dash
<1>6. next = "original" => s.kind.original
  OBVIOUS
<1>7. next \in {"original", "measure", "render"}
  OBVIOUS
<1> HIDE DEF next
<1>8. EmbedOK(q)
  BY <1>2, <1>3, <1>4, <1>5, <1>6, <1>7 DEF EmbedOK
<1> QED
  BY <1>1, <1>8, PutStep, EdgeKept DEF EmbedInv

(* The refresh that comes next of a request whose media will not do.       *)
LEMMA PhaseStep ==
  ASSUME EmbedInv, NEW e \in Embeds, NEW phase \in {"graphql", "anonymous"},
         embed[e].phase \in {"select", "graphql"},
         Put(e, [embed[e] EXCEPT !.phase = phase]), UNCHANGED <<embedTime, edge>>
  PROVE  EmbedInv'
<1> DEFINE q == [embed[e] EXCEPT !.phase = phase]
<1>1. /\ embed[e] \in EmbedRecords /\ embed[e].kind \in EmbedKinds /\ embed[e].page = None
      /\ Has(embed[e].item, Selected(embed[e]))
  BY UnderWay
<1>2. /\ q \in EmbedRecords /\ q.phase = phase /\ q.kind = embed[e].kind /\ q.page = None
      /\ q.item = embed[e].item
  BY <1>1 DEF EmbedRecords, EmbedPhases
<1>3. Put(e, q)
  OBVIOUS
<1> HIDE DEF q
<1>4. EmbedOK(q)
  BY <1>1, <1>2 DEF EmbedOK, Selected
<1> QED
  BY <1>3, <1>4, PutStep, EdgeKept DEF EmbedInv

LEMMA SelectMediaStep ==
  ASSUME EmbedInv, NEW e \in Embeds, SelectMedia(e)
  PROVE  EmbedInv'
<1>1. /\ embed[e] \in EmbedRecords /\ embed[e].kind \in EmbedKinds /\ embed[e].page = None
      /\ embed[e].item \in EmbedItems /\ Has(embed[e].item, Selected(embed[e]))
      /\ embed[e].phase = "select" /\ UNCHANGED embedTime
  BY UnderWay DEF SelectMedia
<1>2. \/ ChooseMedia(e, embed[e], embed[e].item)
      \/ \E phase \in {"graphql", "anonymous"} :
           Put(e, [embed[e] EXCEPT !.phase = phase]) /\ UNCHANGED edge
  BY DEF SelectMedia
<1> QED
  BY <1>1, <1>2, ChooseMediaStep, PhaseStep

LEMMA RefreshVideoStep ==
  ASSUME EmbedInv, NEW e \in Embeds, RefreshVideo(e)
  PROVE  EmbedInv'
<1>1. /\ embed[e] \in EmbedRecords /\ embed[e].kind \in EmbedKinds /\ embed[e].page = None
      /\ embed[e].phase = "graphql" /\ UNCHANGED embedTime
  BY UnderWay DEF RefreshVideo
<1>2. \/ \E item \in EmbedItems : /\ Has(item, Selected(embed[e]))
                                  /\ ChooseMedia(e, embed[e], item)
      \/ Put(e, [embed[e] EXCEPT !.phase = "anonymous"]) /\ UNCHANGED edge
  BY DEF RefreshVideo, Candidate, Has
<1> QED
  BY <1>1, <1>2, ChooseMediaStep, PhaseStep

LEMMA RefreshAnonymouslyStep ==
  ASSUME EmbedInv, NEW e \in Embeds, RefreshAnonymously(e)
  PROVE  EmbedInv'
<1>1. /\ embed[e] \in EmbedRecords /\ embed[e].kind \in EmbedKinds /\ embed[e].page = None
      /\ embed[e].item \in EmbedItems /\ Has(embed[e].item, Selected(embed[e]))
      /\ UNCHANGED embedTime
  BY UnderWay DEF RefreshAnonymously
<1>2. \/ \E item \in EmbedItems : /\ Has(item, Selected(embed[e]))
                                  /\ ChooseMedia(e, embed[e], item)
      \/ Fallback(e, embed[e])
  BY <1>1 DEF RefreshAnonymously, Candidate, Has
<1> QED
  BY <1>1, <1>2, ChooseMediaStep, FallbackStep

(* The original is not what a tracked request asks for.                    *)
LEMMA RefreshOriginalStep ==
  ASSUME EmbedInv, NEW e \in Embeds, RefreshOriginal(e)
  PROVE  EmbedInv'
<1>1. /\ embed[e] \in EmbedRecords /\ embed[e].kind \in EmbedKinds /\ embed[e].page = None
      /\ embed[e].item \in EmbedItems /\ Has(embed[e].item, Selected(embed[e]))
      /\ embed[e].kind.original /\ UNCHANGED <<embedTime, edge>>
  BY UnderWay DEF RefreshOriginal, EmbedOK
<1>2. PICK item \in EmbedItems \cup {None} :
        Put(e, [embed[e] EXCEPT !.phase = "render",
                 !.item = IF Candidate(embed[e], item, TRUE) THEN item ELSE @])
  BY DEF RefreshOriginal
<1> DEFINE kept == IF Candidate(embed[e], item, TRUE) THEN item ELSE embed[e].item
           q == [embed[e] EXCEPT !.phase = "render", !.item = kept]
<1>3. kept \in EmbedItems \cup {None} /\ Has(kept, Selected(embed[e]))
  BY <1>1 DEF Candidate
<1>4. Put(e, q)
  BY <1>2
<1> HIDE DEF kept
<1>5. /\ q \in EmbedRecords /\ q.phase = "render" /\ q.kind = embed[e].kind /\ q.page = None
      /\ q.item = kept
  BY <1>1, <1>3 DEF EmbedRecords, EmbedPhases
<1> HIDE DEF q
<1>6. EmbedOK(q)
  BY <1>1, <1>3, <1>5 DEF EmbedOK, Selected, Dash, Tracked
<1> QED
  BY <1>1, <1>4, <1>6, PutStep, EdgeKept DEF EmbedInv

(* A track without sound is never shown without having asked.              *)
LEMMA MeasureStep ==
  ASSUME EmbedInv, NEW e \in Embeds, Measure(e)
  PROVE  EmbedInv'
<1>1. /\ embed[e] \in EmbedRecords /\ embed[e].kind \in EmbedKinds /\ embed[e].page = None
      /\ Has(embed[e].item, Selected(embed[e])) /\ UNCHANGED <<embedTime, edge>>
  BY UnderWay DEF Measure
<1>2. PICK big \in BOOLEAN :
        Put(e, [embed[e] EXCEPT !.big = big,
                 !.phase = IF big \/ MediaOf(embed[e]).dash THEN "resolve" ELSE "render"])
  BY DEF Measure
<1> DEFINE next == IF big \/ MediaOf(embed[e]).dash THEN "resolve" ELSE "render"
           q == [embed[e] EXCEPT !.big = big, !.phase = next]
<1>3. Put(e, q)
  BY <1>2
<1>4. next \in {"resolve", "render"} /\ (next = "render" => ~MediaOf(embed[e]).dash)
  OBVIOUS
<1> HIDE DEF next
<1>5. /\ q \in EmbedRecords /\ q.phase = next /\ q.kind = embed[e].kind /\ q.page = None
      /\ q.item = embed[e].item
  BY <1>1, <1>4 DEF EmbedRecords, EmbedPhases
<1> HIDE DEF q
<1>6. MediaOf(q) = MediaOf(embed[e]) /\ Selected(q) = Selected(embed[e])
  BY <1>5 DEF MediaOf, Selected
<1>7. EmbedOK(q)
  BY <1>1, <1>4, <1>5, <1>6 DEF EmbedOK, Dash
<1> QED
  BY <1>1, <1>3, <1>7, PutStep, EdgeKept DEF EmbedInv

LEMMA AskTypes ==
  ASSUME NEW asked \in AskedFields, NEW body \in AVBodies \cup {None}, ~Resolved(asked)
  PROVE  Ask(asked, body) \in AskedFields
<1>1. /\ asked.tried \in 0..AVSources /\ asked.tried # AVSources
      /\ asked.silent \in BOOLEAN /\ asked.failed \in BOOLEAN /\ asked.pair \in Pairs
  BY DEF AskedFields, Resolved
<1>2. asked.tried + 1 \in 0..AVSources
  BY <1>1, SourcesAssumption
<1>3. CASE body = None
  BY <1>2, <1>3 DEF Ask, AskedFields
<1>4. CASE body # None
  <2>1. BestPair(body.tracks) \in Pairs
    BY <1>4 DEF Pairs
  <2> QED
    BY <1>2, <1>4, <2>1 DEF Ask, AskedFields
<1> QED
  BY <1>3, <1>4

LEMMA AskAVStep ==
  ASSUME EmbedInv, NEW e \in Embeds, AskAV(e)
  PROVE  EmbedInv'
<1>1. /\ embed[e] \in EmbedRecords /\ embed[e].kind \in EmbedKinds /\ embed[e].page = None
      /\ Has(embed[e].item, Selected(embed[e])) /\ UNCHANGED <<embedTime, edge>>
      /\ embed[e].phase = "resolve" /\ ~Resolved(embed[e].asked) /\ embed[e].asked \in AskedFields
  BY UnderWay DEF AskAV, EmbedRecords
<1>2. PICK body \in AVBodies \cup {None}, audio \in BOOLEAN :
        Put(e, [embed[e] EXCEPT !.asked = Ask(@, body), !.heard = @ \/ audio])
  BY DEF AskAV
<1> DEFINE asked == Ask(embed[e].asked, body)
           heard == embed[e].heard \/ audio
           q == [embed[e] EXCEPT !.asked = asked, !.heard = heard]
<1>3. Put(e, q)
  BY <1>2
<1>4. asked \in AskedFields
  BY <1>1, AskTypes
<1>5. heard \in BOOLEAN
  OBVIOUS
<1> HIDE DEF asked, heard
<1>6. /\ q \in EmbedRecords /\ q.phase = "resolve" /\ q.kind = embed[e].kind /\ q.page = None
      /\ q.item = embed[e].item
  BY <1>1, <1>4, <1>5 DEF EmbedRecords
<1> HIDE DEF q
<1>7. EmbedOK(q)
  BY <1>1, <1>6 DEF EmbedOK, Selected
<1> QED
  BY <1>1, <1>3, <1>7, PutStep, EdgeKept DEF EmbedInv

LEMMA DecideVideoStep ==
  ASSUME EmbedInv, NEW e \in Embeds, DecideVideo(e)
  PROVE  EmbedInv'
<1>1. /\ embed[e] \in EmbedRecords /\ embed[e].kind \in EmbedKinds /\ embed[e].page = None
      /\ Has(embed[e].item, Selected(embed[e])) /\ UNCHANGED <<embedTime, edge>>
      /\ embed[e].asked \in AskedFields
  BY UnderWay DEF DecideVideo, EmbedRecords
<1>2. PICK fresh \in BOOLEAN :
        Put(e, [embed[e] EXCEPT !.phase = "render", !.show = ShowVideo(embed[e], fresh),
                 !.asked = [NothingAsked EXCEPT !.silent = embed[e].asked.silent]])
  BY DEF DecideVideo
<1> DEFINE show == ShowVideo(embed[e], fresh)
           asked == [NothingAsked EXCEPT !.silent = embed[e].asked.silent]
           q == [embed[e] EXCEPT !.phase = "render", !.show = show, !.asked = asked]
<1>3. Put(e, q)
  BY <1>2
<1>4. asked \in AskedFields /\ asked.silent = embed[e].asked.silent
  <2>1. None \in Pairs
    BY DEF Pairs
  <2>2. 0 \in 0..AVSources
    BY SourcesAssumption
  <2>3. embed[e].asked.silent \in BOOLEAN
    BY <1>1 DEF AskedFields
  <2> QED
    BY <2>1, <2>2, <2>3 DEF NothingAsked, AskedFields
<1>5. /\ show \in {"direct", "compact", "silent", "cover"}
      /\ MediaOf(embed[e]).dash =>
           show \in {"compact", "cover"} \/ (show = "silent" /\ embed[e].asked.silent)
  BY DEF ShowVideo, NoAudioExpected
<1> HIDE DEF asked, show
<1>6. /\ q \in EmbedRecords /\ q.phase = "render" /\ q.kind = embed[e].kind /\ q.page = None
      /\ q.item = embed[e].item /\ q.show = show /\ q.asked = asked
  BY <1>1, <1>4, <1>5 DEF EmbedRecords, EmbedPhases
<1> HIDE DEF q
<1>7. MediaOf(q) = MediaOf(embed[e]) /\ Selected(q) = Selected(embed[e])
  BY <1>6 DEF MediaOf, Selected
<1>8. EmbedOK(q)
  BY <1>1, <1>4, <1>5, <1>6, <1>7 DEF EmbedOK, Dash
<1> QED
  BY <1>1, <1>3, <1>8, PutStep, EdgeKept DEF EmbedInv

LEMMA PageSentStep ==
  ASSUME EmbedInv, NEW e \in Embeds, PageSent(e)
  PROVE  EmbedInv'
<1>1. Put(e, NoEmbed) /\ UNCHANGED <<embedTime, edge>>
  BY DEF PageSent
<1>2. EmbedOK(NoEmbed)
  BY EmbedTypes DEF EmbedOK, NoEmbed
<1> QED
  BY <1>1, <1>2, PutStep, EdgeKept DEF EmbedInv

LEMMA EmbedTickStep == ASSUME EmbedInv, EmbedTick PROVE EmbedInv'
<1>1. embedTime' \in 0..MaxEmbedTime /\ embed' = embed /\ edge' = edge
  BY EmbedAssumption DEF EmbedInv, EmbedTick
<1>2. EdgeOK'
  BY <1>1, EdgeKept DEF EmbedInv
<1> QED
  BY <1>1, <1>2, RequestsKept

(* Every image of the grid is a playable URL of the item.                  *)
LEMMA CarouselUrls ==
  ASSUME NEW item \in EmbedItems, NEW at \in Nat, NEW url \in CarouselImages(item, at)
  PROVE  UrlPlayable(url, at) /\ \E i \in DOMAIN item : url \in {item[i].url, item[i].thumb}
BY DEF CarouselImages

(* A playable URL of an item outlives the lifetime of the page by the      *)
(* margin.                                                                 *)
LEMMA ShownUrls ==
  ASSUME NEW item \in EmbedItems, NEW at \in Nat, NEW url, UrlPlayable(url, at),
         \E i \in DOMAIN item : url \in {item[i].url, item[i].thumb}
  PROVE  /\ url \in Urls \ {Foreign, Malformed}
         /\ EdgeTTL(item, at) # 0 /\ Signed(url) =>
              url \in Int /\ url - (at + EdgeTTL(item, at)) >= Margin
<1>1. url \in Urls
  <2> DEFINE Medias == [video : BOOLEAN, dash : BOOLEAN, url : Urls, thumb : Urls]
  <2>1. item \in Seq(Medias)
    BY EmbedAssumption
  <2>2. \A i \in DOMAIN item : item[i] \in Medias
    <3> HIDE DEF Medias
    <3> QED
      BY <2>1
  <2> QED
    BY <2>2
<1>2. url # Foreign
  BY DEF UrlPlayable
<1>3. url # Malformed
  <2> SUFFICES ASSUME url = Malformed PROVE FALSE
    OBVIOUS
  <2>1. Signed(url)
    BY <1>2, EmbedAssumption DEF Signed
  <2>2. -1 > MinLife
    BY <2>1 DEF UrlPlayable, Remaining
  <2> QED
    BY <2>2, EmbedAssumption
<1>4. ASSUME EdgeTTL(item, at) # 0, Signed(url)
      PROVE  url \in Int /\ url - (at + EdgeTTL(item, at)) >= Margin
  <2>1. url \in Expiries(item)
    BY <1>3, <1>4 DEF Expiries
  <2> QED
    BY <1>4, <2>1, EdgeTTLEnds, ExpiriesTypes
<1> QED
  BY <1>1, <1>2, <1>3, <1>4

(* What is journalled of a rendered page.                                  *)
LEMMA DecisionAgrees ==
  ASSUME NEW r \in EmbedRecords,
         NEW page \in Pages, page.kind = "page", page.decision = Decision(r),
         page.video = IF ~MediaOf(r).video \/ r.show = "cover" THEN "none"
                      ELSE IF r.show = "compact" THEN "compact" ELSE "direct"
  PROVE  Journalled(r, page)
<1>1. r.show \in {"direct", "compact", "silent", "cover"}
  BY DEF EmbedRecords
<1> QED
  BY <1>1 DEF Journalled, Decision

LEMMA RenderStep ==
  ASSUME EmbedInv, NEW e \in Embeds, Render(e)
  PROVE  EmbedInv'
<1> DEFINE r == embed[e]
           media == MediaOf(r)
           grid == ~media.video /\ r.kind.number = 0 /\ Len(r.item) > 1
           ads == IF grid THEN CarouselImages(r.item, embedTime)
                  ELSE IF media.video THEN {} ELSE {media.url}
           video == IF ~media.video \/ r.show = "cover" THEN "none"
                    ELSE IF r.show = "compact" THEN "compact" ELSE "direct"
           page == Page("page", video, ads, Decision(r))
           ttl == EdgeTTL(r.item, embedTime)
<1>1. /\ r \in EmbedRecords /\ r.kind \in EmbedKinds /\ r.page = None /\ EmbedOK(r)
      /\ r.item \in EmbedItems /\ Selected(r) \in DOMAIN r.item
      /\ r.phase = "render" /\ UNCHANGED embedTime
  BY UnderWay DEF Render, Has
<1>2. embedTime \in Nat
  BY EmbedAssumption DEF EmbedInv
<1>3. CASE Fallback(e, r) \/ Redirect(e, r)
  BY <1>1, <1>3, FallbackStep
<1>4. CASE (grid \/ UrlPlayable(media.url, embedTime)) /\ Reply(e, r, page, ttl)
  <2>1. \A url \in ads : /\ UrlPlayable(url, embedTime)
                         /\ \E i \in DOMAIN r.item : url \in {r.item[i].url, r.item[i].thumb}
    <3>1. CASE grid
      BY <1>1, <1>2, <3>1, CarouselUrls
    <3>2. CASE ~grid
      BY <1>1, <1>4, <3>2 DEF MediaOf
    <3> QED
      BY <3>1, <3>2
  <2>2. \A url \in ads :
          /\ url \in Urls \ {Foreign, Malformed}
          /\ ttl # 0 /\ Signed(url) => url \in Int /\ url - (embedTime + ttl) >= Margin
    BY <1>1, <1>2, <2>1, ShownUrls
  <2>3. ttl \in 0..(NormalTTL + FallbackTTL)
    <3>1. ttl \in 0..NormalTTL
      BY <1>1, <1>2, EdgeTTLEnds
    <3> HIDE DEF ttl
    <3> QED
      BY <3>1, EmbedAssumption
  <2>4. Decision(r) \in {"none", "expected_image", "compact", "direct"}
    BY DEF Decision
  <2>5. /\ page \in Pages /\ page.kind = "page" /\ page.video = video /\ page.ads = ads
        /\ page.decision = Decision(r)
    <3>1. ads \subseteq Urls /\ video \in {"none", "direct", "compact", "client"}
      BY <2>2
    <3> HIDE DEF ads, video
    <3> QED
      BY <2>4, <3>1 DEF Page, Pages
  <2>6. video = "direct" /\ Dash(r) => r.asked.silent
    BY <1>1 DEF EmbedOK
  <2>7. Journalled(r, page)
    BY <1>1, <2>5, DecisionAgrees
  <2> HIDE DEF r, ads, video, page, ttl
  <2> QED
    BY <1>1, <1>4, <2>2, <2>3, <2>5, <2>6, <2>7, ReplyStep
<1>5. \/ Fallback(e, r) \/ Redirect(e, r)
      \/ (grid \/ UrlPlayable(media.url, embedTime)) /\ Reply(e, r, page, ttl)
  BY DEF Render
<1> QED
  BY <1>3, <1>4, <1>5

LEMMA EmbedInvariant == EmbedSpec => []EmbedInv
<1>1. EmbedInv /\ [EmbedNext]_embedVars => EmbedInv'
  <2> SUFFICES ASSUME EmbedInv, [EmbedNext]_embedVars PROVE EmbedInv'
    OBVIOUS
  <2>1. CASE UNCHANGED embedVars
    <3>1. embedTime' = embedTime /\ embed' = embed /\ edge' = edge
      BY <2>1 DEF embedVars
    <3>2. EdgeOK'
      BY <3>1, EdgeKept DEF EmbedInv
    <3> QED
      BY <3>1, <3>2, RequestsKept DEF EmbedInv
  <2>2. CASE EmbedTick
    BY <2>2, EmbedTickStep
  <2>3. ASSUME NEW e \in Embeds, NEW kind \in EmbedKinds,
               AskPage(e, kind) \/ RefuseNumber(e, kind)
        PROVE  EmbedInv'
    BY <2>3, AskPageStep, RefuseNumberStep
  <2>4. ASSUME NEW e \in Embeds, EmbedStep(e)
        PROVE  EmbedInv'
    BY <2>4, FetchItemStep, SelectMediaStep, RefreshVideoStep, RefreshAnonymouslyStep,
       RefreshOriginalStep, MeasureStep, AskAVStep, DecideVideoStep, RenderStep, PageSentStep
       DEF EmbedStep
  <2> QED
    BY <2>1, <2>2, <2>3, <2>4 DEF EmbedNext
<1> QED
  BY <1>1, EmbedStart, PTL DEF EmbedSpec

(* The requests of the stateless page and what the CDN stores keep their   *)
(* types; a page is there exactly when the request is answered.            *)
THEOREM EmbedTypeCorrect == EmbedSpec => []EmbedTypeOK
<1>1. EmbedInv => EmbedTypeOK
  <2> SUFFICES ASSUME EmbedInv PROVE EmbedTypeOK
    OBVIOUS
  <2>1. ASSUME NEW e \in Embeds
        PROVE  /\ embed[e].item \in EmbedItems \cup {None}
               /\ embed[e].asked.tried \in 0..AVSources
               /\ (embed[e].page # None) <=> (embed[e].phase = "answered")
    <3>1. EmbedOK(embed[e]) /\ embed[e] \in EmbedRecords
      BY DEF EmbedInv
    <3>2. embed[e].item \in EmbedItems \cup {None} /\ embed[e].asked \in AskedFields
      BY <3>1 DEF EmbedRecords
    <3> QED
      BY <3>1, <3>2 DEF EmbedOK, AskedFields
  <2> QED
    BY <2>1 DEF EmbedInv, EmbedTypeOK, EdgeOK
<1> QED
  BY <1>1, EmbedInvariant, PTL

(* As long as the CDN may serve a stored page (EdgeTTL), every signed URL  *)
(* in it has the safety margin left.                                       *)
THEOREM EdgeSafe == EmbedSpec => []EdgeTTLSafe
<1>1. EmbedInv => EdgeTTLSafe
  <2> SUFFICES ASSUME EmbedInv, edge # None, embedTime <= edge.until, NEW url \in edge.ads
               PROVE  /\ url \notin {Foreign, Malformed}
                      /\ Signed(url) => url - embedTime >= Margin
    BY DEF EdgeTTLSafe
  <2>1. /\ url \notin {Foreign, Malformed} /\ edge.until \in Nat /\ embedTime \in Nat
        /\ Signed(url) => url \in Int /\ url - edge.until >= Margin
    BY EmbedAssumption DEF EmbedInv, EdgeOK
  <2> QED
    BY <2>1, EmbedAssumption
<1> QED
  BY <1>1, EmbedInvariant, PTL

(* The journal (RecordTelegramVideoDecision) agrees with the page that a   *)
(* tracked request got, on every exit of the handler.                      *)
THEOREM JournalAgreesWithPage == EmbedSpec => []JournalAgrees
<1>1. EmbedInv => JournalAgrees
  BY DEF EmbedInv, EmbedOK, Journalled, JournalAgrees
<1> QED
  BY <1>1, EmbedInvariant, PTL

(* A track that has no sound is advertised to a tracked request only if    *)
(* some source said that the Reel is silent (ErrNoAudioExpected).          *)
THEOREM SilentSaid == EmbedSpec => []SilentOnlyIfSaid
<1>1. EmbedInv => SilentOnlyIfSaid
  BY DEF EmbedInv, EmbedOK, SilentOnlyIfSaid, SilentPage, Dash
<1> QED
  BY <1>1, EmbedInvariant, PTL
=============================================================================
