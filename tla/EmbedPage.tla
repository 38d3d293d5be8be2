----------------------------- MODULE EmbedPage ------------------------------
(***************************************************************************)
(* The stateless preview page (EmbedStateless): the item of a post is      *)
(* fetched, the URL of the selected media renewed when it expires soon, a  *)
(* Reel for Telegram measured and, if too large or without sound, replaced *)
(* by the compact route; then the page is rendered and the CDN told how    *)
(* long it may keep it.  Every one of these waits for the network, and     *)
(* signed URLs expire meanwhile.                                           *)
(*                                                                         *)
(* A URL is the time of its expiry, None if it is not signed, Malformed if *)
(* its expiry cannot be read, Foreign if it is none of Instagram's CDN.    *)
(* An item is a sequence of [video, dash, url, thumb].                     *)
(***************************************************************************)
EXTENDS CompactSources, FiniteSets

CONSTANTS
  Malformed, Foreign,
  Embeds,        \* request goroutines
  EmbedItems,    \* items the sources return
  EmbedKinds,    \* requests: [number, telegram, original, direct]
  Margin,        \* statelessSignedURLMargin
  MinLife,       \* statelessMinPlayableURLLife
  NormalTTL,     \* statelessNormalEdgeTTL
  FallbackTTL,   \* 30 seconds
  MaxEmbedTime   \* bound of the clock

Urls == Int \cup {None, Malformed, Foreign}

Pages ==
  [kind : {"page", "fallback", "redirect", "client", "invalid"},
   video : {"none", "direct", "compact", "client"}, ads : SUBSET Urls,
   decision : {"none", "blocked", "expected_image", "compact", "direct"}]

ASSUME EmbedAssumption ==
  /\ Margin \in Nat /\ MinLife \in Nat /\ NormalTTL \in Nat \ {0}
  /\ FallbackTTL \in Nat /\ MaxEmbedTime \in Nat
  /\ None \notin EmbedItems /\ None \notin Pages /\ Malformed # None
  /\ EmbedItems \subseteq
       Seq([video : BOOLEAN, dash : BOOLEAN, url : Urls, thumb : Urls])
  /\ EmbedKinds \subseteq
       [number : Nat, telegram : BOOLEAN, original : BOOLEAN, direct : BOOLEAN]

VARIABLES
  embedTime,  \* the wall clock
  embed,      \* embed[e]: a request
  edge        \* the page the CDN stored last: [until, ads], or None

embedVars == <<embedTime, embed, edge>>

NoEmbed == [phase |-> "idle", kind |-> None, prefers |-> FALSE, at |-> 0, item |-> None,
            big |-> FALSE, asked |-> NothingAsked, heard |-> FALSE, show |-> "direct",
            page |-> None]

EmbedInit ==
  /\ embedTime = 0
  /\ embed = [e \in Embeds |-> NoEmbed]
  /\ edge = None

---------------------------------------------------------------------------
(* statelessSignedURLRemaining, statelessMediaURLPlayable                  *)
Signed(url) == url \notin {None, Foreign}
Remaining(url, at) == IF url = Malformed THEN -1 ELSE url - at
UrlPlayable(url, at) == url # Foreign /\ (Signed(url) => Remaining(url, at) > MinLife)
ExpiresSoon(url, at) == url = Foreign \/ (Signed(url) /\ Remaining(url, at) <= Margin)

(* earliestStatelessSignedExpiry ignores what it cannot read.              *)
Expiries(item) ==
  {url \in UNION {{item[i].url, item[i].thumb} : i \in DOMAIN item} :
     Signed(url) /\ url # Malformed}

Earliest(times) == CHOOSE t \in times : \A u \in times : t <= u

EdgeTTL(item, at) ==
  LET all == Expiries(item)
      left == Earliest(all) - Margin - at
  IN  IF all = {} \/ left >= NormalTTL THEN NormalTTL
      ELSE IF left <= 0 THEN 0 ELSE left

(* statelessCarouselImageURLs: the first three that are playable.          *)
CarouselImages(item, at) ==
  LET Image(m) == IF m.video THEN m.thumb ELSE m.url
      good == {i \in DOMAIN item : UrlPlayable(Image(item[i]), at)}
  IN  {Image(item[i]) : i \in {i \in good : Cardinality({j \in good : j < i}) < 3}}

---------------------------------------------------------------------------
Selected(r) == IF r.kind.number = 0 THEN 1 ELSE r.kind.number
MediaOf(r) == r.item[Selected(r)]
Tracked(r) == r.kind.telegram /\ r.prefers /\ ~r.kind.original

Has(item, number) == item # None /\ number \in DOMAIN item

(* statelessCandidateMedia *)
Candidate(r, item, wantVideo) ==
  /\ Has(item, Selected(r))
  /\ item[Selected(r)].video = wantVideo
  /\ UrlPlayable(item[Selected(r)].url, r.at)

Put(e, r) == embed' = [embed EXCEPT ![e] = r]

(* An answer, and for how long the CDN may store it.                       *)
Reply(e, r, page, ttl) ==
  /\ Put(e, [r EXCEPT !.phase = "answered", !.page = page])
  /\ edge' = IF ttl = 0 THEN edge ELSE [until |-> embedTime + ttl, ads |-> page.ads]

Page(kind, video, ads, decision) ==
  [kind |-> kind, video |-> video, ads |-> ads, decision |-> decision]

Fallback(e, r) ==
  Reply(e, r, Page("fallback", "none", {}, IF Tracked(r) THEN "blocked" ELSE "none"),
        FallbackTTL)

Redirect(e, r) == Reply(e, r, Page("redirect", "none", {}, "none"), 0)

---------------------------------------------------------------------------
EmbedTick ==
  embedTime < MaxEmbedTime /\ embedTime' = embedTime + 1 /\ UNCHANGED <<embed, edge>>

(* A bot asks for a page that the CDN does not answer.                     *)
AskPage(e, kind) ==
  /\ embed[e].phase = "idle"
  /\ Put(e, [NoEmbed EXCEPT !.phase = "fetch", !.kind = kind])
  /\ UNCHANGED <<embedTime, edge>>

(* The number of the media is none: a page that says so, which sets no     *)
(* header for the CDN; only the path has told that a video is preferred.   *)
RefuseNumber(e, kind) ==
  /\ embed[e].phase = "idle"
  /\ \E prefers \in BOOLEAN :
       LET r == [NoEmbed EXCEPT !.kind = kind, !.prefers = prefers]
       IN  Reply(e, r, Page("invalid", "none", {}, IF Tracked(r) THEN "blocked" ELSE "none"), 0)
  /\ UNCHANGED embedTime

(* The item, or None for an error; the path or an upgrade of /p/ tells     *)
(* that a video is preferred.  Telegram may get the client-media fallback  *)
(* for a Reel without video, if that is configured.                        *)
FetchItem(e) ==
  /\ embed[e].phase = "fetch"
  /\ \E item \in EmbedItems \cup {None}, prefers \in BOOLEAN :
       LET r == [embed[e] EXCEPT !.prefers = prefers, !.at = embedTime, !.item = item]
           hasVideo == item # None /\ \E i \in DOMAIN item : item[i].video
       IN  \/ /\ r.kind.telegram /\ prefers /\ ~hasVideo
              /\ Reply(e, r, Page("client", "client", {}, "none"), 0)
           \/ /\ ~Has(item, Selected(r))
              /\ Fallback(e, r)
           \/ /\ Has(item, Selected(r))
              /\ Put(e, [r EXCEPT !.phase = "select"])
              /\ UNCHANGED edge
  /\ UNCHANGED embedTime

(* The media is chosen; what comes next.                                   *)
ChooseMedia(e, r, item) ==
  LET s == [r EXCEPT !.item = item]
      next == IF s.kind.original /\ MediaOf(s).video THEN "original"
              ELSE IF Selected(s) = 1 /\ MediaOf(s).video /\ Tracked(s) THEN "measure"
              ELSE "render"
  IN  Put(e, [s EXCEPT !.phase = next]) /\ UNCHANGED edge

(* selectStatelessMedia: the media as it is, ...                           *)
SelectMedia(e) ==
  LET r == embed[e]
      url == MediaOf(r).url
  IN  /\ r.phase = "select"
      /\ IF ~ExpiresSoon(url, r.at) /\ UrlPlayable(url, r.at)
         THEN ChooseMedia(e, r, r.item)
         ELSE /\ Put(e, [r EXCEPT !.phase = IF MediaOf(r).video THEN "graphql" ELSE "anonymous"])
              /\ UNCHANGED edge
      /\ UNCHANGED embedTime

(* ... or of a refreshed item (None for an error) ...                      *)
RefreshVideo(e) ==
  LET r == embed[e] IN
  /\ r.phase = "graphql"
  /\ \E item \in EmbedItems \cup {None} :
       IF Candidate(r, item, TRUE) THEN ChooseMedia(e, r, item)
       ELSE Put(e, [r EXCEPT !.phase = "anonymous"]) /\ UNCHANGED edge
  /\ UNCHANGED embedTime

(* ... or the old one while it has some life left.                         *)
RefreshAnonymously(e) ==
  LET r == embed[e] IN
  /\ r.phase = "anonymous"
  /\ \E item \in EmbedItems \cup {None} :
       IF Candidate(r, item, MediaOf(r).video) THEN ChooseMedia(e, r, item)
       ELSE IF UrlPlayable(MediaOf(r).url, r.at) THEN ChooseMedia(e, r, r.item)
       ELSE Fallback(e, r)
  /\ UNCHANGED embedTime

RefreshOriginal(e) ==
  LET r == embed[e] IN
  /\ r.phase = "original"
  /\ \E item \in EmbedItems \cup {None} :
       Put(e, [r EXCEPT !.phase = "render",
                        !.item = IF Candidate(r, item, TRUE) THEN item ELSE @])
  /\ UNCHANGED <<embedTime, edge>>

---------------------------------------------------------------------------
(* inlineVideoContentLength; an unknown size is not big.                   *)
Measure(e) ==
  LET r == embed[e] IN
  /\ r.phase = "measure"
  /\ \E big \in BOOLEAN :
       Put(e, [r EXCEPT !.big = big,
                        !.phase = IF big \/ MediaOf(r).dash THEN "resolve" ELSE "render"])
  /\ UNCHANGED <<embedTime, edge>>

(* ResolveCompactPreviewAV asks its next source.                           *)
AskAV(e) ==
  LET r == embed[e] IN
  /\ r.phase = "resolve" /\ ~Resolved(r.asked)
  /\ \E body \in AVBodies \cup {None} :
       LET audio == body # None /\ \E i \in DOMAIN body.tracks : body.tracks[i].kind = "audio"
       IN  Put(e, [r EXCEPT !.asked = Ask(@, body), !.heard = @ \/ audio])
  /\ UNCHANGED <<embedTime, edge>>

(* Mutant: without a compact version the video is shown as it is.          *)
ShowVideoAnyway(r, fresh) ==
  IF r.asked.pair # None /\ fresh THEN "compact"
  ELSE IF MediaOf(r).dash /\ NoAudioExpected(r.asked) THEN "silent" ELSE "direct"

(* What is shown of the video once the sources are asked; `fresh': the URL *)
(* of the pair's video is playable.                                        *)
ShowVideo(r, fresh) ==
  IF r.asked.pair # None /\ fresh THEN "compact"
  ELSE IF ~MediaOf(r).dash THEN "direct"
  ELSE IF NoAudioExpected(r.asked) THEN "silent"
  ELSE "cover"

DecideVideo(e) ==
  LET r == embed[e] IN
  /\ r.phase = "resolve" /\ Resolved(r.asked)
  /\ \E fresh \in BOOLEAN :
       Put(e, [r EXCEPT !.phase = "render", !.show = ShowVideo(r, fresh),
                        !.asked = [NothingAsked EXCEPT !.silent = r.asked.silent]])
  /\ UNCHANGED <<embedTime, edge>>

---------------------------------------------------------------------------
(* Mutant: the size is looked at first.                                    *)
DecisionBySize(r) ==
  IF ~Tracked(r) THEN "none"
  ELSE IF ~MediaOf(r).video \/ r.big THEN "expected_image"
  ELSE IF r.show = "compact" THEN "compact"
  ELSE IF r.show = "cover" THEN "expected_image"
  ELSE "direct"

(* RecordTelegramVideoDecision of a rendered page.                         *)
Decision(r) ==
  IF ~Tracked(r) THEN "none"
  ELSE IF ~MediaOf(r).video THEN "expected_image"
  ELSE IF r.show = "compact" THEN "compact"
  ELSE IF r.show = "silent" THEN "direct"
  ELSE IF r.show = "cover" \/ r.big THEN "expected_image"
  ELSE "direct"

(* Mutant: the lifetime counts from when the request selected its media.   *)
RenderByOldClock(e) ==
  LET r == embed[e]
      media == MediaOf(r)
      grid == ~media.video /\ r.kind.number = 0 /\ Len(r.item) > 1
      ads == IF grid THEN CarouselImages(r.item, embedTime)
             ELSE IF media.video THEN {} ELSE {media.url}
      video == IF ~media.video \/ r.show = "cover" THEN "none"
               ELSE IF r.show = "compact" THEN "compact" ELSE "direct"
  IN  /\ r.phase = "render"
      /\ IF ~grid /\ ~UrlPlayable(media.url, embedTime) THEN Fallback(e, r)
         ELSE IF r.kind.direct THEN Redirect(e, r)
         ELSE Reply(e, r, Page("page", video, ads, Decision(r)), EdgeTTL(r.item, r.at))
      /\ UNCHANGED embedTime

(* The media must still be playable now, if its URL is shown; the grid of  *)
(* a carousel and every video have a route of the program's own.           *)
Render(e) ==
  LET r == embed[e]
      media == MediaOf(r)
      grid == ~media.video /\ r.kind.number = 0 /\ Len(r.item) > 1
      ads == IF grid THEN CarouselImages(r.item, embedTime)
             ELSE IF media.video THEN {} ELSE {media.url}
      video == IF ~media.video \/ r.show = "cover" THEN "none"
               ELSE IF r.show = "compact" THEN "compact" ELSE "direct"
  IN  /\ r.phase = "render"
      /\ IF ~grid /\ ~UrlPlayable(media.url, embedTime) THEN Fallback(e, r)
         ELSE IF r.kind.direct THEN Redirect(e, r)
         ELSE Reply(e, r, Page("page", video, ads, Decision(r)), EdgeTTL(r.item, embedTime))
      /\ UNCHANGED embedTime

PageSent(e) ==
  /\ embed[e].phase = "answered"
  /\ Put(e, NoEmbed)
  /\ UNCHANGED <<embedTime, edge>>

---------------------------------------------------------------------------
EmbedStep(e) ==
  \/ FetchItem(e) \/ SelectMedia(e) \/ RefreshVideo(e) \/ RefreshAnonymously(e)
  \/ RefreshOriginal(e) \/ Measure(e) \/ AskAV(e) \/ DecideVideo(e) \/ Render(e)
  \/ PageSent(e)

EmbedNext ==
  \/ EmbedTick
  \/ \E e \in Embeds :
       \/ \E kind \in EmbedKinds : AskPage(e, kind) \/ RefuseNumber(e, kind)
       \/ EmbedStep(e)

EmbedSpec == EmbedInit /\ [][EmbedNext]_embedVars

---------------------------------------------------------------------------
EmbedTypeOK ==
  /\ embedTime \in 0..MaxEmbedTime
  /\ edge # None => edge.until \in 0..(MaxEmbedTime + NormalTTL + FallbackTTL)
  /\ \A e \in Embeds :
       /\ embed[e].item \in EmbedItems \cup {None}
       /\ embed[e].asked.tried \in 0..AVSources
       /\ (embed[e].page # None) <=> (embed[e].phase = "answered")

(* As long as the CDN may serve a page, every signed URL in it outlives    *)
(* the moment by the safety margin, however long the request took between  *)
(* the choice of the media and the headers, and whichever refresh replaced *)
(* the item meanwhile ("always capped by the URL expiry minus the          *)
(* configured safety margin").                                             *)
EdgeTTLSafe ==
  edge # None /\ embedTime <= edge.until =>
    \A url \in edge.ads :
      /\ url \notin {Foreign, Malformed}
      /\ Signed(url) => url - embedTime >= Margin

(* The journal of the daily report agrees with the page a tracked Telegram *)
(* request got, on every exit of the handler: compact and direct tell the  *)
(* video that is advertised, blocked the fallback page and that for a bad  *)
(* number, and only redirects and the client-media fallback go without an  *)
(* entry.                                                                  *)
JournalAgrees ==
  \A e \in Embeds :
    embed[e].phase = "answered" /\ Tracked(embed[e]) =>
      LET page == embed[e].page IN
      /\ (page.decision = "compact") <=> (page.video = "compact")
      /\ (page.decision = "direct") => (page.video = "direct")
      /\ (page.decision = "blocked") <=> (page.kind \in {"fallback", "invalid"})
      /\ (page.decision = "none") => (page.kind \in {"redirect", "client"})

SilentPage(e) ==
  /\ embed[e].phase = "answered" /\ Tracked(embed[e])
  /\ embed[e].page.video = "direct"
  /\ Selected(embed[e]) = 1 /\ MediaOf(embed[e]).dash

(* A track that has no sound is advertised to a tracked request only if    *)
(* some source said that the Reel is silent; that no source could be asked *)
(* is no such answer.                                                      *)
SilentOnlyIfSaid ==
  \A e \in Embeds : SilentPage(e) => embed[e].asked.silent

(* "Do not knowingly advertise a video-only DASH track when Instagram says *)
(* the Reel has audio": no answer that was read listed an audio track.     *)
NoSilentVideo ==
  \A e \in Embeds : SilentPage(e) => ~embed[e].heard
=============================================================================
