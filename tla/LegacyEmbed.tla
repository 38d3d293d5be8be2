---------------------------- MODULE LegacyEmbed -----------------------------
(***************************************************************************)
(* The preview page of the production route (Embed): one request after the *)
(* other through the redirect to OGInstagram, its proxy, the scraper, the  *)
(* auth fallback, and again redirect, client-media fallback and proxy      *)
(* wherever the item lacks something.  Whoever answers also records.       *)
(*                                                                         *)
(* A client is "telegram", another "preview" client, another "bot", or a   *)
(* "browser"; an item is [medias, named, video].                           *)
(***************************************************************************)
EXTENDS Absent, Naturals

CONSTANTS
  RedirectModes,  \* ogInstagramClientRedirectMode
  LegacyItems,    \* items the scraper returns
  LegacyRequests  \* [client, path, plain, number]

ASSUME LegacyAssumption ==
  /\ None \notin LegacyItems
  /\ LegacyItems \subseteq [medias : Nat, named : BOOLEAN, video : BOOLEAN]

VARIABLES
  legacyMode,  \* the configuration: [redirect, media, proxy]
  legacy       \* the request

legacyVars == <<legacyMode, legacy>>

NoLegacy == [step |-> "idle", req |-> None, prefers |-> FALSE, item |-> None, err |-> "none",
             authErr |-> "none", proxied |-> 0, previews |-> 0, redirects |-> 0,
             answer |-> "none"]

LegacyInit ==
  /\ legacyMode \in [redirect : RedirectModes, media : BOOLEAN, proxy : BOOLEAN]
  /\ legacy = NoLegacy

---------------------------------------------------------------------------
IsTelegram == legacy.req.client = "telegram"
IsPreview == legacy.req.client \in {"telegram", "preview"}
IsBot == legacy.req.client # "browser"
IsReel == legacy.req.path = "reel"

Onward(step) == legacy' = [legacy EXCEPT !.step = step]

(* RecordPreviewWithReason and the answer.                                 *)
AnswerPage(answer) ==
  legacy' = [legacy EXCEPT !.step = "answered", !.answer = answer, !.previews = @ + 1]

NoMedia(item) == item # None => item.medias = 0

(* TryOGInstagramClientRedirect for the error of a fetch.                  *)
Redirects(err) ==
  /\ IsReel \/ legacy.req.path = "p"
  /\ CASE legacyMode.redirect = "preview_fallback" -> err # "none" /\ IsPreview
       [] legacyMode.redirect = "telegram_all" -> IsTelegram
       [] legacyMode.redirect = "bots_all" -> IsBot
       [] legacyMode.redirect = "bots_restricted" -> IsBot /\ IsReel /\ err = "restricted"
       [] legacyMode.redirect = "telegram_restricted" ->
            IsTelegram /\ IsReel /\ err = "restricted"
       [] OTHER -> FALSE

(* RecordOGClientRedirect only.                                            *)
RedirectOver ==
  legacy' = [legacy EXCEPT !.step = "answered", !.answer = "og", !.redirects = @ + 1]

(* tryOGInstagramClientMediaFallback                                       *)
ClientMedia == legacyMode.media /\ IsTelegram /\ (IsReel \/ legacy.req.path = "p")

(* Mutant: the page of the fallback counts as a redirect only.             *)
ClientMediaUncounted ==
  legacy' = [legacy EXCEPT !.step = "answered", !.answer = "client", !.redirects = @ + 1]

AnswerClientMedia ==
  legacy' = [legacy EXCEPT !.step = "answered", !.answer = "client",
                           !.previews = @ + 1, !.redirects = @ + 1]

(* TryOGInstagramEmbedProxy: its page, or on to the next step.             *)
Proxy(next) ==
  \/ /\ legacyMode.proxy
     /\ legacy' = [legacy EXCEPT !.step = "answered", !.answer = "proxied",
                                 !.previews = @ + 1, !.proxied = @ + 1]
  \/ legacy' = [legacy EXCEPT !.step = next, !.proxied = IF legacyMode.proxy THEN @ + 1 ELSE @]

---------------------------------------------------------------------------
(* An invalid index, story or share is answered before the client is       *)
(* looked at.                                                              *)
AskLegacy(req) ==
  /\ legacy.step = "idle"
  /\ legacy' = [NoLegacy EXCEPT !.step = "parse", !.req = req]
  /\ UNCHANGED legacyMode

Parse ==
  /\ legacy.step = "parse"
  /\ \/ AnswerPage("invalid")
     \/ ~IsBot /\ legacy' = [legacy EXCEPT !.step = "answered", !.answer = "instagram"]
     \/ IsBot /\ Onward("redirect")
  /\ UNCHANGED legacyMode

RedirectFirst ==
  /\ legacy.step = "redirect"
  /\ IF legacy.req.plain /\ Redirects("none") THEN RedirectOver ELSE Onward("proxy")
  /\ UNCHANGED legacyMode

ProxyFirst ==
  /\ legacy.step = "proxy"
  /\ IF legacy.req.plain THEN Proxy("fetch") ELSE Onward("fetch")
  /\ UNCHANGED legacyMode

(* GetData with its upgrades of a /p/ alias to a video.                    *)
FetchLegacy ==
  /\ legacy.step = "fetch"
  /\ \E item \in LegacyItems \cup {None}, err \in {"none", "restricted", "missing"},
        prefers \in BOOLEAN :
       /\ IsReel => prefers
       /\ err # "none" => NoMedia(item)
       /\ legacy' = [legacy EXCEPT !.step = "auth", !.item = item, !.err = err,
                                   !.prefers = prefers]
  /\ UNCHANGED legacyMode

(* shouldUseAuthFallbackItem *)
UsesAuthItem(auth) ==
  \/ NoMedia(legacy.item) \/ ~legacy.item.named
  \/ legacy.prefers => auth.video

(* An item without author is an error of the fallback alone.               *)
AuthFallback ==
  /\ legacy.step = "auth"
  /\ LET item == legacy.item
         needed == \/ legacy.err # "none" \/ NoMedia(item)
                   \/ ~item.named \/ (legacy.prefers /\ ~item.video)
     IN  IF ~(needed /\ IsPreview) THEN Onward("video")
         ELSE \/ \E auth \in LegacyItems :
                   /\ ~NoMedia(auth)
                   /\ legacy' = [legacy EXCEPT !.step = "video", !.err = "none",
                                   !.item = IF UsesAuthItem(auth) THEN auth ELSE @]
              \/ \E authErr \in {"none", "restricted", "missing"} :
                   legacy' = [legacy EXCEPT !.step = "video", !.authErr = authErr]
  /\ UNCHANGED legacyMode

(* The error that stands for what is missing.                              *)
MissingErr ==
  IF legacy.err # "none" THEN legacy.err
  ELSE IF legacy.authErr # "none" THEN legacy.authErr ELSE "missing"

(* A Reel without video.                                                   *)
LacksVideo ==
  /\ legacy.step = "video"
  /\ IF legacy.req.plain /\ legacy.prefers /\ (NoMedia(legacy.item) \/ ~legacy.item.video)
     THEN IF Redirects(MissingErr) THEN RedirectOver
          ELSE IF ClientMedia THEN AnswerClientMedia
          ELSE Proxy("medias")
     ELSE Onward("medias")
  /\ UNCHANGED legacyMode

(* Mutant: the error of the fetch is passed on, which an empty item has    *)
(* not.                                                                    *)
LacksMediaUnnamed ==
  /\ legacy.step = "medias"
  /\ IF legacy.err # "none" \/ NoMedia(legacy.item)
     THEN IF legacy.req.plain /\ Redirects(legacy.err) THEN RedirectOver
          ELSE Onward("mediaproxy")
     ELSE Onward("name")
  /\ UNCHANGED legacyMode

LacksMedia ==
  /\ legacy.step = "medias"
  /\ IF legacy.err # "none" \/ NoMedia(legacy.item)
     THEN IF legacy.req.plain /\ Redirects(MissingErr) THEN RedirectOver
          ELSE Onward("mediaproxy")
     ELSE Onward("name")
  /\ UNCHANGED legacyMode

(* proxyAttempted: the proxy was asked for this request after the fetch.   *)
MediaProxy ==
  LET attempted == legacy.prefers /\ (NoMedia(legacy.item) \/ ~legacy.item.video) IN
  /\ legacy.step = "mediaproxy"
  /\ IF legacy.req.plain /\ ~attempted THEN Proxy("fallback") ELSE Onward("fallback")
  /\ UNCHANGED legacyMode

(* An item without author.                                                 *)
LacksName ==
  /\ legacy.step = "name"
  /\ IF legacy.req.number > legacy.item.medias THEN AnswerPage("invalid")
     ELSE IF legacy.item.named THEN Onward("render")
     ELSE IF legacy.req.plain /\ Redirects("missing") THEN RedirectOver
     ELSE IF legacy.req.plain /\ legacy.prefers /\ ClientMedia THEN AnswerClientMedia
     ELSE IF legacy.req.plain THEN Proxy("fallback")
     ELSE Onward("fallback")
  /\ UNCHANGED legacyMode

(* logEmbedDecision and renderFallbackEmbed.                               *)
FallbackPage ==
  /\ legacy.step = "fallback"
  /\ AnswerPage("fallback")
  /\ UNCHANGED legacyMode

(* A video that Telegram cannot show goes by the client-media fallback.    *)
RenderLegacy ==
  /\ legacy.step = "render"
  /\ \/ legacy.item.video /\ ClientMedia /\ AnswerClientMedia
     \/ AnswerPage("page")
  /\ UNCHANGED legacyMode

LegacySent ==
  /\ legacy.step = "answered"
  /\ legacy' = NoLegacy
  /\ UNCHANGED legacyMode

LegacyNext ==
  \/ \E req \in LegacyRequests : AskLegacy(req)
  \/ Parse \/ RedirectFirst \/ ProxyFirst \/ FetchLegacy \/ AuthFallback \/ LacksVideo
  \/ LacksMedia \/ MediaProxy \/ LacksName \/ FallbackPage \/ RenderLegacy \/ LegacySent

LegacySpec == LegacyInit /\ [][LegacyNext]_legacyVars

---------------------------------------------------------------------------
LegacyTypeOK ==
  /\ legacy.item \in LegacyItems \cup {None}
  /\ legacy.previews \in 0..1 /\ legacy.redirects \in 0..1
  /\ legacy.proxied \in 0..3

(* Each page that a bot gets is counted once among the preview requests,   *)
(* on whichever of the handler's exits: its own pages, the proxy's and the *)
(* client-media fallback, which also counts as a handoff; a redirect is no *)
(* preview.                                                                *)
RecordedOnce ==
  legacy.step = "answered" =>
    /\ legacy.previews = IF legacy.answer \in {"og", "instagram"} THEN 0 ELSE 1
    /\ legacy.redirects = IF legacy.answer \in {"og", "client"} THEN 1 ELSE 0

(* TestClientRedirectPreviewFallbackHandlesResolverFailuresForKnownPreview *)
(* Clients, for the whole handler: under preview_fallback a preview client *)
(* is handed over instead of getting the generic page whatever failed, and *)
(* keeps a preview that could be made.                                     *)
FailuresHandedOver ==
  legacy.step = "answered" /\ legacyMode.redirect = "preview_fallback"
    /\ IsPreview /\ legacy.req.plain /\ legacy.req.path \in {"p", "reel"}
  => /\ legacy.answer # "fallback"
     /\ legacy.answer = "og" =>
          ~(legacy.err = "none" /\ ~NoMedia(legacy.item) /\ legacy.item.named
              /\ (legacy.prefers => legacy.item.video))
=============================================================================
