--------------------------------- MODULE TikTok ---------------------------------
(***************************************************************************)
(* TikTokScraper.scrape: the public embed page of a video for its views,   *)
(* then the player's items for the exact engagement.  Both requests follow *)
(* redirects.  A body is what its parser looks at: the state it carries,   *)
(* whether that is well formed, and whose video it shows; headers, counts  *)
(* and the wording of failures are left out.                               *)
(***************************************************************************)
EXTENDS Failures, Absent

CONSTANTS
  VideoStatuses,  \* statuses other than 200 that the run meets
  VideoCauses     \* codes of the errors the HTTP client throws

VARIABLES
  step,    \* "new", "embed" or "player" under way, "done"
  page,    \* what the embed page gave, Null before
  answer,  \* the last answer
  scraped  \* what scrape returned

tiktokVars == <<step, page, answer, scraped>>

Videos == {"this", "another"}

TikTokInit == step = "new" /\ page = Null /\ answer = Null /\ scraped = Null

(* The page has the state of the embed route, of the older hydration, or   *)
(* none; it may be the challenge of a firewall instead.                    *)
EmbedPages ==
  [kind : {"page"}, script : {"embed", "hydration", "none"}, wellFormed : BOOLEAN,
   video : Videos, challenge : BOOLEAN]
PlayerBodies == [kind : {"items"}, wellFormed : BOOLEAN, videos : SUBSET Videos]
Others == [kind : {"status"}, status : VideoStatuses] \cup [kind : {"thrown"}, code : VideoCauses]

TikTokAssumption == VideoCauses \subseteq ThrownCodes /\ Null \notin FailureRecords \cup EmbedPages
-------------------------------------------------------------------------------
EmbedFailure(s) ==
  CASE s = "404" -> ScrapeError("not_found")
    [] s = "429" -> ScrapeError("rate_limited")
    [] s = "403" -> ScrapeError("blocked")
    [] s = "400" -> ScrapeError("private")
    [] s = "451" -> ScrapeError("geo_blocked")
    [] OTHER     -> Failure("error", "http_error", s \in {"408", "5xx"})

(* Mutation: what the platform says of the video is held against the proxy. *)
PlayerFailureLumped(s) ==
  CASE s = "404" -> ScrapeError("not_found")
    [] s \in {"403", "429", "451"} -> ScrapeError("blocked")
    [] OTHER     -> Failure("error", "http_error", s \in {"408", "5xx"})

(* failureFromHttpResponse: a 400 of the player is just another 4xx.       *)
PlayerFailure(s) ==
  CASE s = "404" -> ScrapeError("not_found")
    [] s = "429" -> ScrapeError("rate_limited")
    [] s = "403" -> ScrapeError("blocked")
    [] s = "451" -> ScrapeError("geo_blocked")
    [] OTHER     -> Failure("error", "http_error", s \in {"408", "5xx"})

(* parseTikTokHydrationHtml: the embed state when it is there.             *)
ParsesPage(p) == p.script # "none" /\ p.wellFormed /\ p.video = "this"

(* parseTikTokPlayerResponse: the item of the video among those returned.  *)
ParsesItems(b) == b.wellFormed /\ "this" \in b.videos

EmbedVerdict(v) ==
  IF v.kind = "thrown"      THEN ScrapeError(v.code)
  ELSE IF v.kind = "status" THEN EmbedFailure(v.status)
  ELSE IF v.challenge       THEN ScrapeError("blocked")
  ELSE IF ~ParsesPage(v)    THEN ScrapeError("parse_error")
  ELSE Null

PlayerVerdict(v) ==
  IF v.kind = "thrown"      THEN ScrapeError(v.code)
  ELSE IF v.kind = "status" THEN PlayerFailure(v.status)
  ELSE IF ~ParsesItems(v)   THEN ScrapeError("parse_error")
  ELSE Null
-------------------------------------------------------------------------------
VideoFinishes(r) == step' = "done" /\ scraped' = r

(* scrape is called, with a URL that is canonical or not.                  *)
ScrapeVideo ==
  /\ step = "new" /\ UNCHANGED <<page, answer>>
  /\ \/ step' = "embed" /\ UNCHANGED scraped
     \/ VideoFinishes(InvalidUrl)

EmbedAnswers(v) ==
  /\ step = "embed" /\ answer' = v
  /\ IF EmbedVerdict(v) # Null THEN VideoFinishes(EmbedVerdict(v)) /\ UNCHANGED page
     ELSE step' = "player" /\ page' = v /\ UNCHANGED scraped

(* Success has the views of the page, and the engagement of the player.    *)
PlayerAnswers(v) ==
  /\ step = "player" /\ answer' = v /\ UNCHANGED page
  /\ VideoFinishes(IF PlayerVerdict(v) # Null THEN PlayerVerdict(v)
                   ELSE [views |-> page.video, engagement |-> "this"])

TikTokNext ==
  \/ ScrapeVideo
  \/ \E v \in EmbedPages \cup Others : EmbedAnswers(v)
  \/ \E v \in PlayerBodies \cup Others : PlayerAnswers(v)
TikTokSpec == TikTokInit /\ [][TikTokNext]_tiktokVars /\ WF_tiktokVars(TikTokNext)
-------------------------------------------------------------------------------
Succeeded == step = "done" /\ "views" \in DOMAIN scraped

(* What the pool learns of the proxy follows from what the proxy brought   *)
(* back, at either step: a refusal or a challenge benches it, a region     *)
(* retires it, a deleted or private video credits it, and a page that      *)
(* cannot be read, or shows another video, says nothing; such a page never *)
(* makes a row.                                                            *)
ProxyJudgedByAnswer ==
  step = "done" /\ answer # Null =>
    IF Succeeded THEN scraped.views = "this" /\ "this" \in answer.videos
    ELSE ProxyOutcome(scraped) =
      CASE answer.kind = "status"
             -> IF answer.status = "400" /\ page = Null THEN "success" ELSE Tells(answer.status)
        [] answer.kind = "page"  -> IF answer.challenge THEN "blocked" ELSE "neutral"
        [] answer.kind = "items" -> "neutral"
        [] answer.kind = "thrown"
             -> IF answer.code \in {"timeout", "network_error"} THEN "failure" ELSE "neutral"
=============================================================================
