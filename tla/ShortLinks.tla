------------------------------- MODULE ShortLinks -------------------------------
(***************************************************************************)
(* The short links of both platforms: what their normalisers make of a     *)
(* URL, and the redirects that TikTokUrlResolver and InstagramUrlResolver  *)
(* follow one by one until one of them is a post.                          *)
(*                                                                         *)
(* A URL is its host, the form of its path and the post or token it names; *)
(* scheme, query, fragment and the id of a post are left out.  What the    *)
(* servers answer is free.                                                 *)
(***************************************************************************)
EXTENDS Naturals, Failures, Absent

CONSTANTS
  Posts,         \* the posts and tokens a path names
  LinkStatuses,  \* statuses that are no redirect: "2xx" or an error
  LinkCauses,    \* codes of the errors the HTTP client throws
  MaxRedirects   \* MAX_REDIRECTS

VARIABLES
  platform,   \* whose link it is
  current,    \* the URL the resolver is at
  asked,      \* the URLs requested, in a set
  requests,   \* how many they were
  resolution  \* what resolve returned, Null before

linksVars == <<platform, current, asked, requests, resolution>>

Platforms == {"tiktok", "instagram"}
Domains   == [tiktok |-> {"www.tiktok.com", "m.tiktok.com", "vm.tiktok.com"},
              instagram |-> {"www.instagram.com", "m.instagram.com", "instagr.am"}]
AllHosts  == Domains.tiktok \cup Domains.instagram \cup {"elsewhere"}
ShortHosts == {"vm.tiktok.com", "instagr.am"}
PostPaths  == [tiktok |-> {"video", "photo"}, instagram |-> {"reel", "reels", "p", "tv"}]
Paths == PostPaths.tiktok \cup PostPaths.instagram \cup {"share", "other"}
Url(host, path, post) == [host |-> host, path |-> path, post |-> post]
Urls == [host : AllHosts, path : Paths, post : Posts]

LinksAssumption ==
  /\ MaxRedirects \in Nat /\ LinkCauses \subseteq ThrownCodes
  /\ Null \notin FailureRecords \cup Urls \cup [url : Urls, resolve : BOOLEAN]
-------------------------------------------------------------------------------
Matches(p, u) == u.host \in Domains[p]

(* A short form needs a request before its post is known; a share link is  *)
(* one on any host of Instagram but the legacy one, which has only posts.  *)
IsShort(p, u) ==
  /\ Matches(p, u)
  /\ CASE p = "tiktok"           -> u.host = "vm.tiktok.com"
       [] u.host = "instagr.am"  -> u.path \in PostPaths.instagram
       [] OTHER                  -> u.path = "share"

IsPost(p, u) == Matches(p, u) /\ u.host \notin ShortHosts /\ u.path \in PostPaths[p]

CanonicalHost(p) == IF p = "tiktok" THEN "www.tiktok.com" ELSE "www.instagram.com"

(* The one spelling of a post, for the request, the row and duplicates.    *)
Canonical(p, u) == Url(CanonicalHost(p), IF u.path = "reels" THEN "reel" ELSE u.path, u.post)

(* normalize: the URL to use, whether it must be resolved, or Null for one *)
(* that is refused.                                                        *)
Normalize(p, u) ==
  CASE IsShort(p, u) -> [url |-> IF p = "instagram" /\ u.path = "share"
                                 THEN [u EXCEPT !.host = CanonicalHost(p)] ELSE u,
                         resolve |-> TRUE]
    [] IsPost(p, u)  -> [url |-> Canonical(p, u), resolve |-> FALSE]
    [] OTHER         -> Null

(* parseCanonical...Url: what the scraper of the platform accepts.         *)
Scrapable(p, u) == IsPost(p, u) /\ u.path # "reels"
-------------------------------------------------------------------------------
Resolved(n) == n # Null /\ ~n.resolve

(* prepareOne hands on the links whose normal form needs a request.        *)
LinksInit ==
  /\ platform \in Platforms
  /\ current \in {Normalize(platform, u).url : u \in {v \in Urls : IsShort(platform, v)}}
  /\ asked = {} /\ requests = 0 /\ resolution = Null

ResolverReturns(r) == resolution' = r /\ UNCHANGED <<platform, current>>

(* failureForResponse of a response that is no redirect, and the refusal   *)
(* of one that is no failure.  Instagram's has no rule for a 451.          *)
ResponseFailure(s) ==
  CASE s = "404"                               -> ScrapeError("not_found")
    [] s = "403"                               -> ScrapeError("blocked")
    [] s = "429"                               -> ScrapeError("rate_limited")
    [] s = "451" /\ platform = "tiktok"        -> ScrapeError("geo_blocked")
    [] s \in {"5xx", "408"}                    -> Failure("error", "http_error", TRUE)
    [] s \in {"400", "401", "4xx", "451"}      -> Failure("error", "http_error", FALSE)
    [] OTHER                                   -> InvalidUrl

Asks == /\ resolution = Null /\ ~Resolved(Normalize(platform, current))
        /\ asked' = asked \cup {current} /\ requests' = requests + 1

Thrown(code) == Asks /\ ResolverReturns(ScrapeError(code))

Answered(s) == Asks /\ ResolverReturns(ResponseFailure(s))

(* Mutation: a redirect is followed wherever it leads.                     *)
AllowedAnywhere(u) == TRUE

Allowed(u) == Matches(platform, u)

(* A redirect: to u, which may be another short form; or Null, nowhere a   *)
(* URL can be made of.                                                     *)
Redirected(u) ==
  /\ Asks
  /\ IF requests = MaxRedirects \/ u = Null THEN ResolverReturns(InvalidUrl)
     ELSE IF ~Allowed(u) THEN ResolverReturns(InvalidUrl)
     ELSE current' = u /\ UNCHANGED <<platform, resolution>>

Resolves ==
  LET n == Normalize(platform, current) IN
  /\ resolution = Null /\ Resolved(n)
  /\ ResolverReturns([url |-> n.url]) /\ UNCHANGED <<asked, requests>>

LinksNext ==
  \/ \E code \in LinkCauses : Thrown(code)
  \/ \E s \in LinkStatuses : Answered(s)
  \/ \E u \in Urls \cup {Null} : Redirected(u)
  \/ Resolves
LinksSpec == LinksInit /\ [][LinksNext]_linksVars /\ WF_linksVars(LinksNext)
-------------------------------------------------------------------------------
(* Wherever the servers send it, a resolution asks only hosts of its own   *)
(* platform, at most one more time than redirects are allowed; and what it *)
(* returns is a URL that the scraper accepts and that the normaliser       *)
(* leaves as it is, so that links to one post are seen to be duplicates.   *)
ResolutionStaysHome ==
  /\ requests <= MaxRedirects + 1
  /\ \A u \in asked : Matches(platform, u)
  /\ resolution # Null /\ "url" \in DOMAIN resolution =>
       /\ Scrapable(platform, resolution.url)
       /\ Normalize(platform, resolution.url) = [url |-> resolution.url, resolve |-> FALSE]
=============================================================================
