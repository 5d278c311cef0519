------------------------------- MODULE Instagram -------------------------------
(***************************************************************************)
(* InstagramScraper.scrape: an anonymous bootstrap per proxy, the post     *)
(* query, the pages of clips of the post's authors when the post shows no  *)
(* views, and the authenticated media info as the last resort.             *)
(*                                                                         *)
(* Attempts run concurrently and share promises: the bootstrap of a proxy  *)
(* for the life of the scraper, a page of clips for the run.  Answer       *)
(* settles a request for everybody who waits for it, and Resume is the     *)
(* code after the await.  An entry that failed leaves its map in the turn  *)
(* of the event loop in which it settles.  Who waits for the request of    *)
(* another does not notice a signal of its own.  A body is what its parser *)
(* makes of it; headers, cookies and counts are left out.                  *)
(***************************************************************************)
EXTENDS Integers, Sequences, FiniteSets, Failures, Absent

CONSTANTS
  Attempts,      \* the attempts of a run
  Exits,         \* proxies, and the direct way out
  Bindings,      \* exits that sessions are bound to, or not
  Authors,       \* Seq: the ids of author and coauthors, as the post lists them
  MaxAuthors,    \* clipsMaxAuthors
  MaxPages,      \* clipsMaxPages
  PostStatuses,  \* statuses other than 200 that the run meets
  PostCauses     \* codes of the errors the HTTP client throws

VARIABLES
  anonymousStates,  \* promise of the bootstrap, per exit
  runCache,         \* promise of a page, per exit, author and page number
  attempt           \* where each attempt is

instagramVars == <<anonymousStates, runCache, attempt>>

Pages  == (DOMAIN Authors) \X (1 .. MaxPages)
Keys   == Exits \X Pages
ScrapePhases == {"new", "bootstrap", "post", "clips", "info", "done"}

New == [phase |-> "new", exit |-> Null, session |-> Null, page |-> <<1, 1>>, on |-> Null,
        got |-> Null, wire |-> FALSE, failure |-> Null, result |-> Null]

Promise(a, value) == [by |-> a, value |-> value]

InstagramInit ==
  /\ anonymousStates = [x \in Exits |-> Null]
  /\ runCache = [k \in Keys |-> Null]
  /\ attempt = [a \in Attempts |-> New]
-------------------------------------------------------------------------------
(* httpFailure, for the requests that do not follow redirects.             *)
HttpFailure(s) ==
  CASE s = "404"               -> Failure("not_found", "not_found", FALSE)
    [] s \in {"401", "429"}    -> Failure("rate_limited", "rate_limited", TRUE)
    [] s = "403"               -> Failure("rate_limited", "blocked", TRUE)
    [] s = "login"             -> Failure("private", "private", FALSE)
    [] s = "moved"             -> Failure("error", "http_error", TRUE)
    [] s = "451"               -> Failure("error", "geo_blocked", TRUE)
    [] OTHER                   -> Failure("error", "http_error", s \in {"408", "5xx"})

(* bootstrapAnonymous follows redirects and throws.                        *)
BootstrapFailure(s) ==
  CASE s \in {"429", "403"} -> ScrapeError("rate_limited")
    [] s = "451"            -> ScrapeError("geo_blocked")
    [] OTHER                -> Failure("error", "http_error", s = "5xx")

(* The bodies of a 200: a page of clips shows the posts of some attempts.  *)
Body(kind) == [kind |-> kind, found |-> {}, more |-> FALSE]
Bodies(phase) ==
  CASE phase = "bootstrap" -> {Body("token"), Body("no_token")}
    [] phase = "post"  -> {Body("views"), Body("no_views"), Body("image"), Body("empty"),
                           Body("garbled")}
    [] phase = "clips" -> [kind : {"page"}, found : SUBSET Attempts, more : BOOLEAN]
                            \cup {Body("garbled")}
    [] phase = "info"  -> {Body("views"), Body("challenge"), Body("garbled")}
    [] OTHER           -> {}

Answers(phase) ==
  Bodies(phase) \cup
  [status : IF phase = "bootstrap" THEN PostStatuses \ {"login", "moved"} ELSE PostStatuses,
   kind : {"status"}] \cup [code : PostCauses, kind : {"thrown"}]

Ok(v) == v.kind \notin {"status", "thrown"}

(* The author of a post is always known, and config asks for a page.       *)
AllAnswers == UNION {Answers(phase) : phase \in ScrapePhases}
InstagramAssumption ==
  /\ PostCauses \subseteq ThrownCodes
  /\ Authors \in Seq({Authors[i] : i \in DOMAIN Authors}) /\ Authors # <<>>
  /\ MaxPages \in Nat \ {0}
  /\ Null \notin FailureRecords \cup AllAnswers \cup [by : Attempts, value : AllAnswers \cup {Null}]

(* parseOrThrownFailure and the checks before a body is used; Null for a   *)
(* body the attempt can go on with.                                        *)
FailureIn(phase, v) ==
  CASE v.kind = "thrown"    -> ScrapeError(v.code)
    [] v.kind = "status"    -> IF phase = "bootstrap" THEN BootstrapFailure(v.status)
                               ELSE HttpFailure(v.status)
    [] v.kind = "no_token"  -> ScrapeError("blocked")
    [] v.kind = "challenge" -> ScrapeError("blocked")
    [] v.kind = "empty"     -> ScrapeError("not_found")
    [] v.kind = "garbled"   -> ScrapeError("parse_error")
    [] OTHER                -> Null
-------------------------------------------------------------------------------
PageKey(e) == <<e.exit, e.page>>

(* Mutation: a session is used through whatever exit there is.             *)
CanUseSessionAnywhere(e) == e.session # Null

CanUseSession(e) == e.session # Null /\ e.session = e.exit

(* Steps of one attempt e = attempt[a].                                    *)
Sends(e, a, phase)    == [e EXCEPT !.phase = phase, !.wire = TRUE, !.on = a, !.got = Null]
ScrapeReturns(result) == [New EXCEPT !.phase = "done", !.result = result]

FallbackOrFailure(e, a, failure) ==
  IF CanUseSession(e) THEN Sends([e EXCEPT !.failure = failure], a, "info")
  ELSE ScrapeReturns(failure)

(* A shared request: made by the first to ask for it, who counts it, and   *)
(* awaited by the others.                                                  *)
Shares(e, a, phase, promise) ==
  IF promise = Null THEN Sends(e, a, phase)
  ELSE [e EXCEPT !.phase = phase, !.on = promise.by, !.got = promise.value]

(* Mutation: the promise is kept once it has settled, not when it is made. *)
WithPromiseOnceSettled(map, k, a) == map

WithPromise(map, k, a) == IF map[k] = Null THEN [map EXCEPT ![k] = Promise(a, Null)] ELSE map

AsksForPage(e, a) ==
  /\ attempt' = [attempt EXCEPT ![a] = Shares(e, a, "clips", runCache[PageKey(e)])]
  /\ runCache' = WithPromise(runCache, PageKey(e), a)
  /\ UNCHANGED anonymousStates

Becomes(a, e) == attempt' = [attempt EXCEPT ![a] = e] /\ UNCHANGED <<anonymousStates, runCache>>
-------------------------------------------------------------------------------
(* scrape is called, through exit x, with a session bound to an exit or    *)
(* none; a URL that is not canonical fails without a request.              *)
ScrapePost(a, x, session) ==
  /\ attempt[a].phase = "new"
  /\ LET e == [New EXCEPT !.exit = x, !.session = session]
     IN attempt' = [attempt EXCEPT ![a] = Shares(e, a, "bootstrap", anonymousStates[x])]
  /\ anonymousStates' = WithPromise(anonymousStates, x, a)
  /\ UNCHANGED runCache

NotCanonical(a) == attempt[a].phase = "new"
                   /\ Becomes(a, ScrapeReturns(InvalidUrl))

(* The entry of a promise that settled: a bootstrap that failed and a page *)
(* that was not answered with a 2xx are forgotten.                         *)
PromiseSettled(map, k, a, v) ==
  [map EXCEPT ![k] = IF Ok(v) /\ v.kind # "no_token" THEN Promise(a, v) ELSE Null]

Answer(a, v) ==
  LET e == attempt[a] IN
  /\ e.wire /\ v \in Answers(e.phase)
  /\ attempt' = [b \in Attempts |->
       LET f == IF b = a THEN [e EXCEPT !.wire = FALSE] ELSE attempt[b]
       IN IF f.on = a /\ f.got = Null THEN [f EXCEPT !.got = v] ELSE f]
  /\ anonymousStates' = IF e.phase # "bootstrap" THEN anonymousStates
                        ELSE PromiseSettled(anonymousStates, e.exit, a, v)
  /\ runCache' = IF e.phase # "clips" THEN runCache
                 ELSE PromiseSettled(runCache, PageKey(e), a, v)

FailureOf(a) == FailureIn(attempt[a].phase, attempt[a].got)
Resumes(a, phase) == attempt[a].phase = phase /\ attempt[a].got # Null

AfterBootstrap(a) ==
  LET e == attempt[a] IN
  /\ Resumes(a, "bootstrap")
  /\ Becomes(a, IF FailureOf(a) # Null THEN FallbackOrFailure(e, a, FailureOf(a))
                ELSE Sends(e, a, "post"))

(* The post: not a video, complete, or to be looked for in the clips of    *)
(* the first authors; the bootstrap that is awaited again is there.        *)
AfterPost(a) ==
  LET e == attempt[a] IN
  /\ Resumes(a, "post")
  /\ \/ FailureOf(a) # Null /\ Becomes(a, FallbackOrFailure(e, a, FailureOf(a)))
     \/ e.got.kind = "image" /\ Becomes(a, ScrapeReturns(InvalidUrl))
     \/ e.got.kind = "views" /\ Becomes(a, ScrapeReturns("ok"))
     \/ e.got.kind = "no_views" /\ AsksForPage(e, a)

(* The next page of this author, the first of the next author, or none.    *)
NextPage(e) ==
  LET i == e.page[1]
      n == e.page[2] IN
  IF e.got.more /\ n < MaxPages THEN <<i, n + 1>>
  ELSE IF i < Len(Authors) /\ i < MaxAuthors THEN <<i + 1, 1>>
  ELSE Null

AfterClips(a) ==
  LET e == attempt[a] IN
  /\ Resumes(a, "clips")
  /\ IF FailureOf(a) # Null THEN Becomes(a, FallbackOrFailure(e, a, FailureOf(a)))
     ELSE IF a \in e.got.found THEN Becomes(a, ScrapeReturns("ok"))
     ELSE IF NextPage(e) # Null THEN AsksForPage([e EXCEPT !.page = NextPage(e)], a)
     ELSE Becomes(a, FallbackOrFailure(e, a, Failure("error", "session_error", FALSE)))

AfterInfo(a) == Resumes(a, "info")
                /\ Becomes(a, ScrapeReturns(IF FailureOf(a) # Null THEN FailureOf(a) ELSE "ok"))

Resume(a) == AfterBootstrap(a) \/ AfterPost(a) \/ AfterClips(a) \/ AfterInfo(a)

InstagramNext ==
  \E a \in Attempts :
    \/ \E x \in Exits, s \in Bindings \cup {Null} : ScrapePost(a, x, s)
    \/ NotCanonical(a)
    \/ \E v \in Answers(attempt[a].phase) : Answer(a, v)
    \/ Resume(a)

(* Every request has a timeout, and a continuation runs.                   *)
InstagramFairness ==
  \A a \in Attempts : /\ WF_instagramVars(Resume(a))
                      /\ WF_instagramVars(\E v \in Answers(attempt[a].phase) : Answer(a, v))
InstagramSpec == InstagramInit /\ [][InstagramNext]_instagramVars /\ InstagramFairness
-------------------------------------------------------------------------------
InstagramTypeOK ==
  /\ \A x \in Exits : anonymousStates[x] # Null => anonymousStates[x].by \in Attempts
  /\ \A k \in Keys : runCache[k] # Null => runCache[k].by \in Attempts
  /\ \A a \in Attempts : /\ attempt[a].phase \in ScrapePhases
                         /\ attempt[a].wire => attempt[a].on = a

SharedWell(map, k, asking) ==
  /\ map[k] = Null => asking = {}
  /\ map[k] # Null => asking = IF map[k].value = Null THEN {map[k].by} ELSE {}
  /\ map[k] # Null => map[k].value = Null \/ Ok(map[k].value)

(* The shared requests: a promise in a map is one under way, which its     *)
(* maker is still waiting for, or an answer; nobody asks for a thing that  *)
(* is there or on its way, and a failure is kept for nobody who comes      *)
(* after it, so that a timeout of one attempt cannot fail the others of    *)
(* the run.                                                                *)
RequestsShared ==
  /\ InstagramTypeOK
  /\ \A x \in Exits : SharedWell(anonymousStates, x,
       {a \in Attempts : attempt[a].phase = "bootstrap" /\ attempt[a].wire /\ attempt[a].exit = x})
  /\ \A k \in Keys : SharedWell(runCache, k,
       {a \in Attempts : attempt[a].phase = "clips" /\ attempt[a].wire /\ PageKey(attempt[a]) = k})

(* The session is the last resort of an attempt and never leaves its own   *)
(* proxy: its cookie is sent only through the exit it is bound to, and     *)
(* only once the public way failed or the allowed pages were searched in   *)
(* vain.                                                                   *)
SessionIsLastResort ==
  \A a \in Attempts : attempt[a].phase = "info" =>
    LET e == attempt[a] IN
    /\ e.session = e.exit /\ e.failure # Null
    /\ e.failure.code = "session_error" =>
         runCache[PageKey(e)] # Null /\ NextPage([e EXCEPT !.got = runCache[PageKey(e)].value]) = Null

(* What comes to hold for good: every scrape is back, also one that waited *)
(* for the request of another that failed, or of an attempt that is over.  *)
ScrapesReturned == \A a \in Attempts : attempt[a].phase \in {"new", "done"}
=============================================================================
