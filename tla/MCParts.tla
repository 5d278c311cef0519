------------------------------- MODULE MCParts -------------------------------
(* Instances for TLC of the components that share no variable with each      *)
(* other: which of them moves is chosen at the start and the others stay as   *)
(* they begin, so that the run is the sum of what it would be for each alone.  *)
EXTENDS MCSessionPool, RateLimiter, SnapshotSink, Transport, Instagram, TikTok,
        ShortLinks, Preparer, RunFiles, Reports, CapacityPage

VARIABLE part   \* who moves
-----------------------------------------------------------------------------
(* The egress ceiling: one host with a ceiling and a budget, one without.     *)
Ceilings == [h \in Hosts |-> IF h = "limited" THEN 2 ELSE 0]
Budgets  == [h \in Hosts |-> IF h = "limited" THEN 3 ELSE 0]

(* The authors of an Instagram post, of whom the first alone is searched.     *)
PostAuthors == <<"author", "coauthor">>

(* Two of three short links lead to one post, the third to one pasted twice.  *)
Line(form, url) == [form |-> form, url |-> url]
Pasted == <<Line("blank", Null), Line("short", "s1"), Line("post", "x"), Line("bad", Null),
            Line("short", "s2"), Line("post", "x"), Line("short", "s3")>>
Destinations == ("s1" :> "y") @@ ("s2" :> "x") @@ ("s3" :> "y")

(* The bandwidth a run may end with.                                          *)
Bandwidth == {Null} \cup [requests : 0..2, totalBytes : {1, 3}]

(* The results of a session's requests: done, gone, out of retries, cancelled. *)
Row(status, code, latency, retries, calls) ==
  [status |-> status, errorCode |-> code, latencyMs |-> latency, retries |-> retries,
   exhausted |-> code = "timeout", platformHttpRequests |-> calls]
RequestResults ==
  {Row("ok", Null, 1, 0, 1), Row("not_found", "not_found", 2, 0, 1),
   Row("error", "timeout", 3, 1, 2), Row("error", "cancelled", 1, 0, 1)}

(* What a session may have measured.                                          *)
Measured == [meanLatencyMs : {Null, 2, 6}, observed : {1, 4}, targetRpm : {2, 6},
             admissionWaitMs : {0, 1}, queueDemand : {2}, residential : BOOLEAN,
             httpRpm : {Null, 4}, requests : {0, 4}, jobs : {2}, httpWaitMs : {0, 5}]
-----------------------------------------------------------------------------
(* The planning page. A day has six milliseconds and two minutes, a share is  *)
(* counted in halves; the stages have intervals within and beyond a day.      *)
Stage(id, label, days, interval) ==
  [id |-> id, label |-> label, durationDays |-> days, intervalMs |-> interval, enabled |-> TRUE]
Tapered == <<Stage(1, "Fresh", 2, 4), Stage(2, "Settling", 3, 9), Stage(3, "Dormant", 1, Null)>>
Flat    == <<Stage(1, "Flat", 6, 4)>>
Inputs ==
  [newSubmissionsPerDay |-> 2, horizonDays |-> 5, stages |-> Tapered,
   perAttemptSuccessRate |-> 1, nonRetryableShare |-> 1, maxAttempts |-> 2,
   targetJobsPerMinute |-> 4, workers |-> 1, concurrencyPerWorker |-> 2,
   proxyPoolSize |-> 2, safetyMargin |-> 1, peakMultiplier |-> 2,
   growthEnabled |-> TRUE, monthlyGrowthRate |-> 1, months |-> 2,
   requestsPerJob |-> 2, bytesPerHttpRequest |-> 3, meanJobLatencyMs |-> 1, p95JobLatencyMs |-> 2,
   httpRpmPerHost |-> 12, maxConcurrentPerProxy |-> 2,
   maxRequestsPerMinutePerProxy |-> Null, maxBytesPerMonthPerProxy |-> Null,
   peakJobsPerMinuteOverride |-> Null, earnedConcurrencyPerProxy |-> 1,
   pricePerGb |-> Null, fixedMonthlyPerProxy |-> Null, fixedMonthlyPool |-> Null,
   billsFailedAttempts |-> TRUE, billingUnit |-> "GB"]
PagePresets ==
  [tiktok |-> Inputs, instagram |-> [Inputs EXCEPT !.requestsPerJob = 3, !.httpRpmPerHost = 7],
   flat |-> [Inputs EXCEPT !.stages = Flat]]
Typed ==
  [newSubmissionsPerDay |-> {0, 7}, horizonDays |-> {1, 7}, perAttemptSuccessRate |-> {0, 2},
   nonRetryableShare |-> {0, 2}, maxAttempts |-> {1, 3}, targetJobsPerMinute |-> {0, 1},
   workers |-> {2, 5}, concurrencyPerWorker |-> {1}, proxyPoolSize |-> {0, 1},
   requestsPerJob |-> {Null, 1}, bytesPerHttpRequest |-> {Null}, meanJobLatencyMs |-> {Null, 5},
   p95JobLatencyMs |-> {Null},
   httpRpmPerHost |-> {Null, 3}, maxConcurrentPerProxy |-> {Null, 1},
   maxRequestsPerMinutePerProxy |-> {3}, maxBytesPerMonthPerProxy |-> {40},
   pricePerGb |-> {2}, billsFailedAttempts |-> {FALSE}]
(* A figure is exact, or off by one part either way.                          *)
RoundedOff(figure, r) ==
  LET turn == CASE figure = "units" -> 0 [] figure = "capacity" -> 1 [] OTHER -> 2
  IN  ((r[1] + r[2] + turn) % 3) - 1
TypedStages == [durationDays |-> {0, 2}, intervalMs |-> {Null, 9, 5}, enabled |-> {FALSE}]
-----------------------------------------------------------------------------
ASSUME RateLimiterAssumption /\ TransportAssumption /\ InstagramAssumption
ASSUME TikTokAssumption /\ LinksAssumption /\ PrepareAssumption /\ FilesAssumption
ASSUME SinkAssumption /\ SummaryAssumption /\ TimelineAssumption /\ DiagnosisAssumption
ASSUME PageAssumption

Parts == {"sessions", "limiter", "transport", "instagram", "tiktok", "links", "preparer",
          "sink", "files", "timeline", "summaries", "diagnostics", "capacity"}

allVars == <<part, vars, limiterVars, wireVars, instagramVars, tiktokVars, linksVars,
             prepareVars, sinkVars, filesVars, timelineVars, summaryVars, diagnosisVars,
             pageVars>>

(* A resolution that does not move is at any one link.                        *)
PartsInit ==
  /\ part \in Parts
  /\ Init /\ LimiterInit /\ WireInit /\ InstagramInit /\ TikTokInit /\ LinksInit
  /\ part # "links" => platform = "tiktok" /\ current.path = "other"
  /\ PrepareInit /\ SinkInit /\ FilesInit /\ TimelineInit /\ SummaryInit
  /\ DiagnosisInit /\ PageInit

PartsNext ==
  /\ UNCHANGED part
  /\ IF part = "sessions" THEN Next ELSE UNCHANGED vars
  /\ IF part = "limiter" THEN LimiterNext ELSE UNCHANGED limiterVars
  /\ IF part = "transport" THEN WireNext ELSE UNCHANGED wireVars
  /\ IF part = "instagram" THEN InstagramNext ELSE UNCHANGED instagramVars
  /\ IF part = "tiktok" THEN TikTokNext ELSE UNCHANGED tiktokVars
  /\ IF part = "links" THEN LinksNext ELSE UNCHANGED linksVars
  /\ IF part = "preparer" THEN PrepareNext ELSE UNCHANGED prepareVars
  /\ IF part = "sink" THEN SinkNext ELSE UNCHANGED sinkVars
  /\ IF part = "files" THEN FilesNext ELSE UNCHANGED filesVars
  /\ IF part = "timeline" THEN TimelineNext ELSE UNCHANGED timelineVars
  /\ IF part = "summaries" THEN SummaryNext ELSE UNCHANGED summaryVars
  /\ IF part = "diagnostics" THEN DiagnosisNext ELSE UNCHANGED diagnosisVars
  /\ IF part = "capacity" THEN PageNext ELSE UNCHANGED pageVars

(* Turns, timers, answers and continuations come; who is fair is said by the  *)
(* component that moves.                                                      *)
PartsFairness ==
  /\ WF_limiterVars(part = "limiter" /\ TimePasses)
  /\ \A r \in Requests :
       WF_limiterVars(part = "limiter" /\ (Turn(r) \/ TurnAborted(r)))
  /\ \A a \in Attempts :
       /\ WF_instagramVars(part = "instagram" /\ Resume(a))
       /\ WF_instagramVars(/\ part = "instagram"
                           /\ \E v \in Answers(attempt[a].phase) : Answer(a, v))
  /\ WF_prepareVars(part = "preparer" /\ Settle)
  /\ \A w \in Resolvers : WF_prepareVars(part = "preparer" /\ Step(w))
  /\ WF_sinkVars(part = "sink" /\ Stream) /\ WF_sinkVars(part = "sink" /\ Close)
  /\ \A r \in Rows :
       WF_sinkVars(part = "sink" /\ (Rejects(r) \/ Accepts(r)))

PartsSpec == PartsInit /\ [][PartsNext]_allVars /\ PartsFairness
-----------------------------------------------------------------------------
(* Nothing is left waiting: requests for their token, attempts for a shared   *)
(* answer, a preparation for its workers, and writes for their file.          *)
WorkSettles ==
  <>[](/\ RequestsSettled /\ ScrapesReturned /\ WritesSettled
       /\ part = "preparer" => PreparationEnded)
=============================================================================
