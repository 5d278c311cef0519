----------------------------- MODULE Summaries -----------------------------
(* What a session counts and what it reports: the collector each cycle starts *)
(* with (core/metrics/metrics-collector.ts), the summary of a run             *)
(* (core/runner/build-summary.ts, build-proxy-summary.ts), and the summary of *)
(* the session made from the cycles' summaries, from the pool, which lives    *)
(* through all of them, and from counters of its own                          *)
(* (build-session-summary.ts, with app/scrape-session.ts:425-520).            *)
(*                                                                            *)
(* Left out: the means and rates, which divide two of the totals below, the   *)
(* queue and wait figures, added up or maximised in the same loop, and the    *)
(* concurrency diagnostic (module Diagnostics).                               *)
EXTENDS Naturals, Sequences, FiniteSets, SequencesExt, FiniteSetsExt, Absent

CONSTANTS Proxies,
          ErrorCodes,  \* error codes, "cancelled" among them
          Results,     \* results a request may end with
          MaxCycles,   \* BOUND: cycles of the session
          MaxSteps     \* BOUND: results and proxy outcomes of the session

VARIABLES metrics,     \* the collector of the current cycle
          pool,        \* the pool's counters of each proxy, for the session
          running,     \* whether a cycle is under way
          cycles,      \* the cycles that ended: their summary, Null if it threw
          latenciesMs, \* the session's own list
          recorded     \* what has been recorded, per cycle; no code keeps it

summaryVars == <<metrics, pool, running, cycles, latenciesMs, recorded>>

RowStatuses == {"ok", "not_found", "error"}
Result == [status : RowStatuses, errorCode : ErrorCodes \cup {Null}, latencyMs : Nat,
           retries : Nat, exhausted : BOOLEAN, platformHttpRequests : Nat]
LeaseOutcomes == {"success", "neutral", "failure", "unsuitable", "blocked"}
Usage == [requests : Nat, successes : Nat, failures : Nat, unsuitable : Nat,
          blocked : BOOLEAN, byErrorCode : [ErrorCodes -> Nat]]
ProxyRow == Usage
RunSummary == [requests : Nat, platformHttpRequests : Nat, successes : Nat,
               failures : Nat, statusBreakdown : [RowStatuses -> Nat],
               errorBreakdown : [ErrorCodes -> Nat], retriedRequests : Nat,
               exhaustedRequests : Nat, latencyCount : Nat,
               p50Ms : Nat \cup {Null}, p95Ms : Nat \cup {Null},
               used : Nat, perProxy : [Proxies -> ProxyRow]]

(* A proxy and an error code are told from null, and so is a summary.         *)
SummaryAssumption ==
  /\ IsFiniteSet(Proxies) /\ IsFiniteSet(ErrorCodes) /\ Results \subseteq Result
  /\ MaxCycles \in Nat \ {0} /\ Null \notin Nat \cup ErrorCodes \cup RowStatuses \cup RunSummary

NoUsage == [requests |-> 0, successes |-> 0, failures |-> 0, unsuitable |-> 0,
            blocked |-> FALSE, byErrorCode |-> [c \in ErrorCodes |-> 0]]

(* A collector that has counted nothing.                                      *)
EmptyCollector ==
  [totalRequests |-> 0, platformHttpRequests |-> 0, successful |-> 0, failed |-> 0,
   statusCounts |-> [s \in RowStatuses |-> 0], errorCounts |-> [c \in ErrorCodes |-> 0],
   retried |-> 0, exhausted |-> 0, latencies |-> <<>>,
   proxyUsage |-> [p \in Proxies |-> NoUsage]]

SummaryInit ==
  /\ metrics = EmptyCollector
  /\ pool = [p \in Proxies |-> NoUsage]
  /\ running = TRUE /\ cycles = <<>> /\ latenciesMs = <<>> /\ recorded = <<<<>>>>

Steps == FoldLeft(LAMBDA n, c : n + Len(c), 0, recorded)
         + FoldSet(LAMBDA p, n : n + pool[p].requests, 0, Proxies)

-----------------------------------------------------------------------------
(* recordProxyOutcome(): one lease outcome, counted as the pool classifies it.*)
Tally(usage, outcome, code) ==
  [requests |-> usage.requests + 1,
   successes |-> usage.successes + (IF outcome = "success" THEN 1 ELSE 0),
   failures |-> usage.failures + (IF outcome \in {"success", "neutral"} THEN 0 ELSE 1),
   unsuitable |-> usage.unsuitable + (IF outcome = "unsuitable" THEN 1 ELSE 0),
   blocked |-> (usage.blocked \/ outcome = "blocked"),
   byErrorCode |-> IF code = Null THEN usage.byErrorCode
                   ELSE [usage.byErrorCode EXCEPT ![code] = @ + 1]]

LeaseEnds(p, outcome, code) ==
  /\ running /\ Steps < MaxSteps
  /\ code = Null => outcome = "success"
  /\ metrics' = [metrics EXCEPT !.proxyUsage[p] = Tally(@, outcome, code)]
  /\ pool' = [pool EXCEPT ![p] = Tally(@, outcome, Null)]
  /\ UNCHANGED <<running, cycles, latenciesMs, recorded>>

(* recordResult(): a cancellation counts for the calls it made, nothing else. *)
(* Mutation: a cancelled request counts like any other.                       *)
CountsAlways(r) == TRUE
Counts(r) == r.errorCode # "cancelled"
Counted(m, r) ==
  LET more(b) == IF Counts(r) /\ b THEN 1 ELSE 0
      tally(counts, key) == IF Counts(r) /\ key # Null THEN [counts EXCEPT ![key] = @ + 1]
                            ELSE counts
  IN  [totalRequests |-> m.totalRequests + more(TRUE),
       platformHttpRequests |-> m.platformHttpRequests + r.platformHttpRequests,
       successful |-> m.successful + more(r.status = "ok"),
       failed |-> m.failed + more(r.status # "ok"),
       statusCounts |-> tally(m.statusCounts, r.status),
       errorCounts |-> tally(m.errorCounts, r.errorCode),
       retried |-> m.retried + more(r.retries > 0),
       exhausted |-> m.exhausted + more(r.exhausted),
       latencies |-> IF Counts(r) THEN Append(m.latencies, r.latencyMs) ELSE m.latencies,
       proxyUsage |-> m.proxyUsage]

(* A request ends: the runner records it, then the session's onResult does.   *)
Ends(r) ==
  /\ running /\ Steps < MaxSteps
  /\ metrics' = Counted(metrics, r)
  /\ latenciesMs' = IF r.errorCode = "cancelled" THEN latenciesMs
                    ELSE Append(latenciesMs, r.latencyMs)
  /\ recorded' = [recorded EXCEPT ![Len(recorded)] = Append(@, r)]
  /\ UNCHANGED <<pool, running, cycles>>

-----------------------------------------------------------------------------
(* Nearest-rank percentiles of a list of samples, which are sorted by placing *)
(* each after the ones that are smaller and the equal ones before it.         *)
Place(samples, i) ==
  Cardinality({j \in DOMAIN samples : \/ samples[j] < samples[i]
                                      \/ samples[j] = samples[i] /\ j <= i})
Sorted(samples) ==
  [k \in DOMAIN samples |-> samples[CHOOSE i \in DOMAIN samples : Place(samples, i) = k]]
Rank(p, n) == (p * n + 99) \div 100
Percentile(samples, p) ==
  IF samples = <<>> THEN Null
  ELSE Sorted(samples)[Min({Len(samples), Max({1, Rank(p, Len(samples))})})]

(* buildProxySummary(): a row for every proxy of the pool; one the collector  *)
(* has not seen shows the pool's own counters.                                *)
ToRow(usage, health) == IF usage.requests > 0 THEN usage ELSE health
PerProxy(usage) == [p \in Proxies |-> ToRow(usage[p], pool[p])]
UsedOf(perProxy) == Cardinality({p \in Proxies : perProxy[p].requests > 0})

BuildRunSummary(m) ==
  [requests |-> m.totalRequests, platformHttpRequests |-> m.platformHttpRequests,
   successes |-> m.successful, failures |-> m.failed,
   statusBreakdown |-> m.statusCounts, errorBreakdown |-> m.errorCounts,
   retriedRequests |-> m.retried, exhaustedRequests |-> m.exhausted,
   latencyCount |-> Len(m.latencies),
   p50Ms |-> Percentile(m.latencies, 50), p95Ms |-> Percentile(m.latencies, 95),
   used |-> UsedOf(PerProxy(m.proxyUsage)), perProxy |-> PerProxy(m.proxyUsage)]

EndsCycleWith(summary) ==
  /\ running
  /\ running' = FALSE
  /\ cycles' = Append(cycles, summary)
  /\ UNCHANGED <<metrics, pool, latenciesMs, recorded>>
CycleEnds == EndsCycleWith(BuildRunSummary(metrics))
CycleThrows == EndsCycleWith(Null)

(* The next cycle has a runner, and so a collector, of its own.               *)
CycleStarts ==
  /\ ~running /\ Len(cycles) < MaxCycles
  /\ running' = TRUE
  /\ metrics' = EmptyCollector
  /\ recorded' = Append(recorded, <<>>)
  /\ UNCHANGED <<pool, cycles, latenciesMs>>

SummaryNext ==
  \/ \E p \in Proxies, outcome \in LeaseOutcomes, code \in ErrorCodes \cup {Null} :
       LeaseEnds(p, outcome, code)
  \/ \E r \in Results : Ends(r)
  \/ CycleEnds \/ CycleThrows \/ CycleStarts
SummarySpec == SummaryInit /\ [][SummaryNext]_summaryVars

-----------------------------------------------------------------------------
(* buildSessionSummary(): totals from the cycles that have a summary, latency *)
(* from the session's list, proxies from the pool as it stands, with the      *)
(* attribution to error codes, which only the cycles know, merged back in.    *)
CompletedCycles == {k \in DOMAIN cycles : cycles[k] # Null}
Total(Field(_)) ==
  SumFunctionOnSet([k \in CompletedCycles |-> Field(cycles[k])], CompletedCycles)
MergedCodes(p) == [c \in ErrorCodes |-> Total(LAMBDA s : s.perProxy[p].byErrorCode[c])]
SessionProxies == [p \in Proxies |-> [pool[p] EXCEPT !.byErrorCode = MergedCodes(p)]]

SessionSummary ==
  [started |-> Len(cycles), completed |-> Cardinality(CompletedCycles),
   requests |-> Total(LAMBDA s : s.requests),
   successes |-> Total(LAMBDA s : s.successes),
   failures |-> Total(LAMBDA s : s.failures),
   statusBreakdown |-> [st \in RowStatuses |-> Total(LAMBDA s : s.statusBreakdown[st])],
   errorBreakdown |-> [c \in ErrorCodes |-> Total(LAMBDA s : s.errorBreakdown[c])],
   retriedRequests |-> Total(LAMBDA s : s.retriedRequests),
   exhaustedRequests |-> Total(LAMBDA s : s.exhaustedRequests),
   latencyCount |-> Len(latenciesMs),
   p50Ms |-> Percentile(latenciesMs, 50), p95Ms |-> Percentile(latenciesMs, 95),
   used |-> UsedOf(SessionProxies), perProxy |-> SessionProxies]

-----------------------------------------------------------------------------
(* The results of some cycles that count as outcomes.                         *)
Outcome(cs) == UNION {{<<c, i>> : i \in {j \in DOMAIN recorded[c] : recorded[c][j].errorCode # "cancelled"}} : c \in cs}

(* What a summary says of a set of results adds up to those results.          *)
Reconciles(s, done) ==
  /\ s.requests = Cardinality(done) /\ s.requests = s.successes + s.failures
  /\ s.requests = SumFunctionOnSet(s.statusBreakdown, RowStatuses)
  /\ s.successes = s.statusBreakdown["ok"]
  /\ \A c \in ErrorCodes : s.errorBreakdown[c] =
       Cardinality({d \in done : recorded[d[1]][d[2]].errorCode = c})

(* Nearest rank: the smallest sample with at least p per cent at or below it. *)
NearestRank(value, samples, p) ==
  LET AtOrBelow(v) == Cardinality({i \in DOMAIN samples : samples[i] <= v})
  IN  IF samples = <<>> THEN value = Null
      ELSE /\ value \in ToSet(samples) /\ 100 * AtOrBelow(value) >= p * Len(samples)
           /\ \A v \in ToSet(samples) : 100 * AtOrBelow(v) >= p * Len(samples) => value <= v

(* The summaries can be reconciled: the current run with its own results,     *)
(* cancellations left out; the session with those of the cycles that have a   *)
(* summary, while its latencies are of every result, so that the two counts   *)
(* differ by the cycles that threw and nothing else; the percentiles are      *)
(* nearest-rank; and of each proxy the session shows all the pool counted and *)
(* attributes to errors no more than that.                                    *)
SummariesAddUp ==
  LET thrown  == (DOMAIN cycles) \ CompletedCycles
      current == BuildRunSummary(metrics)
      session == SessionSummary
  IN  /\ running => /\ Reconciles(current, Outcome({Len(recorded)}))
                    /\ NearestRank(current.p95Ms, metrics.latencies, 95)
      /\ Reconciles(session, Outcome(CompletedCycles))
      /\ ~running => session.latencyCount = session.requests + Cardinality(Outcome(thrown))
      /\ NearestRank(session.p50Ms, latenciesMs, 50)
      /\ \A p \in Proxies :
           SumFunctionOnSet(session.perProxy[p].byErrorCode, ErrorCodes) <= pool[p].requests

SummaryTypeOK ==
  /\ \A i \in DOMAIN cycles : cycles[i] \in RunSummary \cup {Null}
  /\ pool \in [Proxies -> Usage] /\ running \in BOOLEAN
  /\ latenciesMs \in Seq(Nat) /\ Len(recorded) <= MaxCycles
=============================================================================
