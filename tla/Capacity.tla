------------------------------- MODULE Capacity -------------------------------
(* core/capacity: what a steady intake of submissions costs per day and what  *)
(* it takes to serve it. Definitions of what the code computes; the page that *)
(* holds the inputs is the module CapacityPage.                               *)
(*                                                                            *)
(* Numbers are naturals and rationals <<numerator, denominator>>; shares and  *)
(* rates are counted in ShareUnit-ths. A Maybe (computable.ts) says which     *)
(* inputs are missing; its sentence is left out.                              *)
(*                                                                            *)
(* The code computes in doubles. A fraction here is the number the doubles    *)
(* stand for, and a figure that is compared, or rounded up to whole units,    *)
(* against another computed apart from it is off by its own rounding error,   *)
(* Rounded; the status is told with the code's tolerance.                     *)
EXTENDS Integers, Sequences, FiniteSets, FiniteSetsExt, SequencesExt, Functions, Absent

CONSTANTS MsPerDay, MinutesPerDay, DaysPerMonth, \* the calendar, scaled down
          ShareUnit,                             \* what stands for 1 in a share
          DecimalGb, BinaryGib,                  \* bytes of a billing unit
          Labels,                                \* what a stage is called
          Tolerance,      \* what stands for 1e9: the status tolerates one part in it
          Precision,      \* a computed figure is off by at most Drift parts in it
          Drift,
          Nudge(_, _)     \* by how many, of the name and the value of a figure

CapacityAssumption ==
  /\ {MsPerDay, MinutesPerDay, DaysPerMonth, ShareUnit, DecimalGb, BinaryGib}
       \subseteq Nat \ {0}
  /\ MsPerDay % MinutesPerDay = 0 /\ Null \notin Nat
  /\ {Tolerance, Precision} \subseteq Nat \ {0} /\ Drift \in Nat
  /\ Precision > Drift /\ Precision >= 2 * (Tolerance + 1) * Drift

-----------------------------------------------------------------------------
Whole(n) == <<n, 1>>
Share(n) == <<n, ShareUnit>>
a ++ b == <<a[1] * b[2] + b[1] * a[2], a[2] * b[2]>>
a -- b == <<a[1] * b[2] - b[1] * a[2], a[2] * b[2]>>
a ** b == <<a[1] * b[1], a[2] * b[2]>>
a // b == <<a[1] * b[2], a[2] * b[1]>>
Less(a, b) == a[1] * b[2] < b[1] * a[2]
Same(a, b) == a[1] * b[2] = b[1] * a[2]
Power(r, n) ==
  LET power[k \in 0..n] == IF k = 0 THEN Whole(1) ELSE power[k - 1] ** r IN power[n]
RoundUp(n, d) == (n + d - 1) \div d
Ceil(r) == RoundUp(r[1], r[2])
(* The double the code gets for r, whichever way its operations rounded.      *)
Rounded(figure, r) ==
  LET parts == IF Nudge(figure, r) \in -Drift..Drift THEN Nudge(figure, r) ELSE 0
  IN  r ** <<Precision + parts, Precision>>
TotalOf(seq) == SumFunctionOnSet(seq, DOMAIN seq)

(* Maybe<number>: computed(), notComputable(), mapNumber() and the products.  *)
Computed(r) == [computable |-> TRUE, value |-> r, missing |-> {}]
NotComputable(paths) == [computable |-> FALSE, value |-> Whole(0), missing |-> paths]
Lift(m, Op(_)) == IF m.computable THEN Computed(Op(m.value)) ELSE m
Given(value, path) ==
  IF value = Null THEN NotComputable({path}) ELSE Computed(Whole(value))
Both(m, n, Op(_, _)) ==
  CASE ~m.computable -> m
    [] m.computable /\ ~n.computable -> n
    [] OTHER -> Computed(Op(m.value, n.value))
Product(m, n) == Both(m, n, LAMBDA x, y : x ** y)
By(m, r) == Lift(m, LAMBDA x : x ** r)
SumMaybes(maybes) == FoldLeft(LAMBDA m, n : Both(m, n, LAMBDA x, y : x ++ y),
                              Computed(Whole(0)), maybes)

(* The inputs.                                                                *)
PollingStage == [id : Nat, label : Labels, durationDays : Nat,
                 intervalMs : Nat \cup {Null}, enabled : BOOLEAN]
Nullable == {"requestsPerJob", "bytesPerHttpRequest", "meanJobLatencyMs",
             "p95JobLatencyMs", "httpRpmPerHost",
             "maxConcurrentPerProxy", "maxRequestsPerMinutePerProxy",
             "maxBytesPerMonthPerProxy", "peakJobsPerMinuteOverride",
             "earnedConcurrencyPerProxy", "pricePerGb", "fixedMonthlyPerProxy",
             "fixedMonthlyPool"}
Required == {"newSubmissionsPerDay", "horizonDays", "perAttemptSuccessRate",
             "nonRetryableShare", "maxAttempts", "targetJobsPerMinute", "workers",
             "concurrencyPerWorker", "proxyPoolSize", "safetyMargin", "peakMultiplier",
             "monthlyGrowthRate", "months"}

(* validateCapacityInputs(), of the fields and of the stages.                 *)
AtLeastOne == (Nullable \ {"peakJobsPerMinuteOverride", "pricePerGb",
                           "fixedMonthlyPerProxy", "fixedMonthlyPool"})
              \cup {"horizonDays", "maxAttempts", "workers", "concurrencyPerWorker",
                    "peakMultiplier", "months"}
Issues(in) ==
  {f \in AtLeastOne : in[f] = 0}
  \cup {f \in {"perAttemptSuccessRate", "nonRetryableShare"} : in[f] > ShareUnit}
  \cup (IF \E i \in DOMAIN in.stages : \/ in.stages[i].durationDays = 0
                                       \/ in.stages[i].intervalMs = 0
                                       \/ \E k \in 1..(i - 1) : in.stages[k].id = in.stages[i].id
        THEN {"stages"} ELSE {})

-----------------------------------------------------------------------------
(* lifecycle.ts. Poll instants 0, interval, 2 * interval, ... of each day.    *)
(* Mutation: every day begins with a poll.                                    *)
PollsOnDayFlat(day, intervalMs) == RoundUp(MsPerDay, intervalMs)
PollsOnDay(day, intervalMs) ==
  RoundUp((day + 1) * MsPerDay, intervalMs) - RoundUp(day * MsPerDay, intervalMs)

PollInstantsByDay(stage) ==
  [d \in 1..stage.durationDays |->
     IF stage.intervalMs \in {Null, 0} THEN 0 ELSE PollsOnDay(d - 1, stage.intervalMs)]

(* The stages that count, in their order, and the day each begins.            *)
SpanPositions(stages) == {i \in DOMAIN stages : stages[i].enabled /\ stages[i].durationDays > 0}
Spans(stages) ==
  LET places == SpanPositions(stages)
      nth(n) == CHOOSE i \in places : Cardinality(places \cap (1..i)) = n
  IN  [n \in 1..Cardinality(places) |-> stages[nth(n)]]
StartDay(spans, n) ==
  SumFunctionOnSet([k \in DOMAIN spans |-> spans[k].durationDays], 1..(n - 1))

Profile(spans, polls) ==
  LET upTo(k) == SumFunctionOnSet(polls, 1..k)
      polledUpTo(k) == Cardinality({a \in 1..k : polls[a] > 0})
  IN  [spans |-> spans, lifecycleDays |-> Len(polls),
       cumulativePolls |-> [k \in 0..Len(polls) |-> upTo(k)],
       cumulativePolledDays |-> [k \in 0..Len(polls) |-> polledUpTo(k)],
       pollsPerSubmissionTotal |-> upTo(Len(polls)),
       polledLifecycleDays |-> polledUpTo(Len(polls)),
       findings |->
         (IF spans = <<>> THEN {"no_enabled_stages"} ELSE {})
         \cup (IF polledUpTo(Len(polls)) < Len(polls) THEN {"dormant_stage_present"} ELSE {})
         \cup (IF \E n \in DOMAIN spans : /\ spans[n].intervalMs # Null
                                          /\ TotalOf(PollInstantsByDay(spans[n])) = 0
               THEN {"sparse_polling"} ELSE {})]
ProfileOf(spans) ==
  Profile(spans, FlattenSeq([n \in DOMAIN spans |-> PollInstantsByDay(spans[n])]))
BuildLifecycleProfile(stages) == ProfileOf(Spans(stages))

LastPolledAge(profile) ==
  LET polled == {a \in 0..(profile.lifecycleDays - 1) :
                   profile.cumulativePolls[a + 1] > profile.cumulativePolls[a]}
  IN  IF polled = {} THEN Null ELSE Max(polled)

(* Of the ages alive on one day, the polls that fall in each stage.           *)
StageLoads(profile, arrivals, liveAges) ==
  [n \in DOMAIN profile.spans |->
     LET start == StartDay(profile.spans, n)
         days == profile.spans[n].durationDays
         populated == Max({0, Min({liveAges, start + days}) - start})
     IN  [submissions |-> arrivals * populated,
          polls |-> arrivals * SumFunctionOnSet(PollInstantsByDay(profile.spans[n]),
                                                1..populated)]]

SteadyState(profile, arrivals, day, active) ==
  [dayIndex |-> day, activeSubmissions |-> arrivals * active,
   polledSubmissions |-> arrivals * profile.polledLifecycleDays,
   scrapeJobs |-> arrivals * profile.pollsPerSubmissionTotal]

SimulatedDay(profile, arrivals, plateau, d, liveAges) ==
  [dayIndex |-> d,
   phase |-> IF plateau # Null /\ (plateau # Null => d >= plateau) THEN "steady" ELSE "ramp",
   activeSubmissions |-> arrivals * liveAges,
   polledSubmissions |-> arrivals * profile.cumulativePolledDays[liveAges],
   scrapeJobs |-> arrivals * profile.cumulativePolls[liveAges],
   perStage |-> StageLoads(profile, arrivals, liveAges)]

Cohorts(in, profile, days, plateau) ==
  LET arrivals  == in.newSubmissionsPerDay
      lifecycle == profile.lifecycleDays
      reachesActive  == lifecycle > 0 /\ in.horizonDays >= lifecycle
      reachesPolling == IF plateau = Null THEN FALSE ELSE in.horizonDays > plateau
  IN  [profile |-> profile, days |-> days,
       jobsPlateauDayIndex |-> IF reachesPolling THEN plateau ELSE Null,
       activePlateauDayIndex |-> IF reachesActive THEN lifecycle - 1 ELSE Null,
       pollingSteadyState |->
         IF reachesPolling THEN SteadyState(profile, arrivals, plateau, plateau + 1) ELSE Null,
       steadyState |->
         IF reachesActive THEN SteadyState(profile, arrivals, lifecycle - 1, lifecycle) ELSE Null,
       totalScrapeJobs |-> TotalOf([n \in DOMAIN days |-> days[n].scrapeJobs]),
       findings |-> profile.findings
         \cup (IF arrivals = 0 THEN {"no_submissions"} ELSE {})
         \cup (IF ~reachesActive /\ in.horizonDays > 0 /\ lifecycle > 0
               THEN {"horizon_shorter_than_lifecycle"} ELSE {})]

CohortsOf(in, profile, plateau) ==
  Cohorts(in, profile,
          [n \in 1..in.horizonDays |->
             SimulatedDay(profile, in.newSubmissionsPerDay, plateau, n - 1,
                          Min({n, profile.lifecycleDays}))],
          plateau)
CohortsWith(in, profile) == CohortsOf(in, profile, LastPolledAge(profile))
SimulateCohorts(in) == CohortsWith(in, BuildLifecycleProfile(in.stages))

(* steadyStateJobsPerDay() and its inverse.                                   *)
RunRate(cohorts, in) == in.newSubmissionsPerDay * cohorts.profile.pollsPerSubmissionTotal
SubmissionRateFor(cohorts, jobs) ==
  IF cohorts.profile.pollsPerSubmissionTotal <= 0 THEN NotComputable({"stages"})
  ELSE Computed(jobs // Whole(cohorts.profile.pollsPerSubmissionTotal))

-----------------------------------------------------------------------------
(* reliability.ts: permanent failures are never retried, the others are, up   *)
(* to maxAttempts attempts.                                                   *)
Clamp01(n) == Min({ShareUnit, n})
Amplification(q, expectedAttempts) ==
  q ++ ((Whole(1) -- q) ** expectedAttempts)

Reliability(attempts, q, p) ==
  LET retryable == Whole(1) -- q
      expectedAttempts ==
        IF Same(p, Whole(1)) THEN Whole(attempts)
        ELSE (Whole(1) -- Power(p, attempts)) // (Whole(1) -- p)
      success == retryable ** (Whole(1) -- Power(p, attempts))
      amplification == Amplification(q, expectedAttempts)
  IN  [attempts |-> attempts, perAttemptFailureRate |-> p,
       attemptAmplification |-> amplification,
       jobSuccessRate |-> success,
       jobErrorRate |-> Whole(1) -- success,
       permanentFailureRate |-> q,
       exhaustedRate |-> retryable ** Power(p, attempts),
       retryRate |-> retryable ** p,
       findings |-> IF Less(<<3, 2>>, amplification) THEN {"retry_amplification_high"} ELSE {}]
EvaluateReliability(in) ==
  Reliability(Max({1, in.maxAttempts}), Share(Clamp01(in.nonRetryableShare)),
              Share(ShareUnit - Clamp01(in.perAttemptSuccessRate)))

-----------------------------------------------------------------------------
(* calculator.ts. The jobs of a day one worker, or one proxy, can carry.      *)
Positive(m, paths) ==
  IF m.computable /\ m.value[1] <= 0 THEN NotComputable(paths) ELSE m
FromConcurrency(slots, in) ==
  Lift(Positive(Given(in.meanJobLatencyMs, "meanJobLatencyMs"), {"meanJobLatencyMs"}),
       LAMBDA latency : Whole(slots * MsPerDay) // latency)
FromHttpRpm(rpm, requestsPerJob) ==
  Lift(Positive(requestsPerJob, {"requestsPerJob"}),
       LAMBDA requests : Whole(rpm * MinutesPerDay) // requests)
FromMonthlyBytes(bytes, requestsPerJob, in) ==
  Lift(Positive(Product(requestsPerJob, Given(in.bytesPerHttpRequest, "bytesPerHttpRequest")),
                {"requestsPerJob", "bytesPerHttpRequest"}),
       LAMBDA perJob : <<bytes, DaysPerMonth>> // perJob)

WorkerKinds == <<"workerConcurrency", "workerJobTarget", "workerHttpEgress">>
ProxyKinds == <<"proxyConcurrency", "proxyHttpRpm", "proxyMonthlyBandwidth">>
Kinds == WorkerKinds \o ProxyKinds
LimitOf == [workerHttpEgress |-> "httpRpmPerHost",
            proxyConcurrency |-> "maxConcurrentPerProxy",
            proxyHttpRpm |-> "maxRequestsPerMinutePerProxy",
            proxyMonthlyBandwidth |-> "maxBytesPerMonthPerProxy"]

(* Of each constraint that applies: one whose limit is not set has no entry.  *)
CalculateUnitCapacityConstraints(in, reliability) ==
  LET requests == By(Given(in.requestsPerJob, "requestsPerJob"), reliability.attemptAmplification)
  IN  [kind \in {k \in ToSet(Kinds) : k \in DOMAIN LimitOf => in[LimitOf[k]] # Null} |->
         CASE kind = "workerConcurrency" -> FromConcurrency(in.concurrencyPerWorker, in)
           [] kind = "workerJobTarget" -> Computed(Whole(in.targetJobsPerMinute * MinutesPerDay))
           [] kind = "workerHttpEgress" -> FromHttpRpm(in.httpRpmPerHost, requests)
           [] kind = "proxyConcurrency" -> FromConcurrency(in.maxConcurrentPerProxy, in)
           [] kind = "proxyHttpRpm" -> FromHttpRpm(in.maxRequestsPerMinutePerProxy, requests)
           [] kind = "proxyMonthlyBandwidth" ->
                FromMonthlyBytes(in.maxBytesPerMonthPerProxy, requests, in)]

RequiredRawUnits(jobs, unit) ==
  CASE ~unit.computable -> unit
    [] unit.computable /\ unit.value[1] <= 0 ->
         IF jobs = 0 THEN Computed(Whole(0)) ELSE NotComputable({})
    [] OTHER -> Computed(Rounded("units", Whole(jobs) // unit.value))

RequiredUnits(jobs, units, kind) ==
  IF kind \notin DOMAIN units THEN NotComputable({LimitOf[kind]})
  ELSE RequiredRawUnits(jobs, units[kind])

(* calculateWorkers(): the whole workers the most demanding of the            *)
(* constraints that can be computed asks for.                                 *)
WholeUnits(r) == Ceil(r)
CalculateWorkers(in, jobs, units) ==
  LET required == [k \in ToSet(WorkerKinds) |-> RequiredUnits(jobs, units, k)]
      known == {k \in DOMAIN required : required[k].computable}
  IN  [required |-> required,
       aggregateJobConcurrency |-> in.workers * in.concurrencyPerWorker,
       aggregateJobTargetPerMinute |-> in.workers * in.targetJobsPerMinute,
       aggregateHttpLimitPerMinute |-> By(Given(in.httpRpmPerHost, "httpRpmPerHost"), Whole(in.workers)),
       recommendedWorkers |->
         IF known = {} THEN NotComputable({})
         ELSE Computed(Whole(Max({WholeUnits(required[k].value) : k \in known})))]

Margin(in) == <<ShareUnit + in.safetyMargin, ShareUnit>>
(* The first of the constraints that ask for the most.                        *)
Most(raw, available) ==
  CHOOSE n \in available :
    /\ \A k \in available : ~Less(raw[ProxyKinds[n]].value, raw[ProxyKinds[k]].value)
    /\ \A k \in available :
         k < n => Less(raw[ProxyKinds[k]].value, raw[ProxyKinds[n]].value)
ProxyNeed(raw) ==
  LET available == {n \in DOMAIN ProxyKinds : raw[ProxyKinds[n]].computable}
      binding == ProxyKinds[Most(raw, available)]
  IN  IF available = {}
      THEN [binding |-> Null, required |-> NotComputable({LimitOf[k] : k \in ToSet(ProxyKinds)})]
      ELSE [binding |-> binding, required |-> raw[binding]]
ProxyPlan(in, binding, rawRequired, recommended) ==
      [bindingConstraint |-> binding, rawRequired |-> rawRequired,
       theoreticalProxies |-> Lift(rawRequired, LAMBDA r : Whole(Ceil(r))),
       recommendedProxies |-> recommended,
       configuredPoolHeadroom |-> Lift(recommended, LAMBDA r : Whole(in.proxyPoolSize) -- r),
       configuredPoolUtilization |->
         IF in.proxyPoolSize = 0 THEN NotComputable({"proxyPoolSize"})
         ELSE Lift(rawRequired, LAMBDA r : r // Whole(in.proxyPoolSize))]
ProxyPlanFor(in, need) ==
  ProxyPlan(in, need.binding, need.required,
            Lift(need.required, LAMBDA r : Whole(Ceil(r ** Margin(in)))))
CalculateProxy(in, jobs, units) ==
  ProxyPlanFor(in, ProxyNeed([k \in ToSet(ProxyKinds) |-> RequiredUnits(jobs, units, k)]))

(* calculateCapacityWorkload(): the least of what all workers and all proxies *)
(* can carry.                                                                 *)
ScaleCapacity(unit, count) ==
  IF count = 0 THEN Computed(Whole(0))
  ELSE Lift(unit, LAMBDA r : Rounded("capacity", r ** Whole(count)))
Tolerated(capacity) ==
  IF Less(capacity, Whole(1)) THEN <<1, Tolerance>> ELSE capacity ** <<1, Tolerance>>
Gap(a, b) == IF Less(a, b) THEN b -- a ELSE a -- b
CapacityStatus(jobs, sustainable) ==
  LET capacity == sustainable.value
      near == ~Less(Tolerated(capacity), Gap(Whole(jobs), capacity))
  IN  IF ~sustainable.computable THEN "unavailable"
      ELSE IF near THEN "at-capacity"
      ELSE IF Less(capacity, Whole(jobs)) THEN "over-capacity" ELSE "within-capacity"

Least(scaled) ==
  CHOOSE n \in DOMAIN scaled :
    /\ \A k \in DOMAIN scaled : ~Less(scaled[k].value, scaled[n].value)
    /\ \A k \in DOMAIN scaled : k < n => Less(scaled[n].value, scaled[k].value)
Workload(jobs, sustainable, binding, submissions) ==
  LET above(a, b) == IF Less(a, b) THEN Whole(0) ELSE a -- b
  IN  [currentJobsPerDay |-> jobs, sustainableJobsPerDay |-> sustainable,
       bindingConstraint |-> binding,
       headroomJobsPerDay |-> Lift(sustainable, LAMBDA c : above(c, Whole(jobs))),
       overCapacityJobsPerDay |-> Lift(sustainable, LAMBDA c : above(Whole(jobs), c)),
       utilization |->
         IF sustainable.computable /\ sustainable.value[1] = 0
         THEN IF jobs = 0 THEN Computed(Whole(0)) ELSE NotComputable({})
         ELSE Lift(sustainable, LAMBDA c : Whole(jobs) // c),
       maximumSustainableSubmissionsPerDay |-> submissions,
       status |-> CapacityStatus(jobs, sustainable)]
WorkloadOf(cohorts, jobs, scaled) ==
  LET unavailable == {n \in DOMAIN scaled : ~scaled[n].computable}
  IN  IF unavailable # {}
      THEN LET missing == NotComputable(UNION {scaled[n].missing : n \in unavailable})
           IN  Workload(jobs, missing, Null, missing)
      ELSE Workload(jobs, scaled[Least(scaled)], Kinds[Least(scaled)],
                    SubmissionRateFor(cohorts, scaled[Least(scaled)].value))
CalculateCapacityWorkload(in, cohorts, jobs, units) ==
  LET count(n) == IF n \in DOMAIN WorkerKinds THEN in.workers ELSE in.proxyPoolSize
  IN  WorkloadOf(cohorts, jobs,
                 [n \in {k \in DOMAIN Kinds : Kinds[k] \in DOMAIN units} |->
                    ScaleCapacity(units[Kinds[n]], count(n))])

(* Traffic and bandwidth, of the run rate and of the horizon.                 *)
CalculateTraffic(in, jobs, horizonJobs, reliability) ==
  LET requests == Given(in.requestsPerJob, "requestsPerJob")
      amplified(m) == By(m, reliability.attemptAmplification)
  IN  [baselinePerDay |-> By(requests, Whole(jobs)),
       adjustedPerDay |-> amplified(By(requests, Whole(jobs))),
       baselinePerMonth |-> By(requests, Whole(jobs * DaysPerMonth)),
       adjustedPerMonth |-> amplified(By(requests, Whole(jobs * DaysPerMonth))),
       adjustedInHorizon |-> amplified(By(requests, Whole(horizonJobs))),
       retriesPerDay |-> Whole(jobs) ** (reliability.attemptAmplification -- Whole(1))]
CalculateBandwidth(in, traffic) ==
  LET bytes == Given(in.bytesPerHttpRequest, "bytesPerHttpRequest")
  IN  [baselinePerDay |-> Product(traffic.baselinePerDay, bytes),
       baselinePerMonth |-> Product(traffic.baselinePerMonth, bytes),
       adjustedPerDay |-> Product(traffic.adjustedPerDay, bytes),
       adjustedPerMonth |-> Product(traffic.adjustedPerMonth, bytes)]

(* Little's law, of jobs: a rate per day and a latency.                       *)
AverageJobs(in, jobs) ==
  Lift(Given(in.meanJobLatencyMs, "meanJobLatencyMs"),
       LAMBDA latency : Rounded("averageJobs", <<jobs, MsPerDay>> ** latency))
PeakJobsPerMinute(in, jobs) ==
  IF in.peakJobsPerMinuteOverride # Null THEN Whole(in.peakJobsPerMinuteOverride)
  ELSE <<jobs * in.peakMultiplier, MinutesPerDay>>
PeakJobs(in, jobs) ==
  Lift(Given(in.p95JobLatencyMs, "p95JobLatencyMs"),
       LAMBDA latency : PeakJobsPerMinute(in, jobs) ** latency ** <<MinutesPerDay, MsPerDay>>)

CalculateCost(in, traffic, bandwidth, reliability, proxy) ==
  LET billable ==
        IF in.billsFailedAttempts THEN bandwidth.adjustedPerMonth
        ELSE By(Product(traffic.baselinePerMonth,
                        Given(in.bytesPerHttpRequest, "bytesPerHttpRequest")),
                reliability.jobSuccessRate)
      units == By(billable, <<1, IF in.billingUnit = "GB" THEN DecimalGb ELSE BinaryGib>>)
      bandwidthMonthly == Product(units, Given(in.pricePerGb, "pricePerGb"))
      proxiesMonthly == Product(proxy.recommendedProxies,
                                Given(in.fixedMonthlyPerProxy, "fixedMonthlyPerProxy"))
      fixedPoolMonthly == Given(in.fixedMonthlyPool, "fixedMonthlyPool")
  IN  [bandwidthMonthly |-> bandwidthMonthly, proxiesMonthly |-> proxiesMonthly,
       fixedPoolMonthly |-> fixedPoolMonthly,
       totalMonthly |-> SumMaybes(<<bandwidthMonthly, proxiesMonthly, fixedPoolMonthly>>)]

(* calculateGrowth(): each month the factor of the months before it.          *)
CalculateGrowth(in, jobs, proxy, cost) ==
  LET rate == IF in.growthEnabled THEN in.monthlyGrowthRate ELSE 0
      factor(n) == Power(<<ShareUnit + rate, ShareUnit>>, n - 1)
      proxies(n) == Lift(proxy.rawRequired, LAMBDA r : Whole(Ceil(r ** factor(n) ** Margin(in))))
  IN  [n \in 1..Max({1, in.months}) |->
         [factor |-> factor(n), logicalJobsPerDay |-> Whole(jobs) ** factor(n),
          recommendedProxies |-> proxies(n),
          estimatedMonthlyCost |->
            SumMaybes(<<By(cost.bandwidthMonthly, factor(n)),
                  Product(proxies(n), Given(in.fixedMonthlyPerProxy, "fixedMonthlyPerProxy")),
                  Given(in.fixedMonthlyPool, "fixedMonthlyPool")>>)]]

BuildFindings(in, cohorts, jobs, traffic, workers, proxy, cost, reliability) ==
  LET averageJobs == AverageJobs(in, jobs)
      jobsRpm == Rounded("jobsRpm", <<jobs, MinutesPerDay>>)
      target == Whole(workers.aggregateJobTargetPerMinute)
      httpRpm == Lift(traffic.adjustedPerDay,
                      LAMBDA r : Rounded("httpRpm", r ** <<1, MinutesPerDay>>))
      httpLimit == workers.aggregateHttpLimitPerMinute
      when(condition, code) == IF condition THEN {code} ELSE {}
  IN  cohorts.findings \cup reliability.findings
      \cup when(~averageJobs.computable \/ ~PeakJobs(in, jobs).computable, "latency_unknown")
      \cup when(/\ averageJobs.computable
                /\ Less(Whole(workers.aggregateJobConcurrency), averageJobs.value),
                "concurrency_below_demand")
      \cup when(Less(target, jobsRpm), "admission_below_demand")
      \cup when(~Less(target, jobsRpm) /\ Less(jobsRpm ** Whole(2), target), "target_above_demand")
      \cup when(httpRpm.computable /\ httpLimit.computable /\ Less(httpLimit.value, httpRpm.value),
                "egress_below_demand")
      \cup when(~proxy.rawRequired.computable, "proxy_limits_unknown")
      \cup when(/\ proxy.recommendedProxies.computable
                /\ Less(Whole(in.proxyPoolSize), proxy.recommendedProxies.value),
                "proxy_pool_below_demand")
      \cup when(/\ Null \notin {in.earnedConcurrencyPerProxy, in.maxConcurrentPerProxy}
                /\ Null \notin {in.earnedConcurrencyPerProxy, in.maxConcurrentPerProxy} =>
                     in.earnedConcurrencyPerProxy < in.maxConcurrentPerProxy,
                "proxy_cold_start_gap")
      \cup when(~cost.totalMonthly.computable, "pricing_unknown")

(* simulateCapacity(), one stage of the calculation after the other.          *)
Priced(in, cohorts, reliability, jobs, units, traffic, bandwidth, workers, proxy, cost) ==
  [valid |-> Issues(in) = {}, cohorts |-> cohorts, reliability |-> reliability,
   capacityWorkload |-> CalculateCapacityWorkload(in, cohorts, jobs, units),
   traffic |-> traffic, bandwidth |-> bandwidth,
   averageJobs |-> AverageJobs(in, jobs), peakJobs |-> PeakJobs(in, jobs),
   peakJobsPerMinute |-> PeakJobsPerMinute(in, jobs),
   workers |-> workers, proxy |-> proxy,
   cost |-> cost, growth |-> CalculateGrowth(in, jobs, proxy, cost),
   findings |-> BuildFindings(in, cohorts, jobs, traffic, workers, proxy, cost, reliability)]
Crewed(in, cohorts, reliability, jobs, units, traffic, bandwidth, proxy) ==
  Priced(in, cohorts, reliability, jobs, units, traffic, bandwidth,
         CalculateWorkers(in, jobs, units), proxy,
         CalculateCost(in, traffic, bandwidth, reliability, proxy))
Routed(in, cohorts, reliability, jobs, units, traffic) ==
  Crewed(in, cohorts, reliability, jobs, units, traffic, CalculateBandwidth(in, traffic),
          CalculateProxy(in, jobs, units))
Loaded(in, cohorts, reliability, jobs) ==
  Routed(in, cohorts, reliability, jobs, CalculateUnitCapacityConstraints(in, reliability),
         CalculateTraffic(in, jobs, cohorts.totalScrapeJobs, reliability))
Simulated(in, cohorts, reliability) ==
  Loaded(in, cohorts, reliability, RunRate(cohorts, in))
SimulateCapacity(in) == Simulated(in, SimulateCohorts(in), EvaluateReliability(in))
=============================================================================
