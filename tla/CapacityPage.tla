----------------------------- MODULE CapacityPage -----------------------------
(* web/capacity/state.ts and main.ts: the planning page, which holds the      *)
(* inputs and recomputes everything at every edit of one control. The result  *)
(* is a function of the inputs, Capacity!SimulateCapacity, published with     *)
(* them, so it is no variable here. Numbers typed are naturals.               *)
EXTENDS Capacity

CONSTANTS Presets,          \* the inputs of each platform preset
          DefaultPreset,
          TaperedStages, FlatStages,
          Values,           \* what may be typed into each control
          StageValues,      \* and into each control of a stage
          MaxStages,        \* BOUND: stages of the lifecycle
          MaxEdits          \* BOUND: edits made on the page

VARIABLES inputs,           \* Null until the page is opened
          platformPreset, lifecyclePreset,
          edits             \* edits made so far; no code counts them

pageVars == <<inputs, platformPreset, lifecyclePreset, edits>>

(* Stages are told apart by everything but their id.                          *)
Unnamed(stages) == [n \in DOMAIN stages |-> [stages[n] EXCEPT !.id = 0]]
LifecyclePresetFor(stages) ==
  CASE Unnamed(stages) = Unnamed(TaperedStages) -> "tapered"
    [] Unnamed(stages) = Unnamed(FlatStages) -> "flat"
    [] OTHER -> "custom"

WellTyped(in) ==
  /\ DOMAIN in = DOMAIN Presets[DefaultPreset]
  /\ in.stages \in Seq(PollingStage)
  /\ \A f \in Required : in[f] \in Nat
  /\ \A f \in Nullable : in[f] \in Nat \cup {Null}

(* The presets are well typed, and the one the page begins with is tapered,   *)
(* which is not the flat one; a control takes values of its type.             *)
PageAssumption ==
  /\ CapacityAssumption /\ "Stage" \in Labels /\ DefaultPreset \in DOMAIN Presets
  /\ {"stages"} \cup Required \cup Nullable \subseteq DOMAIN Presets[DefaultPreset]
  /\ \A id \in DOMAIN Presets : WellTyped(Presets[id])
  /\ {TaperedStages, FlatStages} \subseteq Seq(PollingStage)
  /\ Presets[DefaultPreset].stages = TaperedStages
  /\ Unnamed(TaperedStages) # Unnamed(FlatStages)
  /\ "stages" \notin DOMAIN Values
  /\ \A f \in DOMAIN Values : /\ f \in Required => Values[f] \subseteq Nat
                              /\ f \in Nullable => Values[f] \subseteq Nat \cup {Null}
  /\ \A f \in DOMAIN StageValues :
       \/ f = "label" /\ StageValues[f] \subseteq Labels
       \/ f = "durationDays" /\ StageValues[f] \subseteq Nat
       \/ f = "intervalMs" /\ StageValues[f] \subseteq Nat \cup {Null}
       \/ f = "enabled" /\ StageValues[f] \subseteq BOOLEAN

PageTypeOK ==
  /\ WellTyped(inputs) /\ platformPreset \in DOMAIN Presets \cup {"custom"}
  /\ lifecyclePreset = LifecyclePresetFor(inputs.stages)

PageInit == inputs = Null /\ platformPreset = Null /\ lifecyclePreset = Null /\ edits = 0

(* The page is opened: the constructor of the store.                          *)
OpenPage ==
  /\ inputs = Null /\ inputs' = Presets[DefaultPreset] /\ platformPreset' = DefaultPreset
  /\ lifecyclePreset' = LifecyclePresetFor(inputs'.stages) /\ UNCHANGED edits

(* update(): the label of the lifecycle follows the stages, that of the       *)
(* platform stays.                                                            *)
Update(changed) ==
  /\ inputs' = changed /\ lifecyclePreset' = LifecyclePresetFor(changed.stages)
  /\ UNCHANGED platformPreset
UpdateStages(stages) == Update([inputs EXCEPT !.stages = stages])

(* updateNumericInput() and the check boxes; an emptied control is 0 when it  *)
(* may not be null.                                                           *)
UpdateControl(f, value) == Update([inputs EXCEPT ![f] = value])

Cleared == {"requestsPerJob", "bytesPerHttpRequest", "meanJobLatencyMs", "p95JobLatencyMs",
            "httpRpmPerHost", "maxConcurrentPerProxy", "maxRequestsPerMinutePerProxy",
            "maxBytesPerMonthPerProxy", "earnedConcurrencyPerProxy"}
CustomCapacityInputs ==
  [f \in DOMAIN Presets[DefaultPreset] |->
     IF f \in Cleared THEN Null ELSE Presets[DefaultPreset][f]]

ApplyPlatformPreset(id) ==
  /\ inputs' = IF id = "custom" THEN CustomCapacityInputs ELSE Presets[id]
  /\ platformPreset' = id
  /\ lifecyclePreset' = IF id = "custom" THEN "tapered" ELSE LifecyclePresetFor(inputs'.stages)

ApplyLifecyclePreset(id) ==
  /\ inputs' = [inputs EXCEPT !.stages = IF id = "tapered" THEN TaperedStages ELSE FlatStages]
  /\ lifecyclePreset' = id /\ UNCHANGED platformPreset

(* The first id no stage has, whatever was removed before.                    *)
NextStageId(stages) ==
  Min({n \in 1..(Len(stages) + 1) : \A k \in DOMAIN stages : stages[k].id # n})
AddStage ==
  /\ Len(inputs.stages) < MaxStages
  /\ UpdateStages(Append(inputs.stages,
       [id |-> NextStageId(inputs.stages), label |-> "Stage", durationDays |-> 1,
        intervalMs |-> Null, enabled |-> TRUE]))
RemoveStage(n) == UpdateStages(RemoveAt(inputs.stages, n))
MoveStage(n, target) ==
  /\ target \in DOMAIN inputs.stages
  /\ UpdateStages([inputs.stages EXCEPT ![n] = inputs.stages[target],
                                        ![target] = inputs.stages[n]])
UpdateStage(n, f, value) == UpdateStages([inputs.stages EXCEPT ![n][f] = value])

EditPage ==
  /\ inputs # Null /\ edits < MaxEdits /\ edits' = edits + 1
  /\ \/ \E f \in DOMAIN Values : \E value \in Values[f] : UpdateControl(f, value)
     \/ \E id \in DOMAIN Presets \cup {"custom"} : ApplyPlatformPreset(id)
     \/ \E id \in {"tapered", "flat"} : ApplyLifecyclePreset(id)
     \/ AddStage
     \/ \E n \in DOMAIN inputs.stages :
          \/ RemoveStage(n)
          \/ \E target \in {n - 1, n + 1} : MoveStage(n, target)
          \/ \E f \in DOMAIN StageValues : \E value \in StageValues[f] : UpdateStage(n, f, value)

PageNext == OpenPage \/ EditPage

PageSpec == PageInit /\ [][PageNext]_pageVars

-----------------------------------------------------------------------------
(* The polls of a submission on the day it is that old, instant by instant.   *)
PollsAtAge(age) ==
  LET spans == Spans(inputs.stages)
      stage == {n \in DOMAIN spans : /\ StartDay(spans, n) <= age
                                     /\ age < StartDay(spans, n) + spans[n].durationDays}
      instants(n) ==
        LET from == (age - StartDay(spans, n)) * MsPerDay
        IN  {t \in from..(from + MsPerDay - 1) :
               spans[n].intervalMs \notin {Null, 0} /\ t % spans[n].intervalMs = 0}
  IN  SumFunctionOnSet([n \in stage |-> Cardinality(instants(n))], stage)

(* The jobs of a day, one cohort after the other.                             *)
JobsOnDay(day) ==
  inputs.newSubmissionsPerDay
    * SumFunctionOnSet([arrived \in 0..day |-> PollsAtAge(day - arrived)], 0..day)

(* The jobs of every simulated day, which lifecycle.ts looks up in one prefix *)
(* sum, are those of each cohort alive that day counted poll by poll; the     *)
(* stages' shares add up to them; from the plateau day on they are the run    *)
(* rate, and before it they are fewer.                                        *)
CohortsReconcile(cohorts) ==
  LET rate == RunRate(cohorts, inputs)
      plateau == cohorts.jobsPlateauDayIndex
  IN  /\ \A n \in DOMAIN cohorts.days :
           LET day == cohorts.days[n]
           IN  /\ day.scrapeJobs = JobsOnDay(n - 1)
               /\ day.scrapeJobs = TotalOf([k \in DOMAIN day.perStage |-> day.perStage[k].polls])
               /\ (day.phase = "steady" <=> plateau # Null /\ (plateau # Null => n > plateau))
               /\ plateau # Null =>
                    (day.scrapeJobs = rate <=> n > plateau \/ inputs.newSubmissionsPerDay = 0)
      /\ cohorts.steadyState # Null => cohorts.steadyState.scrapeJobs = rate
CohortsAddUp == CohortsReconcile(SimulateCohorts(inputs))

(* The outcomes reliability.ts distributes the jobs over are all there are,   *)
(* and the traffic multiplier is the expected number of attempts, added up    *)
(* over the attempt that settles a job.                                       *)
AttemptsReconcile(r) ==
  LET p == r.perAttemptFailureRate
      retryable == Whole(1) -- r.permanentFailureRate
      reached(n) == IF n = 1 THEN Whole(1) ELSE retryable ** Power(p, n - 1)
      attempts[n \in 0..r.attempts] == IF n = 0 THEN Whole(0) ELSE attempts[n - 1] ++ reached(n)
  IN  /\ Same(r.jobSuccessRate ++ r.permanentFailureRate ++ r.exhaustedRate, Whole(1))
      /\ Same(r.attemptAmplification, attempts[r.attempts])
AttemptsAddUp == AttemptsReconcile(EvaluateReliability(inputs))

(* The page answers the same question three times, from separate code: the    *)
(* status against the sustainable workload, the recommended fleet and the     *)
(* warnings. When every applicable limit can be computed they agree as far as *)
(* the tolerance of the status allows: demand over capacity is more than the  *)
(* workers or the proxies there are, and some warning says so; demand within  *)
(* capacity is not. At capacity, where the rounding of doubles decides, the   *)
(* fleet may ask for a unit more, and a pool that is short is warned of even  *)
(* then. A target of zero jobs a minute, which no number of workers makes up  *)
(* for, is left out (see the README). The first month of the growth begins    *)
(* where the plan is.                                                         *)
AnswersAgree(r) ==
  LET workers == r.workers.recommendedWorkers
      proxies == r.proxy.theoreticalProxies
      lacking == Less(Whole(inputs.workers), workers.value)
      small == proxies.computable /\ Less(Whole(inputs.proxyPoolSize), proxies.value)
      below == {"concurrency_below_demand", "admission_below_demand",
                "egress_below_demand", "proxy_pool_below_demand"}
      status == r.capacityWorkload.status
  IN  /\ (/\ r.valid /\ inputs.targetJobsPerMinute > 0
          /\ r.capacityWorkload.sustainableJobsPerDay.computable
          /\ proxies.computable \/ inputs.proxyPoolSize > 0)
         => /\ status = "over-capacity" => (lacking \/ small) /\ below \cap r.findings # {}
            /\ status = "within-capacity" => ~lacking /\ ~small
      /\ small => "proxy_pool_below_demand" \in r.findings
      /\ r.growth[1].recommendedProxies = r.proxy.recommendedProxies
PlanAgrees == AnswersAgree(SimulateCapacity(inputs))

(* The plan of an open page is consistent: cohorts, attempts, and the three   *)
(* answers to whether the configuration is enough, up to the tolerance.       *)
PlanHolds == inputs # Null => PageTypeOK /\ CohortsAddUp /\ AttemptsAddUp /\ PlanAgrees
=============================================================================
