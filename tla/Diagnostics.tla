----------------------------- MODULE Diagnostics -----------------------------
(* core/concurrency/concurrency-diagnostics.ts: the monitor that follows the  *)
(* proxy capacity while a session runs, fed from the runner's and the         *)
(* session's timers, and the diagnosis of what kept the concurrency below     *)
(* what was asked for.                                                        *)
EXTENDS Integers, Sequences, FiniteSets, FiniteSetsExt, Absent

CONSTANTS Configured,      \* configured concurrency
          Accepted,        \* jobs of one cycle
          Capacities,      \* known proxy capacities; an unknown one is not observed
          Figures,         \* what a session may have measured when it ends
          MinuteMs,        \* milliseconds of a minute, scaled down
          MaxObservations  \* BOUND: observations of the monitor

(* What is configured, accepted, observed and measured are whole numbers.     *)
DiagnosisAssumption ==
  /\ Configured \in Nat /\ Accepted \in Nat /\ Capacities \subseteq Nat
  /\ MinuteMs \in Nat \ {0} /\ MaxObservations \in Nat /\ Null \notin Nat
  /\ \A m \in Figures :
       /\ {m.meanLatencyMs, m.httpRpm} \subseteq Nat \cup {Null}
       /\ {m.observed, m.targetRpm, m.requests, m.jobs, m.httpWaitMs} \subseteq Nat

VARIABLES minimumKnownCapacity, limitedBaseline,
          seen,            \* the known capacities observed; no code keeps them
          warned,          \* those warned of since the capacity last sufficed
          report           \* the diagnosis, once there is one

diagnosisVars == <<minimumKnownCapacity, limitedBaseline, seen, warned, report>>

FindingCodes == {"small_input", "admission_limited", "proxy_capacity_limited",
          "http_rate_limited", "proxy_capacity_unknown", "serialized"}
Limiting == {"admission_limited", "proxy_capacity_limited", "http_rate_limited"}

DiagnosisTypeOK ==
  /\ minimumKnownCapacity \in Nat \cup {Null} /\ limitedBaseline \in Nat \cup {Null}
  /\ seen \in Seq(Nat) /\ Len(seen) <= MaxObservations /\ warned \in Seq(Nat)
  /\ report # Null => report.findings \subseteq FindingCodes

DiagnosisInit ==
  /\ minimumKnownCapacity = Null /\ limitedBaseline = Null
  /\ seen = <<>> /\ warned = <<>> /\ report = Null

-----------------------------------------------------------------------------
Demand == Min({Configured, Accepted})
CeilDiv(a, b) == (a + b - 1) \div b
MaterialDrop == CeilDiv(Demand, 5)

Falls(capacity) == limitedBaseline # Null => limitedBaseline - capacity >= MaterialDrop

(* observe(): a warning when the capacity first falls short of the demand,    *)
(* and another only after it has fallen materially below the last one.        *)
Observe(capacity) ==
  /\ report = Null /\ Len(seen) < MaxObservations
  /\ seen' = Append(seen, capacity)
  /\ minimumKnownCapacity' = IF minimumKnownCapacity = Null THEN capacity
                             ELSE Min({minimumKnownCapacity, capacity})
  /\ \/ /\ capacity >= Demand
        /\ limitedBaseline' = Null /\ warned' = <<>>
     \/ /\ capacity < Demand /\ Falls(capacity)
        /\ limitedBaseline' = capacity /\ warned' = Append(warned, capacity)
     \/ /\ capacity < Demand /\ ~Falls(capacity)
        /\ UNCHANGED <<limitedBaseline, warned>>
  /\ UNCHANGED report

-----------------------------------------------------------------------------
(* The concurrency the egress ceiling can keep busy, by Little's law, with    *)
(* the time jobs queued on the limiter itself taken out of their latency.     *)
HttpCeiling(m) ==
  LET service == m.meanLatencyMs * m.jobs - m.httpWaitMs
  IN  IF m.httpRpm = Null \/ m.meanLatencyMs = Null \/ m.jobs = 0 \/ m.requests = 0
         \/ service <= 0
      THEN Null
      ELSE Max({1, CeilDiv(m.httpRpm * service, m.requests * MinuteMs)})

(* resolvedAdmissionBurst(), and what a mean latency makes of the target.     *)
ResolvedBurst(targetRpm) == Max({1, CeilDiv(targetRpm, 60)})
AdmissionCeiling(m) ==
  Max({m.observed, ResolvedBurst(m.targetRpm),
       IF m.meanLatencyMs = Null THEN 0 ELSE CeilDiv(m.targetRpm * m.meanLatencyMs, MinuteMs)})

(* evaluateConcurrency(), of the smallest capacity the monitor has seen.      *)
Known(ceilings) ==
  {ceilings.configured, ceilings.input, ceilings.admission}
  \cup ({ceilings.proxy, ceilings.http} \ {Null})

Evaluate(m) ==
  LET ceilings   == [configured |-> Configured, input |-> Accepted,
                     admission |-> AdmissionCeiling(m), proxy |-> minimumKnownCapacity,
                     http |-> HttpCeiling(m)]
      achievable == Min(Known(ceilings))
      Binds(c)   == c # Null /\ c = achievable /\ c < Demand
      limits     == {code \in Limiting :
                       \/ code = "admission_limited" /\ m.admissionWaitMs > 0
                                                     /\ Binds(ceilings.admission)
                       \/ code = "proxy_capacity_limited" /\ Binds(ceilings.proxy)
                       \/ code = "http_rate_limited" /\ Binds(ceilings.http)}
      others     == {code \in FindingCodes \ Limiting :
                       \/ code = "small_input" /\ Accepted < Configured /\ Accepted = achievable
                       \/ code = "proxy_capacity_unknown" /\ m.residential
                                                          /\ ceilings.proxy = Null
                       \/ code = "serialized" /\ achievable > 0 /\ m.queueDemand > 0
                                              /\ 5 * m.observed <= 4 * achievable
                                              /\ limits = {}}
  IN  [achievable |-> achievable, ceilings |-> ceilings, findings |-> limits \cup others]

Diagnose ==
  /\ report = Null
  /\ \E m \in Figures : report' = Evaluate(m)
  /\ UNCHANGED <<minimumKnownCapacity, limitedBaseline, seen, warned>>

DiagnosisNext == (\E capacity \in Capacities : Observe(capacity)) \/ Diagnose
DiagnosisSpec == DiagnosisInit /\ [][DiagnosisNext]_diagnosisVars

-----------------------------------------------------------------------------
(* While the capacity falls short the operator has been warned, of a figure   *)
(* that is not materially better than the present one; the warnings of one    *)
(* shortage go down, each by a material step, however the capacity wavers;    *)
(* and the smallest capacity is the smallest of all that was seen.            *)
ShortageIsWarned ==
  /\ seen # <<>> =>
       /\ minimumKnownCapacity = Min({seen[i] : i \in DOMAIN seen})
       /\ seen[Len(seen)] < Demand =>
            /\ warned # <<>>
            /\ warned[Len(warned)] - seen[Len(seen)] < MaterialDrop
  /\ \A i \in 1..Len(warned)-1 : warned[i] - warned[i + 1] >= MaterialDrop

(* The diagnosis accounts for the shortfall: what it calls achievable is      *)
(* within every ceiling, a demand that could not be met is put down to a      *)
(* ceiling that binds (or to an admission nothing ever waited for), and a run *)
(* is called serialized only when no ceiling explains it.                     *)
ShortfallExplained ==
  report # Null =>
    LET c == report.ceilings
    IN  /\ \A bound \in {c.configured, c.input, c.admission, c.proxy, c.http} \ {Null} :
             report.achievable <= bound
        /\ report.achievable < Demand =>
             \/ report.findings \cap Limiting # {}
             \/ report.achievable = c.admission
        /\ "serialized" \in report.findings => report.findings \cap Limiting = {}

DiagnosisHolds == DiagnosisTypeOK /\ ShortageIsWarned /\ ShortfallExplained
=============================================================================
