------------------------------ MODULE ProxySource ------------------------------
(***************************************************************************)
(* ProxySourceManager (infrastructure/proxy/proxy-source-manager.ts): it   *)
(* keeps the pool's roster supplied from an external candidate list, while *)
(* the runner's jobs lease from that pool.  Composed with ProxyPool, whose *)
(* abstract `supply` is here what the candidates really are, and whose     *)
(* admissions and evictions are here exactly those the manager makes.      *)
(*                                                                         *)
(* Abstracted: the order of the candidate list, the stages of a probe, the *)
(* number of probes in flight at once, and the counters.                   *)
(***************************************************************************)
EXTENDS Integers, FiniteSets, Functions, Absent

CONSTANTS
  Proxies, Jobs, MaxConsecutiveFailures, CooldownMs,
  MaxConcurrentPerProxy, ProbationConcurrency, ExplorationPeriod,
  AcquireWaitMs, MaxAcquires, MaxTime,
  TargetCapacity,   \* slots to aim for
  MinCapacity,      \* slots start waits for, and the floor of eviction
  MaxCandidates,    \* candidates remembered at most
  BootstrapRounds   \* validation rounds of start

VARIABLES
  now, configured, roster, entry, sequence, exploreCredit, poolExhaustedCount,
  announced, jobState, lease, deadline, timer, aborted, acquires,
  lifecycle,   \* "off", "booting", "running" or "stopped"
  round,       \* bootstrap rounds begun
  candidate,   \* the state of each candidate's record; "unknown" has none
  replenish,   \* "idle", "probing" a batch, or about to reap
  passed       \* the candidates of the batch that passed their probe

sourceVars == <<lifecycle, round, candidate, replenish, passed>>

CandidateStates == {"unknown", "candidate", "validating", "admitted", "rejected"}

In(state) == {p \in Proxies : candidate[p] = state}

\* supplyPending(): the published counters, until stop takes them away.
Supply == lifecycle # "stopped" /\ In("candidate") \cup In("validating") # {}

Pool == INSTANCE ProxyPool WITH supply <- Supply, RequireProxy <- TRUE

vars == <<sourceVars, now, configured, roster, entry, sequence, exploreCredit,
          poolExhaustedCount, announced, jobState, lease, deadline, timer,
          aborted, acquires>>

ASSUME SourceAssumption ==
  /\ IsFiniteSet(Proxies)
  /\ MaxConcurrentPerProxy \in Nat /\ ProbationConcurrency \in Nat \ {0}
  /\ TargetCapacity \in Nat \ {0}
  /\ MinCapacity \in 1 .. TargetCapacity
  /\ MaxCandidates \in Nat \ {0} /\ BootstrapRounds \in Nat

\* What the pool assumes besides: waits, benches and strikes are numbers, and
\* Null is none of the values it stands beside.
ASSUME PoolLimits ==
  /\ IsFiniteSet(Jobs)
  /\ MaxConsecutiveFailures \in Nat \ {0} /\ CooldownMs \in Nat
  /\ ExplorationPeriod \in Nat /\ AcquireWaitMs \in Nat
  /\ MaxAcquires \in Nat /\ MaxTime \in Nat
  /\ Null \notin Nat /\ Null \notin [id : Proxies, generation : Nat]
  /\ Null \notin {"consecutive_failures", "unsuitable_exit", "detected_block"}

Init ==
  /\ lifecycle = "off" /\ round = 0
  /\ candidate = [p \in Proxies |-> "unknown"]
  /\ replenish = "idle" /\ passed = {}
  /\ Pool!Init

-----------------------------------------------------------------------------
(* The candidates and the capacity they are wanted for.                     *)

\* Mutation: a candidate listed again is given another chance.
RegisterAgain(targets) ==
  [p \in Proxies |-> IF p \in targets /\ candidate[p] \in {"unknown", "rejected"}
                     THEN "candidate" ELSE candidate[p]]

\* register(): files what was never seen, up to the ceiling on records.
Register(targets) ==
  [p \in Proxies |-> IF p \in targets /\ candidate[p] = "unknown"
                     THEN "candidate" ELSE candidate[p]]

\* A fetch lists any proxies, known ones among them; `targets` leaves out the
\* new ones that there was no record left for.
Registers ==
  \E targets \in SUBSET Proxies :
    /\ Cardinality(targets \cup (Proxies \ In("unknown"))) <= MaxCandidates
    /\ candidate' = Register(targets)

\* Proxies in rotation once the pool has swept its roster.
InRotation == {p \in roster : Pool!Usable(Pool!Refreshed[p])}

\* usableCapacity(): the slots the pool could serve now.
UsableCapacity ==
  IF MaxConcurrentPerProxy = 0 THEN Cardinality(InRotation)
  ELSE SumFunctionOnSet([p \in InRotation |-> Pool!CapacityOf(Pool!Refreshed[p])], InRotation)

-----------------------------------------------------------------------------
(* Evicting.                                                                *)

\* isHopeless(), of a proxy the source supplied: never worked, and benched.
Hopeless(p) == /\ p \notin configured
               /\ Pool!Refreshed[p].successes = 0
               /\ ~Pool!Usable(Pool!Refreshed[p])

Retired(p) == entry[p].retired
Viable     == {p \in roster : ~Retired(p)}

\* The floor: the last MinCapacity proxies that could come back are kept.
MayLeave(cooling) == Cardinality(Viable) - Cardinality(cooling) >= MinCapacity

\* What one pass evicts: every hopeless proxy without leases that is retired,
\* and as many of the cooling ones as the floor allows.
Victims(victims) ==
  LET hopeless == {p \in Pool!Evictable : Hopeless(p)}
      cooling  == {p \in victims : ~Retired(p)}
  IN  /\ victims \subseteq hopeless
      /\ {p \in hopeless : Retired(p)} \subseteq victims
      /\ cooling # {} => MayLeave(cooling)
      /\ \A p \in hopeless \ victims : ~MayLeave(cooling \cup {p})

Reap ==
  \E victims \in SUBSET roster :
    /\ Victims(victims)
    /\ candidate' = [p \in Proxies |-> IF p \in victims /\ candidate[p] # "unknown"
                                       THEN "rejected" ELSE candidate[p]]
    /\ Pool!Evict(victims)

-----------------------------------------------------------------------------
(* Replenishing.                                                            *)

\* Mutation: the whole list is validated at once.
HarvestAll(batch, target) == batch = In("candidate")

\* harvest(): as many untried candidates as there are slots missing.
Harvest(batch, target) ==
  /\ batch \subseteq In("candidate")
  /\ Cardinality(batch) =
       Pool!Lesser(Cardinality(In("candidate")), Pool!Greater(0, target - UsableCapacity))

\* replenishOnce() up to the probes; with nothing to probe, all of it.
Replenish(target) ==
  /\ replenish = "idle"
  /\ \E batch \in SUBSET In("candidate") :
       /\ Harvest(batch, target)
       /\ IF batch = {}
          THEN Reap /\ UNCHANGED <<replenish, passed>>
          ELSE /\ replenish' = "probing" /\ passed' = {}
               /\ candidate' = [p \in Proxies |-> IF p \in batch THEN "validating"
                                                  ELSE candidate[p]]
               /\ Pool!GetStats

\* A probe of the batch comes back, in any order.
ProbeEnds(p, ok) ==
  /\ candidate[p] = "validating"
  /\ candidate' = [candidate EXCEPT ![p] = IF ok THEN "admitted" ELSE "rejected"]
  /\ passed' = IF ok THEN passed \cup {p} ELSE passed
  /\ UNCHANGED <<lifecycle, round, replenish>>
  /\ Pool!SupplyChanges

\* The whole batch is back: what passed joins the roster in one call, which
\* skips the proxies the pool already holds.
Admit ==
  /\ replenish = "probing" /\ In("validating") = {} /\ passed # {}
  /\ replenish' = "reaping" /\ passed' = {}
  /\ UNCHANGED <<lifecycle, round, candidate>>
  /\ IF passed \subseteq roster THEN Pool!GetStats ELSE Pool!Add(passed)

\* Mutation: the guard against overlapping ticks is not lifted again.
FinishReplenishOnce ==
  /\ replenish = "reaping" \/ (replenish = "probing" /\ In("validating") = {} /\ passed = {})
  /\ replenish' = "reaping" /\ UNCHANGED <<lifecycle, round, passed>>
  /\ Reap

\* Eviction comes after admission, so that a replacement is on the roster first.
FinishReplenish ==
  /\ replenish = "reaping" \/ (replenish = "probing" /\ In("validating") = {} /\ passed = {})
  /\ replenish' = "idle" /\ UNCHANGED <<lifecycle, round, passed>>
  /\ Reap

\* start(): the first fetch (which may fail), then rounds of validation until
\* the floor is met, the list is used up or the rounds are.
Start ==
  /\ lifecycle = "off" /\ lifecycle' = "booting"
  /\ Registers /\ UNCHANGED <<round, replenish, passed>>
  /\ Pool!SupplyChanges

Enough == \/ UsableCapacity >= MinCapacity \/ In("candidate") = {}
          \/ round = BootstrapRounds

Bootstrap ==
  /\ lifecycle = "booting" /\ replenish = "idle"
  /\ IF Enough
     THEN /\ lifecycle' = "running" /\ UNCHANGED <<round, candidate, replenish, passed>>
          /\ Pool!GetStats
     ELSE /\ round' = round + 1 /\ UNCHANGED lifecycle
          /\ Replenish(MinCapacity)

\* The timers of a started source.
ReplenishTick ==
  /\ lifecycle = "running"
  /\ UNCHANGED <<lifecycle, round>>
  /\ Replenish(TargetCapacity)

RefreshTick ==
  /\ lifecycle = "running"
  /\ Registers /\ UNCHANGED <<lifecycle, round, replenish, passed>>
  /\ Pool!SupplyChanges

\* stop(), once the run is over: no more ticks, and no supply is published.  A
\* batch that is being probed still runs to its end.
Stop ==
  /\ lifecycle = "running" /\ \A j \in Jobs : jobState[j] = "idle"
  /\ lifecycle' = "stopped" /\ UNCHANGED <<round, candidate, replenish, passed>>
  /\ Pool!SupplyChanges

\* The jobs of the run, which begins when start has returned.
Use ==
  /\ lifecycle = "running" /\ UNCHANGED sourceVars
  /\ \E j \in Jobs : \/ Pool!Acquire(j) \/ Pool!Resume(j) \/ Pool!ReleaseSome(j)
                     \/ Pool!TimerFires(j) \/ Pool!Abort(j)

Tick == UNCHANGED sourceVars /\ Pool!Tick

Finished == lifecycle = "stopped" /\ replenish = "idle" /\ UNCHANGED vars

Next ==
  \/ Start \/ Bootstrap \/ ReplenishTick \/ RefreshTick \/ Stop
  \/ \E p \in Proxies, ok \in BOOLEAN : ProbeEnds(p, ok)
  \/ Admit \/ FinishReplenish
  \/ Use \/ Tick \/ Finished

Spec == Init /\ [][Next]_vars

\* Timers tick, and every probe ends by its own timeout.
Fairness ==
  /\ WF_vars(Start) /\ WF_vars(Bootstrap) /\ WF_vars(ReplenishTick)
  /\ \A p \in Proxies : WF_vars(\E ok \in BOOLEAN : ProbeEnds(p, ok))
  /\ WF_vars(Admit) /\ WF_vars(FinishReplenish)

FairSpec == Spec /\ Fairness

-----------------------------------------------------------------------------
(* Properties.                                                              *)

TypeOK ==
  /\ lifecycle \in {"off", "booting", "running", "stopped"}
  /\ round \in 0 .. BootstrapRounds
  /\ candidate \in [Proxies -> CandidateStates]
  /\ replenish \in {"idle", "probing", "reaping"}
  /\ passed \subseteq Proxies

\* The manager's records and the pool's roster agree: on the roster is what was
\* configured and what has been admitted, and nothing is admitted on paper only,
\* except the batch that is still being probed.
Recorded ==
  /\ roster \ configured = In("admitted") \ (passed \cup configured)
  /\ In("validating") \cup passed # {} => replenish = "probing"

\* The records are in order in every state, and a batch is asked for: it is never
\* larger than the whole target, whatever the list offers.
RosterMatchesRecords ==
  /\ TypeOK /\ Recorded
  /\ Cardinality(In("validating") \cup passed) <= TargetCapacity

\* A configured proxy, and one that has ever worked, is never taken off the
\* roster, and a cooling one only while enough that could return remain. A
\* rejected candidate is never tried again, however often it is listed.
EvictionIsNarrow ==
  [][LET gone == roster \ roster' IN
       /\ gone \cap configured = {}
       /\ \A p \in gone : entry[p].successes = 0 /\ entry[p].inFlight = 0
       /\ (\E p \in gone : ~entry[p].retired)
            => Cardinality({p \in roster' : ~entry'[p].retired}) >= MinCapacity
       /\ \A p \in Proxies :
            candidate[p] = "rejected" => /\ candidate'[p] = "rejected"
                                         /\ p \in roster' => p \in roster]_vars

\* A shortfall is answered for as long as there is anybody left to try.
ShortfallAnswered ==
  (lifecycle = "running" /\ UsableCapacity < TargetCapacity /\ In("candidate") # {})
    ~> (UsableCapacity >= TargetCapacity \/ In("candidate") = {} \/ lifecycle = "stopped")
=============================================================================
