------------------------------ MODULE ProxyPool ------------------------------
(***************************************************************************)
(* The single-process proxy pool (infrastructure/proxy/                    *)
(* in-memory-proxy-pool.ts) as the runner's jobs use it through            *)
(* StaticProxyProvider: jobs call acquire, hold a lease, and give it back  *)
(* together with one outcome.                                              *)
(*                                                                         *)
(* JavaScript runs one synchronous section at a time, so one action is one *)
(* run of code between two suspension points: a pass of the loop in        *)
(* acquire, one release (report first, then give back and wake), one       *)
(* timer callback.  Everything between two actions may interleave.         *)
(*                                                                         *)
(* Abstracted: the URL and label of an entry, the wall-clock fields that   *)
(* are only reported, the text of reasons, and the logger.  A proxy is its *)
(* id after identify() has disambiguated it.                               *)
(***************************************************************************)
EXTENDS Integers, FiniteSets

CONSTANTS
  Proxies,                 \* ids a proxy can have
  Jobs,                    \* concurrent callers of acquire
  Null,                    \* the value null
  MaxConsecutiveFailures,  \* strikes before a bench or a retirement
  CooldownMs,              \* length of a bench, in ticks
  MaxConcurrentPerProxy,   \* ceiling on leases of one proxy; 0 is unlimited
  ProbationConcurrency,    \* slots a proxy starts with and never falls below
  ExplorationPeriod,       \* one lease in this many explores; 0 is never
  RequireProxy,            \* a source feeds the pool: never go direct
  AcquireWaitMs,           \* budget of one acquire, in ticks
  MaxAcquires,             \* BOUND: acquires one job makes
  MaxTime                  \* BOUND: the last tick of the clock

ASSUME PoolAssumption ==
  /\ IsFiniteSet(Proxies) /\ IsFiniteSet(Jobs)
  /\ MaxConsecutiveFailures \in Nat \ {0}
  /\ CooldownMs \in Nat
  /\ MaxConcurrentPerProxy \in Nat
  /\ ProbationConcurrency \in Nat \ {0}
  /\ ExplorationPeriod \in Nat
  /\ RequireProxy \in BOOLEAN
  /\ AcquireWaitMs \in Nat
  /\ MaxAcquires \in Nat /\ MaxTime \in Nat
  /\ Null \notin Nat
  /\ Null \notin [id : Proxies, generation : Nat]
  /\ Null \notin {"consecutive_failures", "unsuitable_exit", "detected_block"}

VARIABLES
  now,                \* the clock the pool reads
  configured,         \* the targets the constructor was given; never changes
  roster,             \* ids in `entries`
  entry,              \* the entry of each id; the last one kept when evicted
  sequence,           \* checkout counter behind least-recently-used order
  exploreCredit,      \* leases to established proxies since an exploration
  poolExhaustedCount, \* acquires refused with proxy_error
  supply,             \* whether the source reports candidates or validations
  announced,          \* the health of each proxy last passed to onEvent
  jobState,           \* where each job is with respect to the pool
  lease,              \* what each job holds
  deadline,           \* end of the budget of the acquire a job is in
  timer,              \* when a parked job's timer fires, or Null
  aborted,            \* whether a job's signal has been aborted
  acquires            \* acquires each job has begun

poolVars == <<roster, entry, sequence, exploreCredit, poolExhaustedCount,
              announced>>
jobVars  == <<jobState, lease, deadline, timer, aborted, acquires>>
vars     == <<now, configured, supply, poolVars, jobVars>>

Outcomes   == {"success", "blocked", "unsuitable", "failure", "neutral"}
BlockKinds == {"consecutive_failures", "unsuitable_exit", "detected_block"}
Healths    == {"untested", "probation", "healthy", "cooling", "retired"}
Leases     == [id : Proxies, generation : Nat]
JobStates  == {"idle", "parked", "woken", "leased", "direct"}

Entry == [requests : Nat, successes : Nat, failures : Nat,
          consecutiveFailures : Nat, consecutiveUnsuitable : Nat,
          blocked : BOOLEAN, retired : BOOLEAN,
          cooldownUntil : Nat \cup {Null}, blockKind : BlockKinds \cup {Null},
          inFlight : Nat, trustedSlots : Nat, lastUsedSeq : Nat,
          generation : Nat]

Fresh == [requests |-> 0, successes |-> 0, failures |-> 0,
          consecutiveFailures |-> 0, consecutiveUnsuitable |-> 0,
          blocked |-> FALSE, retired |-> FALSE,
          cooldownUntil |-> Null, blockKind |-> Null,
          inFlight |-> 0, trustedSlots |-> ProbationConcurrency,
          lastUsedSeq |-> 0, generation |-> 0]

-----------------------------------------------------------------------------
(* Reading one entry.                                                       *)

Lesser(a, b)  == IF a <= b THEN a ELSE b
Greater(a, b) == IF a >= b THEN a ELSE b

Usable(e) == /\ ~e.retired
             /\ e.cooldownUntil = Null \/ e.cooldownUntil <= now

\* Slots the proxy may hold; a proven proxy of an unlimited pool has no bound.
Unbounded(e) == MaxConcurrentPerProxy = 0 /\ e.successes > 0
CapacityOf(e) == IF MaxConcurrentPerProxy = 0
                 THEN ProbationConcurrency
                 ELSE Lesser(MaxConcurrentPerProxy, e.trustedSlots)

HasCapacity(e) == Unbounded(e) \/ e.inFlight < CapacityOf(e)

HealthOf(e) ==
  CASE e.retired                                      -> "retired"
    [] ~e.retired /\ ~Usable(e)                       -> "cooling"
    [] Usable(e) /\ e.requests = 0                    -> "untested"
    [] Usable(e) /\ e.requests > 0
       /\ e.successes > 0 /\ e.consecutiveFailures = 0 -> "healthy"
    [] OTHER                                          -> "probation"

-----------------------------------------------------------------------------
(* Changing one entry.                                                      *)

EarnTrust(e) ==
  [e EXCEPT !.trustedSlots = IF MaxConcurrentPerProxy = 0
                             THEN 2 * @
                             ELSE Lesser(MaxConcurrentPerProxy, 2 * @)]

LoseTrust(e) ==
  [e EXCEPT !.trustedSlots = Greater(ProbationConcurrency, @ \div 2)]

\* The bookkeeping of transition(): a proxy back in rotation sheds its reason.
Settled(before, after) ==
  IF HealthOf(before) # HealthOf(after) /\ HealthOf(after) \notin {"cooling", "retired"}
  THEN [after EXCEPT !.blockKind = Null]
  ELSE after

Credited(e) ==
  LET trusted == EarnTrust([e EXCEPT !.consecutiveFailures = 0,
                                     !.consecutiveUnsuitable = 0])
  IN  IF Usable(e)
      THEN [trusted EXCEPT !.cooldownUntil = Null, !.blockKind = Null]
      ELSE trusted

\* Mutation: a strike leaves the leases that are still out current.
StruckSameGeneration(e) ==
  LoseTrust([e EXCEPT !.consecutiveFailures = Lesser(MaxConsecutiveFailures, @ + 1)])
Struck(e) ==
  LoseTrust([e EXCEPT !.generation = @ + 1,
                      !.consecutiveFailures = Lesser(MaxConsecutiveFailures, @ + 1)])

Failed(e) ==
  LET struck == Struck(e)
  IN  IF struck.consecutiveFailures >= MaxConsecutiveFailures
      THEN [struck EXCEPT !.cooldownUntil = now + CooldownMs,
                          !.blockKind = "consecutive_failures"]
      ELSE struck

Blocked(e) == [Struck(e) EXCEPT !.blocked = TRUE,
                                !.cooldownUntil = now + CooldownMs,
                                !.blockKind = "detected_block"]

Unsuitable(e) ==
  LET struck == LoseTrust([e EXCEPT !.generation = @ + 1,
                  !.consecutiveUnsuitable = Lesser(MaxConsecutiveFailures, @ + 1)])
  IN  IF struck.consecutiveUnsuitable >= MaxConsecutiveFailures
      THEN [struck EXCEPT !.retired = TRUE, !.blocked = TRUE,
                          !.blockKind = "unsuitable_exit"]
      ELSE struck

\* Counted always; only a lease of the current generation is health evidence.
\* Mutation: any success ends the bench, the straggler's included.
ReportSuccessStraggler(e, current) ==
  LET credited == EarnTrust([e EXCEPT !.successes = @ + 1, !.consecutiveFailures = 0])
  IN  Settled(e, [credited EXCEPT !.cooldownUntil = Null, !.blockKind = Null])

ReportSuccess(e, current) ==
  LET counted == [e EXCEPT !.successes = @ + 1]
  IN  Settled(e, IF current THEN Credited(counted) ELSE counted)
ReportFailure(e, current) ==
  LET counted == [e EXCEPT !.failures = @ + 1]
  IN  Settled(e, IF current THEN Failed(counted) ELSE counted)
ReportUnsuitable(e, current) ==
  LET counted == [e EXCEPT !.failures = @ + 1]
  IN  Settled(e, IF current THEN Unsuitable(counted) ELSE counted)
MarkBlocked(e, current) ==
  LET counted == [e EXCEPT !.failures = @ + 1]
  IN  Settled(e, IF current THEN Blocked(counted) ELSE counted)

Reported(e, outcome, current) ==
  CASE outcome = "success"    -> ReportSuccess(e, current)
    [] outcome = "blocked"    -> MarkBlocked(e, current)
    [] outcome = "unsuitable" -> ReportUnsuitable(e, current)
    [] outcome = "failure"    -> ReportFailure(e, current)
    [] OTHER                  -> e

-----------------------------------------------------------------------------
(* Sweeping the roster and choosing from it.                                *)

Expired(e) == ~e.retired /\ e.cooldownUntil # Null /\ e.cooldownUntil <= now

Recovered(e) == [e EXCEPT !.cooldownUntil = Null, !.blocked = FALSE,
                          !.blockKind = Null, !.consecutiveFailures = 0,
                          !.generation = @ + 1]

Refreshed == [p \in Proxies |-> IF p \in roster /\ Expired(entry[p])
                                THEN Recovered(entry[p])
                                ELSE entry[p]]

\* Mutation: recoveries are swept without being announced.
AnnouncedByRefreshSilent == announced

\* What onEvent has said once the sweep has emitted its recoveries.
AnnouncedByRefresh ==
  [p \in Proxies |-> IF p \in roster /\ Expired(entry[p])
                     THEN HealthOf(Recovered(entry[p]))
                     ELSE announced[p]]

\* Mutation: only retirement takes a proxy out of rotation.
HealthyIgnoringCooldown == {p \in roster : ~entry[p].retired}
Healthy == {p \in roster : Usable(entry[p])}
Free    == {p \in Healthy : HasCapacity(entry[p])}

\* The minima of S under a strict order; ties fall to entry order in the code.
Best(S, Less(_, _)) == {p \in S : \A q \in S : ~Less(entry[q], entry[p])}

LessRecent(d, e) == d.lastUsedSeq < e.lastUsedSeq

\* inFlight / capacity, compared without dividing.
LessLoaded(d, e) ==
  LET dLoad == d.inFlight * CapacityOf(e)
      eLoad == e.inFlight * CapacityOf(d)
  IN  IF MaxConcurrentPerProxy # 0 /\ dLoad # eLoad
      THEN dLoad < eLoad ELSE LessRecent(d, e)

LessTried(d, e) == IF d.requests # e.requests
                   THEN d.requests < e.requests ELSE LessRecent(d, e)

PickEstablished(S) == Best(S, LessLoaded)
PickUnproven(S)    == Best(S, LessTried)

Established == {p \in Free : entry[p].successes > 0}
Unproven    == {p \in Free : entry[p].successes = 0}
Exploring   == ExplorationPeriod > 0 /\ exploreCredit >= ExplorationPeriod - 1

\* select(): the proxy leased next, and the exploration credit it leaves.
Select(p, credit) ==
  \/ /\ Unproven = {}
     /\ p \in PickEstablished(Established) /\ credit = exploreCredit
  \/ /\ Unproven # {} /\ Established = {}
     /\ p \in PickUnproven(Unproven) /\ credit = exploreCredit
  \/ /\ Unproven # {} /\ Established # {} /\ Exploring
     /\ p \in PickUnproven(Unproven) /\ credit = 0
  \/ /\ Unproven # {} /\ Established # {} /\ ~Exploring
     /\ p \in PickEstablished(Established) /\ credit = exploreCredit + 1

BenchedUntil == {entry[p].cooldownUntil :
                   p \in {q \in roster : /\ ~entry[q].retired
                                         /\ entry[q].cooldownUntil # Null
                                         /\ entry[q].cooldownUntil > now}}
\* earliestEligibleAt(): the first of the benches that are still running.
EarliestEligibleAt(t) == t \in BenchedUntil /\ \A u \in BenchedUntil : t <= u

-----------------------------------------------------------------------------
(* The initial state and the operations.                                    *)

Init ==
  /\ now = 0
  /\ configured \in SUBSET Proxies
  /\ roster = configured
  /\ entry = [p \in Proxies |-> Fresh]
  /\ sequence = 0 /\ exploreCredit = 0 /\ poolExhaustedCount = 0
  /\ supply = FALSE
  /\ announced = [p \in Proxies |-> "untested"]
  /\ jobState = [j \in Jobs |-> "idle"]
  /\ lease = [j \in Jobs |-> Null]
  /\ deadline = [j \in Jobs |-> 0]
  /\ timer = [j \in Jobs |-> Null]
  /\ aborted = [j \in Jobs |-> FALSE]
  /\ acquires = [j \in Jobs |-> 0]

\* Mutation: nobody is woken.
WakeNobody(state) == jobState' = state /\ timer' = timer

\* wakeWaiters(): a broadcast; each waiter cancels its own timer.
WakeWaiters(state) ==
  /\ jobState' = [i \in Jobs |-> IF state[i] = "parked" THEN "woken" ELSE state[i]]
  /\ timer' = [i \in Jobs |-> Null]

\* What a pass of the loop leaves behind when it does not lease a proxy.
Swept == /\ entry' = Refreshed
         /\ announced' = AnnouncedByRefresh

\* Mutation: a pool whose proxies are all out of rotation goes direct.
GoDirectWhenBenched(j) ==
  /\ Healthy = {} /\ ~RequireProxy
  /\ jobState' = [jobState EXCEPT ![j] = "direct"]
  /\ Swept
  /\ UNCHANGED <<roster, sequence, exploreCredit, poolExhaustedCount, lease, timer>>

\* An empty roster and no source: no proxy was ever configured.
GoDirect(j) ==
  /\ roster = {} /\ ~RequireProxy
  /\ jobState' = [jobState EXCEPT ![j] = "direct"]
  /\ Swept
  /\ UNCHANGED <<roster, sequence, exploreCredit, poolExhaustedCount, lease, timer>>

CheckedOut(e) == [e EXCEPT !.inFlight = @ + 1, !.requests = @ + 1,
                           !.lastUsedSeq = sequence + 1]

Grant(j) ==
  \E p \in Free, credit \in {0, exploreCredit, exploreCredit + 1} :
    /\ Select(p, credit)
    /\ entry' = [Refreshed EXCEPT ![p] = CheckedOut(@)]
    /\ announced' = AnnouncedByRefresh
    /\ sequence' = sequence + 1
    /\ exploreCredit' = credit
    /\ lease' = [lease EXCEPT ![j] = [id |-> p, generation |-> Refreshed[p].generation]]
    /\ jobState' = [jobState EXCEPT ![j] = "leased"]
    /\ UNCHANGED <<roster, poolExhaustedCount, timer>>

\* Usable proxies, all full: wait without a timer for a lease to come back.
ParkForSlot(j) ==
  /\ Healthy # {} /\ Free = {}
  /\ jobState' = [jobState EXCEPT ![j] = "parked"]
  /\ Swept
  /\ UNCHANGED <<roster, sequence, exploreCredit, poolExhaustedCount, lease, timer>>

\* A bench that ends within the budget is worth waiting out.
CooldownWorthIt(budget) == \E t \in BenchedUntil : t - now <= budget

\* Nothing usable and nothing to wait for, or no budget left to wait with.
Exhausted(j, budget) ==
  /\ Healthy = {} /\ (roster = {} => RequireProxy)
  /\ budget <= 0 \/ (~CooldownWorthIt(budget) /\ ~supply)
  /\ poolExhaustedCount' = poolExhaustedCount + 1
  /\ jobState' = [jobState EXCEPT ![j] = "idle"]
  /\ Swept
  /\ UNCHANGED <<roster, sequence, exploreCredit, lease, timer>>

\* Nothing usable yet: wait for the bench, or the budget, that ends first.
ParkForRecovery(j, budget) ==
  /\ Healthy = {} /\ (roster = {} => RequireProxy)
  /\ budget > 0
  /\ \E until \in BenchedUntil \cup {now + budget} :
       /\ IF CooldownWorthIt(budget)
          THEN EarliestEligibleAt(until)
          ELSE supply /\ until = now + budget
       /\ timer' = [timer EXCEPT ![j] = until]
  /\ jobState' = [jobState EXCEPT ![j] = "parked"]
  /\ Swept
  /\ UNCHANGED <<roster, sequence, exploreCredit, poolExhaustedCount, lease>>

\* The signal was aborted before the pass: acquire throws, pool untouched.
AcquireThrows(j) ==
  /\ jobState' = [jobState EXCEPT ![j] = "idle"]
  /\ UNCHANGED <<poolVars, lease, timer>>

Pass(j, budget) ==
  \/ aborted[j] /\ AcquireThrows(j)
  \/ ~aborted[j] /\ \/ GoDirect(j)
                    \/ Grant(j)
                    \/ ParkForSlot(j)
                    \/ Exhausted(j, budget)
                    \/ ParkForRecovery(j, budget)

CanAcquire(j) == /\ jobState[j] = "idle"
                 /\ acquires[j] < MaxAcquires
                 /\ now + AcquireWaitMs <= MaxTime

Acquire(j) ==
  /\ CanAcquire(j)
  /\ acquires' = [acquires EXCEPT ![j] = @ + 1]
  /\ deadline' = [deadline EXCEPT ![j] = now + AcquireWaitMs]
  /\ Pass(j, AcquireWaitMs)
  /\ UNCHANGED <<now, configured, supply, aborted>>

Resume(j) ==
  /\ jobState[j] = "woken"
  /\ Pass(j, deadline[j] - now)
  /\ UNCHANGED <<now, configured, supply, aborted, acquires, deadline>>

\* The entry once a lease of it is reported and given back, in that order.
Returned(e, outcome, current) ==
  [Reported(e, outcome, current) EXCEPT !.inFlight = IF @ > 0 THEN @ - 1 ELSE @]

\* StaticProxyProvider.release: record the outcome, then return and wake.
Release(j, outcome) ==
  /\ jobState[j] = "leased"
  /\ LET p == lease[j].id
         returned == Returned(entry[p], outcome, lease[j].generation = entry[p].generation)
     IN  /\ entry' = [entry EXCEPT ![p] = returned]
         /\ announced' = [announced EXCEPT ![p] =
                            IF HealthOf(returned) # HealthOf(entry[p])
                            THEN HealthOf(returned) ELSE @]
  /\ WakeWaiters([jobState EXCEPT ![j] = "idle"])
  /\ lease' = [lease EXCEPT ![j] = Null]
  /\ UNCHANGED <<now, configured, supply, roster, sequence, exploreCredit,
                 poolExhaustedCount, deadline, aborted, acquires>>

\* A request sent without a proxy ends; the pool is not told.
FinishDirect(j) ==
  /\ jobState[j] = "direct"
  /\ jobState' = [jobState EXCEPT ![j] = "idle"]
  /\ UNCHANGED <<now, configured, supply, poolVars, lease, deadline, timer, aborted, acquires>>

TimerFires(j) ==
  /\ jobState[j] = "parked" /\ timer[j] # Null /\ timer[j] <= now
  /\ jobState' = [jobState EXCEPT ![j] = "woken"]
  /\ timer' = [timer EXCEPT ![j] = Null]
  /\ UNCHANGED <<now, configured, supply, poolVars, lease, deadline, aborted, acquires>>

\* The caller's signal aborts; a parked job hears it, any other sees it later.
Abort(j) ==
  /\ ~aborted[j]
  /\ aborted' = [aborted EXCEPT ![j] = TRUE]
  /\ jobState' = [jobState EXCEPT ![j] = IF @ = "parked" THEN "woken" ELSE @]
  /\ timer' = [timer EXCEPT ![j] = Null]
  /\ UNCHANGED <<now, configured, supply, poolVars, lease, deadline, acquires>>

\* The proxies in `targets` the pool does not hold yet are admitted, the waiters
\* are woken, and the source reads the capacity it has reached, which sweeps.
Add(targets) ==
  /\ RequireProxy /\ targets \ roster # {}
  /\ roster' = roster \cup targets
  /\ entry' = [p \in Proxies |-> IF p \in targets \ roster THEN Fresh ELSE Refreshed[p]]
  /\ announced' = [p \in Proxies |-> IF p \in targets \ roster THEN "untested"
                                    ELSE AnnouncedByRefresh[p]]
  /\ WakeWaiters(jobState)
  /\ UNCHANGED <<now, configured, supply, sequence, exploreCredit, poolExhaustedCount,
                 lease, deadline, aborted, acquires>>

\* evict() refuses a proxy that is leased; the source reads the stats, which
\* sweeps, and then evicts as many as it likes.
Evictable == {p \in roster : entry[p].inFlight = 0}
Evict(victims) ==
  /\ RequireProxy /\ victims \subseteq Evictable
  /\ roster' = roster \ victims
  /\ Swept
  /\ UNCHANGED <<now, configured, supply, sequence, exploreCredit, poolExhaustedCount,
                 jobVars>>

\* getStats(): every progress line and every replenish tick sweeps the roster;
\* a source that reads it may go on to take candidates.
GetStats ==
  /\ Swept
  /\ UNCHANGED supply \/ (RequireProxy /\ supply' \in BOOLEAN)
  /\ UNCHANGED <<now, configured, roster, sequence, exploreCredit,
                 poolExhaustedCount, jobVars>>

\* The source's published counters move without the pool being called.
SupplyChanges ==
  /\ RequireProxy
  /\ supply' \in BOOLEAN
  /\ UNCHANGED <<now, configured, poolVars, jobVars>>

Tick ==
  /\ now < MaxTime
  /\ now' = now + 1
  /\ UNCHANGED <<configured, supply, poolVars, jobVars>>

\* The run is over: no job is in an acquire or can begin one.
Finished ==
  /\ \A j \in Jobs : jobState[j] = "idle" /\ ~CanAcquire(j)
  /\ UNCHANGED vars

ReleaseSome(j) == \E outcome \in Outcomes : Release(j, outcome)

Next ==
  \/ \E j \in Jobs : \/ Acquire(j) \/ Resume(j) \/ ReleaseSome(j)
                     \/ FinishDirect(j) \/ TimerFires(j) \/ Abort(j)
  \/ \E targets \in SUBSET Proxies : Add(targets) \/ Evict(targets)
  \/ GetStats \/ SupplyChanges \/ Tick \/ Finished

Spec == Init /\ [][Next]_vars

\* The event loop runs what is ready, time passes, and a request ends because
\* the runner gives every attempt a timeout.  Nobody has to abort or to acquire.
Fairness ==
  /\ WF_vars(Tick)
  /\ \A j \in Jobs : /\ WF_vars(Resume(j))
                     /\ WF_vars(TimerFires(j))
                     /\ WF_vars(ReleaseSome(j))

FairSpec == Spec /\ Fairness

-----------------------------------------------------------------------------
(* Properties.                                                              *)

Holds(j, p) == jobState[j] = "leased" /\ lease[j].id = p
Holders(p)  == {j \in Jobs : Holds(j, p)}
Benched(e)  == e.cooldownUntil # Null

TypeOK ==
  /\ now \in Nat
  /\ configured \subseteq Proxies /\ roster \subseteq Proxies
  /\ entry \in [Proxies -> Entry]
  /\ sequence \in Nat /\ exploreCredit \in Nat /\ poolExhaustedCount \in Nat
  /\ supply \in BOOLEAN
  /\ announced \in [Proxies -> Healths]
  /\ jobState \in [Jobs -> JobStates]
  /\ lease \in [Jobs -> Leases \cup {Null}]
  /\ \A j \in Jobs : (lease[j] # Null) <=> (jobState[j] = "leased")
  /\ deadline \in [Jobs -> Nat]
  /\ timer \in [Jobs -> Nat \cup {Null}]
  /\ \A j \in Jobs : timer[j] # Null => jobState[j] = "parked"
  /\ aborted \in [Jobs -> BOOLEAN]
  /\ acquires \in [Jobs -> Nat]

\* inFlight of a proxy is exactly the number of jobs holding it, through every
\* interleaving of acquires, releases, admissions and evictions, and no job
\* ever holds a lease on an entry that was evicted underneath it.
LeaseAccounting ==
  /\ \A p \in roster : entry[p].inFlight = Cardinality(Holders(p))
  /\ \A j \in Jobs : jobState[j] = "leased" => lease[j].id \in roster

\* The ceiling holds although capacity shrinks under outstanding leases, and a
\* proxy that has never succeeded is never held beyond the probation floor.
WithinCeiling ==
  \A p \in roster :
    /\ MaxConcurrentPerProxy > 0 => entry[p].inFlight <= MaxConcurrentPerProxy
    /\ entry[p].successes = 0 => entry[p].inFlight <= ProbationConcurrency

\* A lease whose report can still change health belongs to a proxy that is in
\* rotation: benching or retiring makes every outstanding lease stale, which is
\* what keeps a straggler from cancelling or extending the sentence.
CurrentLeaseInRotation ==
  \A j \in Jobs : \A p \in Proxies :
    Holds(j, p) /\ lease[j].generation = entry[p].generation
      => ~Benched(entry[p]) /\ ~entry[p].retired /\ ~entry[p].blocked

\* The books of the leases in every state: what is counted, within the limits,
\* and by whose report health may still change.
LeasesInOrder == TypeOK /\ LeaseAccounting /\ WithinCeiling /\ CurrentLeaseInRotation

\* A bench is served in full and exactly once, and retirement is for good, for
\* as long as the entry stays on the roster.
SentenceServed ==
  [][\A p \in roster \cap roster' :
       /\ Benched(entry[p]) => \/ entry'[p].cooldownUntil = entry[p].cooldownUntil
                               \/ /\ entry'[p].cooldownUntil = Null
                                  /\ now >= entry[p].cooldownUntil
       /\ entry[p].retired => entry'[p].retired]_vars

\* Some lease is outstanding whenever a job waits without a timer, so the
\* release that ends the wait is still to come: no wakeup can be lost.
NoStrandedWaiter ==
  (\E j \in Jobs : jobState[j] = "parked" /\ timer[j] = Null)
    => \E j \in Jobs : jobState[j] = "leased"

\* The pool never falls back to a direct connection while a source feeds it or
\* any proxy is configured, however many of them are benched or retired.
NeverSilentlyDirect ==
  \A j \in Jobs : jobState[j] = "direct" => ~RequireProxy /\ configured = {}

\* The listener's last word on a proxy is its health, unless a bench has run
\* out and no sweep has noticed, or the only change was its first lease.
EventsTrackHealth ==
  \A p \in roster :
    \/ announced[p] = HealthOf(entry[p])
    \/ announced[p] = "cooling" /\ Expired(entry[p])
    \/ announced[p] = "untested" /\ HealthOf(entry[p]) = "probation"

\* Every acquire that waits ends: with a lease, an error or an abort.
AcquireSettles ==
  \A j \in Jobs : jobState[j] \in {"parked", "woken"} ~> jobState[j] \in {"leased", "idle"}

\* The pool implements LeasedPool: leases are exclusive to their job, bounded,
\* only on proxies in rotation; only time ends a bench; nothing ends retirement.
Standing == [p \in Proxies |-> IF p \notin roster THEN "out"
                               ELSE IF entry[p].retired THEN "retired"
                               ELSE IF Usable(entry[p]) THEN "in" ELSE "benched"]
HeldBy   == [p \in Proxies |-> Holders(p)]
Promise  == INSTANCE LeasedPool WITH standing <- Standing, holders <- HeldBy
ImplementsLeasedPool == Promise!LeasedSpec

\* What the comment on acquire says: its waiting is bounded by acquireWaitMs,
\* so past the deadline a waiter has a due timer to end the wait.
WaitBoundedByBudget ==
  \A j \in Jobs : jobState[j] = "parked" /\ now > deadline[j] => timer[j] # Null
=============================================================================
