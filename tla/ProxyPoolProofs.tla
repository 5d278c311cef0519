-------------------------- MODULE ProxyPoolProofs --------------------------
(* Proofs about ProxyPool, for every set of proxies and of jobs.            *)
EXTENDS ProxyPool, FiniteSetTheorems, TLAPS

-----------------------------------------------------------------------------
(* An entry stays an entry when one field is replaced.                      *)

LEMMA SetRequests ==
  ASSUME NEW e \in Entry, NEW v \in Nat PROVE [e EXCEPT !.requests = v] \in Entry
  BY DEF Entry

LEMMA SetSuccesses ==
  ASSUME NEW e \in Entry, NEW v \in Nat PROVE [e EXCEPT !.successes = v] \in Entry
  BY DEF Entry

LEMMA SetFailures ==
  ASSUME NEW e \in Entry, NEW v \in Nat PROVE [e EXCEPT !.failures = v] \in Entry
  BY DEF Entry

LEMMA SetStrikes ==
  ASSUME NEW e \in Entry, NEW v \in Nat PROVE [e EXCEPT !.consecutiveFailures = v] \in Entry
  BY DEF Entry

LEMMA SetUnsuitables ==
  ASSUME NEW e \in Entry, NEW v \in Nat PROVE [e EXCEPT !.consecutiveUnsuitable = v] \in Entry
  BY DEF Entry

LEMMA SetBlocked ==
  ASSUME NEW e \in Entry, NEW v \in BOOLEAN PROVE [e EXCEPT !.blocked = v] \in Entry
  BY DEF Entry

LEMMA SetRetired ==
  ASSUME NEW e \in Entry, NEW v \in BOOLEAN PROVE [e EXCEPT !.retired = v] \in Entry
  BY DEF Entry

LEMMA SetCooldown ==
  ASSUME NEW e \in Entry, NEW v \in Nat \cup {Null} PROVE [e EXCEPT !.cooldownUntil = v] \in Entry
  BY DEF Entry

LEMMA SetKind ==
  ASSUME NEW e \in Entry, NEW v \in BlockKinds \cup {Null} PROVE [e EXCEPT !.blockKind = v] \in Entry
  BY DEF Entry

LEMMA SetInFlight ==
  ASSUME NEW e \in Entry, NEW v \in Nat PROVE [e EXCEPT !.inFlight = v] \in Entry
  BY DEF Entry

LEMMA SetTrust ==
  ASSUME NEW e \in Entry, NEW v \in Nat PROVE [e EXCEPT !.trustedSlots = v] \in Entry
  BY DEF Entry

LEMMA SetSeq ==
  ASSUME NEW e \in Entry, NEW v \in Nat PROVE [e EXCEPT !.lastUsedSeq = v] \in Entry
  BY DEF Entry

LEMMA SetGeneration ==
  ASSUME NEW e \in Entry, NEW v \in Nat PROVE [e EXCEPT !.generation = v] \in Entry
  BY DEF Entry

-----------------------------------------------------------------------------
(* Every operation on an entry yields an entry.                             *)

LEMMA LesserType == ASSUME NEW a \in Nat, NEW b \in Nat PROVE Lesser(a, b) \in Nat
  BY DEF Lesser

LEMMA GreaterType == ASSUME NEW a \in Nat, NEW b \in Nat PROVE Greater(a, b) \in Nat
  BY DEF Greater

LEMMA HealthOfType == ASSUME NEW e PROVE HealthOf(e) \in Healths
  BY DEF HealthOf, Healths

LEMMA FreshType == Fresh \in Entry
  BY PoolAssumption DEF Fresh, Entry

LEMMA LoseTrustType == ASSUME NEW e \in Entry PROVE LoseTrust(e) \in Entry
  <1>1. e.trustedSlots \div 2 \in Nat
    BY DEF Entry
  <1>2. Greater(ProbationConcurrency, e.trustedSlots \div 2) \in Nat
    BY <1>1, PoolAssumption DEF Greater
  <1> QED BY <1>2, SetTrust DEF LoseTrust

LEMMA EarnTrustType == ASSUME NEW e \in Entry PROVE EarnTrust(e) \in Entry
  <1>1. 2 * e.trustedSlots \in Nat
    BY DEF Entry
  <1>2. Lesser(MaxConcurrentPerProxy, 2 * e.trustedSlots) \in Nat
    BY <1>1, PoolAssumption DEF Lesser
  <1> QED BY <1>1, <1>2, SetTrust DEF EarnTrust

LEMMA StruckType == ASSUME NEW e \in Entry PROVE Struck(e) \in Entry
  <1>1. /\ e.generation + 1 \in Nat
        /\ Lesser(MaxConsecutiveFailures, e.consecutiveFailures + 1) \in Nat
    BY PoolAssumption DEF Lesser, Entry
  <1>2. [e EXCEPT !.generation = @ + 1,
                  !.consecutiveFailures = Lesser(MaxConsecutiveFailures, @ + 1)] \in Entry
    BY <1>1, SetGeneration, SetStrikes
  <1> QED BY <1>2, LoseTrustType DEF Struck

LEMMA BenchEnd == ASSUME now \in Nat PROVE now + CooldownMs \in Nat \cup {Null}
  BY PoolAssumption

LEMMA KindType == /\ Null \in BlockKinds \cup {Null}
                  /\ \A k \in BlockKinds : k \in BlockKinds \cup {Null}
                  /\ "consecutive_failures" \in BlockKinds \cup {Null}
                  /\ "detected_block" \in BlockKinds \cup {Null}
                  /\ "unsuitable_exit" \in BlockKinds \cup {Null}
  BY DEF BlockKinds

LEMMA FailedType ==
  ASSUME NEW e \in Entry, now \in Nat PROVE Failed(e) \in Entry
  <1>1. Struck(e) \in Entry
    BY StruckType
  <1>2. [Struck(e) EXCEPT !.cooldownUntil = now + CooldownMs,
                          !.blockKind = "consecutive_failures"] \in Entry
    BY <1>1, BenchEnd, KindType, SetCooldown, SetKind
  <1> QED BY <1>1, <1>2 DEF Failed

LEMMA BlockedType ==
  ASSUME NEW e \in Entry, now \in Nat PROVE Blocked(e) \in Entry
  <1>1. Struck(e) \in Entry
    BY StruckType
  <1>2. [Struck(e) EXCEPT !.blocked = TRUE] \in Entry
    BY <1>1, SetBlocked
  <1>3. [[Struck(e) EXCEPT !.blocked = TRUE] EXCEPT !.cooldownUntil = now + CooldownMs] \in Entry
    BY <1>2, BenchEnd, SetCooldown
  <1> QED BY <1>3, KindType, SetKind DEF Blocked

LEMMA UnsuitableType == ASSUME NEW e \in Entry PROVE Unsuitable(e) \in Entry
  <1> DEFINE d == [e EXCEPT !.generation = @ + 1,
                  !.consecutiveUnsuitable = Lesser(MaxConsecutiveFailures, @ + 1)]
             l == LoseTrust(d)
  <1>1. /\ e.generation + 1 \in Nat
        /\ Lesser(MaxConsecutiveFailures, e.consecutiveUnsuitable + 1) \in Nat
    BY PoolAssumption DEF Lesser, Entry
  <1>2. d \in Entry
    BY <1>1, SetGeneration, SetUnsuitables
  <1>3. l \in Entry
    BY <1>2, LoseTrustType
  <1> HIDE DEF l
  <1>4. [l EXCEPT !.retired = TRUE, !.blocked = TRUE] \in Entry
    BY <1>3, SetRetired, SetBlocked
  <1>5. [[l EXCEPT !.retired = TRUE, !.blocked = TRUE] EXCEPT !.blockKind = "unsuitable_exit"] \in Entry
    BY <1>4, KindType, SetKind
  <1> QED BY <1>3, <1>5 DEF Unsuitable, l

LEMMA CreditedType == ASSUME NEW e \in Entry PROVE Credited(e) \in Entry
  <1> DEFINE d == [e EXCEPT !.consecutiveFailures = 0, !.consecutiveUnsuitable = 0]
             t == EarnTrust(d)
  <1>1. d \in Entry
    BY SetStrikes, SetUnsuitables
  <1>2. t \in Entry
    BY <1>1, EarnTrustType
  <1> HIDE DEF t
  <1>3. [t EXCEPT !.cooldownUntil = Null, !.blockKind = Null] \in Entry
    BY <1>2, SetCooldown, SetKind
  <1> QED BY <1>2, <1>3 DEF Credited, t

LEMMA SettledType ==
  ASSUME NEW before, NEW after \in Entry PROVE Settled(before, after) \in Entry
  BY SetKind, KindType DEF Settled

LEMMA ReportedType ==
  ASSUME NEW e \in Entry, NEW o, NEW c \in BOOLEAN, now \in Nat
  PROVE  Reported(e, o, c) \in Entry
  <1>1. [e EXCEPT !.successes = @ + 1] \in Entry
    BY SetSuccesses DEF Entry
  <1>2. [e EXCEPT !.failures = @ + 1] \in Entry
    BY SetFailures DEF Entry
  <1>3. ReportSuccess(e, c) \in Entry
    BY <1>1, CreditedType, SettledType DEF ReportSuccess
  <1>4. ReportFailure(e, c) \in Entry
    BY <1>2, FailedType, SettledType DEF ReportFailure
  <1>5. ReportUnsuitable(e, c) \in Entry
    BY <1>2, UnsuitableType, SettledType DEF ReportUnsuitable
  <1>6. MarkBlocked(e, c) \in Entry
    BY <1>2, BlockedType, SettledType DEF MarkBlocked
  <1> QED BY <1>3, <1>4, <1>5, <1>6 DEF Reported

LEMMA ReturnedType ==
  ASSUME NEW e \in Entry, NEW o, NEW c \in BOOLEAN, now \in Nat
  PROVE  Returned(e, o, c) \in Entry
  <1> DEFINE r == Reported(e, o, c)
  <1>1. r \in Entry
    BY ReportedType
  <1> HIDE DEF r
  <1>2. (IF r.inFlight > 0 THEN r.inFlight - 1 ELSE r.inFlight) \in Nat
    BY <1>1 DEF Entry
  <1> QED BY <1>1, <1>2, SetInFlight DEF Returned, r

LEMMA RecoveredType == ASSUME NEW e \in Entry PROVE Recovered(e) \in Entry
  <1>1. [e EXCEPT !.cooldownUntil = Null, !.blocked = FALSE] \in Entry
    BY SetCooldown, SetBlocked
  <1>2. [[e EXCEPT !.cooldownUntil = Null, !.blocked = FALSE]
           EXCEPT !.blockKind = Null, !.consecutiveFailures = 0] \in Entry
    BY <1>1, KindType, SetKind, SetStrikes
  <1>3. e.generation + 1 \in Nat
    BY DEF Entry
  <1> QED BY <1>2, <1>3, SetGeneration DEF Recovered

LEMMA CheckedOutType ==
  ASSUME NEW e \in Entry, sequence \in Nat PROVE CheckedOut(e) \in Entry
  <1>1. e.inFlight + 1 \in Nat /\ e.requests + 1 \in Nat /\ sequence + 1 \in Nat
    BY DEF Entry
  <1>2. [e EXCEPT !.inFlight = @ + 1, !.requests = @ + 1] \in Entry
    BY <1>1, SetInFlight, SetRequests
  <1> QED BY <1>1, <1>2, SetSeq DEF CheckedOut

-----------------------------------------------------------------------------
(* The type invariant.                                                      *)

LEMMA SweptType ==
  ASSUME TypeOK
  PROVE  Refreshed \in [Proxies -> Entry] /\ AnnouncedByRefresh \in [Proxies -> Healths]
  BY RecoveredType, HealthOfType DEF TypeOK, Refreshed, AnnouncedByRefresh

\* The types of the variables one pass of the loop in acquire may change.
PassTypes ==
  /\ roster \subseteq Proxies
  /\ entry \in [Proxies -> Entry]
  /\ sequence \in Nat /\ exploreCredit \in Nat /\ poolExhaustedCount \in Nat
  /\ announced \in [Proxies -> Healths]
  /\ jobState \in [Jobs -> JobStates]
  /\ lease \in [Jobs -> Leases \cup {Null}]
  /\ \A j \in Jobs : (lease[j] # Null) <=> (jobState[j] = "leased")
  /\ timer \in [Jobs -> Nat \cup {Null}]
  /\ \A j \in Jobs : timer[j] # Null => jobState[j] = "parked"

LEMMA LeaseIsNotNull == \A l \in Leases : l # Null
  BY PoolAssumption DEF Leases

LEMMA PassKeepsTypes ==
  ASSUME TypeOK, NEW j \in Jobs, NEW budget \in Int, Pass(j, budget),
         jobState[j] \in {"idle", "woken"}
  PROVE  PassTypes'
  <1>1. CASE aborted[j] /\ AcquireThrows(j)
    BY <1>1 DEF AcquireThrows, TypeOK, PassTypes, poolVars, JobStates
  <1>2. CASE GoDirect(j)
    BY <1>2, SweptType DEF GoDirect, Swept, TypeOK, PassTypes, JobStates
  <1>3. CASE Grant(j)
    <2>1. PICK p \in Free, credit \in {0, exploreCredit, exploreCredit + 1} :
            /\ entry' = [Refreshed EXCEPT ![p] = CheckedOut(@)]
            /\ announced' = AnnouncedByRefresh
            /\ sequence' = sequence + 1
            /\ exploreCredit' = credit
            /\ lease' = [lease EXCEPT ![j] = [id |-> p, generation |-> Refreshed[p].generation]]
            /\ jobState' = [jobState EXCEPT ![j] = "leased"]
            /\ UNCHANGED <<roster, poolExhaustedCount, timer>>
      BY <1>3 DEF Grant
    <2>2. p \in Proxies
      BY DEF Free, Healthy, TypeOK
    <2>3. CheckedOut(Refreshed[p]) \in Entry
      BY <2>2, SweptType, CheckedOutType DEF TypeOK
    <2>4. entry' \in [Proxies -> Entry]
      BY <2>1, <2>2, <2>3, SweptType
    <2>5. [id |-> p, generation |-> Refreshed[p].generation] \in Leases
      BY <2>2, SweptType DEF Leases, Entry
    <2> QED BY <2>1, <2>4, <2>5, SweptType, LeaseIsNotNull DEF TypeOK, PassTypes, JobStates
  <1>4. CASE ParkForSlot(j)
    BY <1>4, SweptType DEF ParkForSlot, Swept, TypeOK, PassTypes, JobStates
  <1>5. CASE Exhausted(j, budget)
    BY <1>5, SweptType DEF Exhausted, Swept, TypeOK, PassTypes, JobStates
  <1>6. CASE ParkForRecovery(j, budget)
    <2>1. PICK until \in BenchedUntil \cup {now + budget} :
             /\ timer' = [timer EXCEPT ![j] = until]
             /\ budget > 0
      BY <1>6 DEF ParkForRecovery
    <2>2. until \in Nat
      BY <2>1 DEF BenchedUntil, TypeOK, Entry
    <2> QED BY <1>6, <2>1, <2>2, SweptType
            DEF ParkForRecovery, Swept, TypeOK, PassTypes, JobStates
  <1> QED BY <1>1, <1>2, <1>3, <1>4, <1>5, <1>6 DEF Pass

LEMMA WakeKeepsTypes ==
  ASSUME TypeOK, NEW state \in [Jobs -> JobStates], WakeWaiters(state)
  PROVE  /\ jobState' \in [Jobs -> JobStates]
         /\ timer' \in [Jobs -> Nat \cup {Null}]
         /\ \A j \in Jobs : timer'[j] = Null
         /\ \A j \in Jobs : jobState'[j] = "leased" <=> state[j] = "leased"
  BY DEF WakeWaiters, JobStates

LEMMA ReleaseKeepsTypes ==
  ASSUME TypeOK, NEW j \in Jobs, NEW outcome \in Outcomes, Release(j, outcome)
  PROVE  TypeOK'
  <1> DEFINE p == lease[j].id
             c == lease[j].generation = entry[p].generation
             e == Returned(entry[p], outcome, c)
  <1>1. lease[j] \in Leases
    BY DEF Release, TypeOK
  <1>2. p \in Proxies
    BY <1>1 DEF Leases
  <1>3. e \in Entry
    BY <1>2, ReturnedType DEF TypeOK
  <1>4. /\ entry' = [entry EXCEPT ![p] = e]
        /\ announced' = [announced EXCEPT ![p] = IF HealthOf(e) # HealthOf(entry[p])
                                                THEN HealthOf(e) ELSE @]
        /\ WakeWaiters([jobState EXCEPT ![j] = "idle"])
        /\ lease' = [lease EXCEPT ![j] = Null]
        /\ UNCHANGED <<now, configured, supply, roster, sequence, exploreCredit,
                       poolExhaustedCount, deadline, aborted, acquires>>
    BY DEF Release
  <1> HIDE DEF p, c, e
  <1>5. entry' \in [Proxies -> Entry] /\ announced' \in [Proxies -> Healths]
    BY <1>2, <1>3, <1>4, HealthOfType DEF TypeOK
  <1>6. [jobState EXCEPT ![j] = "idle"] \in [Jobs -> JobStates]
    BY DEF TypeOK, JobStates
  <1>7. /\ lease' \in [Jobs -> Leases \cup {Null}]
        /\ \A i \in Jobs : lease'[i] # Null <=> [jobState EXCEPT ![j] = "idle"][i] = "leased"
    BY <1>4 DEF TypeOK
  <1> QED BY <1>4, <1>5, <1>6, <1>7, WakeKeepsTypes DEF TypeOK

LEMMA NextKeepsTypes == TypeOK /\ [Next]_vars => TypeOK'
  <1> SUFFICES ASSUME TypeOK, [Next]_vars PROVE TypeOK'
    OBVIOUS
  <1>1. ASSUME NEW j \in Jobs, Acquire(j) PROVE TypeOK'
    <2>1. PassTypes'
      <3>1. Pass(j, AcquireWaitMs) /\ AcquireWaitMs \in Int /\ jobState[j] = "idle"
        BY <1>1, PoolAssumption DEF Acquire, CanAcquire
      <3> QED BY <3>1, PassKeepsTypes
    <2>2. deadline' \in [Jobs -> Nat] /\ acquires' \in [Jobs -> Nat]
      BY <1>1, PoolAssumption DEF Acquire, TypeOK
    <2> QED BY <1>1, <2>1, <2>2 DEF Acquire, TypeOK, PassTypes
  <1>2. ASSUME NEW j \in Jobs, Resume(j) PROVE TypeOK'
    <2>1. PassTypes'
      <3>1. Pass(j, deadline[j] - now) /\ deadline[j] - now \in Int /\ jobState[j] = "woken"
        BY <1>2 DEF Resume, TypeOK
      <3> QED BY <3>1, PassKeepsTypes
    <2> QED BY <1>2, <2>1 DEF Resume, TypeOK, PassTypes
  <1>3. ASSUME NEW j \in Jobs, ReleaseSome(j) PROVE TypeOK'
    BY <1>3, ReleaseKeepsTypes DEF ReleaseSome
  <1>4. ASSUME NEW j \in Jobs, FinishDirect(j) PROVE TypeOK'
    BY <1>4 DEF FinishDirect, TypeOK, poolVars, JobStates
  <1>5. ASSUME NEW j \in Jobs, TimerFires(j) PROVE TypeOK'
    BY <1>5 DEF TimerFires, TypeOK, poolVars, JobStates
  <1>6. ASSUME NEW j \in Jobs, Abort(j) PROVE TypeOK'
    BY <1>6 DEF Abort, TypeOK, poolVars, JobStates
  <1>7. ASSUME NEW targets \in SUBSET Proxies, Add(targets) PROVE TypeOK'
    <2>1. entry' \in [Proxies -> Entry] /\ announced' \in [Proxies -> Healths]
      BY <1>7, FreshType, SweptType DEF Add, TypeOK, Healths
    <2>2. WakeWaiters(jobState) /\ jobState \in [Jobs -> JobStates]
      BY <1>7 DEF Add, TypeOK
    <2> QED BY <1>7, <2>1, <2>2, WakeKeepsTypes DEF Add, TypeOK
  <1>8. ASSUME NEW targets \in SUBSET Proxies, Evict(targets) PROVE TypeOK'
    BY <1>8, SweptType DEF Evict, Swept, TypeOK, jobVars
  <1>9. CASE GetStats
    BY <1>9, SweptType DEF GetStats, Swept, TypeOK, jobVars
  <1>10. CASE SupplyChanges
    BY <1>10 DEF SupplyChanges, TypeOK, poolVars, jobVars
  <1>11. CASE Tick
    BY <1>11 DEF Tick, TypeOK, poolVars, jobVars
  <1>12. CASE UNCHANGED vars
    BY <1>12 DEF vars, TypeOK, poolVars, jobVars
  <1> QED BY <1>1, <1>2, <1>3, <1>4, <1>5, <1>6, <1>7, <1>8, <1>9, <1>10, <1>11, <1>12
          DEF Next, Finished

LEMMA InitTypes == Init => TypeOK
  <1> SUFFICES ASSUME Init PROVE TypeOK
    OBVIOUS
  <1>1. /\ now \in Nat /\ configured \subseteq Proxies /\ roster \subseteq Proxies
        /\ sequence \in Nat /\ exploreCredit \in Nat /\ poolExhaustedCount \in Nat
        /\ supply \in BOOLEAN /\ aborted \in [Jobs -> BOOLEAN]
        /\ deadline \in [Jobs -> Nat] /\ acquires \in [Jobs -> Nat]
    BY DEF Init
  <1>2. entry \in [Proxies -> Entry]
    BY FreshType DEF Init
  <1>3. announced \in [Proxies -> Healths] /\ jobState \in [Jobs -> JobStates]
    BY DEF Init, Healths, JobStates
  <1>4. /\ lease \in [Jobs -> Leases \cup {Null}] /\ timer \in [Jobs -> Nat \cup {Null}]
        /\ \A j \in Jobs : lease[j] = Null /\ timer[j] = Null /\ jobState[j] = "idle"
    BY DEF Init
  <1> QED BY <1>1, <1>2, <1>3, <1>4 DEF TypeOK

\* Every variable of the pool and of its callers keeps its type, and a timer or
\* a lease exists exactly in the states in which the code has set one.
THEOREM TypeCorrect == Spec => []TypeOK
  BY InitTypes, NextKeepsTypes, PTL DEF Spec

-----------------------------------------------------------------------------
(* The safety invariants. None of them is inductive alone: IInv below is    *)
(* their strengthening.                                                     *)

\* What every operation on one entry preserves, whatever it is called with.
Sound(e) ==
  /\ e.blocked => Benched(e) \/ e.retired
  /\ e.trustedSlots >= 1
  /\ e.successes = 0 => e.trustedSlots = ProbationConcurrency

EntriesSound == \A p \in Proxies : Sound(entry[p])

\* No lease is from a generation its proxy has not reached yet.
LeasesNotAhead ==
  \A j \in Jobs : jobState[j] = "leased"
    => lease[j].generation <= entry[lease[j].id].generation

\* Without a source the roster is the configured one for good.
RosterConfigured == ~RequireProxy => roster = configured

\* The part about entries and the leases on them, and the whole invariant.
LeaseInv ==
  /\ EntriesSound
  /\ LeaseAccounting
  /\ LeasesNotAhead
  /\ CurrentLeaseInRotation
  /\ WithinCeiling

IInv ==
  /\ TypeOK
  /\ LeaseInv
  /\ NoStrandedWaiter
  /\ RosterConfigured
  /\ NeverSilentlyDirect

-----------------------------------------------------------------------------
(* What the operations on one entry do to the fields the invariant reads.   *)

LEMMA LoseTrustFacts ==
  ASSUME NEW e \in Entry
  PROVE  LET l == LoseTrust(e) IN
         /\ l.inFlight = e.inFlight /\ l.generation = e.generation
         /\ l.successes = e.successes /\ l.retired = e.retired
         /\ l.blocked = e.blocked /\ l.cooldownUntil = e.cooldownUntil
         /\ l.trustedSlots >= 1
         /\ e.trustedSlots = ProbationConcurrency => l.trustedSlots = ProbationConcurrency
  BY PoolAssumption DEF LoseTrust, Greater, Entry

LEMMA StruckFacts ==
  ASSUME NEW e \in Entry
  PROVE  LET s == Struck(e) IN
         /\ s.inFlight = e.inFlight /\ s.generation = e.generation + 1
         /\ s.successes = e.successes /\ s.retired = e.retired
         /\ s.blocked = e.blocked /\ s.cooldownUntil = e.cooldownUntil
         /\ s.trustedSlots >= 1
         /\ e.trustedSlots = ProbationConcurrency => s.trustedSlots = ProbationConcurrency
  BY PoolAssumption DEF Struck, LoseTrust, Greater, Lesser, Entry

\* The shape of an evaluation of one outcome that finds fault with the proxy.
Punished(e, f) ==
  /\ f.inFlight = e.inFlight /\ f.generation = e.generation + 1
  /\ f.successes = e.successes
  /\ f.trustedSlots >= 1
  /\ e.trustedSlots = ProbationConcurrency => f.trustedSlots = ProbationConcurrency
  /\ f.retired \/ f.cooldownUntil # Null \/ (f.blocked = e.blocked /\ f.cooldownUntil = e.cooldownUntil /\ f.retired = e.retired)

LEMMA FailedFacts ==
  ASSUME NEW e \in Entry, now \in Nat PROVE Punished(e, Failed(e))
  BY StruckFacts, StruckType, PoolAssumption DEF Failed, Punished, Entry

LEMMA BlockedFacts ==
  ASSUME NEW e \in Entry, now \in Nat PROVE Punished(e, Blocked(e))
  <1> DEFINE s == Struck(e)
             b == [s EXCEPT !.blocked = TRUE, !.cooldownUntil = now + CooldownMs,
                            !.blockKind = "detected_block"]
  <1>1. s \in Entry
    BY StruckType
  <1>2. /\ s.inFlight = e.inFlight /\ s.generation = e.generation + 1
        /\ s.successes = e.successes /\ s.trustedSlots >= 1
        /\ e.trustedSlots = ProbationConcurrency => s.trustedSlots = ProbationConcurrency
    BY StruckFacts
  <1> HIDE DEF s
  <1>3. /\ b.inFlight = s.inFlight /\ b.generation = s.generation
        /\ b.successes = s.successes /\ b.trustedSlots = s.trustedSlots
        /\ b.cooldownUntil = now + CooldownMs
    BY <1>1 DEF Entry
  <1>4. now + CooldownMs # Null
    BY PoolAssumption
  <1> HIDE DEF b
  <1>5. Punished(e, b)
    BY <1>2, <1>3, <1>4 DEF Punished
  <1> QED BY <1>5 DEF Blocked, b, s

LEMMA UnsuitableFacts ==
  ASSUME NEW e \in Entry PROVE Punished(e, Unsuitable(e))
  BY PoolAssumption DEF Unsuitable, LoseTrust, Greater, Lesser, Punished, Entry

LEMMA CreditedFacts ==
  ASSUME NEW e \in Entry
  PROVE  LET c == Credited(e) IN
         /\ c.inFlight = e.inFlight /\ c.generation = e.generation
         /\ c.successes = e.successes /\ c.retired = e.retired /\ c.blocked = e.blocked
         /\ c.cooldownUntil \in {e.cooldownUntil, Null}
         /\ ~Usable(e) => c.cooldownUntil = e.cooldownUntil
         /\ e.trustedSlots >= 1 => c.trustedSlots >= 1
  BY PoolAssumption DEF Credited, EarnTrust, Lesser, Entry

LEMMA SettledFacts ==
  ASSUME NEW before, NEW after \in Entry
  PROVE  LET s == Settled(before, after) IN
         /\ s.inFlight = after.inFlight /\ s.generation = after.generation
         /\ s.successes = after.successes /\ s.retired = after.retired
         /\ s.blocked = after.blocked /\ s.cooldownUntil = after.cooldownUntil
         /\ s.trustedSlots = after.trustedSlots
  BY DEF Settled, Entry

LEMMA RecoveredFacts ==
  ASSUME NEW e \in Entry
  PROVE  LET r == Recovered(e) IN
         /\ r.inFlight = e.inFlight /\ r.generation = e.generation + 1
         /\ r.successes = e.successes /\ r.retired = e.retired
         /\ ~r.blocked /\ r.cooldownUntil = Null
         /\ r.trustedSlots = e.trustedSlots
  BY DEF Recovered, Entry

LEMMA CheckedOutFacts ==
  ASSUME NEW e \in Entry
  PROVE  LET c == CheckedOut(e) IN
         /\ c.inFlight = e.inFlight + 1 /\ c.generation = e.generation
         /\ c.successes = e.successes /\ c.retired = e.retired
         /\ c.blocked = e.blocked /\ c.cooldownUntil = e.cooldownUntil
         /\ c.trustedSlots = e.trustedSlots
  BY DEF CheckedOut, Entry

\* What a report may do to an entry, by whether its lease was current: a stale
\* one leaves health alone, a current one moves the generation if it benches.
Judged(e, r, current) ==
  /\ r.generation >= e.generation
  /\ r.successes >= e.successes
  /\ Sound(e) /\ (current => ~e.blocked) => Sound(r)
  /\ ~current => /\ r.generation = e.generation /\ r.retired = e.retired
                 /\ r.blocked = e.blocked /\ r.cooldownUntil = e.cooldownUntil
  /\ current /\ r.generation = e.generation
       => /\ r.retired = e.retired /\ r.blocked = e.blocked
          /\ r.cooldownUntil \in {e.cooldownUntil, Null}

LEMMA PunishedIsJudged ==
  ASSUME NEW e \in Entry, NEW k \in Entry, NEW f \in Entry, NEW r \in Entry,
         NEW before, NEW c \in BOOLEAN,
         k = [e EXCEPT !.failures = @ + 1],
         c => Punished(k, f),
         r = Settled(before, IF c THEN f ELSE k)
  PROVE  Judged(e, r, c) /\ r.inFlight = e.inFlight
  <1>1. /\ k.inFlight = e.inFlight /\ k.generation = e.generation
        /\ k.successes = e.successes /\ k.retired = e.retired
        /\ k.blocked = e.blocked /\ k.cooldownUntil = e.cooldownUntil
        /\ k.trustedSlots = e.trustedSlots
    BY DEF Entry
  <1> DEFINE a == IF c THEN f ELSE k
  <1>a. a \in Entry /\ (c => a = f) /\ (~c => a = k) /\ r = Settled(before, a)
    OBVIOUS
  <1> HIDE DEF a
  <1>2. /\ r.inFlight = a.inFlight /\ r.generation = a.generation
        /\ r.successes = a.successes /\ r.retired = a.retired
        /\ r.blocked = a.blocked /\ r.cooldownUntil = a.cooldownUntil
        /\ r.trustedSlots = a.trustedSlots
    BY <1>a, SettledFacts
  <1>3. e.generation \in Nat /\ e.successes \in Nat
    BY DEF Entry
  <1>4. CASE c
    <2>1. Punished(k, r)
      BY <1>a, <1>2, <1>4 DEF Punished
    <2>2. ASSUME Sound(e) PROVE r.blocked => Benched(r) \/ r.retired
      BY <1>1, <2>1, <2>2 DEF Punished, Sound, Benched
    <2>3. /\ r.generation = e.generation + 1 /\ r.successes = e.successes
          /\ r.trustedSlots >= 1 /\ r.inFlight = e.inFlight
          /\ e.trustedSlots = ProbationConcurrency => r.trustedSlots = ProbationConcurrency
      BY <1>1, <2>1 DEF Punished
    <2>4. Sound(e) => Sound(r)
      BY <2>2, <2>3 DEF Sound
    <2> QED BY <1>3, <1>4, <2>3, <2>4 DEF Judged
  <1>5. CASE ~c
    <2>1. /\ r.inFlight = e.inFlight /\ r.generation = e.generation
          /\ r.successes = e.successes /\ r.retired = e.retired
          /\ r.blocked = e.blocked /\ r.cooldownUntil = e.cooldownUntil
          /\ r.trustedSlots = e.trustedSlots
      BY <1>a, <1>1, <1>2, <1>5
    <2>2. Sound(e) => Sound(r)
      BY <2>1 DEF Sound, Benched
    <2>3. r.generation >= e.generation /\ r.successes >= e.successes
      BY <1>3, <2>1
    <2> QED BY <1>5, <2>1, <2>2, <2>3 DEF Judged
  <1> QED BY <1>4, <1>5

LEMMA SuccessIsJudged ==
  ASSUME NEW e \in Entry, NEW c \in BOOLEAN, now \in Nat
  PROVE  LET r == ReportSuccess(e, c) IN Judged(e, r, c) /\ r.inFlight = e.inFlight
  <1> DEFINE k == [e EXCEPT !.successes = @ + 1]
             a == IF c THEN Credited(k) ELSE k
             r == Settled(e, a)
  <1>1. /\ k.inFlight = e.inFlight /\ k.generation = e.generation
        /\ k.successes = e.successes + 1 /\ k.retired = e.retired
        /\ k.blocked = e.blocked /\ k.cooldownUntil = e.cooldownUntil
        /\ k.trustedSlots = e.trustedSlots
    BY DEF Entry
  <1>2. k \in Entry
    BY SetSuccesses DEF Entry
  <1>3. a \in Entry
    BY <1>2, CreditedType
  <1> HIDE DEF k
  <1>4. /\ a.inFlight = k.inFlight /\ a.generation = k.generation
        /\ a.successes = k.successes /\ a.retired = k.retired /\ a.blocked = k.blocked
        /\ a.cooldownUntil \in {k.cooldownUntil, Null}
        /\ ~c \/ ~Usable(k) => a.cooldownUntil = k.cooldownUntil
        /\ k.trustedSlots >= 1 => a.trustedSlots >= 1
    BY <1>2, CreditedFacts
  <1> HIDE DEF a
  <1>5. /\ r.inFlight = a.inFlight /\ r.generation = a.generation
        /\ r.successes = a.successes /\ r.retired = a.retired
        /\ r.blocked = a.blocked /\ r.cooldownUntil = a.cooldownUntil
        /\ r.trustedSlots = a.trustedSlots
    BY <1>3, SettledFacts
  <1> HIDE DEF r
  <1>6. e.generation \in Nat /\ e.successes \in Nat
    BY DEF Entry
  <1>7. r.successes # 0
    BY <1>1, <1>4, <1>5, <1>6
  <1>8. Judged(e, r, c) /\ r.inFlight = e.inFlight
    BY <1>1, <1>4, <1>5, <1>6, <1>7 DEF Judged, Sound, Benched, Usable
  <1> QED BY <1>8 DEF ReportSuccess, r, a, k

LEMMA ReportedIsJudged ==
  ASSUME NEW e \in Entry, NEW o \in Outcomes, NEW c \in BOOLEAN, now \in Nat
  PROVE  LET r == Reported(e, o, c) IN Judged(e, r, c) /\ r.inFlight = e.inFlight
  <1> DEFINE k == [e EXCEPT !.failures = @ + 1]
  <1>1. k \in Entry
    BY SetFailures DEF Entry
  <1>2. Failed(k) \in Entry /\ Blocked(k) \in Entry /\ Unsuitable(k) \in Entry
    BY <1>1, FailedType, BlockedType, UnsuitableType
  <1>3. Punished(k, Failed(k)) /\ Punished(k, Blocked(k)) /\ Punished(k, Unsuitable(k))
    BY <1>1, FailedFacts, BlockedFacts, UnsuitableFacts
  <1>4. ReportFailure(e, c) = Settled(e, IF c THEN Failed(k) ELSE k)
    BY DEF ReportFailure
  <1>5. MarkBlocked(e, c) = Settled(e, IF c THEN Blocked(k) ELSE k)
    BY DEF MarkBlocked
  <1>6. ReportUnsuitable(e, c) = Settled(e, IF c THEN Unsuitable(k) ELSE k)
    BY DEF ReportUnsuitable
  <1>7. k = [e EXCEPT !.failures = @ + 1]
    OBVIOUS
  <1> HIDE DEF k
  <1>8. ASSUME NEW f \in Entry, Punished(k, f)
        PROVE  LET r == Settled(e, IF c THEN f ELSE k)
               IN  Judged(e, r, c) /\ r.inFlight = e.inFlight
    <2> DEFINE r == Settled(e, IF c THEN f ELSE k)
    <2>1. r \in Entry
      BY <1>1, SettledType
    <2>2. r = Settled(e, IF c THEN f ELSE k)
      OBVIOUS
    <2> HIDE DEF r
    <2>3. Judged(e, r, c) /\ r.inFlight = e.inFlight
      BY <1>1, <1>7, <1>8, <2>1, <2>2, PunishedIsJudged
    <2> QED BY <2>3 DEF r
  <1>9. LET r == ReportFailure(e, c) IN Judged(e, r, c) /\ r.inFlight = e.inFlight
    BY <1>2, <1>3, <1>4, <1>8
  <1>10. LET r == MarkBlocked(e, c) IN Judged(e, r, c) /\ r.inFlight = e.inFlight
    BY <1>2, <1>3, <1>5, <1>8
  <1>11. LET r == ReportUnsuitable(e, c) IN Judged(e, r, c) /\ r.inFlight = e.inFlight
    BY <1>2, <1>3, <1>6, <1>8
  <1>12. Judged(e, e, c)
    BY DEF Judged, Entry
  <1> QED BY <1>9, <1>10, <1>11, <1>12, SuccessIsJudged DEF Reported

LEMMA ReturnedIsJudged ==
  ASSUME NEW e \in Entry, NEW o \in Outcomes, NEW c \in BOOLEAN, now \in Nat
  PROVE  LET r == Returned(e, o, c) IN
         /\ Judged(e, r, c)
         /\ r.inFlight = IF e.inFlight > 0 THEN e.inFlight - 1 ELSE e.inFlight
  <1> DEFINE q == Reported(e, o, c)
             r == [q EXCEPT !.inFlight = IF @ > 0 THEN @ - 1 ELSE @]
  <1>1. q \in Entry
    BY ReportedType
  <1>2. Judged(e, q, c) /\ q.inFlight = e.inFlight
    BY ReportedIsJudged
  <1> HIDE DEF q
  <1>3. /\ r.generation = q.generation /\ r.successes = q.successes
        /\ r.retired = q.retired /\ r.blocked = q.blocked
        /\ r.cooldownUntil = q.cooldownUntil /\ r.trustedSlots = q.trustedSlots
        /\ r.inFlight = IF q.inFlight > 0 THEN q.inFlight - 1 ELSE q.inFlight
    BY <1>1 DEF Entry
  <1> HIDE DEF r
  <1>4. Sound(q) => Sound(r)
    BY <1>3 DEF Sound, Benched
  <1>5. Judged(e, r, c)
    BY <1>2, <1>3, <1>4 DEF Judged
  <1> QED BY <1>2, <1>3, <1>5 DEF Returned, r, q

-----------------------------------------------------------------------------
(* Steps that hand no lease out and take none back.                         *)

LEMMA HoldersFinite == \A p : IsFiniteSet(Holders(p))
  BY PoolAssumption, FS_Subset DEF Holders

\* Leases stay where they are; an entry is swept or left alone; only a proxy
\* without leases leaves the roster, and none joins it.
Quiet ==
  /\ roster' \subseteq roster
  /\ \A p \in roster \ roster' : entry[p].inFlight = 0
  /\ lease' = lease
  /\ \A j \in Jobs : jobState'[j] = "leased" <=> jobState[j] = "leased"
  /\ \A p \in Proxies : entry'[p] = entry[p] \/ entry'[p] = Recovered(entry[p])

LEMMA LeasedIsTyped ==
  ASSUME TypeOK, NEW j \in Jobs, jobState[j] = "leased"
  PROVE  lease[j] \in Leases /\ lease[j].id \in Proxies /\ lease[j].generation \in Nat
  BY DEF TypeOK, Leases

LEMMA QuietKeepsLeaseInv ==
  ASSUME TypeOK, LeaseInv, Quiet PROVE LeaseInv'
  <1>1. \A p \in Proxies : entry[p] \in Entry
    BY DEF TypeOK
  <1>2. ASSUME NEW p \in Proxies
        PROVE  /\ entry'[p].inFlight = entry[p].inFlight
               /\ entry'[p].successes = entry[p].successes
               /\ entry'[p].generation >= entry[p].generation
               /\ Sound(entry[p]) => Sound(entry'[p])
               /\ \/ entry'[p] = entry[p]
                  \/ entry'[p].generation = entry[p].generation + 1
    <2>1. CASE entry'[p] = entry[p]
      BY <1>1, <2>1 DEF Entry
    <2>2. CASE entry'[p] = Recovered(entry[p])
      BY <1>1, <2>2, RecoveredFacts DEF Sound, Entry
    <2> QED BY <2>1, <2>2 DEF Quiet
  <1>3. \A p : Holders(p)' = Holders(p)
    BY DEF Quiet, Holders, Holds
  <1>4. EntriesSound'
    BY <1>2 DEF LeaseInv, EntriesSound
  <1>5. LeaseAccounting'
    <2>1. \A p \in roster' : entry'[p].inFlight = Cardinality(Holders(p)')
      BY <1>2, <1>3 DEF Quiet, LeaseInv, LeaseAccounting, TypeOK
    <2>2. ASSUME NEW j \in Jobs, jobState'[j] = "leased" PROVE lease'[j].id \in roster'
      <3> DEFINE p == lease[j].id
      <3>1. p \in roster /\ j \in Holders(p)
        BY <2>2 DEF Quiet, LeaseInv, LeaseAccounting, Holders, Holds
      <3>2. entry[p].inFlight # 0
        BY <3>1, HoldersFinite, FS_EmptySet DEF LeaseInv, LeaseAccounting
      <3> QED BY <3>1, <3>2 DEF Quiet
    <2> QED BY <2>1, <2>2 DEF LeaseAccounting
  <1>6. LeasesNotAhead'
    <2> SUFFICES ASSUME NEW j \in Jobs, jobState'[j] = "leased"
                 PROVE  lease'[j].generation <= entry'[lease'[j].id].generation
      BY DEF LeasesNotAhead
    <2>1. jobState[j] = "leased" /\ lease'[j] = lease[j]
      BY DEF Quiet
    <2>2. lease[j].id \in Proxies /\ lease[j].generation \in Nat
      BY <2>1, LeasedIsTyped
    <2>3. lease[j].generation <= entry[lease[j].id].generation
      BY <2>1 DEF LeaseInv, LeasesNotAhead
    <2>4. entry'[lease[j].id].generation \in Nat /\ entry[lease[j].id].generation \in Nat
      BY <1>1, <1>2, <2>2 DEF Entry
    <2> QED BY <1>2, <2>1, <2>2, <2>3, <2>4
  <1>7. CurrentLeaseInRotation'
    <2> SUFFICES ASSUME NEW j \in Jobs, NEW p \in Proxies, Holds(j, p)',
                        lease'[j].generation = entry'[p].generation
                 PROVE  ~Benched(entry'[p]) /\ ~entry'[p].retired /\ ~entry'[p].blocked
      BY DEF CurrentLeaseInRotation
    <2>1. Holds(j, p) /\ lease'[j] = lease[j]
      BY DEF Quiet, Holds
    <2>2. lease[j].generation <= entry[p].generation /\ lease[j].generation \in Nat
      BY <2>1, LeasedIsTyped DEF LeaseInv, LeasesNotAhead, Holds
    <2>3. entry'[p] = entry[p]
      BY <1>1, <1>2, <2>1, <2>2 DEF Entry
    <2> QED BY <2>1, <2>3 DEF LeaseInv, CurrentLeaseInRotation
  <1>8. WithinCeiling'
    BY <1>2 DEF Quiet, LeaseInv, WithinCeiling, TypeOK
  <1> QED BY <1>4, <1>5, <1>6, <1>7, <1>8 DEF LeaseInv

-----------------------------------------------------------------------------
(* A pass that leases a proxy, a release, and an admission.                 *)

LEMMA RefreshedFacts ==
  ASSUME TypeOK, NEW p \in Proxies
  PROVE  /\ Refreshed[p] \in Entry
         /\ Refreshed[p] = entry[p] \/ Refreshed[p] = Recovered(entry[p])
         /\ Refreshed[p].inFlight = entry[p].inFlight
         /\ Refreshed[p].successes = entry[p].successes
         /\ Refreshed[p].trustedSlots = entry[p].trustedSlots
         /\ Refreshed[p].generation >= entry[p].generation
         /\ Refreshed[p] # entry[p] => Refreshed[p].generation = entry[p].generation + 1
         /\ Sound(entry[p]) => Sound(Refreshed[p])
  <1>1. entry[p] \in Entry
    BY DEF TypeOK
  <1>2. Refreshed[p] = entry[p] \/ Refreshed[p] = Recovered(entry[p])
    BY DEF Refreshed
  <1>3. CASE Refreshed[p] = entry[p]
    BY <1>1, <1>3 DEF Entry
  <1>4. CASE Refreshed[p] = Recovered(entry[p])
    BY <1>1, <1>4, RecoveredFacts, RecoveredType DEF Sound, Entry
  <1> QED BY <1>2, <1>3, <1>4

LEMMA FreeIsInRotation ==
  ASSUME TypeOK, EntriesSound, NEW p \in Free
  PROVE  /\ p \in roster /\ p \in Proxies
         /\ Refreshed[p].cooldownUntil = Null
         /\ ~Refreshed[p].retired /\ ~Refreshed[p].blocked
  <1>1. p \in roster /\ p \in Proxies /\ Usable(entry[p])
    BY DEF Free, Healthy, TypeOK
  <1>2. entry[p] \in Entry /\ Sound(entry[p])
    BY <1>1 DEF TypeOK, EntriesSound
  <1>3. CASE Expired(entry[p])
    <2>1. Refreshed[p] = Recovered(entry[p])
      BY <1>1, <1>3 DEF Refreshed
    <2> QED BY <1>1, <1>2, <2>1, RecoveredFacts DEF Usable
  <1>4. CASE ~Expired(entry[p])
    <2>1. Refreshed[p] = entry[p]
      BY <1>1, <1>4 DEF Refreshed
    <2>2. entry[p].cooldownUntil = Null /\ ~entry[p].retired
      BY <1>1, <1>4 DEF Usable, Expired
    <2> QED BY <1>1, <1>2, <2>1, <2>2 DEF Sound, Benched
  <1> QED BY <1>3, <1>4

LEMMA FreeHasRoom ==
  ASSUME TypeOK, EntriesSound, NEW p \in Free
  PROVE  /\ MaxConcurrentPerProxy > 0 => entry[p].inFlight < MaxConcurrentPerProxy
         /\ entry[p].successes = 0 => entry[p].inFlight < ProbationConcurrency
  <1>1. p \in Proxies /\ HasCapacity(entry[p])
    BY DEF Free, Healthy, TypeOK
  <1>2. entry[p] \in Entry /\ Sound(entry[p])
    BY <1>1 DEF TypeOK, EntriesSound
  <1> QED BY <1>1, <1>2, PoolAssumption
          DEF HasCapacity, Unbounded, CapacityOf, Lesser, Sound, Entry

LEMMA GrantKeepsLeaseInv ==
  ASSUME TypeOK, LeaseInv, NEW j \in Jobs, jobState[j] # "leased", Grant(j)
  PROVE  LeaseInv'
  <1>1. PICK p \in Free :
          /\ entry' = [Refreshed EXCEPT ![p] = CheckedOut(@)]
          /\ lease' = [lease EXCEPT ![j] = [id |-> p, generation |-> Refreshed[p].generation]]
          /\ jobState' = [jobState EXCEPT ![j] = "leased"]
          /\ roster' = roster
    BY DEF Grant
  <1>2. EntriesSound
    BY DEF LeaseInv
  <1>3. /\ p \in roster /\ p \in Proxies /\ Refreshed[p].cooldownUntil = Null
        /\ ~Refreshed[p].retired /\ ~Refreshed[p].blocked
    BY <1>2, FreeIsInRotation
  <1>4. Refreshed \in [Proxies -> Entry]
    BY SweptType
  <1>5. /\ entry'[p] = CheckedOut(Refreshed[p])
        /\ \A q \in Proxies \ {p} : entry'[q] = Refreshed[q]
    BY <1>1, <1>3, <1>4
  <1>6. /\ entry'[p].inFlight = entry[p].inFlight + 1
        /\ entry'[p].successes = entry[p].successes
        /\ entry'[p].trustedSlots = entry[p].trustedSlots
        /\ entry'[p].generation = Refreshed[p].generation
        /\ entry'[p].cooldownUntil = Null /\ ~entry'[p].retired /\ ~entry'[p].blocked
    BY <1>3, <1>4, <1>5, CheckedOutFacts, RefreshedFacts
  <1>7. /\ lease'[j].id = p /\ lease'[j].generation = Refreshed[p].generation
        /\ jobState'[j] = "leased"
        /\ \A i \in Jobs \ {j} : lease'[i] = lease[i] /\ jobState'[i] = jobState[i]
    BY <1>1 DEF TypeOK
  <1>8. \A q \in Proxies : entry[q] \in Entry
    BY DEF TypeOK
  <1>9. EntriesSound'
    <2> SUFFICES ASSUME NEW q \in Proxies PROVE Sound(entry'[q])
      BY DEF EntriesSound
    <2>1. Sound(entry[q])
      BY <1>2 DEF EntriesSound
    <2>2. CASE q = p
      BY <1>6, <2>1, <2>2 DEF Sound
    <2>3. CASE q # p
      BY <1>5, <2>1, <2>3, RefreshedFacts
    <2> QED BY <2>2, <2>3
  <1>10. Holders(p)' = Holders(p) \cup {j} /\ j \notin Holders(p)
    BY <1>7 DEF Holders, Holds
  <1>11. \A q \in Proxies \ {p} : Holders(q)' = Holders(q)
    BY <1>7 DEF Holders, Holds
  <1>12. LeaseAccounting'
    <2>1. Cardinality(Holders(p)') = Cardinality(Holders(p)) + 1
      BY <1>10, HoldersFinite, FS_AddElement
    <2>2. entry'[p].inFlight = Cardinality(Holders(p)')
      BY <1>3, <1>6, <2>1 DEF LeaseInv, LeaseAccounting
    <2>3. ASSUME NEW q \in roster, q # p PROVE entry'[q].inFlight = Cardinality(Holders(q)')
      <3>1. q \in Proxies
        BY DEF TypeOK
      <3> QED BY <1>5, <1>11, <2>3, <3>1, RefreshedFacts DEF LeaseInv, LeaseAccounting
    <2>4. \A i \in Jobs : jobState'[i] = "leased" => lease'[i].id \in roster
      BY <1>3, <1>7 DEF LeaseInv, LeaseAccounting
    <2> QED BY <1>1, <2>2, <2>3, <2>4 DEF LeaseAccounting
  <1>13. ASSUME NEW i \in Jobs, i # j, jobState'[i] = "leased"
         PROVE  /\ lease[i].id \in Proxies /\ lease[i].generation \in Nat
                /\ lease[i].generation <= Refreshed[lease[i].id].generation
                /\ Refreshed[lease[i].id] # entry[lease[i].id]
                      => lease[i].generation # Refreshed[lease[i].id].generation
    <2>1. jobState[i] = "leased"
      BY <1>7, <1>13
    <2>2. lease[i].id \in Proxies /\ lease[i].generation \in Nat
      BY <2>1, LeasedIsTyped
    <2>3. lease[i].generation <= entry[lease[i].id].generation
      BY <2>1 DEF LeaseInv, LeasesNotAhead
    <2>4. entry[lease[i].id].generation \in Nat /\ Refreshed[lease[i].id].generation \in Nat
      BY <1>8, <2>2, RefreshedFacts DEF Entry
    <2> QED BY <2>2, <2>3, <2>4, RefreshedFacts
  <1>14. \A q \in Proxies : entry'[q].generation = Refreshed[q].generation
    BY <1>5, <1>6
  <1>15. LeasesNotAhead'
    <2> SUFFICES ASSUME NEW i \in Jobs, jobState'[i] = "leased"
                 PROVE  lease'[i].generation <= entry'[lease'[i].id].generation
      BY DEF LeasesNotAhead
    <2>1. CASE i = j
      BY <1>3, <1>4, <1>6, <1>7, <2>1 DEF Entry
    <2>2. CASE i # j
      BY <1>7, <1>13, <1>14, <2>2
    <2> QED BY <2>1, <2>2
  <1>16. CurrentLeaseInRotation'
    <2> SUFFICES ASSUME NEW i \in Jobs, NEW q \in Proxies, Holds(i, q)',
                        lease'[i].generation = entry'[q].generation
                 PROVE  ~Benched(entry'[q]) /\ ~entry'[q].retired /\ ~entry'[q].blocked
      BY DEF CurrentLeaseInRotation
    <2>1. CASE q = p
      BY <1>6, <2>1 DEF Benched
    <2>2. CASE q # p
      <3>1. i # j /\ jobState'[i] = "leased" /\ lease[i].id = q
        BY <1>7, <2>2 DEF Holds
      <3>2. Refreshed[q] = entry[q] /\ entry'[q] = entry[q]
        BY <1>5, <1>7, <1>13, <2>2, <3>1
      <3>3. Holds(i, q) /\ lease[i].generation = entry[q].generation
        BY <1>7, <3>1, <3>2 DEF Holds
      <3> QED BY <3>2, <3>3 DEF LeaseInv, CurrentLeaseInRotation
    <2> QED BY <2>1, <2>2
  <1>17. WithinCeiling'
    <2> SUFFICES ASSUME NEW q \in roster
                 PROVE /\ MaxConcurrentPerProxy > 0 => entry'[q].inFlight <= MaxConcurrentPerProxy
                       /\ entry'[q].successes = 0 => entry'[q].inFlight <= ProbationConcurrency
      BY <1>1 DEF WithinCeiling
    <2>1. q \in Proxies
      BY DEF TypeOK
    <2>2. CASE q = p
      <3>1. entry[p].inFlight \in Nat
        BY <1>3, <1>8 DEF Entry
      <3> QED BY <1>2, <1>6, <2>2, <3>1, FreeHasRoom, PoolAssumption
    <2>3. CASE q # p
      BY <1>5, <2>1, <2>3, RefreshedFacts DEF LeaseInv, WithinCeiling
    <2> QED BY <2>2, <2>3
  <1> QED BY <1>9, <1>12, <1>15, <1>16, <1>17 DEF LeaseInv

LEMMA ReleaseKeepsLeaseInv ==
  ASSUME TypeOK, LeaseInv, NEW j \in Jobs, NEW o \in Outcomes, Release(j, o)
  PROVE  LeaseInv'
  <1>2. PICK p \in Proxies : p = lease[j].id /\ lease[j].generation \in Nat
    <2>1. jobState[j] = "leased"
      BY DEF Release
    <2> QED BY <2>1, LeasedIsTyped
  <1> DEFINE c == lease[j].generation = entry[p].generation
             r == Returned(entry[p], o, c)
  <1>1. /\ jobState[j] = "leased" /\ entry' = [entry EXCEPT ![p] = r]
        /\ WakeWaiters([jobState EXCEPT ![j] = "idle"])
        /\ lease' = [lease EXCEPT ![j] = Null] /\ roster' = roster
    BY <1>2 DEF Release
  <1>3. \A q \in Proxies : entry[q] \in Entry
    BY DEF TypeOK
  <1>4. /\ Judged(entry[p], r, c) /\ r \in Entry
        /\ r.inFlight = IF entry[p].inFlight > 0
                        THEN entry[p].inFlight - 1 ELSE entry[p].inFlight
    BY <1>2, <1>3, ReturnedIsJudged, ReturnedType DEF TypeOK
  <1>5. Holds(j, p)
    BY <1>1, <1>2 DEF Holds
  <1>6. c => ~Benched(entry[p]) /\ ~entry[p].retired /\ ~entry[p].blocked
    BY <1>2, <1>5 DEF LeaseInv, CurrentLeaseInRotation
  <1>7. p \in roster
    BY <1>1, <1>2 DEF LeaseInv, LeaseAccounting
  <1> HIDE DEF r
  <1>8. entry'[p] = r /\ \A q \in Proxies \ {p} : entry'[q] = entry[q]
    BY <1>1, <1>2 DEF TypeOK
  <1>9. /\ ~(jobState'[j] = "leased")
        /\ \A i \in Jobs \ {j} : /\ lease'[i] = lease[i]
                                 /\ jobState'[i] = "leased" <=> jobState[i] = "leased"
    BY <1>1 DEF WakeWaiters, TypeOK
  <1>10. EntriesSound'
    BY <1>2, <1>4, <1>6, <1>8 DEF LeaseInv, EntriesSound, Judged
  <1>11. /\ Holders(p)' = Holders(p) \ {j} /\ j \in Holders(p)
         /\ \A q \in Proxies \ {p} : Holders(q)' = Holders(q)
    <2>1. \A i \in Jobs : \A q \in Proxies : Holds(i, q)' <=> Holds(i, q) /\ i # j
      BY <1>9 DEF Holds
    <2>2. \A q \in Proxies \ {p} : ~Holds(j, q)
      BY <1>2 DEF Holds
    <2> QED BY <1>2, <1>5, <2>1, <2>2 DEF Holders
  <1>12. entry[p].inFlight > 0 /\ r.inFlight = Cardinality(Holders(p)')
    <2>1. IsFiniteSet(Holders(p)) /\ j \in Holders(p)
      BY <1>11, HoldersFinite
    <2>2. Cardinality(Holders(p)') = Cardinality(Holders(p)) - 1
      BY <1>11, <2>1, FS_RemoveElement
    <2>3. Cardinality(Holders(p)) # 0 /\ Cardinality(Holders(p)) \in Nat
      BY <2>1, FS_EmptySet, FS_CardinalityType
    <2> QED BY <1>4, <1>7, <2>2, <2>3 DEF LeaseInv, LeaseAccounting
  <1>13. LeaseAccounting'
    <2>1. \A q \in roster : entry'[q].inFlight = Cardinality(Holders(q)')
      <3> SUFFICES ASSUME NEW q \in roster PROVE entry'[q].inFlight = Cardinality(Holders(q)')
        OBVIOUS
      <3>1. q \in Proxies
        BY DEF TypeOK
      <3>2. CASE q = p
        BY <1>8, <1>12, <3>2
      <3>3. CASE q # p
        <4>1. entry'[q] = entry[q] /\ Holders(q)' = Holders(q)
          BY <1>8, <1>11, <3>1, <3>3
        <4> QED BY <4>1 DEF LeaseInv, LeaseAccounting
      <3> QED BY <3>2, <3>3
    <2>2. \A i \in Jobs : jobState'[i] = "leased" => lease'[i].id \in roster
      BY <1>9 DEF LeaseInv, LeaseAccounting
    <2> QED BY <1>1, <2>1, <2>2 DEF LeaseAccounting
  <1>14. ASSUME NEW i \in Jobs, jobState'[i] = "leased"
         PROVE  /\ i # j /\ jobState[i] = "leased" /\ lease'[i] = lease[i]
                /\ lease[i].id \in Proxies /\ lease[i].generation \in Nat
                /\ lease[i].generation <= entry[lease[i].id].generation
    BY <1>9, <1>14, LeasedIsTyped DEF LeaseInv, LeasesNotAhead
  <1>15. \A q \in Proxies : /\ entry'[q].generation >= entry[q].generation
                           /\ entry'[q].generation \in Nat /\ entry[q].generation \in Nat
    BY <1>3, <1>4, <1>8 DEF Judged, Entry
  <1>16. LeasesNotAhead'
    BY <1>14, <1>15 DEF LeasesNotAhead
  <1>17. CurrentLeaseInRotation'
    <2> SUFFICES ASSUME NEW i \in Jobs, NEW q \in Proxies, Holds(i, q)',
                        lease'[i].generation = entry'[q].generation
                 PROVE  ~Benched(entry'[q]) /\ ~entry'[q].retired /\ ~entry'[q].blocked
      BY DEF CurrentLeaseInRotation
    <2>1. Holds(i, q) /\ lease[i].generation = entry'[q].generation
      BY <1>14 DEF Holds
    <2>2. entry'[q].generation = entry[q].generation
      BY <1>14, <1>15, <2>1 DEF Holds
    <2>3. ~Benched(entry[q]) /\ ~entry[q].retired /\ ~entry[q].blocked
      BY <2>1, <2>2 DEF LeaseInv, CurrentLeaseInRotation
    <2>4. CASE q # p
      BY <1>8, <2>3, <2>4
    <2>5. CASE q = p
      BY <1>4, <1>8, <2>2, <2>3, <2>5 DEF Judged, Benched
    <2> QED BY <2>4, <2>5
  <1>18. WithinCeiling'
    <2> SUFFICES ASSUME NEW q \in roster
                 PROVE /\ MaxConcurrentPerProxy > 0 => entry'[q].inFlight <= MaxConcurrentPerProxy
                       /\ entry'[q].successes = 0 => entry'[q].inFlight <= ProbationConcurrency
      BY <1>1 DEF WithinCeiling
    <2>1. /\ MaxConcurrentPerProxy > 0 => entry[q].inFlight <= MaxConcurrentPerProxy
          /\ entry[q].successes = 0 => entry[q].inFlight <= ProbationConcurrency
      BY DEF LeaseInv, WithinCeiling
    <2>2. CASE q # p
      BY <1>8, <2>1, <2>2 DEF TypeOK
    <2>3. CASE q = p
      <3>1. /\ entry[p].inFlight \in Nat /\ r.inFlight = entry[p].inFlight - 1
            /\ entry[p].successes \in Nat /\ r.successes \in Nat
        BY <1>2, <1>3, <1>4, <1>12 DEF Entry
      <3>2. r.successes >= entry[p].successes
        BY <1>4 DEF Judged
      <3> QED BY <1>8, <2>1, <2>3, <3>1, <3>2, PoolAssumption
    <2> QED BY <2>2, <2>3
  <1> QED BY <1>10, <1>13, <1>16, <1>17, <1>18 DEF LeaseInv

LEMMA FreshFacts ==
  /\ Fresh.inFlight = 0 /\ Fresh.successes = 0 /\ Sound(Fresh)
  BY PoolAssumption DEF Fresh, Sound, Benched

LEMMA AddKeepsLeaseInv ==
  ASSUME TypeOK, LeaseInv, NEW targets \in SUBSET Proxies, Add(targets)
  PROVE  LeaseInv'
  <1>1. /\ roster' = roster \cup targets /\ lease' = lease /\ WakeWaiters(jobState)
        /\ entry' = [p \in Proxies |-> IF p \in targets \ roster THEN Fresh ELSE Refreshed[p]]
    BY DEF Add
  <1>2. \A j \in Jobs : jobState'[j] = "leased" <=> jobState[j] = "leased"
    BY <1>1, WakeKeepsTypes DEF TypeOK
  <1>3. \A p : Holders(p)' = Holders(p)
    BY <1>1, <1>2 DEF Holders, Holds
  <1>4. \A p \in targets \ roster : Holders(p) = {}
    BY DEF LeaseInv, LeaseAccounting, Holders, Holds
  <1>5. \A p \in Proxies : \/ p \in targets \ roster /\ entry'[p] = Fresh
                           \/ p \notin targets \ roster /\ entry'[p] = Refreshed[p]
    BY <1>1
  <1>6. EntriesSound'
    BY <1>5, FreshFacts, RefreshedFacts DEF LeaseInv, EntriesSound
  <1>7. LeaseAccounting'
    <2>1. ASSUME NEW p \in roster' PROVE entry'[p].inFlight = Cardinality(Holders(p)')
      <3>1. p \in Proxies
        BY <1>1 DEF TypeOK
      <3>2. CASE p \in targets \ roster
        BY <1>3, <1>4, <1>5, <3>1, <3>2, FreshFacts, FS_EmptySet
      <3>3. CASE p \notin targets \ roster
        BY <1>1, <1>3, <1>5, <3>1, <3>3, RefreshedFacts DEF LeaseInv, LeaseAccounting
      <3> QED BY <3>2, <3>3
    <2>2. \A j \in Jobs : jobState'[j] = "leased" => lease'[j].id \in roster'
      BY <1>1, <1>2 DEF LeaseInv, LeaseAccounting
    <2> QED BY <2>1, <2>2 DEF LeaseAccounting
  <1>8. ASSUME NEW j \in Jobs, jobState'[j] = "leased"
        PROVE  /\ jobState[j] = "leased" /\ lease[j].id \in Proxies
               /\ lease[j].generation \in Nat
               /\ entry'[lease[j].id] = Refreshed[lease[j].id]
               /\ lease[j].generation <= entry[lease[j].id].generation
    <2>1. jobState[j] = "leased"
      BY <1>2, <1>8
    <2>2. lease[j].id \in roster
      BY <2>1 DEF LeaseInv, LeaseAccounting
    <2> QED BY <1>5, <2>1, <2>2, LeasedIsTyped DEF LeaseInv, LeasesNotAhead
  <1>9. \A p \in Proxies : entry[p] \in Entry
    BY DEF TypeOK
  <1>10. LeasesNotAhead'
    <2> SUFFICES ASSUME NEW j \in Jobs, jobState'[j] = "leased"
                 PROVE  lease'[j].generation <= entry'[lease'[j].id].generation
      BY DEF LeasesNotAhead
    <2>1. entry[lease[j].id].generation \in Nat /\ Refreshed[lease[j].id].generation \in Nat
      BY <1>8, <1>9, RefreshedFacts DEF Entry
    <2> QED BY <1>1, <1>8, <2>1, RefreshedFacts
  <1>11. CurrentLeaseInRotation'
    <2> SUFFICES ASSUME NEW j \in Jobs, NEW p \in Proxies, Holds(j, p)',
                        lease'[j].generation = entry'[p].generation
                 PROVE  ~Benched(entry'[p]) /\ ~entry'[p].retired /\ ~entry'[p].blocked
      BY DEF CurrentLeaseInRotation
    <2>1. /\ jobState'[j] = "leased" /\ lease[j].id = p
          /\ lease[j].generation = Refreshed[p].generation /\ entry'[p] = Refreshed[p]
      BY <1>1, <1>8 DEF Holds
    <2>2. entry[p].generation \in Nat
      BY <1>9 DEF Entry
    <2>3. Refreshed[p] = entry[p]
      BY <1>8, <2>1, <2>2, RefreshedFacts
    <2>4. Holds(j, p)
      BY <1>8, <2>1 DEF Holds
    <2> QED BY <2>1, <2>3, <2>4 DEF LeaseInv, CurrentLeaseInRotation
  <1>12. WithinCeiling'
    <2> SUFFICES ASSUME NEW p \in roster'
                 PROVE /\ MaxConcurrentPerProxy > 0 => entry'[p].inFlight <= MaxConcurrentPerProxy
                       /\ entry'[p].successes = 0 => entry'[p].inFlight <= ProbationConcurrency
      BY DEF WithinCeiling
    <2>1. p \in Proxies
      BY <1>1 DEF TypeOK
    <2>2. CASE p \in targets \ roster
      BY <1>5, <2>1, <2>2, FreshFacts, PoolAssumption
    <2>3. CASE p \notin targets \ roster
      BY <1>1, <1>5, <2>1, <2>3, RefreshedFacts DEF LeaseInv, WithinCeiling
    <2> QED BY <2>2, <2>3
  <1> QED BY <1>6, <1>7, <1>10, <1>11, <1>12 DEF LeaseInv

-----------------------------------------------------------------------------
(* Waiting and going direct.                                                *)

\* A wait for a slot begins only while some usable proxy is full, hence leased.
LEMMA FullMeansLeased ==
  ASSUME TypeOK, LeaseInv, Healthy # {}, Free = {}
  PROVE  \E j \in Jobs : jobState[j] = "leased"
  <1>1. PICK p \in Healthy : ~HasCapacity(entry[p])
    BY DEF Free
  <1>2. p \in Proxies /\ p \in roster
    BY DEF Healthy, TypeOK
  <1>3. entry[p] \in Entry /\ Sound(entry[p])
    BY <1>2 DEF TypeOK, LeaseInv, EntriesSound
  <1>4. entry[p].inFlight >= 1
    BY <1>1, <1>3, PoolAssumption DEF HasCapacity, Unbounded, CapacityOf, Lesser, Sound, Entry
  <1>5. Cardinality(Holders(p)) # 0
    BY <1>2, <1>3, <1>4 DEF LeaseInv, LeaseAccounting, Entry
  <1>6. Holders(p) # {}
    BY <1>5, FS_EmptySet
  <1> QED BY <1>6 DEF Holders, Holds

LEMMA PassKeepsRest ==
  ASSUME IInv, NEW j \in Jobs, NEW budget \in Int, Pass(j, budget), configured' = configured,
         jobState[j] \in {"idle", "woken"}
  PROVE  LeaseInv' /\ NoStrandedWaiter' /\ RosterConfigured' /\ NeverSilentlyDirect'
  <1> USE DEF IInv
  <1>1. /\ roster' = roster
        /\ \A i \in Jobs \ {j} : jobState'[i] = jobState[i]
        /\ \A i \in Jobs \ {j} : timer'[i] = timer[i]
        /\ jobState[j] # "leased"
    BY DEF Pass, AcquireThrows, GoDirect, Grant, ParkForSlot, Exhausted, ParkForRecovery,
           TypeOK, poolVars
  <1>2. RosterConfigured'
    BY <1>1 DEF RosterConfigured
  <1>3. CASE Grant(j)
    <2>1. LeaseInv'
      BY <1>1, <1>3, GrantKeepsLeaseInv
    <2>2. jobState'[j] = "leased"
      BY <1>3 DEF Grant, TypeOK
    <2> QED BY <1>1, <1>2, <2>1, <2>2 DEF NoStrandedWaiter, NeverSilentlyDirect
  <1>4. CASE ~Grant(j)
    <2>1. /\ lease' = lease /\ jobState'[j] # "leased"
          /\ \/ entry' = entry
             \/ entry' = Refreshed
      BY <1>4 DEF Pass, AcquireThrows, GoDirect, ParkForSlot, Exhausted, ParkForRecovery,
                  Swept, TypeOK, poolVars
    <2>2. Quiet
      BY <1>1, <2>1, RefreshedFacts DEF Quiet
    <2>3. LeaseInv'
      BY <2>2, QuietKeepsLeaseInv
    <2>4. \/ jobState'[j] # "parked"
          \/ timer'[j] # Null
          \/ Healthy # {} /\ Free = {}
      <3>1. CASE ParkForRecovery(j, budget)
        <4>1. PICK until \in BenchedUntil \cup {now + budget} : timer' = [timer EXCEPT ![j] = until]
          BY <3>1 DEF ParkForRecovery
        <4>2. now + budget \in Int /\ Null \notin BenchedUntil
          BY DEF BenchedUntil, TypeOK
        <4>3. until # Null
          <5>1. budget > 0 /\ now + budget \in Nat
            BY <3>1 DEF ParkForRecovery, TypeOK
          <5> QED BY <4>1, <4>2, <5>1, PoolAssumption
        <4> QED BY <4>1, <4>3 DEF TypeOK
      <3> QED BY <1>4, <3>1 DEF Pass, AcquireThrows, GoDirect, ParkForSlot, Exhausted, TypeOK
    <2>5. NoStrandedWaiter'
      <3> SUFFICES ASSUME NEW i \in Jobs, jobState'[i] = "parked", timer'[i] = Null
                   PROVE  \E k \in Jobs : jobState'[k] = "leased"
        BY DEF NoStrandedWaiter
      <3>1. \E k \in Jobs : jobState[k] = "leased"
        BY <1>1, <2>4, FullMeansLeased DEF NoStrandedWaiter
      <3> QED BY <1>1, <3>1
    <2>6. jobState'[j] = "direct" => roster = {} /\ ~RequireProxy
      BY <1>4 DEF Pass, AcquireThrows, GoDirect, ParkForSlot, Exhausted, ParkForRecovery, TypeOK
    <2>7. NeverSilentlyDirect'
      BY <1>1, <2>6 DEF NeverSilentlyDirect, RosterConfigured
    <2> QED BY <1>2, <2>3, <2>5, <2>7
  <1> QED BY <1>3, <1>4

\* The conjuncts other than types, for a step that changes no lease, leaves the
\* roster alone or shrinks it under a source, and parks and diverts nobody.
LEMMA QuietKeepsRest ==
  ASSUME IInv, Quiet, configured' = configured,
         roster' = roster \/ RequireProxy,
         \A j \in Jobs : jobState'[j] = "direct" => jobState[j] = "direct",
         \A j \in Jobs : jobState'[j] = "parked" /\ timer'[j] = Null
                        => jobState[j] = "parked" /\ timer[j] = Null
  PROVE  LeaseInv' /\ NoStrandedWaiter' /\ RosterConfigured' /\ NeverSilentlyDirect'
  <1>1. LeaseInv'
    BY QuietKeepsLeaseInv DEF IInv
  <1>2. NoStrandedWaiter'
    BY DEF IInv, NoStrandedWaiter, Quiet
  <1>3. RosterConfigured' /\ NeverSilentlyDirect'
    BY DEF IInv, RosterConfigured, NeverSilentlyDirect
  <1> QED BY <1>1, <1>2, <1>3

LEMMA WokenNobodyParked ==
  ASSUME TypeOK, NEW state \in [Jobs -> JobStates], WakeWaiters(state)
  PROVE  \A j \in Jobs : /\ jobState'[j] # "parked"
                         /\ jobState'[j] = "direct" => state[j] = "direct"
  BY DEF WakeWaiters

LEMMA NextKeepsIInv == IInv /\ [Next]_vars => IInv'
  <1> SUFFICES ASSUME IInv, [Next]_vars PROVE IInv'
    OBVIOUS
  <1> DEFINE Rest == LeaseInv' /\ NoStrandedWaiter' /\ RosterConfigured' /\ NeverSilentlyDirect'
  <1>1. TypeOK /\ TypeOK'
    BY NextKeepsTypes DEF IInv
  <1>2. ASSUME NEW j \in Jobs, Acquire(j) PROVE Rest
    <2>1. Pass(j, AcquireWaitMs) /\ AcquireWaitMs \in Int /\ jobState[j] = "idle"
          /\ configured' = configured
      BY <1>2, PoolAssumption DEF Acquire, CanAcquire
    <2> QED BY <2>1, PassKeepsRest
  <1>3. ASSUME NEW j \in Jobs, Resume(j) PROVE Rest
    <2>1. Pass(j, deadline[j] - now) /\ deadline[j] - now \in Int /\ jobState[j] = "woken"
          /\ configured' = configured
      BY <1>1, <1>3 DEF Resume, TypeOK
    <2> QED BY <2>1, PassKeepsRest
  <1>4. ASSUME NEW j \in Jobs, ReleaseSome(j) PROVE Rest
    <2>1. PICK o \in Outcomes : Release(j, o)
      BY <1>4 DEF ReleaseSome
    <2>2. LeaseInv'
      BY <1>1, <2>1, ReleaseKeepsLeaseInv DEF IInv
    <2>3. \A i \in Jobs : /\ jobState'[i] # "parked"
                          /\ jobState'[i] = "direct" => jobState[i] = "direct"
      <3>1. WakeWaiters([jobState EXCEPT ![j] = "idle"])
            /\ [jobState EXCEPT ![j] = "idle"] \in [Jobs -> JobStates]
        BY <1>1, <2>1 DEF Release, TypeOK, JobStates
      <3> QED BY <1>1, <3>1, WokenNobodyParked DEF TypeOK
    <2>4. configured' = configured /\ roster' = roster
      BY <2>1 DEF Release
    <2> QED BY <2>2, <2>3, <2>4
            DEF IInv, NoStrandedWaiter, RosterConfigured, NeverSilentlyDirect
  <1>5. ASSUME NEW targets \in SUBSET Proxies, Add(targets) PROVE Rest
    <2>1. LeaseInv'
      BY <1>1, <1>5, AddKeepsLeaseInv DEF IInv
    <2>2. \A i \in Jobs : /\ jobState'[i] # "parked"
                          /\ jobState'[i] = "direct" => jobState[i] = "direct"
      BY <1>1, <1>5, WokenNobodyParked DEF Add, TypeOK
    <2>3. configured' = configured /\ RequireProxy
      BY <1>5 DEF Add
    <2> QED BY <2>1, <2>2, <2>3
            DEF IInv, NoStrandedWaiter, RosterConfigured, NeverSilentlyDirect
  <1>6. ASSUME NEW targets \in SUBSET Proxies, Evict(targets) PROVE Rest
    <2>1. Quiet
      BY <1>1, <1>6, RefreshedFacts DEF Evict, Evictable, Swept, Quiet, jobVars
    <2> QED BY <1>6, <2>1, QuietKeepsRest DEF Evict, jobVars
  <1>7. ASSUME NEW j \in Jobs, FinishDirect(j) PROVE Rest
    <2>1. Quiet
      BY <1>1, <1>7 DEF FinishDirect, Quiet, poolVars, TypeOK
    <2> QED BY <1>1, <1>7, <2>1, QuietKeepsRest DEF FinishDirect, poolVars, TypeOK
  <1>8. ASSUME NEW j \in Jobs, TimerFires(j) PROVE Rest
    <2>1. Quiet
      BY <1>1, <1>8 DEF TimerFires, Quiet, poolVars, TypeOK
    <2> QED BY <1>1, <1>8, <2>1, QuietKeepsRest DEF TimerFires, poolVars, TypeOK
  <1>9. ASSUME NEW j \in Jobs, Abort(j) PROVE Rest
    <2>1. Quiet
      BY <1>1, <1>9 DEF Abort, Quiet, poolVars, TypeOK
    <2> QED BY <1>1, <1>9, <2>1, QuietKeepsRest DEF Abort, poolVars, TypeOK
  <1>10. ASSUME GetStats PROVE Rest
    <2>1. Quiet
      BY <1>1, <1>10, RefreshedFacts DEF GetStats, Swept, Quiet, jobVars
    <2> QED BY <1>10, <2>1, QuietKeepsRest DEF GetStats, jobVars
  <1>11. ASSUME SupplyChanges \/ Tick \/ UNCHANGED vars PROVE Rest
    <2>1. Quiet
      BY <1>11 DEF SupplyChanges, Tick, vars, Quiet, poolVars, jobVars
    <2> QED BY <1>11, <2>1, QuietKeepsRest DEF SupplyChanges, Tick, vars, poolVars, jobVars
  <1>12. Rest
    BY <1>2, <1>3, <1>4, <1>5, <1>6, <1>7, <1>8, <1>9, <1>10, <1>11 DEF Next, Finished
  <1> QED BY <1>1, <1>12 DEF IInv

LEMMA InitIInv == Init => IInv
  <1> SUFFICES ASSUME Init PROVE IInv
    OBVIOUS
  <1>1. TypeOK
    BY InitTypes
  <1>2. \A p \in Proxies : entry[p] = Fresh
    BY DEF Init
  <1>3. \A j \in Jobs : jobState[j] = "idle"
    BY DEF Init
  <1>4. \A p : Holders(p) = {}
    BY <1>3 DEF Holders, Holds
  <1>5. LeaseAccounting
    BY <1>1, <1>2, <1>3, <1>4, FreshFacts, FS_EmptySet DEF LeaseAccounting, TypeOK
  <1>6. EntriesSound
    BY <1>2, FreshFacts DEF EntriesSound
  <1>7. WithinCeiling
    BY <1>1, <1>2, FreshFacts, PoolAssumption DEF WithinCeiling, TypeOK
  <1>8. /\ LeasesNotAhead /\ CurrentLeaseInRotation /\ NoStrandedWaiter
        /\ NeverSilentlyDirect /\ RosterConfigured
    BY <1>3 DEF Init, LeasesNotAhead, CurrentLeaseInRotation, Holds, NoStrandedWaiter,
                NeverSilentlyDirect, RosterConfigured
  <1> QED BY <1>1, <1>5, <1>6, <1>7, <1>8 DEF IInv, LeaseInv

LEMMA IInvHolds == Spec => []IInv
  BY InitIInv, NextKeepsIInv, PTL DEF Spec

-----------------------------------------------------------------------------
(* The theorems.                                                            *)

\* The in-flight counter of a proxy is the number of jobs that hold it, in every
\* interleaving of acquires, releases, sweeps, admissions and evictions.
THEOREM LeasesAccounted == Spec => []LeaseAccounting
  BY IInvHolds, PTL DEF IInv, LeaseInv

\* No proxy is leased beyond its ceiling, or beyond the floor before its first
\* success, although its capacity may shrink while leases are out.
THEOREM CeilingKept == Spec => []WithinCeiling
  BY IInvHolds, PTL DEF IInv, LeaseInv

\* A lease that can still change the health of its proxy is on a proxy that is
\* in rotation, which is why stragglers cannot cut a bench short.
THEOREM StragglersPowerless == Spec => []CurrentLeaseInRotation
  BY IInvHolds, PTL DEF IInv, LeaseInv

\* Types, counts, ceilings and generations of the leases agree in every state.
THEOREM LeasesAreInOrder == Spec => []LeasesInOrder
  BY IInvHolds, PTL DEF IInv, LeaseInv, LeasesInOrder

\* A job waiting without a timer always has a release to wait for.
THEOREM NobodyStranded == Spec => []NoStrandedWaiter
  BY IInvHolds, PTL DEF IInv

\* A pool with a source or with a configured proxy never goes direct.
THEOREM NeverDirect == Spec => []NeverSilentlyDirect
  BY IInvHolds, PTL DEF IInv

-----------------------------------------------------------------------------
(* Benches are served.                                                      *)

\* What a step may do to the bench and to the retirement of one entry.
Serving(e, f) ==
  /\ Benched(e) => \/ f.cooldownUntil = e.cooldownUntil
                   \/ f.cooldownUntil = Null /\ now >= e.cooldownUntil
  /\ e.retired => f.retired

LEMMA RefreshedServing ==
  ASSUME TypeOK, NEW p \in Proxies
  PROVE  Serving(entry[p], Refreshed[p]) /\ Serving(entry[p], entry[p])
  <1>1. entry[p] \in Entry /\ now \in Nat
    BY DEF TypeOK
  <1>2. CASE p \in roster /\ Expired(entry[p])
    <2>1. Refreshed[p] = Recovered(entry[p])
      BY <1>2 DEF Refreshed
    <2>2. Refreshed[p].cooldownUntil = Null /\ ~entry[p].retired
      BY <1>1, <1>2, <2>1, RecoveredFacts DEF Expired
    <2>3. now >= entry[p].cooldownUntil
      BY <1>1, <1>2 DEF Expired, Entry
    <2> QED BY <2>2, <2>3 DEF Serving
  <1>3. CASE ~(p \in roster /\ Expired(entry[p]))
    <2>1. Refreshed[p] = entry[p]
      BY <1>3 DEF Refreshed
    <2> QED BY <2>1 DEF Serving
  <1> QED BY <1>2, <1>3 DEF Serving

LEMMA StepServes ==
  ASSUME IInv, [Next]_vars, NEW p \in roster \cap roster'
  PROVE  Serving(entry[p], entry'[p])
  <1>1. TypeOK /\ p \in Proxies
    BY DEF IInv, TypeOK
  <1>2. CASE entry'[p] = entry[p] \/ entry'[p] = Refreshed[p]
    BY <1>1, <1>2, RefreshedServing
  <1>3. ASSUME NEW j \in Jobs, Grant(j) PROVE Serving(entry[p], entry'[p])
    <2>1. PICK q \in Free : entry' = [Refreshed EXCEPT ![q] = CheckedOut(@)]
      BY <1>3 DEF Grant
    <2>2. Refreshed \in [Proxies -> Entry]
      BY <1>1, SweptType
    <2>3. CASE p # q
      BY <1>1, <2>1, <2>2, <2>3, RefreshedServing
    <2>4. CASE p = q
      <3>1. entry'[p] = CheckedOut(Refreshed[p])
        BY <1>1, <2>1, <2>2, <2>4
      <3>2. /\ entry'[p].retired = Refreshed[p].retired
            /\ entry'[p].cooldownUntil = Refreshed[p].cooldownUntil
        BY <1>1, <2>2, <3>1, CheckedOutFacts
      <3> QED BY <1>1, <3>2, RefreshedServing DEF Serving
    <2> QED BY <2>3, <2>4
  <1>4. ASSUME NEW j \in Jobs, NEW budget, Pass(j, budget) PROVE Serving(entry[p], entry'[p])
    BY <1>2, <1>3, <1>4
       DEF Pass, AcquireThrows, GoDirect, ParkForSlot, Exhausted, ParkForRecovery, Swept, poolVars
  <1>5. ASSUME NEW j \in Jobs, ReleaseSome(j) PROVE Serving(entry[p], entry'[p])
    <2>1. PICK o \in Outcomes : Release(j, o)
      BY <1>5 DEF ReleaseSome
    <2>2. PICK q \in Proxies : q = lease[j].id
      BY <1>1, <2>1, LeasedIsTyped DEF Release
    <2> DEFINE c == lease[j].generation = entry[q].generation
               r == Returned(entry[q], o, c)
    <2>3. entry' = [entry EXCEPT ![q] = r]
      BY <2>1, <2>2 DEF Release
    <2>4. Judged(entry[q], r, c)
      BY <1>1, ReturnedIsJudged DEF TypeOK
    <2>5. c => ~Benched(entry[q]) /\ ~entry[q].retired
      BY <2>1, <2>2 DEF Release, Holds, IInv, LeaseInv, CurrentLeaseInRotation
    <2> HIDE DEF r
    <2>6. Serving(entry[q], r)
      BY <2>4, <2>5 DEF Judged, Serving
    <2>7. entry'[p] = IF p = q THEN r ELSE entry[p]
      BY <1>1, <2>3 DEF TypeOK
    <2> QED BY <1>1, <2>6, <2>7, RefreshedServing
  <1>6. ASSUME NEW targets \in SUBSET Proxies, Add(targets) PROVE Serving(entry[p], entry'[p])
    BY <1>1, <1>2, <1>6 DEF Add
  <1> QED BY <1>2, <1>4, <1>5, <1>6
          DEF Next, Acquire, Resume, FinishDirect, TimerFires, Abort, Evict, GetStats, Swept,
              SupplyChanges, Tick, Finished, vars, poolVars

\* A bench is served in full and exactly once, and retirement is for good, while
\* the entry stays on the roster: no report, sweep or admission cuts it short.
THEOREM SentencesServed == Spec => SentenceServed
  <1>1. IInv /\ [Next]_vars =>
          [\A p \in roster \cap roster' :
             /\ Benched(entry[p]) => \/ entry'[p].cooldownUntil = entry[p].cooldownUntil
                                     \/ /\ entry'[p].cooldownUntil = Null
                                        /\ now >= entry[p].cooldownUntil
             /\ entry[p].retired => entry'[p].retired]_vars
    BY StepServes DEF Serving
  <1> QED BY <1>1, IInvHolds, PTL DEF Spec, SentenceServed

-----------------------------------------------------------------------------
(* The events.                                                              *)

\* A proxy that was ever leased has been requested, whoever holds it still.
Tried(e) == e.successes > 0 \/ e.inFlight > 0 => e.requests > 0

\* The listener's last word on an entry that no sweep has just looked at, ...
Told(e, a) == \/ a = HealthOf(e)
              \/ a = "cooling" /\ Expired(e)
              \/ a = "untested" /\ HealthOf(e) = "probation"

\* ... and on one that was: no bench has run out without notice.
ToldBySweep(e, a) == a = HealthOf(e) \/ (a = "untested" /\ HealthOf(e) = "probation")

EventInv == IInv /\ (\A p \in Proxies : Tried(entry[p])) /\ EventsTrackHealth

LEMMA SweptIsTold ==
  ASSUME TypeOK, EventsTrackHealth, NEW p \in roster
  PROVE  ToldBySweep(Refreshed[p], AnnouncedByRefresh[p]) /\ ~Expired(Refreshed[p])
  <1>1. p \in Proxies /\ entry[p] \in Entry
    BY DEF TypeOK
  <1>2. CASE Expired(entry[p])
    <2>1. /\ Refreshed[p] = Recovered(entry[p])
          /\ AnnouncedByRefresh[p] = HealthOf(Recovered(entry[p]))
      BY <1>1, <1>2 DEF Refreshed, AnnouncedByRefresh
    <2>2. Recovered(entry[p]).cooldownUntil = Null
      BY <1>1, RecoveredFacts
    <2> QED BY <2>1, <2>2 DEF ToldBySweep, Expired
  <1>3. CASE ~Expired(entry[p])
    <2>1. Refreshed[p] = entry[p] /\ AnnouncedByRefresh[p] = announced[p]
      BY <1>1, <1>3 DEF Refreshed, AnnouncedByRefresh
    <2> QED BY <1>3, <2>1 DEF ToldBySweep, EventsTrackHealth
  <1> QED BY <1>2, <1>3

\* Nothing is announced for a first lease, and no other lease changes health.
LEMMA LeasedIsTold ==
  ASSUME NEW e \in Entry, NEW a, Tried(e), Usable(e), sequence \in Nat, ToldBySweep(e, a)
  PROVE  ToldBySweep(CheckedOut(e), a) /\ Tried(CheckedOut(e))
  <1> DEFINE c == CheckedOut(e)
  <1>1. /\ c.requests = e.requests + 1 /\ c.successes = e.successes
        /\ c.consecutiveFailures = e.consecutiveFailures
        /\ c.retired = e.retired /\ c.cooldownUntil = e.cooldownUntil
    BY DEF CheckedOut, Entry
  <1>2. e.requests \in Nat /\ e.successes \in Nat
    BY DEF Entry
  <1>3. c.requests > 0 /\ ~(c.requests = 0)
    BY <1>1, <1>2
  <1> HIDE DEF c
  <1>4. Usable(c) /\ ~e.retired /\ ~c.retired
    BY <1>1 DEF Usable
  <1>5. CASE e.requests = 0
    <2>1. ~(c.successes > 0)
      BY <1>1, <1>2, <1>5 DEF Tried
    <2>2. HealthOf(c) = "probation" /\ HealthOf(e) = "untested"
      BY <1>3, <1>4, <1>5, <2>1 DEF HealthOf
    <2> QED BY <1>3, <2>2 DEF ToldBySweep, Tried, c
  <1>6. CASE e.requests # 0
    <2>1. e.requests > 0
      BY <1>2, <1>6
    <2>2. HealthOf(c) = HealthOf(e)
      BY <1>1, <1>3, <1>4, <1>6, <2>1 DEF HealthOf
    <2> QED BY <1>3, <2>2 DEF ToldBySweep, Tried, c
  <1> QED BY <1>5, <1>6

\* A release reports, and counts no request.
LEMMA TrustKeepsRequests ==
  ASSUME NEW e \in Entry
  PROVE  LoseTrust(e).requests = e.requests /\ EarnTrust(e).requests = e.requests
  BY DEF LoseTrust, EarnTrust, Entry

LEMMA StruckKeepsRequests ==
  ASSUME NEW e \in Entry PROVE Struck(e).requests = e.requests
  BY PoolAssumption DEF Struck, LoseTrust, Greater, Lesser, Entry

LEMMA FailedKeepsRequests ==
  ASSUME NEW e \in Entry PROVE Failed(e).requests = e.requests
  BY StruckKeepsRequests, StruckType DEF Failed, Entry

LEMMA BlockedKeepsRequests ==
  ASSUME NEW e \in Entry PROVE Blocked(e).requests = e.requests
  BY StruckKeepsRequests, StruckType DEF Blocked, Entry

LEMMA UnsuitableKeepsRequests ==
  ASSUME NEW e \in Entry PROVE Unsuitable(e).requests = e.requests
  BY PoolAssumption DEF Unsuitable, LoseTrust, Greater, Lesser, Entry

LEMMA CreditedKeepsRequests ==
  ASSUME NEW e \in Entry PROVE Credited(e).requests = e.requests
  BY PoolAssumption DEF Credited, EarnTrust, Lesser, Entry

LEMMA ReportedKeepsRequests ==
  ASSUME NEW e \in Entry, NEW o \in Outcomes, NEW c \in BOOLEAN, now \in Nat
  PROVE  Reported(e, o, c).requests = e.requests
  <1> DEFINE good == [e EXCEPT !.successes = @ + 1]
             bad  == [e EXCEPT !.failures = @ + 1]
  <1>1. good \in Entry /\ bad \in Entry
    BY SetSuccesses, SetFailures DEF Entry
  <1>2. good.requests = e.requests /\ bad.requests = e.requests
    BY DEF Entry
  <1>3. /\ ReportSuccess(e, c) = Settled(e, IF c THEN Credited(good) ELSE good)
        /\ ReportFailure(e, c) = Settled(e, IF c THEN Failed(bad) ELSE bad)
        /\ ReportUnsuitable(e, c) = Settled(e, IF c THEN Unsuitable(bad) ELSE bad)
        /\ MarkBlocked(e, c) = Settled(e, IF c THEN Blocked(bad) ELSE bad)
    BY DEF ReportSuccess, ReportFailure, ReportUnsuitable, MarkBlocked
  <1> HIDE DEF good, bad
  <1>4. \A f \in Entry : Settled(e, f).requests = f.requests
    BY DEF Settled, Entry
  <1>5. /\ Credited(good) \in Entry /\ Failed(bad) \in Entry /\ Unsuitable(bad) \in Entry
        /\ Blocked(bad) \in Entry
    BY <1>1, CreditedType, FailedType, UnsuitableType, BlockedType
  <1>6. /\ Credited(good).requests = e.requests /\ Failed(bad).requests = e.requests
        /\ Unsuitable(bad).requests = e.requests /\ Blocked(bad).requests = e.requests
    BY <1>1, <1>2, CreditedKeepsRequests, FailedKeepsRequests, UnsuitableKeepsRequests,
       BlockedKeepsRequests
  <1>7. /\ ReportSuccess(e, c).requests = e.requests
        /\ ReportFailure(e, c).requests = e.requests
        /\ ReportUnsuitable(e, c).requests = e.requests
        /\ MarkBlocked(e, c).requests = e.requests
    BY <1>1, <1>2, <1>3, <1>4, <1>5, <1>6
  <1> QED BY <1>7 DEF Reported

LEMMA ReturnedKeepsRequests ==
  ASSUME NEW e \in Entry, NEW o \in Outcomes, NEW c \in BOOLEAN, now \in Nat
  PROVE  Returned(e, o, c).requests = e.requests
  <1> DEFINE q == Reported(e, o, c)
  <1>1. q \in Entry /\ q.requests = e.requests
    BY ReportedType, ReportedKeepsRequests
  <1> HIDE DEF q
  <1>2. [q EXCEPT !.inFlight = IF @ > 0 THEN @ - 1 ELSE @].requests = e.requests
    BY <1>1 DEF Entry
  <1> QED BY <1>2 DEF Returned, q

\* A stale report leaves an expired bench to the sweep, a current one finds none.
LEMMA ReturnedIsTold ==
  ASSUME NEW e \in Entry, NEW o \in Outcomes, NEW c \in BOOLEAN, now \in Nat, NEW a,
         c => ~Benched(e), Told(e, a)
  PROVE  LET r == Returned(e, o, c)
         IN  Told(r, IF HealthOf(r) # HealthOf(e) THEN HealthOf(r) ELSE a)
  <1> DEFINE r == Returned(e, o, c)
  <1>1. Judged(e, r, c)
    BY ReturnedIsJudged
  <1> HIDE DEF r
  <1>2. CASE HealthOf(r) # HealthOf(e)
    BY <1>2 DEF Told, r
  <1>3. CASE HealthOf(r) = HealthOf(e) /\ Expired(e)
    <2>1. ~c
      BY <1>3 DEF Expired, Benched
    <2>2. Expired(r)
      BY <1>1, <1>3, <2>1 DEF Judged, Expired
    <2> QED BY <1>3, <2>2 DEF Told, r
  <1>4. CASE HealthOf(r) = HealthOf(e) /\ ~Expired(e)
    BY <1>4 DEF Told, r
  <1> QED BY <1>2, <1>3, <1>4

LEMMA RecoveredIsTried ==
  ASSUME TypeOK, NEW p \in Proxies, Tried(entry[p])
  PROVE  Tried(Refreshed[p])
  <1>1. entry[p] \in Entry
    BY DEF TypeOK
  <1>2. /\ Recovered(entry[p]).requests = entry[p].requests
        /\ Recovered(entry[p]).successes = entry[p].successes
        /\ Recovered(entry[p]).inFlight = entry[p].inFlight
    BY <1>1 DEF Recovered, Entry
  <1>3. Refreshed[p] = entry[p] \/ Refreshed[p] = Recovered(entry[p])
    BY DEF Refreshed
  <1> QED BY <1>2, <1>3 DEF Tried

LEMMA SameClock ==
  ASSUME now' = now, NEW p, NEW e, NEW a, entry'[p] = e, announced'[p] = a, Told(e, a)
  PROVE  Told(entry[p], announced[p])'
  BY DEF Told, HealthOf, Usable, Expired

\* What a step leaves for one proxy: whether it was tried, and its last event.
Heard(p) == Tried(entry[p]) /\ (p \in roster => Told(entry[p], announced[p]))

LEMMA UntouchedIsHeard ==
  ASSUME now' = now, roster' = roster, NEW p, entry'[p] = entry[p],
         announced'[p] = announced[p], Heard(p)
  PROVE  Heard(p)'
  BY SameClock DEF Heard, Tried

LEMMA SweptIsHeard ==
  ASSUME EventInv, NEW p \in Proxies, now' = now, p \in roster' => p \in roster,
         entry'[p] = Refreshed[p], announced'[p] = AnnouncedByRefresh[p]
  PROVE  Heard(p)'
  <1>1. Tried(Refreshed[p])
    BY RecoveredIsTried DEF EventInv, IInv
  <1>2. ASSUME p \in roster' PROVE Told(entry[p], announced[p])'
    <2>1. Told(Refreshed[p], AnnouncedByRefresh[p])
      BY <1>2, SweptIsTold DEF EventInv, IInv, ToldBySweep, Told
    <2> QED BY <2>1, SameClock
  <1> QED BY <1>1, <1>2 DEF Heard, Tried

LEMMA GrantIsHeard ==
  ASSUME EventInv, NEW p \in Proxies, now' = now, NEW j \in Jobs, Grant(j)
  PROVE  Heard(p)'
  <1>1. TypeOK /\ EntriesSound /\ EventsTrackHealth /\ sequence \in Nat /\ roster' = roster
        /\ announced' = AnnouncedByRefresh
    BY DEF EventInv, IInv, LeaseInv, TypeOK, Grant
  <1>2. PICK q \in Free : entry' = [Refreshed EXCEPT ![q] = CheckedOut(@)]
    BY DEF Grant
  <1>3. Refreshed \in [Proxies -> Entry]
    BY <1>1, SweptType
  <1>4. CASE p # q
    BY <1>1, <1>2, <1>3, <1>4, SweptIsHeard
  <1>5. CASE p = q
    <2> DEFINE e == Refreshed[p]
               a == AnnouncedByRefresh[p]
    <2>1. e \in Entry /\ entry'[p] = CheckedOut(e) /\ announced'[p] = a
      BY <1>1, <1>2, <1>3, <1>5
    <2>2. p \in roster /\ Usable(e)
      BY <1>1, <1>5, FreeIsInRotation DEF Usable
    <2>3. ToldBySweep(e, a) /\ Tried(e)
      BY <1>1, <2>2, SweptIsTold, RecoveredIsTried DEF EventInv
    <2> HIDE DEF e, a
    <2>4. ToldBySweep(CheckedOut(e), a) /\ Tried(CheckedOut(e))
      BY <1>1, <2>1, <2>2, <2>3, LeasedIsTold
    <2>5. Told(CheckedOut(e), a)
      BY <2>4 DEF ToldBySweep, Told
    <2>6. Told(entry[p], announced[p])'
      BY <2>1, <2>5, SameClock
    <2> QED BY <2>1, <2>4, <2>6 DEF Heard, Tried
  <1> QED BY <1>4, <1>5

LEMMA ReleaseIsHeard ==
  ASSUME EventInv, NEW p \in Proxies, NEW j \in Jobs, NEW o \in Outcomes, Release(j, o)
  PROVE  Heard(p)'
  <1>1. /\ TypeOK /\ now \in Nat /\ now' = now /\ roster' = roster
        /\ jobState[j] = "leased" /\ Heard(p)
    BY DEF EventInv, IInv, TypeOK, Release, Heard, EventsTrackHealth, Told
  <1>2. PICK q \in Proxies : q = lease[j].id
    BY <1>1, LeasedIsTyped
  <1> DEFINE c == lease[j].generation = entry[q].generation
             r == Returned(entry[q], o, c)
             a == IF HealthOf(r) # HealthOf(entry[q]) THEN HealthOf(r) ELSE announced[q]
  <1>3. entry' = [entry EXCEPT ![q] = r] /\ announced' = [announced EXCEPT ![q] = a]
    BY <1>2 DEF Release
  <1>4. q \in roster /\ entry[q] \in Entry /\ c \in BOOLEAN
    BY <1>1, <1>2 DEF EventInv, IInv, LeaseInv, LeaseAccounting, TypeOK
  <1>5. entry[q].inFlight > 0
    <2>1. entry[q].inFlight = Cardinality(Holders(q)) /\ j \in Holders(q)
      BY <1>1, <1>2, <1>4 DEF EventInv, IInv, LeaseInv, LeaseAccounting, Holders, Holds
    <2>2. Cardinality(Holders(q)) # 0 /\ Cardinality(Holders(q)) \in Nat
      BY <2>1, HoldersFinite, FS_EmptySet, FS_CardinalityType
    <2> QED BY <2>1, <2>2
  <1>6. Tried(r)
    <2>1. r.requests = entry[q].requests
      BY <1>1, <1>4, ReturnedKeepsRequests
    <2>2. entry[q].requests > 0
      BY <1>5 DEF EventInv, Tried
    <2> QED BY <2>1, <2>2 DEF Tried
  <1>7. Told(r, a)
    <2>1. Told(entry[q], announced[q])
      BY <1>4 DEF EventInv, EventsTrackHealth, Told
    <2>2. c => ~Benched(entry[q])
      BY <1>1, <1>2 DEF EventInv, IInv, LeaseInv, CurrentLeaseInRotation, Holds
    <2> QED BY <1>1, <1>4, <2>1, <2>2, ReturnedIsTold
  <1> HIDE DEF r, a
  <1>8. CASE p = q
    <2>1. entry'[p] = r /\ announced'[p] = a
      BY <1>1, <1>3, <1>8 DEF TypeOK
    <2>2. Told(entry[p], announced[p])'
      BY <1>1, <1>7, <2>1, SameClock
    <2> QED BY <1>6, <2>1, <2>2 DEF Heard, Tried
  <1>9. CASE p # q
    <2>1. entry'[p] = entry[p] /\ announced'[p] = announced[p]
      BY <1>1, <1>3, <1>9 DEF TypeOK
    <2> QED BY <1>1, <2>1, UntouchedIsHeard
  <1> QED BY <1>8, <1>9

LEMMA AddIsHeard ==
  ASSUME EventInv, NEW p \in Proxies, NEW targets \in SUBSET Proxies, Add(targets)
  PROVE  Heard(p)'
  <1>1. /\ now' = now /\ roster' = roster \cup targets
        /\ entry' = [q \in Proxies |-> IF q \in targets \ roster THEN Fresh ELSE Refreshed[q]]
        /\ announced' = [q \in Proxies |-> IF q \in targets \ roster THEN "untested"
                                           ELSE AnnouncedByRefresh[q]]
    BY DEF Add
  <1>2. CASE p \in targets \ roster
    <2>1. entry'[p] = Fresh /\ announced'[p] = "untested"
      BY <1>1, <1>2
    <2>2. Told(Fresh, "untested") /\ Tried(Fresh)
      <3>1. /\ ~Fresh.retired /\ Fresh.cooldownUntil = Null /\ Fresh.requests = 0
            /\ Fresh.successes = 0 /\ Fresh.inFlight = 0
        BY DEF Fresh
      <3> QED BY <3>1 DEF Told, Tried, HealthOf, Usable
    <2>3. Told(entry[p], announced[p])'
      BY <1>1, <2>1, <2>2, SameClock
    <2> QED BY <2>1, <2>2, <2>3 DEF Heard, Tried
  <1>3. CASE p \notin targets \ roster
    <2>1. /\ entry'[p] = Refreshed[p] /\ announced'[p] = AnnouncedByRefresh[p]
          /\ p \in roster' => p \in roster
      BY <1>1, <1>3
    <2> QED BY <1>1, <2>1, SweptIsHeard
  <1> QED BY <1>2, <1>3

\* Time ends a bench before a sweep has told of it, and changes nothing else.
LEMMA TickIsHeard ==
  ASSUME EventInv, NEW p \in Proxies, Tick
  PROVE  Heard(p)'
  <1>1. /\ now' = now + 1 /\ entry' = entry /\ announced' = announced /\ roster' = roster
        /\ now \in Nat /\ entry[p] \in Entry
    BY DEF Tick, poolVars, EventInv, IInv, TypeOK
  <1>2. Tried(entry[p]) /\ (p \in roster => Told(entry[p], announced[p]))
    BY DEF EventInv, EventsTrackHealth, Told
  <1>3. ASSUME p \in roster, Told(entry[p], announced[p])
        PROVE  Told(entry[p], announced[p])'
    <2> DEFINE e == entry[p]
    <2>1. e.cooldownUntil \in Nat \cup {Null} /\ e.retired \in BOOLEAN
      BY <1>1 DEF Entry
    <2>2. entry'[p] = e /\ announced'[p] = announced[p]
      BY <1>1
    <2> HIDE DEF e
    <2>3. CASE e.retired \/ e.cooldownUntil = Null \/ e.cooldownUntil <= now
      <3>1. /\ Usable(entry[p])' <=> Usable(e)
            /\ Expired(e) => Expired(entry[p])'
        BY <1>1, <2>1, <2>2, <2>3 DEF Usable, Expired
      <3>2. HealthOf(entry[p])' = HealthOf(e)
        BY <2>2, <3>1 DEF HealthOf
      <3> QED BY <1>3, <2>2, <3>1, <3>2 DEF Told, e
    <2>4. CASE ~(e.retired \/ e.cooldownUntil = Null \/ e.cooldownUntil <= now)
      <3>1. ~Usable(e) /\ ~e.retired /\ ~Expired(e)
        BY <2>4 DEF Usable, Expired
      <3>2. HealthOf(e) = "cooling"
        BY <3>1 DEF HealthOf
      <3>3. announced[p] = "cooling"
        BY <1>3, <3>1, <3>2 DEF Told, e
      <3>4. CASE Usable(entry[p])'
        <4>1. Expired(entry[p])'
          BY <2>2, <2>4, <3>4 DEF Usable, Expired
        <4> QED BY <2>2, <3>3, <4>1 DEF Told
      <3>5. CASE ~Usable(entry[p])'
        <4>1. HealthOf(entry[p])' = "cooling"
          BY <2>2, <2>4, <3>5 DEF HealthOf
        <4> QED BY <2>2, <3>3, <4>1 DEF Told
      <3> QED BY <3>4, <3>5
    <2> QED BY <2>3, <2>4
  <1> QED BY <1>1, <1>2, <1>3 DEF Heard, Tried

LEMMA NextKeepsEvents ==
  ASSUME EventInv, [Next]_vars
  PROVE  EventInv'
  <1>1. IInv'
    BY NextKeepsIInv DEF EventInv
  <1>2. ASSUME NEW p \in Proxies PROVE Heard(p)'
    <2>1. Heard(p)
      BY DEF EventInv, EventsTrackHealth, Heard, Told
    <2>2. CASE /\ now' = now /\ roster' = roster
               /\ entry' = entry /\ announced' = announced
      BY <2>1, <2>2, UntouchedIsHeard
    <2>3. CASE now' = now /\ roster' \subseteq roster /\ Swept
      BY <2>3, SweptIsHeard DEF Swept
    <2>4. ASSUME NEW j \in Jobs, NEW budget, Pass(j, budget), now' = now PROVE Heard(p)'
      <3>1. CASE AcquireThrows(j)
        BY <2>2, <2>4, <3>1 DEF AcquireThrows, poolVars
      <3>2. CASE GoDirect(j) \/ ParkForSlot(j) \/ Exhausted(j, budget) \/ ParkForRecovery(j, budget)
        BY <2>3, <2>4, <3>2 DEF GoDirect, ParkForSlot, Exhausted, ParkForRecovery
      <3>3. CASE Grant(j)
        BY <2>4, <3>3, GrantIsHeard
      <3> QED BY <2>4, <3>1, <3>2, <3>3 DEF Pass
    <2>5. ASSUME NEW j \in Jobs, Acquire(j) \/ Resume(j) PROVE Heard(p)'
      BY <2>4, <2>5 DEF Acquire, Resume
    <2>6. ASSUME NEW j \in Jobs, ReleaseSome(j) PROVE Heard(p)'
      BY <2>6, ReleaseIsHeard DEF ReleaseSome
    <2>7. ASSUME NEW j \in Jobs, FinishDirect(j) \/ TimerFires(j) \/ Abort(j) PROVE Heard(p)'
      BY <2>2, <2>7 DEF FinishDirect, TimerFires, Abort, poolVars
    <2>8. ASSUME NEW targets \in SUBSET Proxies, Add(targets) PROVE Heard(p)'
      BY <2>8, AddIsHeard
    <2>9. ASSUME NEW targets \in SUBSET Proxies, Evict(targets) PROVE Heard(p)'
      BY <2>3, <2>9 DEF Evict
    <2>10. CASE GetStats
      BY <2>3, <2>10 DEF GetStats
    <2>11. CASE Tick
      BY <2>11, TickIsHeard
    <2>12. CASE SupplyChanges \/ UNCHANGED vars
      BY <2>2, <2>12 DEF SupplyChanges, vars, poolVars
    <2> QED BY <2>5, <2>6, <2>7, <2>8, <2>9, <2>10, <2>11, <2>12 DEF Next, Finished
  <1>3. roster' \subseteq Proxies
    BY <1>1 DEF IInv, TypeOK
  <1> QED BY <1>1, <1>2, <1>3 DEF EventInv, EventsTrackHealth, Heard, Told

LEMMA InitEventInv == Init => EventInv
  <1> SUFFICES ASSUME Init PROVE EventInv
    OBVIOUS
  <1>1. /\ ~Fresh.retired /\ Fresh.cooldownUntil = Null /\ Fresh.requests = 0
        /\ Fresh.successes = 0 /\ Fresh.inFlight = 0
    BY DEF Fresh
  <1>2. \A p \in Proxies : entry[p] = Fresh /\ announced[p] = "untested"
    BY DEF Init
  <1>3. HealthOf(Fresh) = "untested" /\ Tried(Fresh)
    BY <1>1 DEF HealthOf, Usable, Tried
  <1>4. IInv /\ roster \subseteq Proxies
    BY InitIInv DEF IInv, TypeOK
  <1> QED BY <1>2, <1>3, <1>4 DEF EventInv, EventsTrackHealth

\* The event stream tells the truth: the last event of a proxy is its health,
\* but for a bench no sweep has noticed the end of and for a first lease.
THEOREM EventsAreTrue == Spec => []EventsTrackHealth
  <1>1. EventInv => EventsTrackHealth
    BY DEF EventInv
  <1> QED BY <1>1, InitEventInv, NextKeepsEvents, PTL DEF Spec

-----------------------------------------------------------------------------
(* The pool implements LeasedPool.                                          *)


\* The standing of one entry of the roster.
StandingOf(e) == IF e.retired THEN "retired" ELSE IF Usable(e) THEN "in" ELSE "benched"

LEMMA StandingAt ==
  ASSUME NEW p \in Proxies
  PROVE  Standing[p] = IF p \notin roster THEN "out" ELSE StandingOf(entry[p])
  BY DEF Standing, StandingOf

LEMMA StandingAtNext ==
  ASSUME NEW p \in Proxies
  PROVE  Standing'[p] = IF p \notin roster' THEN "out" ELSE StandingOf(entry[p])'
  BY DEF Standing, StandingOf

\* A sweep moves nobody: what it recovers was usable already.
LEMMA SweepKeepsStanding ==
  ASSUME TypeOK, NEW p \in Proxies
  PROVE  StandingOf(Refreshed[p]) = StandingOf(entry[p])
  <1>1. entry[p] \in Entry
    BY DEF TypeOK
  <1>2. CASE p \in roster /\ Expired(entry[p])
    <2>1. Refreshed[p] = Recovered(entry[p])
      BY <1>2 DEF Refreshed
    <2> QED BY <1>1, <1>2, <2>1, RecoveredFacts DEF StandingOf, Usable, Expired
  <1>3. CASE ~(p \in roster /\ Expired(entry[p]))
    <2>1. Refreshed[p] = entry[p]
      BY <1>3 DEF Refreshed
    <2> QED BY <2>1
  <1> QED BY <1>2, <1>3

\* Same roster, same clock, and every entry as standing as before.
LEMMA SameStanding ==
  ASSUME roster' = roster, now' = now,
         \A p \in roster \cap Proxies : StandingOf(entry'[p]) = StandingOf(entry[p])
  PROVE  Standing' = Standing
  BY DEF Standing, StandingOf, Usable

LEMMA SameHolders ==
  ASSUME TypeOK, lease' = lease, \A j \in Jobs : jobState'[j] = "leased" <=> jobState[j] = "leased"
  PROVE  HeldBy' = HeldBy
  BY DEF HeldBy, Holders, Holds

-----------------------------------------------------------------------------
(* Every step of the pool is a step of LeasedPool or changes nothing in it. *)

LEMMA GrantTakes ==
  ASSUME IInv, NEW j \in Jobs, jobState[j] # "leased", Grant(j), now' = now
  PROVE  \E p \in Proxies : Promise!Take(j, p)
  <1>1. PICK p \in Free :
          /\ entry' = [Refreshed EXCEPT ![p] = CheckedOut(@)]
          /\ lease' = [lease EXCEPT ![j] = [id |-> p, generation |-> Refreshed[p].generation]]
          /\ jobState' = [jobState EXCEPT ![j] = "leased"]
          /\ roster' = roster
    BY DEF Grant
  <1>2. TypeOK /\ EntriesSound
    BY DEF IInv, LeaseInv
  <1>3. p \in roster /\ p \in Proxies /\ Usable(entry[p])
    BY <1>2 DEF Free, Healthy, TypeOK
  <1>4. Refreshed \in [Proxies -> Entry]
    BY <1>2, SweptType
  <1>5. Standing[p] = "in"
    BY <1>3, StandingAt DEF StandingOf, Usable
  <1>6. Standing' = Standing
    <2>1. ASSUME NEW q \in roster \cap Proxies PROVE StandingOf(entry'[q]) = StandingOf(entry[q])
      <3>1. CASE q = p
        <4>1. entry'[q] = CheckedOut(Refreshed[q])
          BY <1>1, <1>3, <1>4, <3>1
        <4>2. StandingOf(entry'[q]) = StandingOf(Refreshed[q])
          BY <1>4, <4>1, CheckedOutFacts DEF StandingOf, Usable
        <4> QED BY <1>2, <4>2, SweepKeepsStanding
      <3>2. CASE q # p
        BY <1>1, <1>2, <1>4, <3>2, SweepKeepsStanding
      <3> QED BY <3>1, <3>2
    <2> QED BY <1>1, <2>1, SameStanding
  <1>7. \A i \in Jobs : \A q \in Proxies : Holds(i, q)' <=> Holds(i, q) \/ (i = j /\ q = p)
    BY <1>1, <1>2 DEF Holds, TypeOK
  <1>8. HeldBy' = [HeldBy EXCEPT ![p] = @ \cup {j}]
    BY <1>3, <1>7 DEF HeldBy, Holders
  <1>9. \A q \in Proxies : j \notin HeldBy[q]
    BY DEF HeldBy, Holders, Holds
  <1>10. MaxConcurrentPerProxy > 0 => Cardinality(HeldBy[p]) < MaxConcurrentPerProxy
    BY <1>2, <1>3, FreeHasRoom DEF HeldBy, IInv, LeaseInv, LeaseAccounting
  <1>11. Promise!Take(j, p)
    BY <1>5, <1>6, <1>8, <1>9, <1>10 DEF Promise!Take, Promise!Cardinality, Cardinality
  <1> QED BY <1>3, <1>11

LEMMA ReleaseGivesBack ==
  ASSUME IInv, NEW j \in Jobs, NEW o \in Outcomes, Release(j, o)
  PROVE  \E p \in Proxies : Promise!GiveBack(j, p)
  <1>1. TypeOK /\ jobState[j] = "leased"
    BY DEF IInv, Release
  <1>2. PICK p \in Proxies : p = lease[j].id
    BY <1>1, LeasedIsTyped
  <1> DEFINE c == lease[j].generation = entry[p].generation
             r == Returned(entry[p], o, c)
  <1>3. /\ entry' = [entry EXCEPT ![p] = r] /\ now' = now /\ roster' = roster
        /\ WakeWaiters([jobState EXCEPT ![j] = "idle"])
        /\ lease' = [lease EXCEPT ![j] = Null]
    BY <1>2 DEF Release
  <1>4. Judged(entry[p], r, c)
    BY <1>1, ReturnedIsJudged DEF TypeOK
  <1>5. p \in roster /\ Holds(j, p)
    BY <1>1, <1>2 DEF Holds, IInv, LeaseInv, LeaseAccounting
  <1>6. c => ~Benched(entry[p]) /\ ~entry[p].retired
    BY <1>5 DEF IInv, LeaseInv, CurrentLeaseInRotation
  <1> HIDE DEF r
  <1>7. \A q \in Proxies : entry'[q] = IF q = p THEN r ELSE entry[q]
    BY <1>1, <1>3 DEF TypeOK
  <1>8. \A i \in Jobs : \A q \in Proxies : Holds(i, q)' <=> Holds(i, q) /\ i # j
    BY <1>1, <1>3 DEF Holds, WakeWaiters, TypeOK
  <1>9. HeldBy' = [HeldBy EXCEPT ![p] = @ \ {j}] /\ j \in HeldBy[p]
    <2>1. \A q \in Proxies \ {p} : ~Holds(j, q)
      BY <1>2 DEF Holds
    <2> QED BY <1>5, <1>8, <2>1 DEF HeldBy, Holders
  <1>10. CASE StandingOf(r) = StandingOf(entry[p])
    <2>1. Standing' = Standing
      BY <1>3, <1>7, <1>10, SameStanding
    <2> QED BY <1>9, <2>1 DEF Promise!GiveBack
  <1>11. CASE StandingOf(r) # StandingOf(entry[p])
    <2>1. c
      BY <1>4, <1>11 DEF Judged, StandingOf, Usable
    <2>2. Standing[p] = "in"
      BY <1>5, <1>6, <2>1, StandingAt DEF StandingOf, Usable, Benched
    <2>3. StandingOf(entry[p]) = "in" /\ StandingOf(r) \in {"benched", "retired"}
      BY <1>5, <1>11, <2>2, StandingAt DEF StandingOf
    <2>4. Standing' = [Standing EXCEPT ![p] = StandingOf(r)]
      BY <1>3, <1>5, <1>7 DEF Standing, StandingOf, Usable
    <2> QED BY <1>9, <2>2, <2>3, <2>4 DEF Promise!GiveBack
  <1> QED BY <1>10, <1>11

LEMMA AddJoins ==
  ASSUME IInv, NEW targets \in SUBSET Proxies, Add(targets)
  PROVE  \E joined \in SUBSET Proxies : Promise!Join(joined)
  <1> DEFINE joined == targets \ roster
  <1>1. TypeOK
    BY DEF IInv
  <1>2. HeldBy' = HeldBy
    <2>1. lease' = lease /\ WakeWaiters(jobState) /\ jobState \in [Jobs -> JobStates]
      BY <1>1 DEF Add, TypeOK
    <2> QED BY <1>1, <2>1, WakeKeepsTypes, SameHolders
  <1>3. \A p \in joined : Standing[p] = "out"
    BY StandingAt
  <1>4. StandingOf(Fresh) = "in"
    BY DEF StandingOf, Usable, Fresh
  <1>5. /\ roster' = roster \cup targets /\ now' = now
        /\ \A p \in Proxies : entry'[p] = IF p \in joined THEN Fresh ELSE Refreshed[p]
    BY DEF Add
  <1> HIDE DEF joined
  <1>6. ASSUME NEW p \in Proxies
        PROVE  Standing'[p] = IF p \in joined THEN "in" ELSE Standing[p]
    <2>1. Standing'[p] = IF p \notin roster' THEN "out" ELSE StandingOf(entry'[p])
      BY <1>5 DEF Standing, StandingOf, Usable
    <2>2. CASE p \in joined
      BY <1>4, <1>5, <2>1, <2>2 DEF joined
    <2>3. CASE p \notin joined
      <3>1. StandingOf(entry'[p]) = StandingOf(entry[p]) /\ (p \in roster' <=> p \in roster)
        BY <1>1, <1>5, <2>3, SweepKeepsStanding DEF joined
      <3> QED BY <2>1, <2>3, <3>1, StandingAt
    <2> QED BY <2>2, <2>3
  <1>7. Standing' = [p \in Proxies |-> IF p \in joined THEN "in" ELSE Standing[p]]
    BY <1>6 DEF Standing
  <1>8. joined \in SUBSET Proxies
    BY DEF joined
  <1> QED BY <1>2, <1>3, <1>7, <1>8 DEF Promise!Join

LEMMA EvictLeaves ==
  ASSUME IInv, NEW victims \in SUBSET Proxies, Evict(victims)
  PROVE  Promise!Leave(victims)
  <1>1. TypeOK
    BY DEF IInv
  <1>2. /\ victims \subseteq Evictable /\ roster' = roster \ victims /\ entry' = Refreshed
        /\ now' = now /\ lease' = lease /\ jobState' = jobState
    BY DEF Evict, Swept, jobVars
  <1>3. HeldBy' = HeldBy
    BY <1>1, <1>2, SameHolders
  <1>4. \A p \in victims : HeldBy[p] = {}
    <2> SUFFICES ASSUME NEW p \in victims PROVE Holders(p) = {}
      BY DEF HeldBy
    <2>1. p \in roster /\ entry[p].inFlight = 0
      BY <1>2 DEF Evictable
    <2> QED BY <2>1, HoldersFinite, FS_EmptySet DEF IInv, LeaseInv, LeaseAccounting
  <1>5. ASSUME NEW p \in Proxies
        PROVE  Standing'[p] = IF p \in victims THEN "out" ELSE Standing[p]
    <2>1. Standing'[p] = IF p \notin roster' THEN "out" ELSE StandingOf(Refreshed[p])
      BY <1>2 DEF Standing, StandingOf, Usable
    <2> QED BY <1>1, <1>2, <2>1, StandingAt, SweepKeepsStanding
  <1>6. Standing' = [p \in Proxies |-> IF p \in victims THEN "out" ELSE Standing[p]]
    BY <1>5 DEF Standing
  <1> QED BY <1>3, <1>4, <1>6 DEF Promise!Leave

LEMMA TickEndsBenches ==
  ASSUME IInv, Tick PROVE Promise!EndBenches
  <1>1. /\ now' = now + 1 /\ roster' = roster /\ entry' = entry /\ lease' = lease
        /\ jobState' = jobState /\ TypeOK
    BY DEF Tick, poolVars, jobVars, IInv
  <1>2. HeldBy' = HeldBy
    BY <1>1, SameHolders
  <1> DEFINE S == {p \in Proxies : Standing[p] = "benched" /\ Standing'[p] # "benched"}
  <1>3. ASSUME NEW p \in Proxies
        PROVE  Standing'[p] = IF p \in S THEN "in" ELSE Standing[p]
    <2>1. entry[p] \in Entry /\ now \in Nat
      BY <1>1 DEF TypeOK
    <2>2. Usable(entry[p]) => Usable(entry[p])'
      BY <1>1, <2>1 DEF Usable, Entry
    <2> QED BY <1>1, <2>2, StandingAt, StandingAtNext DEF Standing, StandingOf
  <1>4. Standing' = [p \in Proxies |-> IF p \in S THEN "in" ELSE Standing[p]]
    BY <1>3 DEF Standing
  <1>5. S \in SUBSET {p \in Proxies : Standing[p] = "benched"}
    OBVIOUS
  <1> QED BY <1>2, <1>4, <1>5 DEF Promise!EndBenches

LEMMA PassRefines ==
  ASSUME IInv, NEW j \in Jobs, NEW budget, Pass(j, budget), now' = now,
         jobState[j] \in {"idle", "woken"}
  PROVE  \/ \E p \in Proxies : Promise!Take(j, p)
         \/ UNCHANGED <<Standing, HeldBy>>
  <1>1. TypeOK /\ jobState[j] # "leased"
    BY DEF IInv
  <1>2. CASE Grant(j)
    BY <1>1, <1>2, GrantTakes
  <1>3. CASE ~Grant(j)
    <2>1. /\ lease' = lease /\ roster' = roster /\ jobState'[j] # "leased"
          /\ \A i \in Jobs \ {j} : jobState'[i] = jobState[i]
          /\ entry' = entry \/ entry' = Refreshed
      BY <1>1, <1>3 DEF Pass, AcquireThrows, GoDirect, ParkForSlot, Exhausted,
                        ParkForRecovery, Swept, TypeOK, poolVars
    <2>2. HeldBy' = HeldBy
      BY <1>1, <2>1, SameHolders
    <2>3. Standing' = Standing
      BY <1>1, <2>1, SameStanding, SweepKeepsStanding
    <2> QED BY <2>2, <2>3
  <1> QED BY <1>2, <1>3

LEMMA StepRefines ==
  ASSUME IInv, [Next]_vars
  PROVE  [Promise!LeasedNext]_(Promise!leasedVars)
  <1>1. TypeOK
    BY DEF IInv
  <1>2. ASSUME NEW j \in Jobs, Acquire(j) \/ Resume(j)
        PROVE  \/ \E p \in Proxies : Promise!Take(j, p)
               \/ UNCHANGED <<Standing, HeldBy>>
    <2>1. now' = now /\ jobState[j] \in {"idle", "woken"}
          /\ (Pass(j, AcquireWaitMs) \/ Pass(j, deadline[j] - now))
      BY <1>2 DEF Acquire, CanAcquire, Resume
    <2> QED BY <2>1, PassRefines
  <1>3. ASSUME NEW j \in Jobs, ReleaseSome(j)
        PROVE  \E p \in Proxies : Promise!GiveBack(j, p)
    BY <1>3, ReleaseGivesBack DEF ReleaseSome
  <1>4. ASSUME \/ \E j \in Jobs : FinishDirect(j) \/ TimerFires(j) \/ Abort(j)
               \/ GetStats \/ SupplyChanges \/ UNCHANGED vars
        PROVE  UNCHANGED <<Standing, HeldBy>>
    <2>1. /\ lease' = lease /\ roster' = roster /\ now' = now
          /\ \A i \in Jobs : jobState'[i] = "leased" <=> jobState[i] = "leased"
          /\ entry' = entry \/ entry' = Refreshed
      BY <1>1, <1>4 DEF FinishDirect, TimerFires, Abort, GetStats, Swept, SupplyChanges,
                        vars, poolVars, jobVars, TypeOK
    <2> QED BY <1>1, <2>1, SameHolders, SameStanding, SweepKeepsStanding
  <1>5. CASE \E j \in Jobs : Acquire(j) \/ Resume(j)
    BY <1>2, <1>5 DEF Promise!LeasedNext, Promise!leasedVars
  <1>6. CASE \E j \in Jobs : ReleaseSome(j)
    BY <1>3, <1>6 DEF Promise!LeasedNext
  <1>7. CASE \E targets \in SUBSET Proxies : Add(targets) \/ Evict(targets)
    BY <1>7, AddJoins, EvictLeaves DEF Promise!LeasedNext
  <1>8. CASE Tick
    BY <1>8, TickEndsBenches DEF Promise!LeasedNext
  <1>9. CASE \/ \E j \in Jobs : FinishDirect(j) \/ TimerFires(j) \/ Abort(j)
            \/ GetStats \/ SupplyChanges \/ UNCHANGED vars
    BY <1>4, <1>9 DEF Promise!leasedVars
  <1> QED BY <1>5, <1>6, <1>7, <1>8, <1>9 DEF Next, Finished

LEMMA InitRefines == Init => Promise!LeasedInit
  <1> SUFFICES ASSUME Init PROVE Promise!LeasedInit
    OBVIOUS
  <1>1. \A p \in Proxies : StandingOf(entry[p]) = "in"
    BY DEF Init, Fresh, StandingOf, Usable
  <1>2. Standing \in [Proxies -> {"in", "out"}]
    BY <1>1 DEF Standing, StandingOf
  <1>3. HeldBy = [p \in Proxies |-> {}]
    BY DEF Init, HeldBy, Holders, Holds
  <1> QED BY <1>2, <1>3 DEF Promise!LeasedInit

\* The pool keeps the promise of LeasedPool: a lease is taken only on a proxy
\* in rotation and below its ceiling, by a job that has none; giving one back
\* can only bench or retire; benches end by time alone; retirement never ends.
THEOREM PoolKeepsPromise == Spec => ImplementsLeasedPool
  <1>1. IInv /\ [Next]_vars => [Promise!LeasedNext]_(Promise!leasedVars)
    BY StepRefines
  <1> QED BY <1>1, InitRefines, IInvHolds, PTL DEF Spec, ImplementsLeasedPool, Promise!LeasedSpec
=============================================================================
