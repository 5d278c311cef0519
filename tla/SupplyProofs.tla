---------------------------- MODULE SupplyProofs ----------------------------
(* The supply of proxies. What keeps it up: the source manager with the pool  *)
(* it feeds, for any set of proxies and jobs and any limits, uses the pool as *)
(* the pool allows, and its records and its evictions are in order. What it   *)
(* takes: the plan the capacity page shows is consistent, for any inputs. And *)
(* what follows: all that is proved of a pool holds of one that is supplied.  *)
EXTENDS ProxySource, CapacityPage, SumLemmas, SequenceTheorems

-----------------------------------------------------------------------------
(* The inductive invariant.                                                   *)

Fields    == DOMAIN Pool!Fresh
IsEntry(e) == DOMAIN e = Fields /\ e.trustedSlots \in Nat

\* Every proxy has an entry, of the fields an entry has.
Shaped == DOMAIN entry = Proxies /\ \A p \in Proxies : IsEntry(entry[p])

\* What is asked for at one time: the batch, from its harvest to its admission.
Batch   == In("validating") \cup passed
Bounded == Cardinality(Batch) <= TargetCapacity

IInv ==
  /\ TypeOK /\ Recorded /\ Shaped /\ Bounded
  /\ roster \subseteq Proxies
  /\ passed \subseteq In("admitted")

-----------------------------------------------------------------------------
(* An entry keeps its fields, and what a sweep does not touch.                *)

LEMMA TrustShape ==
  ASSUME NEW e, IsEntry(e)
  PROVE  IsEntry(Pool!EarnTrust(e)) /\ IsEntry(Pool!LoseTrust(e))
  <1>1. "trustedSlots" \in DOMAIN e
    BY DEF IsEntry, Fields, Pool!Fresh
  <1>2. /\ 2 * e.trustedSlots \in Nat /\ (e.trustedSlots \div 2) \in Nat
        /\ Pool!Lesser(MaxConcurrentPerProxy, 2 * e.trustedSlots) \in Nat
        /\ Pool!Greater(ProbationConcurrency, e.trustedSlots \div 2) \in Nat
    BY SourceAssumption DEF IsEntry, Pool!Lesser, Pool!Greater
  <1> QED BY <1>1, <1>2 DEF IsEntry, Pool!EarnTrust, Pool!LoseTrust

LEMMA StruckShape ==
  ASSUME NEW e, IsEntry(e)
  PROVE  IsEntry(Pool!Struck(e))
  <1> DEFINE s == [e EXCEPT !.generation = @ + 1,
                            !.consecutiveFailures = Pool!Lesser(MaxConsecutiveFailures, @ + 1)]
  <1>1. IsEntry(s)
    BY DEF IsEntry
  <1> QED BY <1>1, TrustShape DEF Pool!Struck

LEMMA FailedShape ==
  ASSUME NEW e, IsEntry(e)
  PROVE  IsEntry(Pool!Failed(e)) /\ IsEntry(Pool!Blocked(e))
  BY StruckShape DEF IsEntry, Pool!Failed, Pool!Blocked

LEMMA UnsuitableShape ==
  ASSUME NEW e, IsEntry(e)
  PROVE  IsEntry(Pool!Unsuitable(e))
  <1> DEFINE s == [e EXCEPT !.generation = @ + 1,
                            !.consecutiveUnsuitable = Pool!Lesser(MaxConsecutiveFailures, @ + 1)]
  <1>1. IsEntry(s)
    BY DEF IsEntry
  <1>2. IsEntry(Pool!LoseTrust(s))
    BY <1>1, TrustShape
  <1> QED BY <1>2 DEF IsEntry, Pool!Unsuitable

LEMMA CreditedShape ==
  ASSUME NEW e, IsEntry(e)
  PROVE  IsEntry(Pool!Credited(e))
  <1> DEFINE s == [e EXCEPT !.consecutiveFailures = 0, !.consecutiveUnsuitable = 0]
  <1>1. IsEntry(s)
    BY DEF IsEntry
  <1>2. IsEntry(Pool!EarnTrust(s))
    BY <1>1, TrustShape
  <1> QED BY <1>2 DEF IsEntry, Pool!Credited

LEMMA SettledShape ==
  ASSUME NEW d, NEW e, IsEntry(e)
  PROVE  IsEntry(Pool!Settled(d, e))
  BY DEF IsEntry, Pool!Settled

LEMMA ReturnedShape ==
  ASSUME NEW e, IsEntry(e), NEW outcome, NEW current
  PROVE  IsEntry(Pool!Returned(e, outcome, current))
  <1> DEFINE good == [e EXCEPT !.successes = @ + 1]
             bad  == [e EXCEPT !.failures = @ + 1]
  <1>1. IsEntry(good) /\ IsEntry(bad)
    BY DEF IsEntry
  <1>2. /\ IsEntry(Pool!Credited(good)) /\ IsEntry(Pool!Failed(bad))
        /\ IsEntry(Pool!Blocked(bad)) /\ IsEntry(Pool!Unsuitable(bad))
    BY <1>1, CreditedShape, FailedShape, UnsuitableShape
  <1>3. /\ IsEntry(Pool!ReportSuccess(e, current))
        /\ IsEntry(Pool!ReportFailure(e, current))
        /\ IsEntry(Pool!ReportUnsuitable(e, current))
        /\ IsEntry(Pool!MarkBlocked(e, current))
    BY <1>1, <1>2, SettledShape
       DEF Pool!ReportSuccess, Pool!ReportFailure, Pool!ReportUnsuitable, Pool!MarkBlocked
  <1>4. IsEntry(Pool!Reported(e, outcome, current))
    BY <1>3 DEF Pool!Reported
  <1> QED BY <1>4 DEF IsEntry, Pool!Returned

LEMMA SweepShape ==
  ASSUME Shaped
  PROVE  /\ DOMAIN Pool!Refreshed = Proxies
         /\ \A p \in Proxies : /\ IsEntry(Pool!Refreshed[p])
                               /\ Pool!Refreshed[p].successes = entry[p].successes
                               /\ Pool!Refreshed[p].retired = entry[p].retired
  <1>1. ASSUME NEW p \in Proxies
        PROVE  LET e == entry[p] IN
                 /\ IsEntry(Pool!Recovered(e))
                 /\ Pool!Recovered(e).successes = e.successes
                 /\ Pool!Recovered(e).retired = e.retired
    <2>1. "successes" \in DOMAIN entry[p] /\ "retired" \in DOMAIN entry[p]
      BY DEF Shaped, IsEntry, Fields, Pool!Fresh
    <2> QED BY <2>1 DEF Shaped, IsEntry, Pool!Recovered
  <1> QED BY <1>1 DEF Shaped, Pool!Refreshed

-----------------------------------------------------------------------------
(* What a step of the pool does to the entries.                               *)

LEMMA PassShape ==
  ASSUME Shaped, NEW j \in Jobs, NEW budget, Pool!Pass(j, budget)
  PROVE  Shaped'
  <1>1. CASE UNCHANGED entry
    BY <1>1 DEF Shaped, IsEntry, Fields, Pool!Fresh
  <1>2. CASE entry' = Pool!Refreshed
    BY <1>2, SweepShape DEF Shaped, IsEntry, Fields, Pool!Fresh
  <1>3. CASE Pool!Grant(j)
    <2>1. PICK p \in Pool!Free : entry' = [Pool!Refreshed EXCEPT ![p] = Pool!CheckedOut(@)]
      BY <1>3 DEF Pool!Grant
    <2>2. \A q \in Proxies : IsEntry(Pool!CheckedOut(Pool!Refreshed[q]))
      BY SweepShape DEF IsEntry, Pool!CheckedOut
    <2> QED BY <2>1, <2>2, SweepShape DEF Shaped, IsEntry, Fields, Pool!Fresh
  <1> QED BY <1>1, <1>2, <1>3 DEF Pool!Pass, Pool!AcquireThrows, Pool!poolVars, Pool!GoDirect,
             Pool!ParkForSlot, Pool!Exhausted, Pool!ParkForRecovery, Pool!Swept

LEMMA PoolKeepsShape ==
  ASSUME Shaped, [Pool!Next]_(Pool!vars)
  PROVE  Shaped'
  <1>1. CASE UNCHANGED entry
    BY <1>1 DEF Shaped, IsEntry, Fields, Pool!Fresh
  <1>2. CASE entry' = Pool!Refreshed
    BY <1>2, SweepShape DEF Shaped, IsEntry, Fields, Pool!Fresh
  <1>3. ASSUME NEW j \in Jobs, Pool!Acquire(j) \/ Pool!Resume(j) PROVE Shaped'
    BY <1>3, PassShape DEF Pool!Acquire, Pool!Resume
  <1>4. ASSUME NEW j \in Jobs, NEW outcome, Pool!Release(j, outcome) PROVE Shaped'
    <2> DEFINE p == lease[j].id
               current == lease[j].generation = entry[p].generation
    <2>1. entry' = [entry EXCEPT ![p] = Pool!Returned(entry[p], outcome, current)]
      BY <1>4 DEF Pool!Release
    <2>2. p \in Proxies => IsEntry(Pool!Returned(entry[p], outcome, current))
      BY ReturnedShape DEF Shaped
    <2> QED BY <2>1, <2>2 DEF Shaped, IsEntry, Fields, Pool!Fresh
  <1>5. ASSUME NEW targets \in SUBSET Proxies, Pool!Add(targets) PROVE Shaped'
    <2>1. IsEntry(Pool!Fresh)
      BY SourceAssumption DEF IsEntry, Fields, Pool!Fresh
    <2> QED BY <1>5, <2>1, SweepShape DEF Pool!Add, Shaped, IsEntry, Fields, Pool!Fresh
  <1>6. ASSUME NEW j \in Jobs, Pool!FinishDirect(j) \/ Pool!TimerFires(j) \/ Pool!Abort(j)
        PROVE  UNCHANGED entry
    BY <1>6 DEF Pool!FinishDirect, Pool!TimerFires, Pool!Abort, Pool!poolVars
  <1>7. \/ Pool!SupplyChanges \/ Pool!Tick \/ Pool!Finished \/ UNCHANGED Pool!vars
        => UNCHANGED entry
    BY DEF Pool!SupplyChanges, Pool!Tick, Pool!Finished, Pool!vars, Pool!poolVars
  <1>8. ASSUME NEW targets \in SUBSET Proxies, Pool!Evict(targets) \/ Pool!GetStats
        PROVE  entry' = Pool!Refreshed
    BY <1>8 DEF Pool!Evict, Pool!GetStats, Pool!Swept
  <1> QED BY <1>1, <1>2, <1>3, <1>4, <1>5, <1>6, <1>7, <1>8 DEF Pool!Next, Pool!ReleaseSome

-----------------------------------------------------------------------------
(* The source uses the pool as the pool allows.                               *)

LEMMA ReapEvicts ==
  ASSUME IInv, Reap
  PROVE  \E victims \in SUBSET Proxies : Pool!Evict(victims)
  BY DEF Reap, IInv

LEMMA StepOfPool ==
  ASSUME IInv, [Next]_vars
  PROVE  [Pool!Next]_(Pool!vars)
  <1>1. CASE Start \/ RefreshTick \/ Stop
    BY <1>1 DEF Start, RefreshTick, Stop, Pool!Next
  <1>2. ASSUME NEW target, Replenish(target) PROVE Pool!Next
    BY <1>2, ReapEvicts DEF Replenish, Pool!Next
  <1>3. CASE Bootstrap \/ ReplenishTick
    BY <1>2, <1>3 DEF Bootstrap, ReplenishTick, Pool!Next
  <1>4. ASSUME NEW p \in Proxies, NEW ok \in BOOLEAN, ProbeEnds(p, ok) PROVE Pool!Next
    BY <1>4 DEF ProbeEnds, Pool!Next
  <1>5. CASE Admit
    BY <1>5 DEF Admit, Pool!Next, IInv, TypeOK
  <1>6. CASE FinishReplenish
    BY <1>6, ReapEvicts DEF FinishReplenish, Pool!Next
  <1>7. CASE Use
    BY <1>7 DEF Use, Pool!Next
  <1>8. CASE Tick
    BY <1>8 DEF Tick, Pool!Next
  <1>9. CASE UNCHANGED vars
    BY <1>9 DEF vars, sourceVars, Pool!vars, Pool!poolVars, Pool!jobVars, Supply, In
  <1> QED BY <1>1, <1>3, <1>4, <1>5, <1>6, <1>7, <1>8, <1>9 DEF Next, Finished

-----------------------------------------------------------------------------
(* The records.                                                               *)

Records == Recorded /\ roster \subseteq Proxies /\ passed \subseteq In("admitted")

LEMMA QuietRecords ==
  ASSUME IInv, UNCHANGED <<roster, configured, candidate, passed, replenish>>
  PROVE  Records'
  BY DEF IInv, Records, Recorded, In

LEMMA RegisteredRecords ==
  ASSUME IInv, Registers, UNCHANGED <<roster, configured, passed, replenish>>
  PROVE  Records'
  <1>1. PICK targets \in SUBSET Proxies : candidate' = Register(targets)
    BY DEF Registers
  <1>2. In("admitted")' = In("admitted") /\ In("validating")' = In("validating")
    BY <1>1 DEF Register, In, IInv, TypeOK
  <1> QED BY <1>2 DEF IInv, Records, Recorded

LEMMA ReapedRecords ==
  ASSUME IInv, Reap, In("validating") \cup passed = {}, passed' = passed
  PROVE  Records'
  <1>1. PICK victims \in SUBSET roster :
           /\ Victims(victims) /\ Pool!Evict(victims)
           /\ candidate' = [p \in Proxies |-> IF p \in victims /\ candidate[p] # "unknown"
                                              THEN "rejected" ELSE candidate[p]]
    BY DEF Reap
  <1>2. roster' = roster \ victims /\ configured' = configured
    BY <1>1 DEF Pool!Evict
  <1>3. victims \cap configured = {} /\ victims \subseteq Proxies
    BY <1>1 DEF Victims, Hopeless, IInv
  <1>4. victims \subseteq In("admitted")
    BY <1>3 DEF IInv, Recorded
  <1>5. In("admitted")' = In("admitted") \ victims /\ In("validating")' = {}
    BY <1>1, <1>4 DEF In, IInv, TypeOK
  <1> QED BY <1>2, <1>3, <1>5 DEF IInv, Records, Recorded

LEMMA ReplenishedRecords ==
  ASSUME IInv, NEW target, Replenish(target)
  PROVE  Records'
  <1>1. In("validating") \cup passed = {}
    BY DEF Replenish, IInv, Recorded
  <1>2. PICK batch \in SUBSET In("candidate") :
           IF batch = {}
           THEN Reap /\ UNCHANGED <<replenish, passed>>
           ELSE /\ replenish' = "probing" /\ passed' = {}
                /\ candidate' = [p \in Proxies |-> IF p \in batch THEN "validating"
                                                   ELSE candidate[p]]
                /\ Pool!GetStats
    BY DEF Replenish
  <1>3. CASE batch = {}
    BY <1>1, <1>2, <1>3, ReapedRecords
  <1>4. CASE batch # {}
    <2>1. UNCHANGED <<roster, configured>>
      BY <1>2, <1>4 DEF Pool!GetStats
    <2>2. In("admitted")' = In("admitted")
      BY <1>2, <1>4 DEF In, IInv, TypeOK
    <2> QED BY <1>1, <1>2, <1>4, <2>1, <2>2 DEF IInv, Records, Recorded
  <1> QED BY <1>3, <1>4

LEMMA ProbedRecords ==
  ASSUME IInv, NEW p \in Proxies, NEW ok \in BOOLEAN, ProbeEnds(p, ok)
  PROVE  Records'
  <1>1. /\ candidate[p] = "validating" /\ replenish' = replenish
        /\ candidate' = [candidate EXCEPT ![p] = IF ok THEN "admitted" ELSE "rejected"]
        /\ passed' = IF ok THEN passed \cup {p} ELSE passed
        /\ UNCHANGED <<roster, configured>>
    BY DEF ProbeEnds, Pool!SupplyChanges, Pool!poolVars
  <1>2. In("admitted")' = IF ok THEN In("admitted") \cup {p} ELSE In("admitted")
    BY <1>1 DEF In, IInv, TypeOK
  <1>3. p \notin In("admitted") /\ p \in In("validating") /\ replenish = "probing"
    BY <1>1 DEF In, IInv, Recorded
  <1> QED BY <1>1, <1>2, <1>3 DEF IInv, Records, Recorded

LEMMA AdmittedRecords ==
  ASSUME IInv, Admit
  PROVE  Records'
  <1>1. /\ In("validating") = {} /\ passed' = {} /\ candidate' = candidate
        /\ configured' = configured
        /\ roster' = roster \cup passed
    BY DEF Admit, Pool!GetStats, Pool!Add
  <1>2. In("admitted")' = In("admitted") /\ In("validating")' = {}
    BY <1>1 DEF In
  <1> QED BY <1>1, <1>2 DEF IInv, Records, Recorded, TypeOK

LEMMA UsedQuietly ==
  ASSUME Use
  PROVE  UNCHANGED <<roster, configured, sourceVars>>
  <1>1. ASSUME NEW j \in Jobs, NEW budget, Pool!Pass(j, budget) PROVE UNCHANGED roster
    BY <1>1 DEF Pool!Pass, Pool!AcquireThrows, Pool!poolVars, Pool!GoDirect, Pool!Grant,
                Pool!ParkForSlot, Pool!Exhausted, Pool!ParkForRecovery
  <1> QED BY <1>1 DEF Use, Pool!Acquire, Pool!Resume, Pool!ReleaseSome, Pool!Release,
                      Pool!TimerFires, Pool!Abort, Pool!poolVars

LEMMA StepKeepsRecords ==
  ASSUME IInv, [Next]_vars
  PROVE  Records'
  <1>1. CASE Start \/ RefreshTick
    BY <1>1, RegisteredRecords DEF Start, RefreshTick, Pool!SupplyChanges, Pool!poolVars
  <1>2. CASE Bootstrap
    BY <1>2, QuietRecords, ReplenishedRecords DEF Bootstrap, Pool!GetStats
  <1>3. CASE ReplenishTick
    BY <1>3, ReplenishedRecords DEF ReplenishTick
  <1>4. CASE Stop
    BY <1>4, QuietRecords DEF Stop, Pool!SupplyChanges, Pool!poolVars
  <1>5. CASE FinishReplenish
    <2>1. In("validating") \cup passed = {}
      BY <1>5 DEF FinishReplenish, IInv, Recorded
    <2> QED BY <1>5, <2>1, ReapedRecords DEF FinishReplenish
  <1>6. CASE Use
    BY <1>6, UsedQuietly, QuietRecords DEF sourceVars
  <1>7. CASE Tick \/ Finished \/ UNCHANGED vars
    BY <1>7, QuietRecords DEF Tick, Finished, vars, sourceVars, Pool!Tick, Pool!poolVars
  <1> QED BY <1>1, <1>2, <1>3, <1>4, <1>5, <1>6, <1>7, ProbedRecords, AdmittedRecords DEF Next

LEMMA InitIInv == Init => IInv
  <1> SUFFICES ASSUME Init PROVE IInv
    OBVIOUS
  <1>1. TypeOK /\ passed = {} /\ In("admitted") = {} /\ In("validating") = {}
    BY SourceAssumption DEF Init, TypeOK, CandidateStates, In
  <1>2. roster = configured /\ roster \subseteq Proxies /\ Shaped
    BY SourceAssumption DEF Init, Pool!Init, Shaped, IsEntry, Fields, Pool!Fresh
  <1>3. Bounded
    <2>1. Batch = {}
      BY <1>1 DEF Batch
    <2> QED BY <2>1, FS_EmptySet, SourceAssumption DEF Bounded
  <1> QED BY <1>1, <1>2, <1>3 DEF IInv, Recorded

LEMMA StepKeepsTypes ==
  ASSUME IInv, [Next]_vars
  PROVE  TypeOK'
  <1> USE DEF CandidateStates
  <1>1. ASSUME NEW targets \in SUBSET Proxies PROVE Register(targets) \in [Proxies -> CandidateStates]
    BY DEF Register, IInv, TypeOK
  <1>2. Registers => candidate' \in [Proxies -> CandidateStates]
    BY <1>1 DEF Registers
  <1>3. Reap => candidate' \in [Proxies -> CandidateStates]
    BY DEF Reap, IInv, TypeOK
  <1>4. ASSUME NEW target, Replenish(target)
        PROVE  /\ candidate' \in [Proxies -> CandidateStates]
               /\ replenish' \in {"idle", "probing", "reaping"} /\ passed' \subseteq Proxies
    BY <1>3, <1>4 DEF Replenish, IInv, TypeOK
  <1>5. CASE Start \/ RefreshTick
    BY <1>2, <1>5 DEF Start, RefreshTick, IInv, TypeOK
  <1>6. CASE Bootstrap
    <2>1. CASE Enough
      BY <1>6, <2>1 DEF Bootstrap, IInv, TypeOK
    <2>2. CASE ~Enough
      <3>1. round' = round + 1 /\ lifecycle' = lifecycle /\ round # BootstrapRounds
        BY <1>6, <2>2 DEF Bootstrap, Enough
      <3>2. round' \in 0 .. BootstrapRounds
        BY <3>1, SourceAssumption DEF IInv, TypeOK
      <3> QED BY <1>4, <1>6, <2>2, <3>1, <3>2 DEF Bootstrap, IInv, TypeOK
    <2> QED BY <2>1, <2>2
  <1>7. CASE ReplenishTick
    BY <1>4, <1>7 DEF ReplenishTick, IInv, TypeOK
  <1>8. CASE Stop
    BY <1>8 DEF Stop, IInv, TypeOK
  <1>9. ASSUME NEW p \in Proxies, NEW ok \in BOOLEAN, ProbeEnds(p, ok) PROVE TypeOK'
    BY <1>9 DEF ProbeEnds, IInv, TypeOK
  <1>10. CASE Admit
    BY <1>10 DEF Admit, IInv, TypeOK
  <1>11. CASE FinishReplenish
    BY <1>3, <1>11 DEF FinishReplenish, IInv, TypeOK
  <1>12. CASE Use \/ Tick \/ Finished \/ UNCHANGED vars
    BY <1>12 DEF Use, Tick, Finished, vars, sourceVars, IInv, TypeOK
  <1> QED BY <1>5, <1>6, <1>7, <1>8, <1>9, <1>10, <1>11, <1>12 DEF Next

-----------------------------------------------------------------------------
(* The size of a batch.                                                       *)

\* An eviction rejects, and puts nothing up for a probe.
LEMMA ReapShrinks ==
  ASSUME IInv, Reap
  PROVE  In("validating")' \subseteq In("validating")
  BY DEF Reap, In, IInv, TypeOK

\* The capacity in service is a number of slots, whatever trust was earned.
LEMMA CapacityCounts ==
  ASSUME IInv
  PROVE  UsableCapacity \in Nat
  <1> DEFINE slots == [p \in InRotation |-> Pool!CapacityOf(Pool!Refreshed[p])]
  <1>1. IsFiniteSet(InRotation) /\ InRotation \subseteq Proxies
    <2>1. InRotation \subseteq Proxies
      BY DEF InRotation, IInv
    <2> QED BY <2>1, FS_Subset, SourceAssumption
  <1>2. \A p \in InRotation : slots[p] \in Nat
    <2>1. \A p \in InRotation : Pool!Refreshed[p].trustedSlots \in Nat
      BY <1>1, SweepShape DEF IInv, IsEntry
    <2>2. \A p \in InRotation : Pool!CapacityOf(Pool!Refreshed[p]) \in Nat
      BY <2>1, SourceAssumption DEF Pool!CapacityOf, Pool!Lesser
    <2> QED BY <2>2
  <1>3. SumFunctionOnSet(slots, InRotation) \in Nat
    <2> HIDE DEF slots
    <2> QED BY <1>1, <1>2, SumType
  <1>4. Cardinality(InRotation) \in Nat
    BY <1>1, FS_CardinalityType
  <1> QED BY <1>3, <1>4 DEF UsableCapacity

\* A batch that shrinks keeps its bound.
LEMMA SmallerBatch ==
  ASSUME IInv, Batch' \subseteq Batch
  PROVE  Bounded'
  <1>1. IsFiniteSet(Batch)
    <2>1. Batch \subseteq Proxies
      BY DEF Batch, In, IInv, TypeOK
    <2> QED BY <2>1, FS_Subset, SourceAssumption
  <1>2. Cardinality(Batch') <= Cardinality(Batch)
    BY <1>1, FS_Subset
  <1>3. Cardinality(Batch') \in Nat /\ Cardinality(Batch) \in Nat
    BY <1>1, FS_Subset, FS_CardinalityType
  <1> QED BY <1>2, <1>3, SourceAssumption DEF Bounded, IInv

\* A harvest takes what is missing, and what is missing is never more than all.
LEMMA HarvestBounded ==
  ASSUME IInv, NEW target \in Nat, target <= TargetCapacity, NEW batch, Harvest(batch, target)
  PROVE  Cardinality(batch) <= TargetCapacity
  <1>1. In("candidate") \subseteq Proxies
    BY DEF In
  <1>2. Cardinality(In("candidate")) \in Nat
    BY <1>1, FS_Subset, FS_CardinalityType, SourceAssumption
  <1> QED BY <1>2, CapacityCounts, SourceAssumption
          DEF Harvest, Pool!Lesser, Pool!Greater

LEMMA ReplenishBounded ==
  ASSUME IInv, NEW target \in Nat, target <= TargetCapacity, Replenish(target)
  PROVE  Bounded'
  <1>1. PICK batch \in SUBSET In("candidate") :
          /\ Harvest(batch, target)
          /\ IF batch = {}
             THEN Reap /\ UNCHANGED <<replenish, passed>>
             ELSE /\ replenish' = "probing" /\ passed' = {}
                  /\ candidate' = [p \in Proxies |-> IF p \in batch THEN "validating"
                                                     ELSE candidate[p]]
                  /\ Pool!GetStats
    BY DEF Replenish
  <1>2. Batch = {}
    BY DEF Replenish, IInv, Recorded, Batch
  <1>3. CASE batch = {}
    <2>1. Batch' \subseteq Batch
      BY <1>1, <1>3, ReapShrinks DEF Batch
    <2> QED BY <2>1, SmallerBatch
  <1>4. CASE batch # {}
    <2>1. In("validating")' = batch /\ passed' = {}
      BY <1>1, <1>2, <1>4 DEF In, Batch, IInv, TypeOK
    <2>2. Batch' = batch
      BY <2>1 DEF Batch
    <2> QED BY <1>1, <2>2, HarvestBounded DEF Bounded
  <1> QED BY <1>3, <1>4

LEMMA StepKeepsBound ==
  ASSUME IInv, [Next]_vars
  PROVE  Bounded'
  <1>1. CASE Start \/ RefreshTick
    <2>1. PICK targets \in SUBSET Proxies : candidate' = Register(targets)
      BY <1>1 DEF Start, RefreshTick, Registers
    <2>2. Batch' = Batch
      BY <1>1, <2>1 DEF Start, RefreshTick, Batch, In, Register
    <2> QED BY <2>2, SmallerBatch
  <1>2. CASE Bootstrap
    <2>1. CASE Enough
      <3>1. Batch' = Batch
        BY <1>2, <2>1 DEF Bootstrap, Batch, In
      <3> QED BY <3>1, SmallerBatch
    <2>2. CASE ~Enough
      BY <1>2, <2>2, ReplenishBounded, SourceAssumption DEF Bootstrap
    <2> QED BY <2>1, <2>2
  <1>3. CASE ReplenishTick
    BY <1>3, ReplenishBounded, SourceAssumption DEF ReplenishTick
  <1>4. ASSUME NEW p \in Proxies, NEW ok \in BOOLEAN, ProbeEnds(p, ok) PROVE Bounded'
    <2>1. Batch' \subseteq Batch
      BY <1>4 DEF ProbeEnds, Batch, In, IInv, TypeOK
    <2> QED BY <2>1, SmallerBatch
  <1>5. CASE Admit
    <2>1. Batch' \subseteq Batch
      BY <1>5 DEF Admit, Batch, In
    <2> QED BY <2>1, SmallerBatch
  <1>6. CASE FinishReplenish
    <2>1. Batch' \subseteq Batch
      BY <1>6, ReapShrinks DEF FinishReplenish, Batch
    <2> QED BY <2>1, SmallerBatch
  <1>7. CASE Stop \/ Use \/ Tick \/ Finished \/ UNCHANGED vars
    <2>1. Batch' = Batch
      BY <1>7 DEF Stop, Use, Tick, Finished, vars, sourceVars, Batch, In
    <2> QED BY <2>1, SmallerBatch
  <1> QED BY <1>1, <1>2, <1>3, <1>4, <1>5, <1>6, <1>7 DEF Next

LEMMA Invariance == Spec => []IInv
  <1>1. IInv /\ [Next]_vars => IInv'
    BY StepKeepsTypes, StepKeepsRecords, StepKeepsBound, StepOfPool, PoolKeepsShape
       DEF IInv, Records
  <1> QED BY <1>1, InitIInv, PTL DEF Spec

\* On the roster is what was configured and what was admitted, nothing else,
\* whatever is listed, fails or is evicted meanwhile; and what is asked for at one
\* time is never more than the whole target, whatever trust the pool has earned.
THEOREM RecordsAreKept == Spec => []RosterMatchesRecords
  <1>1. IInv => RosterMatchesRecords
    BY DEF IInv, RosterMatchesRecords, Bounded, Batch
  <1> QED BY <1>1, Invariance, PTL

\* The pool under a source is the pool of ProxyPool: every step of the source
\* calls it in a way that its own specification has, so that what holds of the
\* pool whoever uses it holds here.
THEOREM SourceDrivesPool == Spec => Pool!Spec
  <1>1. Init => Pool!Init
    BY DEF Init
  <1>2. IInv /\ [Next]_vars => [Pool!Next]_(Pool!vars)
    BY StepOfPool
  <1> QED BY <1>1, <1>2, Invariance, PTL DEF Spec, Pool!Spec

-----------------------------------------------------------------------------
(* The evictions.                                                             *)

Narrow ==
  LET gone == roster \ roster' IN
    /\ gone \cap configured = {}
    /\ \A p \in gone : entry[p].successes = 0 /\ entry[p].inFlight = 0
    /\ (\E p \in gone : ~entry[p].retired)
         => Cardinality({p \in roster' : ~entry'[p].retired}) >= MinCapacity
    /\ \A p \in Proxies :
         candidate[p] = "rejected" => /\ candidate'[p] = "rejected"
                                      /\ p \in roster' => p \in roster

LEMMA ReapIsNarrow ==
  ASSUME IInv, Reap
  PROVE  Narrow
  <1>1. PICK victims \in SUBSET roster :
           /\ Victims(victims) /\ Pool!Evict(victims)
           /\ candidate' = [p \in Proxies |-> IF p \in victims /\ candidate[p] # "unknown"
                                              THEN "rejected" ELSE candidate[p]]
    BY DEF Reap
  <1> DEFINE cooling == {p \in victims : ~Retired(p)}
  <1>2. /\ roster' = roster \ victims /\ entry' = Pool!Refreshed
        /\ roster \ roster' = victims /\ victims \subseteq Proxies
    BY <1>1 DEF Pool!Evict, Pool!Swept, IInv
  <1>3. /\ victims \cap configured = {}
        /\ \A p \in victims : entry[p].successes = 0 /\ entry[p].inFlight = 0
    BY <1>1, <1>2, SweepShape DEF Victims, Hopeless, Pool!Evictable, IInv
  <1>4. ASSUME NEW p \in victims, ~entry[p].retired
        PROVE  Cardinality({q \in roster' : ~entry'[q].retired}) >= MinCapacity
    <2>1. p \in cooling /\ MayLeave(cooling)
      BY <1>1, <1>4 DEF Victims, Retired
    <2>2. {q \in roster' : ~entry'[q].retired} = Viable \ cooling
      BY <1>2, SweepShape DEF Viable, Retired, IInv
    <2>3. IsFiniteSet(Viable) /\ cooling \subseteq Viable
      <3>1. Viable \subseteq Proxies /\ cooling \subseteq Viable
        BY DEF Viable, IInv
      <3> QED BY <3>1, FS_Subset, SourceAssumption
    <2>4. Cardinality(Viable \ cooling) = Cardinality(Viable) - Cardinality(cooling)
      <3>1. Viable \cap cooling = cooling
        BY <2>3
      <3> QED BY <2>3, <3>1, FS_Difference
    <2> QED BY <2>1, <2>2, <2>4 DEF MayLeave
  <1>5. ASSUME NEW p \in Proxies, candidate[p] = "rejected"
        PROVE  candidate'[p] = "rejected" /\ (p \in roster' => p \in roster)
    BY <1>1, <1>2, <1>5
  <1> QED BY <1>2, <1>3, <1>4, <1>5 DEF Narrow

\* What leaves no proxy: a step with the roster it had, or more.
LEMMA GrowthIsNarrow ==
  ASSUME roster \subseteq roster',
         \A p \in Proxies :
           candidate[p] = "rejected" => /\ candidate'[p] = "rejected"
                                        /\ p \in roster' => p \in roster
  PROVE  Narrow
  BY DEF Narrow

LEMMA ReplenishIsNarrow ==
  ASSUME IInv, NEW target, Replenish(target)
  PROVE  Narrow
  <1>1. CASE Reap
    BY <1>1, ReapIsNarrow
  <1>2. CASE ~Reap
    BY <1>2, GrowthIsNarrow DEF Replenish, Pool!GetStats, In
  <1> QED BY <1>1, <1>2

LEMMA StepIsNarrow ==
  ASSUME IInv, [Next]_vars
  PROVE  Narrow
  <1>1. CASE Start \/ RefreshTick
    <2>1. UNCHANGED roster
      BY <1>1 DEF Start, RefreshTick, Pool!SupplyChanges, Pool!poolVars
    <2>2. PICK targets \in SUBSET Proxies : candidate' = Register(targets)
      BY <1>1 DEF Start, RefreshTick, Registers
    <2>3. \A p \in Proxies : candidate[p] = "rejected" => candidate'[p] = "rejected"
      BY <2>2 DEF Register
    <2> QED BY <2>1, <2>3, GrowthIsNarrow
  <1>2. CASE Bootstrap \/ ReplenishTick
    BY <1>2, ReplenishIsNarrow, GrowthIsNarrow DEF Bootstrap, ReplenishTick, Pool!GetStats
  <1>3. CASE FinishReplenish
    BY <1>3, ReapIsNarrow DEF FinishReplenish
  <1>4. CASE Admit
    <2>1. roster' = roster \cup passed /\ candidate' = candidate
      BY <1>4 DEF Admit, Pool!GetStats, Pool!Add
    <2>2. \A p \in passed : candidate[p] = "admitted"
      BY DEF IInv, In
    <2> QED BY <2>1, <2>2, GrowthIsNarrow
  <1>5. ASSUME NEW p \in Proxies, NEW ok \in BOOLEAN, ProbeEnds(p, ok) PROVE Narrow
    BY <1>5, GrowthIsNarrow DEF ProbeEnds, Pool!SupplyChanges, Pool!poolVars, IInv, TypeOK
  <1>6. CASE Use
    BY <1>6, UsedQuietly, GrowthIsNarrow DEF sourceVars
  <1>7. CASE Stop \/ Tick \/ UNCHANGED vars
    BY <1>7, GrowthIsNarrow DEF Stop, Tick, Pool!SupplyChanges, Pool!Tick, Pool!poolVars,
                               vars, sourceVars
  <1> QED BY <1>1, <1>2, <1>3, <1>4, <1>5, <1>6, <1>7 DEF Next, Finished

\* A proven, leased or configured proxy is never evicted, the floor is kept, and
\* a rejection is final, for any number of proxies that come, fail and cool.
THEOREM EvictionsAreNarrow == Spec => EvictionIsNarrow
  <1>1. IInv /\ [Next]_vars => [Narrow]_vars
    BY StepIsNarrow
  <1>2. EvictionIsNarrow <=> [][Narrow]_vars
    BY DEF EvictionIsNarrow, Narrow
  <1> QED BY <1>1, <1>2, Invariance, PTL DEF Spec

-----------------------------------------------------------------------------
(* Fractions.                                                                 *)
Fraction == Int \X (Nat \ {0})

\* The arithmetic of fractions stays within them.
LEMMA Closed2 ==
  ASSUME NEW a \in Fraction, NEW b \in Fraction
  PROVE  /\ a ++ b \in Fraction /\ a -- b \in Fraction /\ a ** b \in Fraction
         /\ b[1] > 0 => a // b \in Fraction
  <1>1. a[1] \in Int /\ a[2] \in Nat \ {0} /\ b[1] \in Int /\ b[2] \in Nat \ {0}
    BY DEF Fraction
  <1>2. a[2] * b[2] \in Nat \ {0} /\ (b[1] > 0 => a[2] * b[1] \in Nat \ {0})
    BY <1>1
  <1> QED BY <1>1, <1>2 DEF Fraction, ++, --, **, //

\* Equal fractions.
LEMMA SameTransitive ==
  ASSUME NEW a \in Fraction, NEW b \in Fraction, NEW c \in Fraction, Same(a, b), Same(b, c)
  PROVE  Same(a, c)
  BY DEF Fraction, Same

\* Equal fractions stay equal under addition.
LEMMA SameSum ==
  ASSUME NEW a \in Fraction, NEW b \in Fraction, NEW c \in Fraction, Same(a, b)
  PROVE  Same(a ++ c, b ++ c)
  <1> DEFINE p == a[1]  q == a[2]  r == b[1]  s == b[2]  u == c[1]  v == c[2]
  <1>1. p \in Int /\ q \in Int /\ r \in Int /\ s \in Int /\ u \in Int /\ v \in Int
    BY DEF Fraction
  <1>2. p * s = r * q
    BY DEF Same
  <1> SUFFICES (p * v + u * q) * (s * v) = (r * v + u * s) * (q * v)
    BY DEF Same, ++
  <1> HIDE DEF p, q, r, s, u, v
  <1>3. (p * s) * (v * v) = (r * q) * (v * v)
    BY <1>2
  <1>4. /\ (p * v + u * q) * (s * v) = (p * s) * (v * v) + u * q * s * v
        /\ (r * v + u * s) * (q * v) = (r * q) * (v * v) + u * q * s * v
    BY <1>1
  <1> QED BY <1>3, <1>4

\* A power is the product of one less with the base.
PowersTo(f, r, m) == f = [k \in 0..m |-> IF k = 0 THEN Whole(1) ELSE f[k - 1] ** r]

\* There is such a function, and what two of them say of a power is the same.
LEMMA PowersExist ==
  ASSUME NEW r, NEW m \in Nat
  PROVE  \E f : PowersTo(f, r, m)
  <1> DEFINE S == {k \in Nat : \E f : PowersTo(f, r, k)}
  <1>1. 0 \in S
    <2>1. PowersTo([k \in 0..0 |-> Whole(1)], r, 0)
      BY DEF PowersTo
    <2> QED BY <2>1
  <1>2. ASSUME NEW n \in Nat, n \in S PROVE n + 1 \in S
    <2>1. PICK g : PowersTo(g, r, n)
      BY <1>2
    <2> DEFINE f == [k \in 0..(n + 1) |-> IF k <= n THEN g[k] ELSE g[n] ** r]
    <2>2. f[n + 1] = g[n] ** r /\ \A k \in 0..n : f[k] = g[k]
      OBVIOUS
    <2>3. ASSUME NEW k \in 0..(n + 1)
          PROVE  f[k] = IF k = 0 THEN Whole(1) ELSE f[k - 1] ** r
      <3>1. CASE k = n + 1
        <4>1. k # 0 /\ k - 1 = n /\ n \in 0..n
          BY <3>1
        <4> HIDE DEF f
        <4> QED BY <3>1, <4>1, <2>2
      <3>2. CASE k # n + 1
        <4>1. k \in 0..n /\ (k # 0 => k - 1 \in 0..n)
          BY <3>2
        <4>2. g[k] = IF k = 0 THEN Whole(1) ELSE g[k - 1] ** r
          BY <4>1, <2>1 DEF PowersTo
        <4> HIDE DEF f
        <4> QED BY <4>1, <4>2, <2>2
      <3> QED BY <3>1, <3>2
    <2>4. PowersTo(f, r, n + 1)
      BY <2>3 DEF PowersTo
    <2> QED BY <2>4
  <1> HIDE DEF S
  <1>3. Nat \subseteq S
    BY <1>1, <1>2, Induct
  <1> QED BY <1>3 DEF S

LEMMA PowersAgree ==
  ASSUME NEW r, NEW m \in Nat, NEW n \in Nat, NEW f, NEW g, PowersTo(f, r, m), PowersTo(g, r, n)
  PROVE  \A k \in (0..m) \cap (0..n) : f[k] = g[k]
  <1> DEFINE S == {k \in Nat : k \in (0..m) \cap (0..n) => f[k] = g[k]}
  <1>1. 0 \in S
    BY DEF PowersTo
  <1>2. ASSUME NEW k \in Nat, k \in S PROVE k + 1 \in S
    <2>1. SUFFICES ASSUME k + 1 \in (0..m) \cap (0..n) PROVE f[k + 1] = g[k + 1]
      OBVIOUS
    <2>2. k \in (0..m) \cap (0..n) /\ k + 1 # 0 /\ k + 1 - 1 = k
      BY <2>1
    <2>3. f[k + 1] = f[k] ** r /\ g[k + 1] = g[k] ** r
      BY <2>1, <2>2 DEF PowersTo
    <2> QED BY <1>2, <2>2, <2>3
  <1> HIDE DEF S
  <1>3. Nat \subseteq S
    BY <1>1, <1>2, Induct
  <1>4. \A k \in (0..m) \cap (0..n) : k \in Nat
    OBVIOUS
  <1> QED BY <1>3, <1>4 DEF S

\* So a power is what either of them says.
LEMMA PowerIs ==
  ASSUME NEW r, NEW n \in Nat
  PROVE  \E f : PowersTo(f, r, n) /\ Power(r, n) = f[n]
  <1> DEFINE f == CHOOSE h : h = [k \in 0..n |-> IF k = 0 THEN Whole(1) ELSE h[k - 1] ** r]
  <1>1. PowersTo(f, r, n)
    BY PowersExist DEF PowersTo
  <1>2. Power(r, n) = f[n]
    BY DEF Power
  <1> QED BY <1>1, <1>2

\* The powers, one after the other.
LEMMA PowerStep ==
  ASSUME NEW r, NEW n \in Nat
  PROVE  /\ Power(r, 0) = Whole(1)
         /\ Power(r, n + 1) = Power(r, n) ** r
  <1>1. PICK z : PowersTo(z, r, 0) /\ Power(r, 0) = z[0]
    BY PowerIs
  <1>2. PICK f : PowersTo(f, r, n) /\ Power(r, n) = f[n]
    BY PowerIs
  <1>3. PICK g : PowersTo(g, r, n + 1) /\ Power(r, n + 1) = g[n + 1]
    BY PowerIs
  <1>4. z[0] = Whole(1)
    BY <1>1 DEF PowersTo
  <1>5. g[n + 1] = g[n] ** r
    BY <1>3 DEF PowersTo
  <1>6. f[n] = g[n]
    <2>1. n + 1 \in Nat /\ n \in (0..n) \cap (0..(n + 1))
      OBVIOUS
    <2> QED BY <2>1, <1>2, <1>3, PowersAgree
  <1> QED BY <1>1, <1>2, <1>3, <1>4, <1>5, <1>6

\* The powers of a fraction are fractions.
LEMMA PowerFraction ==
  ASSUME NEW r \in Fraction, NEW n \in Nat
  PROVE  Power(r, n) \in Fraction
  <1> DEFINE S == {k \in Nat : Power(r, k) \in Fraction}
  <1>1. 0 \in S
    BY PowerStep DEF Fraction, Whole
  <1>2. \A k \in Nat : k \in S => k + 1 \in S
    BY PowerStep, Closed2
  <1> HIDE DEF S
  <1>3. Nat \subseteq S
    BY <1>1, <1>2, Induct
  <1> QED BY <1>3 DEF S

-----------------------------------------------------------------------------
(* The attempts.                                                              *)

\* A share of two parts is the parts' shares.
LEMMA Shares ==
  ASSUME NEW q \in Fraction, NEW t \in Fraction, NEW e \in Fraction, NEW f \in Fraction,
         NEW g \in Fraction, Same(e ++ f, g)
  PROVE  Same((q ++ (t ** e)) ++ (t ** f), q ++ (t ** g))
  <1> DEFINE q1 == q[1]  q2 == q[2]  t1 == t[1]  t2 == t[2]  e1 == e[1]  e2 == e[2]
             f1 == f[1]  f2 == f[2]  g1 == g[1]  g2 == g[2]
  <1>1. /\ q1 \in Int /\ q2 \in Int /\ t1 \in Int /\ t2 \in Int /\ e1 \in Int /\ e2 \in Int
        /\ f1 \in Int /\ f2 \in Int /\ g1 \in Int /\ g2 \in Int
    BY DEF Fraction
  <1>2. (e1 * f2 + f1 * e2) * g2 = g1 * (e2 * f2)
    BY DEF Same, ++
  <1> DEFINE lhs1 == (q1 * (t2 * e2) + (t1 * e1) * q2) * (t2 * f2) + (t1 * f1) * (q2 * (t2 * e2))
             lhs2 == (q2 * (t2 * e2)) * (t2 * f2)
             rhs1 == q1 * (t2 * g2) + (t1 * g1) * q2
             rhs2 == q2 * (t2 * g2)
             k == t1 * t2 * t2 * q2 * q2
  <1>3. lhs1 * rhs2 = rhs1 * lhs2
    <2>1. k \in Int
      BY <1>1
    <2>2. ((e1 * f2 + f1 * e2) * g2) * k = (g1 * (e2 * f2)) * k
      BY <1>2
    <2> HIDE DEF q1, q2, t1, t2, e1, e2, f1, f2, g1, g2
    <2>3. lhs1 * rhs2 = q1 * q2 * t2 * t2 * t2 * e2 * f2 * g2
                         + ((e1 * f2 + f1 * e2) * g2) * k
      BY <1>1
    <2>4. rhs1 * lhs2 = q1 * q2 * t2 * t2 * t2 * e2 * f2 * g2 + (g1 * (e2 * f2)) * k
      BY <1>1
    <2> QED BY <2>2, <2>3, <2>4
  <1> QED BY <1>3 DEF Same, ++, **

\* The expected attempts of n, where p is the share that fails.
ExpectedOf(p, n) == IF Same(p, Whole(1)) THEN Whole(n)
                    ELSE (Whole(1) -- Power(p, n)) // (Whole(1) -- p)

\* One more attempt adds the probability that all before it failed.
LEMMA ExpectedStep ==
  ASSUME NEW p \in Fraction, p[1] <= p[2], NEW n \in Nat
  PROVE  /\ ExpectedOf(p, n) \in Fraction
         /\ Same(ExpectedOf(p, n) ++ Power(p, n), ExpectedOf(p, n + 1))
  <1> DEFINE a == p[1]  s == p[2]  A == Power(p, n)[1]  B == Power(p, n)[2]
  <1>1. a \in Int /\ s \in Nat \ {0} /\ A \in Int /\ B \in Nat \ {0} /\ Power(p, n) = <<A, B>>
    BY PowerFraction DEF Fraction
  <1>2. Power(p, n + 1) = <<A * a, B * s>>
    BY PowerStep DEF **
  <1>3. CASE Same(p, Whole(1))
    <2>1. ExpectedOf(p, n) = <<n, 1>> /\ ExpectedOf(p, n + 1) = <<n + 1, 1>>
      BY <1>3 DEF ExpectedOf, Whole
    <2> DEFINE S == {k \in Nat : Power(p, k)[1] = Power(p, k)[2]}
    <2>2. 0 \in S
      BY PowerStep DEF Whole
    <2>3. ASSUME NEW k \in Nat, k \in S PROVE k + 1 \in S
      <3>1. a = s
        BY <1>1, <1>3 DEF Same, Whole
      <3>2. Power(p, k + 1) = <<Power(p, k)[1] * a, Power(p, k)[2] * s>>
        BY PowerStep DEF **
      <3> QED BY <2>3, <3>1, <3>2
    <2> HIDE DEF S
    <2>4. Nat \subseteq S
      BY <2>2, <2>3, Induct
    <2>5. A = B
      BY <2>4 DEF S
    <2>6. <<n, 1>> ++ <<A, B>> = <<n * B + A * 1, 1 * B>>
      BY DEF ++
    <2>7. (n * B + A * 1) * 1 = (n + 1) * (1 * B)
      BY <1>1, <2>5
    <2>8. <<n, 1>> \in Fraction
      BY DEF Fraction
    <2> QED BY <1>1, <2>1, <2>6, <2>7, <2>8 DEF Same
  <1>4. CASE ~Same(p, Whole(1))
    <2>1. s - a \in Nat \ {0}
      BY <1>1, <1>4 DEF Same, Whole
    <2>2. /\ ExpectedOf(p, n) = <<(1 * B - A * 1) * (1 * s), (1 * B) * (1 * s - a * 1)>>
          /\ ExpectedOf(p, n + 1)
               = <<(1 * (B * s) - (A * a) * 1) * (1 * s), (1 * (B * s)) * (1 * s - a * 1)>>
      BY <1>1, <1>2, <1>4 DEF ExpectedOf, Whole, --, //
    <2> DEFINE d == s - a
    <2> HIDE DEF a, s, A, B
    <2>3. /\ ExpectedOf(p, n) = <<(B - A) * s, B * d>>
          /\ ExpectedOf(p, n + 1) = <<(B * s - A * a) * s, (B * s) * d>>
      <3>1. /\ (1 * B - A * 1) * (1 * s) = (B - A) * s
            /\ (1 * B) * (1 * s - a * 1) = B * (s - a)
            /\ (1 * (B * s) - (A * a) * 1) * (1 * s) = (B * s - A * a) * s
            /\ (1 * (B * s)) * (1 * s - a * 1) = (B * s) * (s - a)
        BY <1>1
      <3> QED BY <2>2, <3>1
    <2>4. B * d \in Nat \ {0} /\ (B - A) * s \in Int
      BY <1>1, <2>1
    <2>5. ExpectedOf(p, n) \in Fraction
      BY <2>3, <2>4 DEF Fraction
    <2>6. ((B - A) * s) * B + A * (B * d) = B * (B * s - A * a)
      BY <1>1
    <2>7. (((B - A) * s) * B + A * (B * d)) * ((B * s) * d) = ((B * s - A * a) * s) * ((B * d) * B)
      <3>1. d \in Int /\ B * s - A * a \in Int
        BY <1>1
      <3> DEFINE z == B * s - A * a
      <3> HIDE DEF d, z
      <3>2. (B * z) * ((B * s) * d) = (z * s) * ((B * d) * B)
        BY <1>1, <3>1 DEF z
      <3> QED BY <2>6, <3>2 DEF z
    <2>8. ExpectedOf(p, n) ++ Power(p, n) = <<((B - A) * s) * B + A * (B * d), (B * d) * B>>
      BY <1>1, <2>3 DEF ++
    <2> QED BY <2>3, <2>5, <2>7, <2>8 DEF Same
  <1> QED BY <1>3, <1>4

\* The walk over the attempts adds them up one by one.
ReachedOf(t, p, n) == IF n = 1 THEN Whole(1) ELSE t ** Power(p, n - 1)
TriesTo(f, t, p, m) ==
  f = [n \in 0..m |-> IF n = 0 THEN Whole(0) ELSE f[n - 1] ++ ReachedOf(t, p, n)]
TriesOf(t, p, m) ==
  CHOOSE f : f = [n \in 0..m |-> IF n = 0 THEN Whole(0)
                                ELSE f[n - 1] ++ (IF n = 1 THEN Whole(1) ELSE t ** Power(p, n - 1))]

\* The attempts are added up one by one.
LEMMA TriesAre ==
  ASSUME NEW t, NEW p, NEW m \in Nat
  PROVE  TriesTo(TriesOf(t, p, m), t, p, m)
  <1> DEFINE S == {k \in Nat : \E f : TriesTo(f, t, p, k)}
  <1>1. 0 \in S
    <2>1. TriesTo([k \in 0..0 |-> Whole(0)], t, p, 0)
      BY DEF TriesTo
    <2> QED BY <2>1
  <1>2. ASSUME NEW n \in Nat, n \in S PROVE n + 1 \in S
    <2>1. PICK g : TriesTo(g, t, p, n)
      BY <1>2
    <2> DEFINE top == g[n] ++ ReachedOf(t, p, n + 1)
               f == [k \in 0..(n + 1) |-> IF k <= n THEN g[k] ELSE top]
    <2>2. f[n + 1] = top /\ \A k \in 0..n : f[k] = g[k]
      OBVIOUS
    <2>3. ASSUME NEW k \in 0..(n + 1)
          PROVE  f[k] = IF k = 0 THEN Whole(0) ELSE f[k - 1] ++ ReachedOf(t, p, k)
      <3>1. CASE k = n + 1
        <4>1. k # 0 /\ k - 1 = n /\ n \in 0..n
          BY <3>1
        <4> HIDE DEF f
        <4> QED BY <3>1, <4>1, <2>2
      <3>2. CASE k # n + 1
        <4>1. k \in 0..n /\ (k # 0 => k - 1 \in 0..n)
          BY <3>2
        <4>2. g[k] = IF k = 0 THEN Whole(0) ELSE g[k - 1] ++ ReachedOf(t, p, k)
          BY <4>1, <2>1 DEF TriesTo
        <4> HIDE DEF f
        <4> QED BY <4>1, <4>2, <2>2
      <3> QED BY <3>1, <3>2
    <2>4. TriesTo(f, t, p, n + 1)
      BY <2>3 DEF TriesTo
    <2> QED BY <2>4
  <1> HIDE DEF S
  <1>3. Nat \subseteq S
    BY <1>1, <1>2, Induct
  <1>4. \E f : TriesTo(f, t, p, m)
    BY <1>3 DEF S
  <1> QED BY <1>4 DEF TriesTo, TriesOf, ReachedOf

\* They are the expected attempts of what can be retried, and those of what can not.
LEMMA TriesAddUp ==
  ASSUME NEW q \in Fraction, NEW p \in Fraction, p[1] <= p[2], NEW m \in Nat \ {0}
  PROVE  LET t == Whole(1) -- q
         IN  Same(q ++ (t ** ExpectedOf(p, m)), TriesOf(t, p, m)[m])
  <1> DEFINE t == Whole(1) -- q
             A == TriesOf(t, p, m)
             E(n) == q ++ (t ** ExpectedOf(p, n))
             S == {n \in Nat : n + 1 <= m => A[n + 1] \in Fraction /\ Same(E(n + 1), A[n + 1])}
  <1>1. t \in Fraction
    <2>1. Whole(1) \in Fraction
      BY DEF Whole, Fraction
    <2> QED BY <2>1, Closed2
  <1>2. A[0] = Whole(0) /\ \A n \in 1..m : A[n] = A[n - 1] ++ ReachedOf(t, p, n)
    BY TriesAre DEF TriesTo
  <1>3. \A n \in Nat : ExpectedOf(p, n) \in Fraction /\ E(n) \in Fraction
    BY <1>1, ExpectedStep, Closed2
  <1>4. 0 \in S
    <2>1. A[1] = <<1, 1>>
      <3>1. 1 \in 1..m /\ 1 - 1 = 0 /\ ReachedOf(t, p, 1) = <<1, 1>>
        BY DEF ReachedOf, Whole
      <3>2. A[1] = <<0, 1>> ++ <<1, 1>>
        BY <1>2, <3>1 DEF Whole
      <3> QED BY <3>2 DEF ++
    <2>2. Same(ExpectedOf(p, 0) ++ Power(p, 0), ExpectedOf(p, 1))
      BY ExpectedStep
    <2>3. ExpectedOf(p, 0)[1] = 0
      <3>1. Power(p, 0) = <<1, 1>>
        BY PowerStep DEF Whole
      <3>2. CASE Same(p, Whole(1))
        BY <3>2 DEF ExpectedOf, Whole
      <3>3. CASE ~Same(p, Whole(1))
        <4>1. ExpectedOf(p, 0)[1] = (1 * 1 - 1 * 1) * (1 * p[2])
          BY <3>1, <3>3 DEF ExpectedOf, Whole, --, //
        <4>2. p[2] \in Int
          BY DEF Fraction
        <4> QED BY <4>1, <4>2
      <3> QED BY <3>2, <3>3
    <2> DEFINE x == ExpectedOf(p, 0)[2]  e == ExpectedOf(p, 1)[1]  d == ExpectedOf(p, 1)[2]
    <2>4. x \in Nat \ {0} /\ e \in Int /\ d \in Nat \ {0} /\ ExpectedOf(p, 1) = <<e, d>>
      <3>1. ExpectedOf(p, 0) \in Fraction /\ ExpectedOf(p, 1) \in Fraction
        BY <1>3
      <3> QED BY <3>1 DEF Fraction
    <2>5. e = d
      <3>1. Power(p, 0) = <<1, 1>>
        BY PowerStep DEF Whole
      <3>2. (0 * 1 + 1 * x) * d = e * (x * 1)
        BY <2>2, <2>3, <3>1 DEF Same, ++
      <3>3. x * d = x * e
        BY <2>4, <3>2
      <3> QED BY <2>4, <3>3
    <2>6. Same(E(1), <<1, 1>>)
      <3> DEFINE u == q[1]  v == q[2]
      <3>1. u \in Int /\ v \in Nat \ {0} /\ q = <<u, v>>
        BY DEF Fraction
      <3>2. t = <<1 * v - u * 1, 1 * v>>
        BY DEF --, Whole
      <3>3. E(1) = <<u * ((1 * v) * d) + ((1 * v - u * 1) * e) * v, v * ((1 * v) * d)>>
        BY <2>4, <3>1, <3>2 DEF ++, **
      <3>4. u * ((1 * v) * d) + ((1 * v - u * 1) * e) * v = v * ((1 * v) * d)
        BY <2>4, <2>5, <3>1
      <3> HIDE DEF E
      <3>5. (u * ((1 * v) * d) + ((1 * v - u * 1) * e) * v) * 1 = 1 * (v * ((1 * v) * d))
        BY <2>4, <3>1, <3>4
      <3> QED BY <3>3, <3>5 DEF Same
    <2> QED BY <2>1, <2>6 DEF Fraction
  <1>5. ASSUME NEW n \in Nat, n \in S PROVE n + 1 \in S
    <2>1. SUFFICES ASSUME n + 2 <= m
                   PROVE  A[n + 2] \in Fraction /\ Same(E(n + 2), A[n + 2])
      OBVIOUS
    <2>2. A[n + 1] \in Fraction /\ Same(E(n + 1), A[n + 1])
      BY <1>5, <2>1
    <2> DEFINE P == Power(p, n + 1)
    <2>3. A[n + 2] = A[n + 1] ++ (t ** P)
      <3>1. n + 2 \in 1..m /\ n + 2 - 1 = n + 1 /\ n + 2 # 1
        BY <2>1
      <3> QED BY <1>2, <3>1 DEF ReachedOf
    <2>4. P \in Fraction /\ t ** P \in Fraction
      BY <1>1, PowerFraction, Closed2
    <2>5. Same(ExpectedOf(p, n + 1) ++ P, ExpectedOf(p, n + 2))
      <3>1. n + 1 \in Nat /\ n + 1 + 1 = n + 2
        OBVIOUS
      <3> QED BY <3>1, ExpectedStep
    <2>6. n + 1 \in Nat /\ n + 2 \in Nat
      OBVIOUS
    <2>7. Same(E(n + 1) ++ (t ** P), E(n + 2))
      BY <1>1, <1>3, <2>4, <2>5, <2>6, Shares
    <2>8. Same(E(n + 1) ++ (t ** P), A[n + 1] ++ (t ** P))
      <3> HIDE DEF E, A, P, t
      <3> QED BY <1>3, <2>2, <2>4, <2>6, SameSum
    <2>9. E(n + 1) ++ (t ** P) \in Fraction /\ A[n + 1] ++ (t ** P) \in Fraction
      BY <1>3, <2>2, <2>4, <2>6, Closed2
    <2> HIDE DEF E, A, P, t
    <2>10. Same(E(n + 2), E(n + 1) ++ (t ** P))
      BY <2>7 DEF Same
    <2> QED BY <1>3, <2>3, <2>6, <2>8, <2>9, <2>10, SameTransitive
  <1> HIDE DEF S
  <1>6. Nat \subseteq S
    BY <1>4, <1>5, Induct
  <1>7. m - 1 \in S
    BY <1>6
  <1>8. Same(E(m), A[m])
    <2>1. m - 1 + 1 = m
      OBVIOUS
    <2> QED BY <1>7, <2>1 DEF S
  <1> QED BY <1>8

\* The outcomes of a job are all there are.
LEMMA OutcomesAddUp ==
  ASSUME NEW q \in Fraction, NEW P \in Fraction
  PROVE  LET t == Whole(1) -- q
         IN  Same(((t ** (Whole(1) -- P)) ++ q) ++ (t ** P), Whole(1))
  <1> DEFINE u == q[1]  v == q[2]  a == P[1]  b == P[2]
             t1 == 1 * v - u * 1  t2 == 1 * v  f1 == 1 * b - a * 1  f2 == 1 * b
  <1>1. u \in Int /\ v \in Nat \ {0} /\ a \in Int /\ b \in Nat \ {0}
    BY DEF Fraction
  <1>2. Whole(1) -- q = <<t1, t2>> /\ Whole(1) -- P = <<f1, f2>>
    BY DEF --, Whole
  <1>3. ((Whole(1) -- q) ** (Whole(1) -- P)) ++ q = <<(t1 * f1) * v + u * (t2 * f2), (t2 * f2) * v>>
    BY <1>2 DEF ++, **
  <1>4. (((Whole(1) -- q) ** (Whole(1) -- P)) ++ q) ++ ((Whole(1) -- q) ** P)
          = <<((t1 * f1) * v + u * (t2 * f2)) * (t2 * b) + (t1 * a) * ((t2 * f2) * v),
              ((t2 * f2) * v) * (t2 * b)>>
    BY <1>2, <1>3 DEF ++, **
  <1>5. t1 = v - u /\ t2 = v /\ f1 = b - a /\ f2 = b
    BY <1>1
  <1> HIDE DEF u, v, a, b
  <1>6. ((((v - u) * (b - a)) * v + u * (v * b)) * (v * b) + ((v - u) * a) * ((v * b) * v)) * 1
          = 1 * (((v * b) * v) * (v * b))
    BY <1>1
  <1> HIDE DEF t1, t2, f1, f2
  <1> QED BY <1>4, <1>5, <1>6 DEF Same, Whole

\* What reliability.ts reckons with: shares between none and all, and an attempt.
LEMMA ReliabilityIs ==
  ASSUME CapacityAssumption, NEW in, in.maxAttempts \in Nat, in.nonRetryableShare \in Nat,
         in.perAttemptSuccessRate \in Nat
  PROVE  \E m \in Nat \ {0}, q \in Fraction, p \in Fraction :
           /\ p[1] <= p[2] /\ 0 <= p[1] /\ q[1] <= q[2] /\ 0 <= q[1]
           /\ EvaluateReliability(in) = Reliability(m, q, p)
  <1> DEFINE m == Max({1, in.maxAttempts})
             q == Share(Clamp01(in.nonRetryableShare))
             p == Share(ShareUnit - Clamp01(in.perAttemptSuccessRate))
  <1>1. ShareUnit \in Nat \ {0}
    BY DEF CapacityAssumption
  <1>2. m \in Nat \ {0}
    BY MaxOfTwo
  <1>3. \A n \in Nat : Clamp01(n) \in Nat /\ Clamp01(n) <= ShareUnit
    BY <1>1, MinOfTwo DEF Clamp01
  <1>4. /\ q \in Fraction /\ p \in Fraction
        /\ p[1] <= p[2] /\ 0 <= p[1] /\ q[1] <= q[2] /\ 0 <= q[1]
    BY <1>1, <1>3 DEF Fraction, Share
  <1>5. EvaluateReliability(in) = Reliability(m, q, p)
    BY DEF EvaluateReliability
  <1> HIDE DEF m, q, p
  <1> QED BY <1>2, <1>4, <1>5

\* The outcomes are all there are, and the multiplier is the expected attempts.
LEMMA AttemptsHold ==
  ASSUME CapacityAssumption, WellTyped(inputs)
  PROVE  AttemptsAddUp
  <1>1. /\ inputs.maxAttempts \in Nat /\ inputs.nonRetryableShare \in Nat
        /\ inputs.perAttemptSuccessRate \in Nat
    BY DEF WellTyped, Required
  <1>2. PICK m \in Nat \ {0}, q \in Fraction, p \in Fraction :
           /\ p[1] <= p[2] /\ 0 <= p[1] /\ q[1] <= q[2] /\ 0 <= q[1]
           /\ EvaluateReliability(inputs) = Reliability(m, q, p)
    BY <1>1, ReliabilityIs
  <1> DEFINE t == Whole(1) -- q
             P == Power(p, m)
             r == Reliability(m, q, p)
  <1>3. /\ r.attempts = m /\ r.perAttemptFailureRate = p /\ r.permanentFailureRate = q
        /\ r.jobSuccessRate = t ** (Whole(1) -- P) /\ r.exhaustedRate = t ** P
        /\ r.attemptAmplification = q ++ (t ** ExpectedOf(p, m))
    BY DEF Reliability, Amplification, ExpectedOf
  <1>4. P \in Fraction
    BY PowerFraction
  <1>5. Same(((t ** (Whole(1) -- P)) ++ q) ++ (t ** P), Whole(1))
    BY <1>4, OutcomesAddUp
  <1>6. Same(q ++ (t ** ExpectedOf(p, m)), TriesOf(t, p, m)[m])
    BY <1>2, TriesAddUp
  <1> HIDE DEF r, t, P
  <1>7. AttemptsReconcile(r)
    BY <1>3, <1>5, <1>6 DEF AttemptsReconcile, TriesOf, t
  <1> QED BY <1>2, <1>7 DEF AttemptsAddUp, r

-----------------------------------------------------------------------------
(* The inputs stay well typed.                                                *)

\* What a list of stages holds.
LEMMA StagesAre ==
  ASSUME NEW stages \in Seq(PollingStage)
  PROVE  /\ Len(stages) \in Nat /\ DOMAIN stages = 1..Len(stages)
         /\ \A n \in 1..Len(stages) : stages[n] \in PollingStage
  BY LenProperties, ElementOfSeq

\* There is an id that no stage has.
LEMMA NewStageId ==
  ASSUME NEW stages \in Seq(PollingStage)
  PROVE  NextStageId(stages) \in Nat /\ \A k \in DOMAIN stages : stages[k].id # NextStageId(stages)
  <1> DEFINE L == Len(stages)
             Free == {n \in 1..(L + 1) : \A k \in DOMAIN stages : stages[k].id # n}
  <1>1. L \in Nat /\ DOMAIN stages = 1..L
    BY StagesAre
  <1>2. Free # {}
    <2> SUFFICES ASSUME Free = {} PROVE FALSE
      OBVIOUS
    <2>1. \A n \in 1..(L + 1) : \E k \in 1..L : stages[k].id = n
      BY <1>1
    <2> DEFINE f == [n \in 1..(L + 1) |-> CHOOSE k \in 1..L : stages[k].id = n]
    <2>2. f \in [1..(L + 1) -> 1..L] /\ \A n \in 1..(L + 1) : stages[f[n]].id = n
      BY <2>1
    <2>3. /\ IsFiniteSet(1..(L + 1)) /\ Cardinality(1..(L + 1)) = L + 1
          /\ IsFiniteSet(1..L) /\ Cardinality(1..L) = L
      BY <1>1, FS_Interval
    <2>4. Cardinality(1..L) < Cardinality(1..(L + 1))
      BY <1>1, <2>3
    <2>5. \E x, y \in 1..(L + 1) : x # y /\ f[x] = f[y]
      <3> DEFINE S == 1..(L + 1)
                 T == 1..L
      <3>1. f \in [S -> T]
        BY <2>2
      <3>2. IsFiniteSet(S) /\ IsFiniteSet(T) /\ Cardinality(T) < Cardinality(S)
        BY <2>3, <2>4
      <3> HIDE DEF f, S, T
      <3>3. \E x, y \in S : x # y /\ f[x] = f[y]
        BY <3>1, <3>2, FS_PigeonHole
      <3> QED BY <3>3 DEF S
    <2> HIDE DEF f
    <2> QED BY <2>2, <2>5
  <1>3. Free \in SUBSET Nat
    BY <1>1
  <1>4. PICK x \in Free : \A y \in Free : x <= y
    <2> HIDE DEF Free
    <2> QED BY <1>2, <1>3, NatMin
  <1>5. Min(Free) \in Free
    <2>1. Free \in SUBSET Int
      BY <1>3
    <2> HIDE DEF Free
    <2> QED BY <1>4, <2>1, MinIs
  <1>6. NextStageId(stages) = Min(Free)
    BY DEF NextStageId
  <1> QED BY <1>3, <1>5, <1>6

\* An update to inputs of the type leaves the page well typed.
LEMMA UpdateKeeps ==
  ASSUME NEW changed, WellTyped(changed), Update(changed), PageTypeOK
  PROVE  PageTypeOK'
  BY DEF Update, PageTypeOK, WellTyped

\* So does a new list of stages.
LEMMA UpdateStagesKeeps ==
  ASSUME PageAssumption, NEW stages \in Seq(PollingStage), UpdateStages(stages), PageTypeOK
  PROVE  PageTypeOK'
  <1> DEFINE new == [inputs EXCEPT !.stages = stages]
  <1>1. "stages" \in DOMAIN inputs /\ "stages" \notin Required \cup Nullable
    BY DEF PageAssumption, PageTypeOK, WellTyped, Required, Nullable
  <1>2. DOMAIN new = DOMAIN inputs /\ new.stages = stages /\ \A f \in DOMAIN inputs \ {"stages"} : new[f] = inputs[f]
    BY <1>1
  <1>3. Required \cup Nullable \subseteq DOMAIN inputs
    BY DEF PageAssumption, PageTypeOK, WellTyped
  <1>4. WellTyped(new)
    <2> HIDE DEF new
    <2> QED BY <1>1, <1>2, <1>3 DEF WellTyped, PageTypeOK
  <1>5. Update(new)
    BY DEF UpdateStages
  <1> HIDE DEF new
  <1> QED BY <1>4, <1>5, UpdateKeeps

\* So does what is typed into a control, ...
LEMMA ControlKeeps ==
  ASSUME PageAssumption, NEW f \in DOMAIN Values, NEW value \in Values[f], UpdateControl(f, value),
         PageTypeOK
  PROVE  PageTypeOK'
  <1> DEFINE new == [inputs EXCEPT ![f] = value]
  <1>1. f # "stages" /\ (f \in Required => value \in Nat) /\ (f \in Nullable => value \in Nat \cup {Null})
    BY DEF PageAssumption
  <1>2. /\ Required \cup Nullable \cup {"stages"} \subseteq DOMAIN inputs
        /\ "stages" \notin Required \cup Nullable
    BY DEF PageAssumption, PageTypeOK, WellTyped, Required, Nullable
  <1>3. DOMAIN new = DOMAIN inputs /\ \A g \in DOMAIN inputs : new[g] = IF g = f THEN value ELSE inputs[g]
    OBVIOUS
  <1>4. WellTyped(new)
    <2> HIDE DEF new
    <2>1. DOMAIN new = DOMAIN Presets[DefaultPreset] /\ new.stages \in Seq(PollingStage)
      BY <1>1, <1>2, <1>3 DEF WellTyped, PageTypeOK
    <2>2. \A g \in Required : new[g] \in Nat
      BY <1>1, <1>2, <1>3 DEF WellTyped, PageTypeOK
    <2>3. \A g \in Nullable : new[g] \in Nat \cup {Null}
      BY <1>1, <1>2, <1>3 DEF WellTyped, PageTypeOK
    <2> QED BY <2>1, <2>2, <2>3 DEF WellTyped
  <1>5. Update(new)
    BY DEF UpdateControl
  <1> HIDE DEF new
  <1> QED BY <1>4, <1>5, UpdateKeeps

\* ... a platform preset, ...
LEMMA PlatformKeeps ==
  ASSUME PageAssumption, NEW id \in DOMAIN Presets \cup {"custom"}, ApplyPlatformPreset(id), PageTypeOK
  PROVE  PageTypeOK'
  <1>1. CASE id = "custom"
    <2>1. inputs' = CustomCapacityInputs /\ platformPreset' = "custom" /\ lifecyclePreset' = "tapered"
      BY <1>1 DEF ApplyPlatformPreset
    <2>2. "stages" \notin Cleared \cup Required \cup Nullable /\ Cleared \subseteq Nullable
          /\ Required \cap Nullable = {}
      BY DEF Cleared, Nullable, Required
    <2>3. /\ WellTyped(Presets[DefaultPreset])
          /\ {"stages"} \cup Required \cup Nullable \subseteq DOMAIN Presets[DefaultPreset]
          /\ Presets[DefaultPreset].stages = TaperedStages
      BY DEF PageAssumption
    <2> DEFINE c == CustomCapacityInputs
    <2>4. /\ DOMAIN c = DOMAIN Presets[DefaultPreset]
          /\ \A f \in DOMAIN Presets[DefaultPreset] :
               c[f] = IF f \in Cleared THEN Null ELSE Presets[DefaultPreset][f]
      BY DEF CustomCapacityInputs
    <2>5. WellTyped(c) /\ c.stages = TaperedStages
      <3> HIDE DEF c
      <3> QED BY <2>2, <2>3, <2>4 DEF WellTyped
    <2>6. LifecyclePresetFor(c.stages) = "tapered"
      <3> HIDE DEF c
      <3> QED BY <2>5 DEF LifecyclePresetFor, PageAssumption
    <2> HIDE DEF c
    <2> QED BY <2>1, <2>5, <2>6 DEF PageTypeOK, WellTyped, c
  <1>2. CASE id # "custom"
    <2>1. /\ inputs' = Presets[id] /\ platformPreset' = id
          /\ lifecyclePreset' = LifecyclePresetFor(inputs'.stages)
      BY <1>2 DEF ApplyPlatformPreset
    <2>2. WellTyped(Presets[id])
      BY <1>2 DEF PageAssumption
    <2> QED BY <2>1, <2>2 DEF PageTypeOK, WellTyped
  <1> QED BY <1>1, <1>2

\* ... a lifecycle preset, ...
LEMMA LifecycleKeeps ==
  ASSUME PageAssumption, NEW id \in {"tapered", "flat"}, ApplyLifecyclePreset(id), PageTypeOK
  PROVE  PageTypeOK'
  <1> DEFINE stages == IF id = "tapered" THEN TaperedStages ELSE FlatStages
  <1>1. stages \in Seq(PollingStage) /\ LifecyclePresetFor(stages) = id
    BY DEF PageAssumption, LifecyclePresetFor
  <1>2. inputs' = [inputs EXCEPT !.stages = stages] /\ lifecyclePreset' = id
        /\ platformPreset' = platformPreset
    BY DEF ApplyLifecyclePreset
  <1>3. "stages" \in DOMAIN inputs
    BY DEF PageAssumption, PageTypeOK, WellTyped
  <1> HIDE DEF stages
  <1>4. UpdateStages(stages)
    BY <1>1, <1>2, <1>3 DEF UpdateStages, Update
  <1> QED BY <1>1, <1>4, UpdateStagesKeeps

\* ... a new stage, ...
LEMMA AddKeeps ==
  ASSUME PageAssumption, AddStage, PageTypeOK
  PROVE  PageTypeOK'
  <1>1. inputs.stages \in Seq(PollingStage)
    BY DEF PageTypeOK, WellTyped
  <1> DEFINE new == [id |-> NextStageId(inputs.stages), label |-> "Stage", durationDays |-> 1,
                     intervalMs |-> Null, enabled |-> TRUE]
  <1>2. new \in PollingStage
    <2>1. NextStageId(inputs.stages) \in Nat
      BY <1>1, NewStageId
    <2> QED BY <2>1 DEF PollingStage, PageAssumption
  <1>3. UpdateStages(Append(inputs.stages, new))
    BY DEF AddStage
  <1> HIDE DEF new
  <1>4. Append(inputs.stages, new) \in Seq(PollingStage)
    BY <1>1, <1>2
  <1> QED BY <1>3, <1>4, UpdateStagesKeeps

\* ... and what is done to a stage.
LEMMA RowKeeps ==
  ASSUME PageAssumption, PageTypeOK, NEW n \in DOMAIN inputs.stages,
         \/ RemoveStage(n)
         \/ \E target \in {n - 1, n + 1} : MoveStage(n, target)
         \/ \E f \in DOMAIN StageValues : \E value \in StageValues[f] : UpdateStage(n, f, value)
  PROVE  PageTypeOK'
  <1> DEFINE stages == inputs.stages
  <1>0. stages \in Seq(PollingStage)
    BY DEF PageTypeOK, WellTyped
  <1>1. /\ Len(stages) \in Nat /\ DOMAIN stages = 1..Len(stages) /\ n \in 1..Len(stages)
        /\ \A k \in 1..Len(stages) : stages[k] \in PollingStage
    BY <1>0, StagesAre
  <1>2. CASE RemoveStage(n)
    <2>1. UpdateStages(RemoveAt(stages, n))
      BY <1>2 DEF RemoveStage
    <2>2. SubSeq(stages, 1, n - 1) \in Seq(PollingStage) /\ SubSeq(stages, n + 1, Len(stages)) \in Seq(PollingStage)
      <3> HIDE DEF stages
      <3> QED BY <1>0, <1>1, SubSeqProperties
    <2>3. RemoveAt(stages, n) \in Seq(PollingStage)
      BY <2>2, ConcatProperties DEF RemoveAt
    <2> QED BY <2>1, <2>3, UpdateStagesKeeps
  <1>3. CASE \E target \in {n - 1, n + 1} : MoveStage(n, target)
    <2>1. PICK target \in {n - 1, n + 1} : MoveStage(n, target)
      BY <1>3
    <2> DEFINE new == [stages EXCEPT ![n] = stages[target], ![target] = stages[n]]
    <2>2. target \in 1..Len(stages) /\ UpdateStages(new)
      BY <1>1, <2>1 DEF MoveStage
    <2>3. new \in Seq(PollingStage)
      <3> HIDE DEF stages
      <3> QED BY <1>0, <1>1, <2>2
    <2> HIDE DEF new
    <2> QED BY <2>2, <2>3, UpdateStagesKeeps
  <1>4. CASE \E f \in DOMAIN StageValues : \E value \in StageValues[f] : UpdateStage(n, f, value)
    <2>1. PICK f \in DOMAIN StageValues : \E value \in StageValues[f] : UpdateStage(n, f, value)
      BY <1>4
    <2>2. PICK value \in StageValues[f] : UpdateStage(n, f, value)
      BY <2>1
    <2> DEFINE row == [stages[n] EXCEPT ![f] = value]
               new == [stages EXCEPT ![n] = row]
    <2>3. UpdateStages(new)
      BY <2>2 DEF UpdateStage
    <2>4. row \in PollingStage
      <3>1. stages[n] \in PollingStage
        BY <1>1
      <3>2. \/ f = "label" /\ value \in Labels
            \/ f = "durationDays" /\ value \in Nat
            \/ f = "intervalMs" /\ value \in Nat \cup {Null}
            \/ f = "enabled" /\ value \in BOOLEAN
        BY DEF PageAssumption
      <3> HIDE DEF stages
      <3> QED BY <3>1, <3>2 DEF PollingStage
    <2>5. new \in Seq(PollingStage)
      <3> HIDE DEF stages, row
      <3> QED BY <1>0, <1>1, <2>4
    <2> HIDE DEF new
    <2> QED BY <2>3, <2>5, UpdateStagesKeeps
  <1> QED BY <1>2, <1>3, <1>4

\* The inductive invariant: an open page is well typed.
PageIInv == inputs # Null => PageTypeOK

\* Every step keeps it.
LEMMA PageNextIInv ==
  ASSUME PageAssumption, PageIInv, [PageNext]_pageVars
  PROVE  PageIInv'
  <1>1. CASE OpenPage
    <2>1. /\ inputs' = Presets[DefaultPreset] /\ platformPreset' = DefaultPreset
          /\ lifecyclePreset' = LifecyclePresetFor(inputs'.stages)
      BY <1>1 DEF OpenPage
    <2>2. WellTyped(Presets[DefaultPreset]) /\ DefaultPreset \in DOMAIN Presets
      BY DEF PageAssumption
    <2> QED BY <2>1, <2>2 DEF PageIInv, PageTypeOK, WellTyped
  <1>2. CASE EditPage
    <2>1. PageTypeOK
      BY <1>2 DEF EditPage, PageIInv
    <2> QED BY <1>2, <2>1, ControlKeeps, PlatformKeeps, LifecycleKeeps, AddKeeps, RowKeeps
            DEF EditPage, PageIInv
  <1>3. CASE UNCHANGED pageVars
    BY <1>3 DEF pageVars, PageIInv, PageTypeOK, WellTyped
  <1> QED BY <1>1, <1>2, <1>3 DEF PageNext

-----------------------------------------------------------------------------
(* The polls of a day, which is some of the instants there are.               *)

\* A quotient is the number the remainder leaves.
LEMMA Quotient ==
  ASSUME NEW x \in Nat, NEW i \in Nat \ {0}, NEW q \in Nat, q * i <= x, x < (q + 1) * i
  PROVE  x \div i = q
  <1> DEFINE d == x \div i
  <1>1. d \in Nat /\ d * i <= x /\ x < (d + 1) * i
    OBVIOUS
  <1> HIDE DEF d
  <1>2. CASE d < q
    <2>1. (d + 1) * i <= q * i
      BY <1>1, <1>2
    <2> QED BY <1>1, <2>1
  <1>3. CASE q < d
    <2>1. (q + 1) * i <= d * i
      BY <1>1, <1>3
    <2> QED BY <1>1, <2>1
  <1>4. CASE d = q
    BY <1>4 DEF d
  <1> QED BY <1>1, <1>2, <1>3, <1>4

\* Rounding up goes one further at each multiple of the divisor.
LEMMA RoundUpStep ==
  ASSUME NEW x \in Nat, NEW i \in Nat \ {0}
  PROVE  /\ RoundUp(x, i) \in Nat
         /\ RoundUp(x + 1, i) = RoundUp(x, i) + IF x % i = 0 THEN 1 ELSE 0
  <1> DEFINE q == x \div i
             r == x % i
  <1>1. q \in Nat /\ r \in Nat /\ r < i /\ x = q * i + r
    OBVIOUS
  <1> HIDE DEF q, r
  <1>2. RoundUp(x + 1, i) = q + 1
    <2>1. (q + 1) * i <= x + i /\ x + i < (q + 1 + 1) * i
      BY <1>1
    <2>2. (x + i) \div i = q + 1
      BY <1>1, <2>1, Quotient
    <2>3. x + 1 + i - 1 = x + i
      OBVIOUS
    <2> QED BY <2>2, <2>3 DEF RoundUp
  <1>3. CASE r = 0
    <2>1. q * i <= x + i - 1 /\ x + i - 1 < (q + 1) * i /\ x + i - 1 \in Nat
      BY <1>1, <1>3
    <2>2. RoundUp(x, i) = q
      BY <1>1, <2>1, Quotient DEF RoundUp
    <2> QED BY <1>1, <1>2, <1>3, <2>2 DEF r
  <1>4. CASE r # 0
    <2>1. (q + 1) * i <= x + i - 1 /\ x + i - 1 < (q + 1 + 1) * i /\ x + i - 1 \in Nat
      BY <1>1, <1>4
    <2>2. RoundUp(x, i) = q + 1
      BY <1>1, <2>1, Quotient DEF RoundUp
    <2> QED BY <1>1, <1>2, <1>4, <2>2 DEF r
  <1> QED BY <1>3, <1>4

\* The instants from lo on, hi of them, that an interval divides.
InstantsIn(lo, h, i) == {t \in lo..(lo + h - 1) : t % i = 0}

\* They are as many as rounding up goes further between the two ends.
LEMMA InstantsCounted ==
  ASSUME NEW lo \in Nat, NEW h \in Nat, NEW i \in Nat \ {0}
  PROVE  Cardinality(InstantsIn(lo, h, i)) = RoundUp(lo + h, i) - RoundUp(lo, i)
  <1> DEFINE S == {k \in Nat : Cardinality(InstantsIn(lo, k, i)) = RoundUp(lo + k, i) - RoundUp(lo, i)}
  <1>0. \A x \in Nat : RoundUp(x, i) \in Nat
    BY RoundUpStep
  <1>1. 0 \in S
    <2>1. InstantsIn(lo, 0, i) = {} /\ lo + 0 = lo
      BY DEF InstantsIn
    <2> QED BY <1>0, <2>1, FS_EmptySet
  <1>2. ASSUME NEW k \in Nat, k \in S PROVE k + 1 \in S
    <2> DEFINE A == InstantsIn(lo, k, i)
               B == InstantsIn(lo, k + 1, i)
               x == lo + k
    <2>1. x \in Nat /\ x \notin A /\ B = IF x % i = 0 THEN A \cup {x} ELSE A
      <3>1. lo + (k + 1) - 1 = x /\ lo..x = (lo..(x - 1)) \cup {x} /\ x \notin lo..(x - 1) /\ lo + k - 1 = x - 1
            /\ x \in Nat
        OBVIOUS
      <3> HIDE DEF x
      <3>2. A = {t \in lo..(x - 1) : t % i = 0} /\ B = {t \in lo..x : t % i = 0}
        BY <3>1 DEF InstantsIn
      <3> DEFINE L == lo..(x - 1)  U == lo..x
      <3>3. U = L \cup {x} /\ x \notin L
        BY <3>1
      <3>4. A = {t \in L : t % i = 0} /\ B = {t \in U : t % i = 0}
        BY <3>2
      <3> HIDE DEF L, U, A, B
      <3>5. x % i = 0 => B = A \cup {x}
        BY <3>3, <3>4
      <3>6. x % i # 0 => B = A
        BY <3>3, <3>4
      <3>7. x \notin A
        BY <3>3, <3>4
      <3> QED BY <3>1, <3>5, <3>6, <3>7
    <2>2. IsFiniteSet(A)
      <3>1. IsFiniteSet(lo..(lo + k - 1)) /\ A \subseteq lo..(lo + k - 1)
        BY FS_Interval DEF InstantsIn
      <3> QED BY <3>1, FS_Subset
    <2>3. Cardinality(B) = Cardinality(A) + IF x % i = 0 THEN 1 ELSE 0
      <3>1. Cardinality(A) \in Nat
        BY <2>2, FS_CardinalityType
      <3> HIDE DEF A, B, x
      <3> QED BY <2>1, <2>2, <3>1, FS_AddElement
    <2>4. RoundUp(x + 1, i) = RoundUp(x, i) + IF x % i = 0 THEN 1 ELSE 0
      BY <2>1, RoundUpStep
    <2>5. Cardinality(A) = RoundUp(x, i) - RoundUp(lo, i) /\ lo + (k + 1) = x + 1
      BY <1>2
    <2> HIDE DEF A, x
    <2>6. RoundUp(x, i) \in Nat /\ RoundUp(lo, i) \in Nat /\ RoundUp(x + 1, i) \in Nat
      BY <1>0, <2>1
    <2>7. Cardinality(B) = RoundUp(x + 1, i) - RoundUp(lo, i)
      <3> HIDE DEF B
      <3>1. CASE x % i = 0
        BY <2>3, <2>4, <2>5, <2>6, <3>1
      <3>2. CASE x % i # 0
        BY <2>3, <2>4, <2>5, <2>6, <3>2
      <3> QED BY <3>1, <3>2
    <2> QED BY <2>5, <2>7
  <1> HIDE DEF S
  <1>3. Nat \subseteq S
    BY <1>1, <1>2, Induct
  <1> QED BY <1>3 DEF S

-----------------------------------------------------------------------------
(* The stages that count, and the days and polls of their ages.               *)
Lifecycles == {s \in Seq(PollingStage) : \A n \in DOMAIN s : s[n].durationDays > 0}
Days(s) == [k \in DOMAIN s |-> s[k].durationDays]
Polled(s) == FlattenSeq([n \in DOMAIN s |-> PollInstantsByDay(s[n])])

\* The stages that count are stages that last.
LEMMA SpansAre ==
  ASSUME NEW stages \in Seq(PollingStage)
  PROVE  Spans(stages) \in Lifecycles
  <1> DEFINE P == SpanPositions(stages)
             m == Cardinality(P)
             nth(n) == CHOOSE i \in P : Upto(P, i) = n
             s == [n \in 1..m |-> stages[nth(n)]]
  <1>1. /\ P \subseteq 1..Len(stages) /\ Len(stages) \in Nat
        /\ \A i \in P : stages[i] \in PollingStage /\ stages[i].durationDays > 0
    BY DEF SpanPositions
  <1>2. IsFiniteSet(P) /\ m \in Nat
    <2>1. IsFiniteSet(1..Len(stages))
      BY <1>1, FS_Interval
    <2>2. IsFiniteSet(P)
      BY <1>1, <2>1, FS_Subset
    <2> QED BY <2>2, FS_CardinalityType
  <1>3. Spans(stages) = s
    BY DEF Spans, Upto
  <1> HIDE DEF P
  <1>4. \A n \in 1..m : nth(n) \in P
    <2> TAKE n \in 1..m
    <2>1. \E i \in P : Upto(P, i) = n
      BY <1>1, <1>2, Nth
    <2> QED BY <2>1
  <1> HIDE DEF nth, m
  <1>5. \A n \in 1..m : s[n] \in PollingStage /\ s[n].durationDays > 0
    BY <1>1, <1>4
  <1>6. s \in [1..m -> PollingStage] /\ DOMAIN s = 1..m
    BY <1>5
  <1> HIDE DEF s
  <1>7. s \in Seq(PollingStage)
    BY <1>2, <1>6
  <1> QED BY <1>3, <1>5, <1>6, <1>7 DEF Lifecycles

\* The days before a stage and those up to its end.
LEMMA StageDays ==
  ASSUME NEW s \in Lifecycles
  PROVE  /\ Len(s) \in Nat /\ DOMAIN s = 1..Len(s)
         /\ \A n \in 1..Len(s) : /\ s[n] \in PollingStage /\ Days(s)[n] = s[n].durationDays
                                 /\ Days(s)[n] \in Nat \ {0}
         /\ \A n \in 0..Len(s) : Prefix(Days(s), n) \in Nat
         /\ \A n \in 1..Len(s) :
              /\ StartDay(s, n) = Prefix(Days(s), n - 1)
              /\ Prefix(Days(s), n) = StartDay(s, n) + s[n].durationDays
  <1>1. Len(s) \in Nat /\ DOMAIN s = 1..Len(s) /\ \A n \in 1..Len(s) : s[n] \in PollingStage
    BY DEF Lifecycles
  <1>2. \A n \in 1..Len(s) : Days(s)[n] = s[n].durationDays /\ Days(s)[n] \in Nat \ {0}
    <2> TAKE n \in 1..Len(s)
    <2>1. s[n].durationDays > 0 /\ Days(s)[n] = s[n].durationDays
      BY <1>1 DEF Lifecycles, Days
    <2>2. s[n].durationDays \in Nat
      BY <1>1 DEF PollingStage
    <2> QED BY <2>1, <2>2
  <1>3. ASSUME NEW n \in 0..Len(s) PROVE Prefix(Days(s), n) \in Nat
    <2>1. Len(s) \in 0..Len(s) /\ Len(s) \in n..Len(s) /\ n \in 0..Len(s)
      BY <1>1
    <2> QED BY <1>1, <1>2, <2>1, PrefixRises
  <1>4. ASSUME NEW n \in 1..Len(s)
        PROVE  /\ StartDay(s, n) = Prefix(Days(s), n - 1)
               /\ Prefix(Days(s), n) = StartDay(s, n) + s[n].durationDays
    <2>1. n - 1 \in Nat /\ n - 1 + 1 = n
      BY <1>1
    <2>2. \A i \in 1..(n - 1 + 1) : Days(s)[i] \in Nat
      BY <1>1, <1>2
    <2>3. Prefix(Days(s), n - 1 + 1) = Prefix(Days(s), n - 1) + Days(s)[n - 1 + 1]
      BY <2>1, <2>2, PrefixStep
    <2>4. StartDay(s, n) = Prefix(Days(s), n - 1)
      BY DEF StartDay, Prefix, Days
    <2> QED BY <1>2, <2>1, <2>3, <2>4
  <1> QED BY <1>1, <1>2, <1>3, <1>4

\* The polls of a stage, day by day.
LEMMA InstantsAre ==
  ASSUME CapacityAssumption, NEW stage \in PollingStage
  PROVE  /\ PollInstantsByDay(stage) \in Seq(Nat)
         /\ Len(PollInstantsByDay(stage)) = stage.durationDays
         /\ \A d \in 1..stage.durationDays :
              PollInstantsByDay(stage)[d]
                = IF stage.intervalMs \in {Null, 0} THEN 0
                  ELSE Cardinality(InstantsIn((d - 1) * MsPerDay, MsPerDay, stage.intervalMs))
  <1> DEFINE days == stage.durationDays
             i == stage.intervalMs
             f == PollInstantsByDay(stage)
  <1>1. days \in Nat /\ i \in Nat \cup {Null} /\ MsPerDay \in Nat
    BY DEF PollingStage, CapacityAssumption
  <1>2. f = [d \in 1..days |-> IF i \in {Null, 0} THEN 0 ELSE PollsOnDay(d - 1, i)]
    BY DEF PollInstantsByDay
  <1> HIDE DEF days, i, f
  <1>3. ASSUME NEW d \in 1..days
        PROVE  /\ f[d] = IF i \in {Null, 0} THEN 0
                         ELSE Cardinality(InstantsIn((d - 1) * MsPerDay, MsPerDay, i))
               /\ f[d] \in Nat
    <2>1. CASE i \in {Null, 0}
      BY <1>2, <2>1
    <2>2. CASE i \notin {Null, 0}
      <3> DEFINE lo == (d - 1) * MsPerDay
      <3>1. lo \in Nat /\ i \in Nat \ {0} /\ (d - 1 + 1) * MsPerDay = lo + MsPerDay
        BY <1>1, <2>2
      <3>2. f[d] = RoundUp(lo + MsPerDay, i) - RoundUp(lo, i)
        BY <1>2, <2>2, <3>1 DEF PollsOnDay
      <3> HIDE DEF lo
      <3>3. Cardinality(InstantsIn(lo, MsPerDay, i)) = RoundUp(lo + MsPerDay, i) - RoundUp(lo, i)
        BY <1>1, <3>1, InstantsCounted
      <3>4. IsFiniteSet(InstantsIn(lo, MsPerDay, i))
        <4>1. IsFiniteSet(lo..(lo + MsPerDay - 1))
              /\ InstantsIn(lo, MsPerDay, i) \subseteq lo..(lo + MsPerDay - 1)
          BY <1>1, <3>1, FS_Interval DEF InstantsIn
        <4> QED BY <4>1, FS_Subset
      <3> QED BY <2>2, <3>2, <3>3, <3>4, FS_CardinalityType DEF lo
    <2> QED BY <2>1, <2>2
  <1>4. f \in [1..days -> Nat]
    BY <1>2, <1>3
  <1>5. f \in Seq(Nat) /\ Len(f) = days
    BY <1>1, <1>4
  <1> QED BY <1>3, <1>5 DEF days, i, f

\* What FlattenSeq builds, and what is wanted of it: all figures up to the k-th.
Joins(ss, f, k) == f = [n \in 1..k |-> IF n = 1 THEN ss[n] ELSE f[n - 1] \o ss[n]]
Joined(seq, ss, D, k) ==
  /\ seq \in Seq(Nat) /\ Len(seq) = Prefix(D, k)
  /\ \A n \in 1..k : \A d \in 1..D[n] : seq[Prefix(D, n - 1) + d] = ss[n][d]

\* The lists can be joined one after the other.
LEMMA JoinsExist ==
  ASSUME NEW m \in Nat, NEW ss
  PROVE  \E f : Joins(ss, f, m)
  <1> DEFINE E == {k \in Nat : \E f : Joins(ss, f, k)}
  <1>1. 0 \in E
    <2>1. Joins(ss, [n \in 1..0 |-> 0], 0)
      BY DEF Joins
    <2> QED BY <2>1
  <1>2. ASSUME NEW k \in Nat, k \in E PROVE k + 1 \in E
    <2>2. PICK f : Joins(ss, f, k)
      BY <1>2
    <2> DEFINE g == [n \in 1..(k + 1) |-> IF n = k + 1
                       THEN IF n = 1 THEN ss[n] ELSE f[n - 1] \o ss[n] ELSE f[n]]
    <2>3. \A n \in 1..(k + 1) : g[n] = IF n = 1 THEN ss[n] ELSE g[n - 1] \o ss[n]
      <3> TAKE n \in 1..(k + 1)
      <3>1. CASE n = k + 1
        <4>1. n # 1 => n - 1 \in 1..(k + 1) /\ n - 1 # k + 1
          BY <3>1
        <4> QED BY <3>1, <4>1
      <3>2. CASE n # k + 1
        <4>1. n \in 1..k /\ (n # 1 => n - 1 \in 1..k /\ n - 1 \in 1..(k + 1) /\ n - 1 # k + 1)
          BY <3>2
        <4>2. f[n] = IF n = 1 THEN ss[n] ELSE f[n - 1] \o ss[n]
          BY <2>2, <4>1 DEF Joins
        <4> QED BY <3>2, <4>1, <4>2
      <3> QED BY <3>1, <3>2
    <2>4. g = [n \in 1..(k + 1) |-> g[n]]
      OBVIOUS
    <2> HIDE DEF g
    <2>5. Joins(ss, g, k + 1)
      BY <2>3, <2>4 DEF Joins
    <2> QED BY <2>5
  <1> HIDE DEF E
  <1>3. Nat \subseteq E
    BY <1>1, <1>2, Induct
  <1> QED BY <1>3 DEF E

\* Joining one sequence more.
LEMMA JoinedStep ==
  ASSUME NEW D, NEW ss, NEW k \in Nat, \A n \in 1..(k + 1) : D[n] \in Nat,
         NEW a, Joined(a, ss, D, k), NEW b \in Seq(Nat), b = ss[k + 1], D[k + 1] = Len(b)
  PROVE  Joined(a \o b, ss, D, k + 1)
  <1>1. /\ D[k + 1] \in Nat /\ Prefix(D, k) \in Nat
        /\ Prefix(D, k + 1) = Prefix(D, k) + D[k + 1] /\ k + 1 - 1 = k
    BY PrefixStep
  <1>2. a \in Seq(Nat) /\ Len(a) = Prefix(D, k)
    BY DEF Joined
  <1> DEFINE c == a \o b
  <1>3. c \in Seq(Nat) /\ Len(c) = Len(a) + Len(b)
    <2>1. a \o b \in Seq(Nat)
      BY <1>2
    <2>2. \A p, q \in Seq(Nat) : Len(p \o q) = Len(p) + Len(q)
      OBVIOUS
    <2>3. Len(a \o b) = Len(a) + Len(b)
      BY <1>2, <2>2
    <2> QED BY <2>1, <2>3
  <1>4. \A d \in 1..Len(b) : c[Len(a) + d] = b[d]
    BY <1>2
  <1>5. \A i \in 1..Len(a) : c[i] = a[i]
    BY <1>2
  <1> HIDE DEF c
  <1>6. ASSUME NEW n \in 1..(k + 1), NEW d \in 1..D[n]
        PROVE  c[Prefix(D, n - 1) + d] = ss[n][d]
    <2>1. CASE n = k + 1
      <3>1. d \in 1..Len(b) /\ n - 1 = k
        BY <2>1
      <3> QED BY <1>2, <1>4, <2>1, <3>1
    <2>2. CASE n # k + 1
      <3>1. n \in 1..k /\ n - 1 \in Nat /\ n - 1 + 1 = n /\ n \in 0..k /\ k \in n..k /\ D[n] \in Nat
        BY <2>2
      <3>2. Prefix(D, n) <= Prefix(D, k) /\ Prefix(D, n) \in Nat
        <4>1. \A i \in 1..k : D[i] \in Nat
          OBVIOUS
        <4> QED BY <3>1, <4>1, PrefixRises
      <3>3. Prefix(D, n) = Prefix(D, n - 1) + D[n] /\ Prefix(D, n - 1) \in Nat
        <4>1. \A i \in 1..(n - 1 + 1) : D[i] \in Nat
          BY <3>1
        <4>2. Prefix(D, n - 1 + 1) = Prefix(D, n - 1) + D[n - 1 + 1] /\ Prefix(D, n - 1) \in Nat
          BY <3>1, <4>1, PrefixStep
        <4> QED BY <3>1, <4>2
      <3>4. Prefix(D, n - 1) + d \in 1..Len(a)
        <4> DEFINE p == Prefix(D, n - 1)  q == Prefix(D, n)  r == Prefix(D, k)
        <4>1. d \in Int /\ 1 <= d /\ d <= D[n] /\ D[n] \in Nat
          BY <3>1
        <4>2. p \in Nat /\ q = p + D[n] /\ q <= r /\ Len(a) = r /\ r \in Nat
          BY <1>1, <1>2, <3>2, <3>3
        <4> HIDE DEF p, q, r
        <4>3. p + d \in 1..r
          BY <4>1, <4>2
        <4> QED BY <4>2, <4>3 DEF p
      <3>5. a[Prefix(D, n - 1) + d] = ss[n][d]
        BY <3>1 DEF Joined
      <3> QED BY <1>5, <3>4, <3>5
    <2> QED BY <2>1, <2>2
  <1>7. Len(c) = Prefix(D, k + 1)
    BY <1>1, <1>2, <1>3
  <1> QED BY <1>3, <1>6, <1>7 DEF Joined, c

\* The stages' polls in one sequence: each stage's own, after the stages before it.
LEMMA Flattened ==
  ASSUME NEW m \in Nat, NEW ss, DOMAIN ss = 1..m, ss = [n \in 1..m |-> ss[n]],
         \A n \in 1..m : ss[n] \in Seq(Nat), NEW D, \A n \in 1..m : D[n] = Len(ss[n])
  PROVE  Joined(FlattenSeq(ss), ss, D, m)
  <1>0. \A n \in 1..m : D[n] \in Nat
    OBVIOUS
  <1>1. Len(ss) = m /\ Prefix(D, 0) = 0
    <2>1. 1..0 = {}
      OBVIOUS
    <2> QED BY <2>1, SumEmpty DEF Prefix
  <1>2. CASE m = 0
    <2>1. ss = <<>> /\ FlattenSeq(ss) = ss
      BY <1>1, <1>2 DEF FlattenSeq
    <2>2. Len(<<>>) = 0 /\ <<>> \in Seq(Nat) /\ 1..m = {}
      BY <1>2
    <2>3. Joined(<<>>, ss, D, m)
      BY <1>1, <1>2, <2>2 DEF Joined
    <2> QED BY <2>1, <2>3
  <1>3. CASE m # 0
    <2> DEFINE F == CHOOSE f : Joins(ss, f, m)
    <2>1. FlattenSeq(ss) = F[m]
      BY <1>1, <1>3 DEF FlattenSeq, Joins
    <2>2. Joins(ss, F, m)
      BY JoinsExist
    <2> HIDE DEF F
    <2>3. \A n \in 1..m : F[n] = IF n = 1 THEN ss[n] ELSE F[n - 1] \o ss[n]
      BY <2>2 DEF Joins
    <2> DEFINE S == {k \in Nat : k \in 1..m => Joined(F[k], ss, D, k)}
    <2>4. 0 \in S
      OBVIOUS
    <2>5. ASSUME NEW k \in Nat, k \in S PROVE k + 1 \in S
      <3>0. k + 1 \in Nat
        OBVIOUS
      <3>1. SUFFICES ASSUME k + 1 \in 1..m PROVE Joined(F[k + 1], ss, D, k + 1)
        BY <3>0
      <3>2. (\A n \in 1..(k + 1) : D[n] \in Nat) /\ ss[k + 1] \in Seq(Nat) /\ D[k + 1] = Len(ss[k + 1])
        BY <1>0, <3>1
      <3>3. CASE k = 0
        <4>1. F[k + 1] = ss[k + 1]
          BY <2>3, <3>1, <3>3
        <4>2. Joined(<<>>, ss, D, k)
          BY <1>1, <3>3 DEF Joined
        <4>3. Joined(<<>> \o ss[k + 1], ss, D, k + 1)
          BY <3>2, <4>2, JoinedStep
        <4>4. <<>> \o ss[k + 1] = ss[k + 1]
          BY <3>2
        <4> QED BY <4>1, <4>3, <4>4
      <3>4. CASE k # 0
        <4>1. k \in 1..m /\ k + 1 # 1 /\ k + 1 - 1 = k
          BY <3>1, <3>4
        <4>2. Joined(F[k], ss, D, k)
          BY <2>5, <4>1
        <4>3. F[k + 1] = F[k] \o ss[k + 1]
          <5> DEFINE j == k + 1
          <5>1. j \in 1..m /\ j # 1 /\ j - 1 = k
            BY <3>1, <4>1
          <5> HIDE DEF j
          <5>2. F[j] = F[k] \o ss[j]
            BY <2>3, <5>1
          <5> QED BY <5>2 DEF j
        <4> QED BY <3>2, <4>2, <4>3, JoinedStep
      <3> QED BY <3>3, <3>4
    <2> HIDE DEF S
    <2>6. Nat \subseteq S
      BY <2>4, <2>5, Induct
    <2>7. m \in S /\ m \in 1..m
      BY <1>3, <2>6
    <2> QED BY <2>1, <2>7 DEF S
  <1> QED BY <1>2, <1>3

\* The polls of every age.
LEMMA PolledIs ==
  ASSUME CapacityAssumption, NEW s \in Lifecycles
  PROVE  /\ Polled(s) \in Seq(Nat) /\ Len(Polled(s)) = Prefix(Days(s), Len(s))
         /\ \A n \in 1..Len(s) : \A d \in 1..s[n].durationDays :
              Polled(s)[StartDay(s, n) + d] = PollInstantsByDay(s[n])[d]
  <1> DEFINE m == Len(s)
             ss == [n \in DOMAIN s |-> PollInstantsByDay(s[n])]
             D == Days(s)
  <1>1. /\ m \in Nat /\ DOMAIN s = 1..m
        /\ \A n \in 1..m : /\ s[n] \in PollingStage /\ D[n] = s[n].durationDays
                           /\ StartDay(s, n) = Prefix(D, n - 1)
    BY StageDays
  <1>2. Polled(s) = FlattenSeq(ss)
    BY DEF Polled
  <1> HIDE DEF m, D
  <1>3. /\ DOMAIN ss = 1..m /\ ss = [n \in 1..m |-> ss[n]]
        /\ \A n \in 1..m : ss[n] = PollInstantsByDay(s[n])
    BY <1>1
  <1> HIDE DEF ss
  <1>4. \A n \in 1..m : ss[n] \in Seq(Nat) /\ D[n] = Len(ss[n])
    BY <1>1, <1>3, InstantsAre
  <1>5. Joined(FlattenSeq(ss), ss, D, m)
    BY <1>1, <1>3, <1>4, Flattened
  <1>6. ASSUME NEW n \in 1..m, NEW d \in 1..s[n].durationDays
        PROVE  FlattenSeq(ss)[StartDay(s, n) + d] = PollInstantsByDay(s[n])[d]
    <2>1. D[n] = s[n].durationDays /\ StartDay(s, n) = Prefix(D, n - 1) /\ ss[n] = PollInstantsByDay(s[n])
      BY <1>1, <1>3
    <2>2. \A e \in 1..D[n] : FlattenSeq(ss)[Prefix(D, n - 1) + e] = ss[n][e]
      BY <1>5 DEF Joined
    <2> QED BY <2>1, <2>2
  <1> QED BY <1>2, <1>5, <1>6 DEF Joined, m, D

\* Every age belongs to one stage, and no other.
LEMMA AgeBelongs ==
  ASSUME NEW s \in Lifecycles, NEW a \in Nat
  PROVE  LET here == {n \in DOMAIN s : /\ StartDay(s, n) <= a
                                       /\ a < StartDay(s, n) + s[n].durationDays}
         IN  /\ a < Prefix(Days(s), Len(s)) => \E n \in DOMAIN s : here = {n}
             /\ a >= Prefix(Days(s), Len(s)) => here = {}
  <1> DEFINE m == Len(s)
             D == Days(s)
             here == {n \in DOMAIN s : /\ StartDay(s, n) <= a
                                       /\ a < StartDay(s, n) + s[n].durationDays}
  <1>1. /\ m \in Nat /\ DOMAIN s = 1..m /\ \A n \in 1..m : D[n] \in Nat
        /\ \A n \in 0..m : Prefix(D, n) \in Nat
        /\ \A n \in 1..m : /\ StartDay(s, n) = Prefix(D, n - 1)
                           /\ Prefix(D, n) = StartDay(s, n) + s[n].durationDays
    BY StageDays
  <1> HIDE DEF m, D
  <1>2. here = {n \in 1..m : Prefix(D, n - 1) <= a /\ a < Prefix(D, n)}
    BY <1>1
  <1> HIDE DEF here
  <1>3. \A j \in 0..m : \A k \in j..m : Prefix(D, j) <= Prefix(D, k)
    BY <1>1, PrefixRises
  <1>4. ASSUME NEW j \in here, NEW k \in here PROVE ~(j < k)
    <2>1. j \in 1..m /\ k \in 1..m /\ a < Prefix(D, j) /\ Prefix(D, k - 1) <= a
      BY <1>2
    <2>2. SUFFICES ASSUME j < k PROVE FALSE
      OBVIOUS
    <2>3. j \in 0..m /\ k - 1 \in j..m /\ k - 1 \in 0..m
      BY <1>1, <2>1, <2>2
    <2>4. Prefix(D, j) <= Prefix(D, k - 1)
      BY <1>3, <2>3
    <2> QED BY <1>1, <2>1, <2>3, <2>4
  <1>5. ASSUME a >= Prefix(D, m) PROVE here = {}
    <2>1. ASSUME NEW n \in here PROVE FALSE
      <3>1. n \in 0..m /\ m \in n..m /\ a < Prefix(D, n) /\ m \in 0..m
        BY <1>1, <1>2
      <3>2. Prefix(D, n) <= Prefix(D, m)
        BY <1>3, <3>1
      <3> QED BY <1>1, <1>5, <3>1, <3>2
    <2> QED BY <2>1
  <1>6. ASSUME a < Prefix(D, m) PROVE \E n \in 1..m : here = {n}
    <2> DEFINE S == {k \in Nat : k <= m /\ a < Prefix(D, k) => here # {}}
    <2>1. 0 \in S
      <3>1. 1..0 = {}
        OBVIOUS
      <3>2. Prefix(D, 0) = 0
        BY <3>1, SumEmpty DEF Prefix
      <3> QED BY <3>2
    <2>2. ASSUME NEW k \in Nat, k \in S PROVE k + 1 \in S
      <3>0. k + 1 \in Nat /\ (k + 1 <= m => k <= m)
        BY <1>1
      <3>1. SUFFICES ASSUME k + 1 <= m, a < Prefix(D, k + 1) PROVE here # {}
        BY <3>0
      <3>2. CASE a < Prefix(D, k)
        BY <2>2, <3>0, <3>1, <3>2
      <3>3. CASE ~(a < Prefix(D, k))
        <4>1. k \in 0..m /\ k + 1 \in 1..m /\ k + 1 - 1 = k
          BY <1>1, <3>0, <3>1
        <4>2. Prefix(D, k) <= a
          BY <1>1, <3>3, <4>1
        <4>3. k + 1 \in here
          BY <1>2, <3>1, <4>1, <4>2
        <4> QED BY <4>3
      <3> QED BY <3>2, <3>3
    <2> HIDE DEF S
    <2>3. Nat \subseteq S
      BY <2>1, <2>2, Induct
    <2>4. here # {}
      BY <1>1, <1>6, <2>3 DEF S
    <2>5. PICK n : n \in here
      BY <2>4
    <2>6. n \in 1..m /\ \A k \in here : k \in 1..m
      BY <1>2, <2>5
    <2>7. \A k \in here : k = n
      <3> TAKE k \in here
      <3>1. ~(k < n) /\ ~(n < k)
        BY <1>4, <2>5
      <3>2. k \in Int /\ n \in Int
        BY <1>1, <2>6
      <3> QED BY <3>1, <3>2
    <2> QED BY <2>5, <2>6, <2>7
  <1> QED BY <1>1, <1>5, <1>6 DEF here, m, D

\* The polls of an age, instant by instant, are those the profile holds.
LEMMA PollsOfAge ==
  ASSUME CapacityAssumption, inputs.stages \in Seq(PollingStage), NEW a \in Nat
  PROVE  PollsAtAge(a) = LET polls == Polled(Spans(inputs.stages))
                         IN  IF a < Len(polls) THEN polls[a + 1] ELSE 0
  <1> DEFINE s == Spans(inputs.stages)
             here == {n \in DOMAIN s : /\ StartDay(s, n) <= a
                                       /\ a < StartDay(s, n) + s[n].durationDays}
             instants(n) ==
               LET from == (a - StartDay(s, n)) * MsPerDay
               IN  {t \in from..(from + MsPerDay - 1) :
                      s[n].intervalMs \notin {Null, 0} /\ t % s[n].intervalMs = 0}
             f == [n \in here |-> Cardinality(instants(n))]
  <1>1. s \in Lifecycles
    BY SpansAre
  <1>2. PollsAtAge(a) = SumFunctionOnSet(f, here)
    BY DEF PollsAtAge
  <1>3. /\ Len(s) \in Nat /\ DOMAIN s = 1..Len(s)
        /\ \A n \in 1..Len(s) : s[n] \in PollingStage /\ s[n].durationDays \in Nat
        /\ \A n \in 0..Len(s) : Prefix(Days(s), n) \in Nat
        /\ \A n \in 1..Len(s) : StartDay(s, n) = Prefix(Days(s), n - 1)
    BY <1>1, StageDays
  <1>4. /\ Len(Polled(s)) = Prefix(Days(s), Len(s))
        /\ \A n \in 1..Len(s) : \A d \in 1..s[n].durationDays :
             Polled(s)[StartDay(s, n) + d] = PollInstantsByDay(s[n])[d]
    BY <1>1, PolledIs
  <1>5. /\ a < Len(Polled(s)) => \E n \in DOMAIN s : here = {n}
        /\ a >= Len(Polled(s)) => here = {}
    BY <1>1, <1>4, AgeBelongs
  <1>6. Len(Polled(s)) \in Nat
    BY <1>3, <1>4
  <1>7. CASE a >= Len(Polled(s))
    <2>1. SumFunctionOnSet(f, here) = 0
      <3> HIDE DEF f, here
      <3> QED BY <1>5, <1>7, SumEmpty
    <2> QED BY <1>2, <1>6, <1>7, <2>1
  <1>8. CASE a < Len(Polled(s))
    <2>1. PICK n \in DOMAIN s : here = {n}
      BY <1>5, <1>8
    <2> DEFINE d == a - StartDay(s, n)  i == s[n].intervalMs
    <2>2. n \in here
      BY <2>1
    <2>3. StartDay(s, n) <= a /\ a < StartDay(s, n) + s[n].durationDays /\ StartDay(s, n) \in Nat
      <3>1. n - 1 \in 0..Len(s)
        BY <1>3
      <3> QED BY <1>3, <2>2, <3>1
    <2>4. /\ d \in Nat /\ d + 1 \in 1..s[n].durationDays /\ d + 1 - 1 = d
          /\ StartDay(s, n) + (d + 1) = a + 1
      BY <1>3, <2>3
    <2>5. Polled(s)[a + 1] = PollInstantsByDay(s[n])[d + 1]
      BY <1>3, <1>4, <2>4
    <2>6. PollInstantsByDay(s[n])[d + 1]
            = IF i \in {Null, 0} THEN 0 ELSE Cardinality(InstantsIn(d * MsPerDay, MsPerDay, i))
      <3> DEFINE stage == s[n]
                 e == d + 1
      <3>1. stage \in PollingStage /\ e \in 1..stage.durationDays /\ e - 1 = d /\ i = stage.intervalMs
        BY <1>3, <2>4
      <3> HIDE DEF stage, e, d, i
      <3>2. PollInstantsByDay(stage)[e]
              = IF stage.intervalMs \in {Null, 0} THEN 0
                ELSE Cardinality(InstantsIn((e - 1) * MsPerDay, MsPerDay, stage.intervalMs))
        BY <3>1, InstantsAre
      <3>3. PollInstantsByDay(stage)[e]
              = IF i \in {Null, 0} THEN 0 ELSE Cardinality(InstantsIn(d * MsPerDay, MsPerDay, i))
        BY <3>1, <3>2
      <3> QED BY <3>3 DEF stage, e
    <2>7. Cardinality(instants(n)) = PollInstantsByDay(s[n])[d + 1]
      <3>1. instants(n) = {t \in (d * MsPerDay)..(d * MsPerDay + MsPerDay - 1) :
                             i \notin {Null, 0} /\ t % i = 0}
        OBVIOUS
      <3> HIDE DEF instants, d, i
      <3>2. CASE i \in {Null, 0}
        <4>1. instants(n) = {}
          BY <3>1, <3>2
        <4> QED BY <2>6, <3>2, <4>1, FS_EmptySet
      <3>3. CASE i \notin {Null, 0}
        <4>1. instants(n) = InstantsIn(d * MsPerDay, MsPerDay, i)
          BY <3>1, <3>3 DEF InstantsIn
        <4> QED BY <2>6, <3>3, <4>1
      <3> QED BY <3>2, <3>3
    <2>8. f[n] = Polled(s)[a + 1]
      <3>1. f[n] = Cardinality(instants(n))
        BY <2>2
      <3> QED BY <2>5, <2>7, <3>1
    <2>9. Polled(s)[a + 1] \in Nat
      <3>1. Polled(s) \in Seq(Nat)
        BY <1>1, PolledIs
      <3> QED BY <1>8, <3>1
    <2>10. SumFunctionOnSet(f, {} \cup {n}) = SumFunctionOnSet(f, {}) + f[n]
      <3> HIDE DEF f
      <3>1. IsFiniteSet({}) /\ n \notin {} /\ \A y \in {} \cup {n} : f[y] \in Int
        BY <2>8, <2>9, FS_EmptySet
      <3> QED BY <3>1, SumAdd
    <2>11. here = {} \cup {n}
      BY <2>1
    <2> HIDE DEF f, here
    <2>12. SumFunctionOnSet(f, here) = 0 + f[n]
      BY <2>10, <2>11, SumEmpty
    <2> QED BY <1>2, <1>8, <2>8, <2>9, <2>12
  <1> QED BY <1>6, <1>7, <1>8

\* A sum taken from its end backwards.
LEMMA SumBackwards ==
  ASSUME NEW h \in Nat, NEW g, \A i \in 1..(h + 1) : g[i] \in Nat,
         NEW f, \A x \in 0..h : f[x] = g[h - x + 1]
  PROVE  SumFunctionOnSet(f, 0..h) = Prefix(g, h + 1)
  <1> DEFINE S == {j \in Nat : j <= h + 1 => SumFunctionOnSet(f, (h - j + 1)..h) = Prefix(g, j)}
  <1>1. 0 \in S
    <2>1. (h - 0 + 1)..h = {} /\ 1..0 = {}
      OBVIOUS
    <2> QED BY <2>1, SumEmpty DEF Prefix
  <1>2. ASSUME NEW j \in Nat, j \in S PROVE j + 1 \in S
    <2>0. j + 1 \in Nat /\ (j + 1 <= h + 1 => j <= h + 1 /\ h - j \in 0..h)
      OBVIOUS
    <2>1. SUFFICES ASSUME j + 1 <= h + 1
                   PROVE  SumFunctionOnSet(f, (h - (j + 1) + 1)..h) = Prefix(g, j + 1)
      BY <2>0
    <2> DEFINE x == h - j
               A == (h - j + 1)..h
    <2>2. /\ (h - (j + 1) + 1)..h = A \cup {x} /\ x \notin A /\ A \cup {x} \subseteq 0..h
          /\ x \in 0..h /\ h - x + 1 = j + 1
      BY <2>1
    <2>3. IsFiniteSet(A)
      BY FS_Interval
    <2>4. SumFunctionOnSet(f, A) = Prefix(g, j)
      BY <1>2, <2>0, <2>1
    <2>5. \A y \in 0..h : f[y] \in Int
      <3> TAKE y \in 0..h
      <3>1. h - y + 1 \in 1..(h + 1)
        OBVIOUS
      <3> QED BY <3>1
    <2>6. f[x] = g[j + 1]
      BY <2>2
    <2>7. Prefix(g, j + 1) = Prefix(g, j) + g[j + 1]
      <3>1. \A i \in 1..(j + 1) : g[i] \in Nat
        BY <2>1
      <3> QED BY <3>1, PrefixStep
    <2> HIDE DEF A, x
    <2>8. SumFunctionOnSet(f, A \cup {x}) = SumFunctionOnSet(f, A) + f[x]
      BY <2>2, <2>3, <2>5, SumAdd
    <2> QED BY <2>2, <2>4, <2>6, <2>7, <2>8
  <1> HIDE DEF S
  <1>3. Nat \subseteq S
    BY <1>1, <1>2, Induct
  <1>4. h + 1 \in S /\ h - (h + 1) + 1 = 0
    BY <1>3
  <1> QED BY <1>4 DEF S

\* Figures continued with nothing.
LEMMA PrefixBeyond ==
  ASSUME NEW polls \in Seq(Nat), NEW g, \A i \in Nat \ {0} : g[i] = IF i <= Len(polls) THEN polls[i] ELSE 0,
         NEW n \in Nat
  PROVE  Prefix(g, n) = Prefix(polls, Min({n, Len(polls)}))
  <1> DEFINE m == Len(polls)
  <1>1. m \in Nat /\ Min({n, m}) = IF n <= m THEN n ELSE m
    BY MinOfTwo
  <1>2. \A i \in 1..m : g[i] = polls[i]
    OBVIOUS
  <1>3. \A i \in Nat : i > m => g[i] = 0
    BY <1>1
  <1>4. \A i \in Nat \ {0} : g[i] \in Nat
    BY <1>1
  <1> HIDE DEF m
  <1>5. \A k \in 0..m : Prefix(g, k) = Prefix(polls, k)
    <2> TAKE k \in 0..m
    <2>1. IsFiniteSet(1..k) /\ \A i \in 1..k : g[i] = polls[i]
      BY <1>1, <1>2, FS_Interval
    <2> QED BY <2>1, SumSame DEF Prefix
  <1>6. CASE n <= m
    BY <1>1, <1>5, <1>6 DEF m
  <1>7. CASE n > m
    <2>1. (\A i \in 1..n : g[i] \in Nat) /\ (\A i \in (m + 1)..n : g[i] = 0) /\ m \in 0..n /\ n \in m..n
      BY <1>1, <1>3, <1>4, <1>7
    <2>2. Prefix(g, m) = Prefix(g, n)
      BY <2>1, PrefixStays
    <2> QED BY <1>1, <1>5, <1>7, <2>2 DEF m
  <1> QED BY <1>1, <1>6, <1>7

\* The jobs of a day, cohort by cohort, are what one prefix sum says.
LEMMA JobsOfDay ==
  ASSUME CapacityAssumption, inputs.stages \in Seq(PollingStage), NEW h \in Nat
  PROVE  LET polls == Polled(Spans(inputs.stages))
         IN  JobsOnDay(h) = inputs.newSubmissionsPerDay * Prefix(polls, Min({h + 1, Len(polls)}))
  <1> DEFINE polls == Polled(Spans(inputs.stages))
             g == [i \in Nat \ {0} |-> IF i <= Len(polls) THEN polls[i] ELSE 0]
             f == [arrived \in 0..h |-> PollsAtAge(h - arrived)]
  <1>1. polls \in Seq(Nat) /\ Len(polls) \in Nat
    <2>1. Spans(inputs.stages) \in Lifecycles
      BY SpansAre
    <2>2. polls \in Seq(Nat)
      BY <2>1, PolledIs
    <2> QED BY <2>2
  <1>2. \A i \in Nat \ {0} : g[i] = (IF i <= Len(polls) THEN polls[i] ELSE 0) /\ g[i] \in Nat
    BY <1>1
  <1>3. \A x \in 0..h : f[x] = g[h - x + 1]
    <2> TAKE x \in 0..h
    <2>1. h - x \in Nat /\ h - x + 1 \in Nat \ {0} /\ (h - x < Len(polls) <=> h - x + 1 <= Len(polls))
      BY <1>1
    <2>2. PollsAtAge(h - x) = IF h - x < Len(polls) THEN polls[h - x + 1] ELSE 0
      BY <2>1, PollsOfAge
    <2>3. f[x] = PollsAtAge(h - x)
      OBVIOUS
    <2> HIDE DEF f, polls
    <2> QED BY <2>1, <2>2, <2>3
  <1>4. JobsOnDay(h) = inputs.newSubmissionsPerDay * SumFunctionOnSet(f, 0..h)
    BY DEF JobsOnDay
  <1> HIDE DEF f, g, polls
  <1>5. SumFunctionOnSet(f, 0..h) = Prefix(g, h + 1)
    <2>1. \A i \in 1..(h + 1) : g[i] \in Nat
      BY <1>2
    <2> QED BY <1>3, <2>1, SumBackwards
  <1>6. Prefix(g, h + 1) = Prefix(polls, Min({h + 1, Len(polls)}))
    <2>1. h + 1 \in Nat
      OBVIOUS
    <2> QED BY <1>1, <1>2, <2>1, PrefixBeyond
  <1> QED BY <1>4, <1>5, <1>6 DEF polls

-----------------------------------------------------------------------------
(* The stages' shares.                                                        *)

\* The polls up to some day of a stage.
LEMMA Slice ==
  ASSUME CapacityAssumption, NEW s \in Lifecycles, NEW n \in 1..Len(s), NEW p \in 0..s[n].durationDays
  PROVE  Prefix(Polled(s), StartDay(s, n) + p)
           = Prefix(Polled(s), StartDay(s, n)) + Prefix(PollInstantsByDay(s[n]), p)
  <1> DEFINE f == Polled(s)  g == PollInstantsByDay(s[n])  a == StartDay(s, n)  T == Len(f)
             days == s[n].durationDays
  <1>1. days \in Nat /\ a \in Nat /\ T \in Nat /\ a + days <= T /\ f \in Seq(Nat)
    <2>1. n \in 0..Len(s) /\ Len(s) \in n..Len(s) /\ n - 1 \in 0..Len(s) /\ Len(s) \in Nat /\ Len(s) \in 0..Len(s)
      BY StageDays
    <2>2. Prefix(Days(s), n) <= Prefix(Days(s), Len(s))
      <3>1. \A i \in 1..Len(s) : Days(s)[i] \in Nat
        BY StageDays
      <3> QED BY <2>1, <3>1, PrefixRises
    <2>3. /\ a \in Nat /\ Prefix(Days(s), n) = a + days /\ days \in Nat
          /\ Prefix(Days(s), Len(s)) \in Nat
      BY <2>1, StageDays
    <2>4. f \in Seq(Nat) /\ T = Prefix(Days(s), Len(s))
      BY PolledIs
    <2> QED BY <2>2, <2>3, <2>4
  <1>2. s[n] \in PollingStage
    BY StageDays
  <1>3. \A d \in 1..days : g[d] \in Nat
    <2>1. g \in Seq(Nat) /\ Len(g) = days
      BY <1>2, InstantsAre
    <2> QED BY <2>1
  <1>4. \A d \in 1..days : f[a + d] = g[d]
    BY PolledIs
  <1>5. \A i \in 1..T : f[i] \in Nat
    BY <1>1
  <1> HIDE DEF f, g, a, T, days
  <1> DEFINE S == {k \in Nat : k <= days => Prefix(f, a + k) = Prefix(f, a) + Prefix(g, k)}
  <1>6. 0 \in S
    <2>1. Prefix(g, 0) = 0
      <3>1. 1..0 = {}
        OBVIOUS
      <3> QED BY <3>1, SumEmpty DEF Prefix
    <2>2. Prefix(f, a) \in Nat
      <3>1. a \in 0..T /\ T \in a..T
        BY <1>1
      <3> QED BY <1>1, <1>5, <3>1, PrefixRises
    <2>3. a + 0 = a
      BY <1>1
    <2> QED BY <2>1, <2>2, <2>3
  <1>7. ASSUME NEW k \in Nat, k \in S PROVE k + 1 \in S
    <2>0. k + 1 \in Nat /\ (k + 1 <= days => k <= days)
      BY <1>1
    <2>1. SUFFICES ASSUME k + 1 <= days
                   PROVE  Prefix(f, a + (k + 1)) = Prefix(f, a) + Prefix(g, k + 1)
      BY <2>0
    <2>2. Prefix(f, a + k) = Prefix(f, a) + Prefix(g, k)
      BY <1>7, <2>0, <2>1
    <2>3. Prefix(g, k + 1) = Prefix(g, k) + g[k + 1] /\ Prefix(g, k) \in Nat /\ g[k + 1] \in Nat
      <3>1. \A i \in 1..(k + 1) : g[i] \in Nat
        BY <1>1, <1>3, <2>1
      <3> QED BY <3>1, PrefixStep
    <2>4. Prefix(f, a + k + 1) = Prefix(f, a + k) + f[a + k + 1]
      <3>1. a + k \in Nat /\ \A i \in 1..(a + k + 1) : f[i] \in Nat
        BY <1>1, <1>5, <2>1
      <3> QED BY <3>1, PrefixStep
    <2>5. a + (k + 1) = a + k + 1 /\ f[a + (k + 1)] = g[k + 1]
      BY <1>1, <1>4, <2>1
    <2>6. Prefix(f, a) \in Nat
      <3>1. a \in 0..T /\ T \in a..T
        BY <1>1
      <3> QED BY <1>1, <1>5, <3>1, PrefixRises
    <2> QED BY <2>2, <2>3, <2>4, <2>5, <2>6
  <1> HIDE DEF S
  <1>8. p \in S
    <2>1. Nat \subseteq S
      BY <1>6, <1>7, Induct
    <2> QED BY <1>1, <2>1 DEF days
  <1>9. p \in Nat /\ p <= days
    BY <1>1 DEF days
  <1> QED BY <1>8, <1>9 DEF S, f, g, a

\* The polls that fall in one stage: those of its days up to the age that is alive.
LEMMA ShareOf ==
  ASSUME CapacityAssumption, NEW s \in Lifecycles, NEW profile, profile.spans = s,
         NEW arrivals \in Nat, NEW live \in Nat, NEW n \in 1..Len(s)
  PROVE  LET start == StartDay(s, n)
             days == s[n].durationDays
             populated == IF live <= start THEN 0 ELSE IF live >= start + days THEN days ELSE live - start
         IN  /\ populated \in 0..days
             /\ StageLoads(profile, arrivals, live)[n].polls
                  = arrivals * Prefix(PollInstantsByDay(s[n]), populated)
  <1> DEFINE start == StartDay(s, n)
             days == s[n].durationDays
             populated == IF live <= start THEN 0 ELSE IF live >= start + days THEN days ELSE live - start
             pop == Max({0, Min({live, start + days}) - start})
  <1>1. n \in DOMAIN s /\ start \in Nat /\ days \in Nat
    <2>1. n - 1 \in 0..Len(s)
      BY StageDays
    <2> QED BY <2>1, StageDays
  <1>2. StageLoads(profile, arrivals, live)[n].polls = arrivals * Prefix(PollInstantsByDay(s[n]), pop)
    BY <1>1 DEF StageLoads, Prefix
  <1> HIDE DEF start, days
  <1>3. populated \in 0..days
    BY <1>1
  <1>4. pop = populated
    <2>1. Min({live, start + days}) = IF live <= start + days THEN live ELSE start + days
      BY <1>1, MinOfTwo
    <2> DEFINE least == Min({live, start + days})
    <2>2. least \in Int /\ least - start \in Int
      BY <1>1, <2>1
    <2> DEFINE x == least - start
    <2>3. Max({0, x}) = IF 0 >= x THEN 0 ELSE x
      <3>1. x \in Int /\ 0 \in Int
        BY <2>2
      <3> HIDE DEF x
      <3> QED BY <3>1, MaxOfTwo
    <2> QED BY <1>1, <2>1, <2>3
  <1> QED BY <1>2, <1>3, <1>4 DEF start, days

\* The stages' shares add up to the polls of the ages alive.
LEMMA SharesAddUp ==
  ASSUME CapacityAssumption, NEW s \in Lifecycles, NEW profile, profile.spans = s,
         NEW arrivals \in Nat, NEW live \in 0..Len(Polled(s))
  PROVE  LET loads == StageLoads(profile, arrivals, live)
         IN  TotalOf([k \in DOMAIN loads |-> loads[k].polls]) = arrivals * Prefix(Polled(s), live)
  <1> DEFINE loads == StageLoads(profile, arrivals, live)
             q == [k \in DOMAIN loads |-> loads[k].polls]
             f == Polled(s)  D == Days(s)  m == Len(s)
             upTo(x) == IF live <= x THEN live ELSE x
  <1>1. /\ m \in Nat /\ DOMAIN s = 1..m /\ \A n \in 0..m : Prefix(D, n) \in Nat
        /\ \A n \in 1..m : /\ StartDay(s, n) = Prefix(D, n - 1)
                           /\ Prefix(D, n) = StartDay(s, n) + s[n].durationDays
                           /\ s[n].durationDays \in Nat
    BY StageDays
  <1>2. f \in Seq(Nat) /\ Len(f) = Prefix(D, m)
    BY PolledIs
  <1>3. DOMAIN loads = 1..m /\ DOMAIN q = 1..m
    BY <1>1 DEF StageLoads
  <1>4. \A x \in 1..m : q[x] = loads[x].polls
    BY <1>3
  <1>5. TotalOf(q) = Prefix(q, m)
    BY <1>3 DEF TotalOf, Prefix
  <1>6. live \in Nat /\ m \in 0..m
    BY <1>1, <1>2
  <1>7. \A k \in 0..Len(f) : Prefix(f, k) \in Nat
    <2> TAKE k \in 0..Len(f)
    <2>1. Len(f) \in k..Len(f) /\ (\A i \in 1..Len(f) : f[i] \in Nat) /\ Len(f) \in Nat
      BY <1>2
    <2> QED BY <2>1, PrefixRises
  <1>8. \A n \in 1..m : Prefix(D, n) <= Len(f)
    <2> TAKE n \in 1..m
    <2>1. n \in 0..m /\ m \in n..m /\ \A i \in 1..m : D[i] \in Nat
      BY <1>1, StageDays
    <2> QED BY <1>1, <1>2, <2>1, PrefixRises
  <1>9. \A n \in 1..m :
          LET start == StartDay(s, n)
              days == s[n].durationDays
              populated == IF live <= start THEN 0 ELSE IF live >= start + days THEN days ELSE live - start
          IN  /\ populated \in 0..days
              /\ q[n] = arrivals * Prefix(PollInstantsByDay(s[n]), populated)
    BY <1>4, <1>6, ShareOf
  <1>10. \A n \in 1..m : \A p \in 0..s[n].durationDays :
           Prefix(f, StartDay(s, n) + p)
             = Prefix(f, StartDay(s, n)) + Prefix(PollInstantsByDay(s[n]), p)
    BY Slice
  <1>11. \A n \in 1..m : \A p \in 0..s[n].durationDays : Prefix(PollInstantsByDay(s[n]), p) \in Nat
    <2> TAKE n \in 1..m
    <2> TAKE p \in 0..s[n].durationDays
    <2>1. s[n] \in PollingStage
      BY StageDays
    <2> DEFINE g == PollInstantsByDay(s[n])  days == s[n].durationDays
    <2>2. g \in Seq(Nat) /\ Len(g) = days
      BY <2>1, InstantsAre
    <2>3. days \in Nat /\ p \in 0..days
      BY <2>1 DEF PollingStage
    <2> HIDE DEF g, days
    <2>4. days \in p..days /\ \A i \in 1..days : g[i] \in Nat
      BY <2>2, <2>3
    <2>5. Prefix(g, p) \in Nat
      BY <2>3, <2>4, PrefixRises
    <2> QED BY <2>5 DEF g
  <1>12. 1..0 = {} /\ Prefix(q, 0) = 0 /\ Prefix(D, 0) = 0 /\ Prefix(f, 0) = 0
    <2>1. 1..0 = {}
      OBVIOUS
    <2> QED BY <2>1, SumEmpty DEF Prefix
  <1> HIDE DEF q, f, D, m, loads
  <1> DEFINE S == {k \in Nat : k <= m => arrivals * Prefix(f, upTo(Prefix(D, k))) = Prefix(q, k)}
  <1>13. 0 \in S
    <2>1. upTo(0) = 0
      BY <1>6
    <2> QED BY <1>12, <2>1
  <1>14. ASSUME NEW k \in Nat, k \in S PROVE k + 1 \in S
    <2>0. k + 1 \in Nat /\ (k + 1 <= m => k <= m)
      BY <1>1
    <2>1. SUFFICES ASSUME k + 1 <= m
                   PROVE  arrivals * Prefix(f, upTo(Prefix(D, k + 1))) = Prefix(q, k + 1)
      BY <2>0
    <2> DEFINE n == k + 1
               start == StartDay(s, n)
               days == s[n].durationDays
               pop == IF live <= start THEN 0 ELSE IF live >= start + days THEN days ELSE live - start
               share == Prefix(PollInstantsByDay(s[n]), pop)
    <2>2. n \in 1..m /\ n - 1 = k /\ k \in 0..m
      BY <1>1, <2>1
    <2>3. start = Prefix(D, k) /\ Prefix(D, n) = start + days /\ start \in Nat /\ days \in Nat
      BY <1>1, <2>2
    <2>4. pop \in 0..days /\ q[n] = arrivals * share
      BY <1>9, <2>2
    <2>5. Prefix(f, start + pop) = Prefix(f, start) + share /\ share \in Nat
      BY <1>10, <1>11, <2>2, <2>4
    <2>6. Prefix(q, n) = Prefix(q, k) + q[n]
      <3>1. \A i \in 1..(k + 1) : q[i] \in Nat
        <4> TAKE i \in 1..(k + 1)
        <4>1. i \in 1..m
          BY <1>1, <2>1
        <4> DEFINE st == StartDay(s, i)
                   ds == s[i].durationDays
                   p == IF live <= st THEN 0 ELSE IF live >= st + ds THEN ds ELSE live - st
        <4>2. p \in 0..ds /\ q[i] = arrivals * Prefix(PollInstantsByDay(s[i]), p)
          BY <1>9, <4>1
        <4> HIDE DEF p
        <4>3. Prefix(PollInstantsByDay(s[i]), p) \in Nat
          BY <1>11, <4>1, <4>2
        <4> QED BY <4>2, <4>3
      <3> QED BY <3>1, PrefixStep
    <2>7. arrivals * Prefix(f, upTo(start)) = Prefix(q, k)
      BY <1>1, <1>14, <2>0, <2>1, <2>3
    <2>8. start \in 0..Len(f) /\ start + days \in 0..Len(f) /\ live \in 0..Len(f) /\ Len(f) \in Nat
      <3>1. start + days <= Len(f)
        BY <1>8, <2>2, <2>3
      <3>2. Len(f) \in Nat
        BY <1>2
      <3> QED BY <2>3, <3>1, <3>2 DEF f
    <2> HIDE DEF n, start, days, share
    <2>9. CASE live <= start
      <3>1. upTo(start) = live /\ upTo(start + days) = live /\ pop = 0
        BY <1>6, <2>3, <2>9
      <3>2. share = 0
        <4>1. Prefix(f, start + 0) = Prefix(f, start) + share /\ start + 0 = start /\ Prefix(f, start) \in Nat
          BY <1>7, <2>3, <2>5, <2>8, <3>1
        <4> QED BY <2>5, <4>1
      <3>3. Prefix(f, live) \in Nat
        BY <1>7, <2>8
      <3> QED BY <2>3, <2>4, <2>6, <2>7, <3>1, <3>2, <3>3 DEF n
    <2>10. CASE ~(live <= start)
      <3>1. upTo(start) = start /\ upTo(start + days) = start + pop
        BY <1>6, <2>3, <2>10
      <3>2. Prefix(f, start) \in Nat
        BY <1>7, <2>8
      <3> DEFINE a == Prefix(f, start)
      <3>3. arrivals * (a + share) = arrivals * a + arrivals * share
        <4> HIDE DEF a
        <4> QED BY <2>5, <3>2 DEF a
      <3> QED BY <2>3, <2>4, <2>5, <2>6, <2>7, <3>1, <3>3 DEF n
    <2> QED BY <2>9, <2>10
  <1> HIDE DEF S
  <1>15. Nat \subseteq S
    BY <1>13, <1>14, Induct
  <1>16. arrivals * Prefix(f, upTo(Prefix(D, m))) = Prefix(q, m)
    BY <1>1, <1>15 DEF S
  <1>17. upTo(Prefix(D, m)) = live
    <2>1. live <= Prefix(D, m)
      BY <1>2 DEF f
    <2> QED BY <2>1
  <1> QED BY <1>5, <1>16, <1>17 DEF q, loads, f

-----------------------------------------------------------------------------
(* The profile, and the age it is last polled at.                             *)
LEMMA ProfileIs ==
  ASSUME NEW s, NEW f \in Seq(Nat)
  PROVE  LET profile == Profile(s, f)
         IN  /\ profile.spans = s /\ profile.lifecycleDays = Len(f)
             /\ \A k \in 0..Len(f) : profile.cumulativePolls[k] = Prefix(f, k)
             /\ profile.pollsPerSubmissionTotal = Prefix(f, Len(f))
  BY DEF Profile, Prefix

\* The last polled age is polled, and no age after it is.
LEMMA LastPolledIs ==
  ASSUME NEW s, NEW f \in Seq(Nat)
  PROVE  LET age == LastPolledAge(Profile(s, f))
         IN  \/ age = Null
             \/ /\ age \in Nat /\ age + 1 \in 1..Len(f) /\ f[age + 1] > 0
                /\ \A i \in (age + 2)..Len(f) : f[i] = 0
  <1> DEFINE profile == Profile(s, f)
             polled == {a \in 0..(profile.lifecycleDays - 1) :
                          profile.cumulativePolls[a + 1] > profile.cumulativePolls[a]}
             age == LastPolledAge(profile)
  <1>1. /\ profile.lifecycleDays = Len(f)
        /\ \A k \in 0..Len(f) : profile.cumulativePolls[k] = Prefix(f, k)
    BY ProfileIs
  <1>2. age = IF polled = {} THEN Null ELSE Max(polled)
    BY DEF LastPolledAge
  <1>3. Len(f) \in Nat
    OBVIOUS
  <1> HIDE DEF profile, age
  <1>4. ASSUME NEW a \in 0..(Len(f) - 1)
        PROVE  f[a + 1] \in Nat /\ (a \in polled <=> f[a + 1] > 0)
    <2>1. /\ a \in 0..Len(f) /\ a + 1 \in 0..Len(f) /\ a \in Nat
          /\ \A i \in 1..(a + 1) : f[i] \in Nat
      BY <1>3
    <2>2. Prefix(f, a + 1) = Prefix(f, a) + f[a + 1] /\ Prefix(f, a) \in Nat /\ f[a + 1] \in Nat
      BY <2>1, PrefixStep
    <2>3. a \in polled <=> profile.cumulativePolls[a + 1] > profile.cumulativePolls[a]
      BY <1>1
    <2> HIDE DEF polled
    <2> QED BY <1>1, <2>1, <2>2, <2>3
  <1>5. polled \in SUBSET Int /\ polled \subseteq 0..(Len(f) - 1)
    BY <1>1, <1>3
  <1> HIDE DEF polled
  <1>6. CASE polled = {}
    BY <1>2, <1>6 DEF age, profile
  <1>7. CASE polled # {}
    <2>1. \E x \in polled : \A y \in polled : y <= x
      <3> DEFINE Back == {k \in Nat : Len(f) - 1 - k \in polled}
      <3>1. Back \in SUBSET Nat /\ Back # {}
        <4>1. PICK y : y \in polled
          BY <1>7
        <4>2. y \in 0..(Len(f) - 1) /\ Len(f) - 1 - y \in Nat /\ Len(f) - 1 - (Len(f) - 1 - y) = y
          BY <1>3, <1>5, <4>1
        <4>3. Len(f) - 1 - y \in Back
          BY <4>1, <4>2
        <4> QED BY <4>3
      <3>2. PICK k \in Back : \A j \in Back : k <= j
        <4> HIDE DEF Back
        <4> QED BY <3>1, NatMin
      <3>3. \A y \in polled : y <= Len(f) - 1 - k
        <4> TAKE y \in polled
        <4>1. y \in 0..(Len(f) - 1) /\ Len(f) - 1 - y \in Nat /\ Len(f) - 1 - (Len(f) - 1 - y) = y
          BY <1>3, <1>5
        <4>2. Len(f) - 1 - y \in Back
          BY <4>1
        <4>3. k <= Len(f) - 1 - y /\ k \in Nat
          BY <3>2, <4>2
        <4> QED BY <1>3, <4>1, <4>3
      <3>4. Len(f) - 1 - k \in polled
        BY <3>2
      <3> QED BY <3>3, <3>4
    <2>2. Max(polled) \in polled /\ \A y \in polled : y <= Max(polled)
      BY <1>5, <2>1, MaxIs
    <2> DEFINE top == Max(polled)
    <2>3. age = top /\ top \in polled /\ \A y \in polled : y <= top
      BY <1>2, <1>7, <2>2
    <2> HIDE DEF top
    <2>4. age \in Nat /\ age + 1 \in 1..Len(f) /\ f[age + 1] > 0
      BY <1>3, <1>4, <1>5, <2>3
    <2>5. \A i \in (age + 2)..Len(f) : f[i] = 0
      <3> TAKE i \in (age + 2)..Len(f)
      <3>1. i - 1 \in 0..(Len(f) - 1) /\ i - 1 + 1 = i /\ ~(i - 1 <= age)
        BY <1>3, <2>4
      <3>2. i - 1 \notin polled
        BY <2>3, <3>1
      <3>3. f[i - 1 + 1] \in Nat /\ ~(f[i - 1 + 1] > 0)
        BY <1>4, <3>1, <3>2
      <3> QED BY <3>1, <3>3
    <2> QED BY <2>4, <2>5 DEF age, profile
  <1> QED BY <1>6, <1>7

\* The parts of the simulation.
LEMMA CohortsAre ==
  ASSUME NEW in, NEW profile, NEW days, NEW plateau
  PROVE  LET cohorts == Cohorts(in, profile, days, plateau)
         IN  /\ cohorts.profile = profile /\ cohorts.days = days
             /\ cohorts.jobsPlateauDayIndex
                  = IF plateau # Null /\ in.horizonDays > plateau THEN plateau ELSE Null
             /\ \/ cohorts.steadyState = Null
                \/ cohorts.steadyState.scrapeJobs
                     = in.newSubmissionsPerDay * profile.pollsPerSubmissionTotal
  BY DEF Cohorts, SteadyState

\* The simulated days are the days the cohorts make up.
LEMMA CohortsHold ==
  ASSUME CapacityAssumption, WellTyped(inputs)
  PROVE  CohortsAddUp
  <1> DEFINE s == Spans(inputs.stages)
             f == Polled(s)
             profile == Profile(s, f)
             plateau == LastPolledAge(profile)
             arrivals == inputs.newSubmissionsPerDay
             horizon == inputs.horizonDays
             live(n) == Min({n, profile.lifecycleDays})
             days == [n \in 1..horizon |-> SimulatedDay(profile, arrivals, plateau, n - 1, live(n))]
             cohorts == Cohorts(inputs, profile, days, plateau)
             rate == RunRate(cohorts, inputs)
  <1>1. inputs.stages \in Seq(PollingStage) /\ arrivals \in Nat /\ horizon \in Nat
    BY DEF WellTyped, Required
  <1>2. s \in Lifecycles /\ f \in Seq(Nat) /\ Len(f) \in Nat
    <2>1. s \in Lifecycles
      BY <1>1, SpansAre
    <2>2. f \in Seq(Nat)
      BY <2>1, PolledIs
    <2> QED BY <2>1, <2>2
  <1>3. SimulateCohorts(inputs) = cohorts
    BY DEF SimulateCohorts, BuildLifecycleProfile, ProfileOf, CohortsWith, CohortsOf, Polled
  <1>4. \A n \in Nat : JobsOnDay(n) = arrivals * Prefix(f, Min({n + 1, Len(f)}))
    BY <1>1, JobsOfDay
  <1>5. /\ profile.spans = s /\ profile.lifecycleDays = Len(f)
        /\ \A k \in 0..Len(f) : profile.cumulativePolls[k] = Prefix(f, k)
        /\ profile.pollsPerSubmissionTotal = Prefix(f, Len(f))
    BY <1>2, ProfileIs
  <1>6. \/ plateau = Null
        \/ /\ plateau \in Nat /\ plateau + 1 \in 1..Len(f) /\ f[plateau + 1] > 0
           /\ \A i \in (plateau + 2)..Len(f) : f[i] = 0
    BY <1>2, LastPolledIs
  <1>7. Null \notin Nat
    BY DEF CapacityAssumption
  <1>8. /\ cohorts.profile = profile /\ cohorts.days = days
        /\ cohorts.jobsPlateauDayIndex = IF plateau # Null /\ horizon > plateau THEN plateau ELSE Null
        /\ \/ cohorts.steadyState = Null
           \/ cohorts.steadyState.scrapeJobs = arrivals * profile.pollsPerSubmissionTotal
    <2> HIDE DEF profile, days, plateau
    <2> QED BY CohortsAre
  <1>9. rate = arrivals * Prefix(f, Len(f))
    <2> HIDE DEF cohorts
    <2> QED BY <1>5, <1>8 DEF RunRate
  <1> HIDE DEF s, f, profile, plateau, arrivals, horizon, cohorts, rate
  <1>10. ASSUME NEW n \in 1..horizon
         PROVE  LET day == cohorts.days[n]
                IN  /\ day.scrapeJobs = JobsOnDay(n - 1)
                    /\ day.scrapeJobs = TotalOf([k \in DOMAIN day.perStage |-> day.perStage[k].polls])
                    /\ day.phase = "steady" <=> plateau # Null /\ (plateau # Null => n - 1 >= plateau)
                    /\ day.scrapeJobs = arrivals * Prefix(f, IF n <= Len(f) THEN n ELSE Len(f))
    <2>1. live(n) = (IF n <= Len(f) THEN n ELSE Len(f)) /\ live(n) \in 0..Len(f)
      <3>1. n \in Int /\ Len(f) \in Int /\ n \in Nat
        BY <1>1, <1>2
      <3>2. Min({n, Len(f)}) = IF n <= Len(f) THEN n ELSE Len(f)
        BY <3>1, MinOfTwo
      <3> QED BY <1>2, <1>5, <3>1, <3>2
    <2> DEFINE age == live(n)
               day == SimulatedDay(profile, arrivals, plateau, n - 1, age)
    <2>2. cohorts.days[n] = day
      BY <1>8
    <2> HIDE DEF live, age
    <2>3. /\ day.scrapeJobs = arrivals * profile.cumulativePolls[age]
          /\ day.perStage = StageLoads(profile, arrivals, age)
          /\ day.phase = IF plateau # Null /\ (plateau # Null => n - 1 >= plateau)
                         THEN "steady" ELSE "ramp"
      BY DEF SimulatedDay
    <2> HIDE DEF day, days
    <2>4. day.scrapeJobs = arrivals * Prefix(f, age) /\ age \in 0..Len(f)
      BY <1>5, <2>1, <2>3 DEF age
    <2>5. JobsOnDay(n - 1) = arrivals * Prefix(f, age)
      <3>1. n - 1 \in Nat /\ n - 1 + 1 = n
        BY <1>1
      <3>2. JobsOnDay(n - 1) = arrivals * Prefix(f, Min({n - 1 + 1, Len(f)}))
        BY <1>4, <3>1
      <3>3. age = Min({n, Len(f)})
        BY <1>5 DEF age, live
      <3> QED BY <3>1, <3>2, <3>3
    <2>6. TotalOf([k \in DOMAIN day.perStage |-> day.perStage[k].polls]) = arrivals * Prefix(f, age)
      <3>1. TotalOf([k \in DOMAIN StageLoads(profile, arrivals, age) |->
                       StageLoads(profile, arrivals, age)[k].polls]) = arrivals * Prefix(f, age)
        BY <1>1, <1>2, <1>5, <2>4, SharesAddUp DEF f, arrivals
      <3> QED BY <2>3, <3>1
    <2>7. day.phase = "steady" <=> plateau # Null /\ (plateau # Null => n - 1 >= plateau)
      BY <2>3
    <2>8. day.scrapeJobs = arrivals * Prefix(f, IF n <= Len(f) THEN n ELSE Len(f))
      BY <2>1, <2>4 DEF age
    <2> QED BY <2>2, <2>4, <2>5, <2>6, <2>7, <2>8
  <1>11. ASSUME NEW n \in 1..horizon, plateau # Null
         PROVE  LET jobs == arrivals * Prefix(f, IF n <= Len(f) THEN n ELSE Len(f))
                IN  jobs = rate <=> n > plateau \/ arrivals = 0
    <2> DEFINE k == IF n <= Len(f) THEN n ELSE Len(f)
               m == Len(f)
    <2>1. k \in 0..m /\ m \in k..m /\ m \in Nat /\ plateau \in Nat /\ plateau + 1 \in 1..m /\ arrivals \in Nat
      BY <1>1, <1>2, <1>6, <1>11
    <2>2. \A i \in 1..m : f[i] \in Nat
      BY <1>2
    <2>3. Prefix(f, k) \in Nat /\ Prefix(f, m) \in Nat
      BY <2>1, <2>2, PrefixRises
    <2>4. CASE n > plateau
      <3>1. \A i \in (k + 1)..m : f[i] = 0
        <4> TAKE i \in (k + 1)..m
        <4>1. k < m /\ k = n
          BY <2>1, <1>1
        <4>2. i \in (plateau + 2)..m
          BY <2>1, <2>4, <4>1, <1>1
        <4> QED BY <1>6, <1>11, <4>2
      <3>2. Prefix(f, k) = Prefix(f, m)
        BY <2>1, <2>2, <3>1, PrefixStays
      <3> QED BY <1>9, <2>4, <3>2
    <2>5. CASE ~(n > plateau)
      <3>1. plateau + 1 \in (k + 1)..m /\ f[plateau + 1] > 0 /\ m \in k..m
        BY <1>1, <1>6, <1>11, <2>1, <2>5
      <3> HIDE DEF k, m
      <3>2. Prefix(f, k) < Prefix(f, m)
        BY <2>1, <2>2, <3>1, PrefixPasses
      <3>3. arrivals * Prefix(f, k) = arrivals * Prefix(f, m) <=> arrivals = 0
        <4> DEFINE p == Prefix(f, k)  q == Prefix(f, m)
        <4>1. p \in Nat /\ q \in Nat /\ p < q /\ arrivals \in Nat
          BY <2>1, <2>3, <3>2
        <4> HIDE DEF p, q
        <4>2. arrivals * p = arrivals * q <=> arrivals = 0
          BY <4>1
        <4> QED BY <4>2 DEF p, q
      <3> QED BY <1>9, <2>5, <3>3 DEF k, m
    <2> QED BY <2>4, <2>5
  <1>12. DOMAIN cohorts.days = 1..horizon
    BY <1>8
  <1> HIDE DEF days
  <1>13. ASSUME NEW n \in DOMAIN cohorts.days
         PROVE  LET day == cohorts.days[n]
                    top == cohorts.jobsPlateauDayIndex
                IN  /\ day.scrapeJobs = JobsOnDay(n - 1)
                    /\ day.scrapeJobs = TotalOf([k \in DOMAIN day.perStage |-> day.perStage[k].polls])
                    /\ (day.phase = "steady" <=> top # Null /\ (top # Null => n > top))
                    /\ top # Null => (day.scrapeJobs = rate <=> n > top \/ arrivals = 0)
    <2>1. n \in 1..horizon /\ n \in Int /\ n <= horizon
      BY <1>1, <1>12
    <2> DEFINE day == cohorts.days[n]
               top == cohorts.jobsPlateauDayIndex
    <2>2. /\ day.scrapeJobs = JobsOnDay(n - 1)
          /\ day.scrapeJobs = TotalOf([k \in DOMAIN day.perStage |-> day.perStage[k].polls])
          /\ day.phase = "steady" <=> plateau # Null /\ (plateau # Null => n - 1 >= plateau)
          /\ day.scrapeJobs = arrivals * Prefix(f, IF n <= Len(f) THEN n ELSE Len(f))
      BY <1>10, <2>1
    <2> HIDE DEF day, top
    <2>3. top = IF plateau # Null /\ horizon > plateau THEN plateau ELSE Null
      BY <1>8 DEF top
    <2>4. day.phase = "steady" <=> top # Null /\ (top # Null => n > top)
      BY <1>1, <1>6, <2>1, <2>2, <2>3
    <2>5. top # Null => (day.scrapeJobs = rate <=> n > top \/ arrivals = 0)
      <3>1. SUFFICES ASSUME top # Null PROVE day.scrapeJobs = rate <=> n > top \/ arrivals = 0
        OBVIOUS
      <3>2. plateau # Null /\ top = plateau
        BY <2>3, <3>1
      <3> QED BY <1>11, <2>1, <2>2, <3>2
    <2> QED BY <2>2, <2>4, <2>5 DEF day, top
  <1>14. cohorts.steadyState # Null => cohorts.steadyState.scrapeJobs = rate
    BY <1>5, <1>8, <1>9
  <1>15. CohortsReconcile(cohorts)
    <2> USE DEF rate, arrivals
    <2> QED BY <1>13, <1>14 DEF CohortsReconcile
  <1> QED BY <1>3, <1>15 DEF CohortsAddUp

-----------------------------------------------------------------------------
(* The plan. Amounts are fractions that are not negative.                     *)
Amounts == Nat \X (Nat \ {0})
AtMost(a, b) == ~Less(b, a)

\* The order of fractions.
LEMMA AtMostLess ==
  ASSUME NEW a \in Fraction, NEW b \in Fraction, NEW c \in Fraction
  PROVE  /\ AtMost(a, b) /\ Less(b, c) => Less(a, c)
         /\ Less(a, b) /\ AtMost(b, c) => Less(a, c)
         /\ AtMost(a, b) /\ AtMost(b, c) => AtMost(a, c)
  <1> DEFINE p == a[1]  q == a[2]  r == b[1]  s == b[2]  u == c[1]  v == c[2]
  <1>1. p \in Int /\ r \in Int /\ u \in Int /\ q \in Nat \ {0} /\ s \in Nat \ {0} /\ v \in Nat \ {0}
    BY DEF Fraction
  <1>2. /\ Less(a, b) <=> p * s < r * q
        /\ Less(b, c) <=> r * v < u * s
        /\ Less(a, c) <=> p * v < u * q
        /\ AtMost(a, b) <=> p * s <= r * q
        /\ AtMost(b, c) <=> r * v <= u * s
        /\ AtMost(a, c) <=> p * v <= u * q
    BY <1>1 DEF Less, AtMost
  <1> HIDE DEF p, q, r, s, u, v
  <1>3. (p * s) * v = (p * v) * s /\ (r * q) * v = (r * v) * q /\ (u * s) * q = (u * q) * s
    BY <1>1
  <1>4. p * s \in Int /\ r * q \in Int /\ r * v \in Int /\ u * s \in Int /\ p * v \in Int /\ u * q \in Int
    BY <1>1
  <1>5. /\ p * s <= r * q => (p * s) * v <= (r * q) * v
        /\ p * s < r * q => (p * s) * v < (r * q) * v
        /\ r * v <= u * s => (r * v) * q <= (u * s) * q
        /\ r * v < u * s => (r * v) * q < (u * s) * q
    <2> DEFINE A == p * s  B == r * q  C == r * v  E == u * s
    <2>1. A \in Int /\ B \in Int /\ C \in Int /\ E \in Int
      BY <1>4
    <2> HIDE DEF A, B, C, E
    <2>2. /\ A <= B => A * v <= B * v
          /\ A < B => A * v < B * v
          /\ C <= E => C * q <= E * q
          /\ C < E => C * q < E * q
      BY <1>1, <2>1
    <2> QED BY <2>2 DEF A, B, C, E
  <1>6. /\ (p * v) * s < (u * q) * s => p * v < u * q
        /\ (p * v) * s <= (u * q) * s => p * v <= u * q
    <2> DEFINE A == p * v  B == u * q
    <2>1. A \in Int /\ B \in Int
      BY <1>4
    <2> HIDE DEF A, B
    <2>2. (A * s < B * s => A < B) /\ (A * s <= B * s => A <= B)
      BY <1>1, <2>1
    <2> QED BY <2>2 DEF A, B
  <1>7. /\ (p * v) * s \in Int /\ (r * v) * q \in Int /\ (u * q) * s \in Int
    BY <1>1
  <1> QED BY <1>2, <1>3, <1>5, <1>6, <1>7

\* One of some positions has the least figure, and is the first that has it.
LEMMA LeastExists ==
  ASSUME NEW m \in Nat, NEW N \in SUBSET (1..m), N # {}, NEW v, \A n \in N : v[n] \in Fraction
  PROVE  \E n \in N : /\ \A k \in N : ~Less(v[k], v[n])
                      /\ \A k \in N : k < n => Less(v[n], v[k])
  <1> DEFINE First(M, n) == /\ \A k \in M : ~Less(v[k], v[n])
                            /\ \A k \in M : k < n => Less(v[n], v[k])
             S == {j \in Nat : \A M \in SUBSET (N \cap (1..j)) : M # {} => \E n \in M : First(M, n)}
  <1>1. 0 \in S
    <2>1. N \cap (1..0) = {}
      OBVIOUS
    <2> QED BY <2>1
  <1>2. ASSUME NEW j \in Nat, j \in S PROVE j + 1 \in S
    <2>1. SUFFICES ASSUME NEW M \in SUBSET (N \cap (1..(j + 1))), M # {} PROVE \E n \in M : First(M, n)
      OBVIOUS
    <2> DEFINE x == j + 1
               L == M \ {x}
    <2>2. /\ L \in SUBSET (N \cap (1..j)) /\ M \subseteq N
          /\ \A k \in L : k \in Int /\ k < x /\ v[k] \in Fraction
          /\ x \in Int
      BY <2>1
    <2>3. CASE x \notin M
      <3>1. M = L
        BY <2>3
      <3> QED BY <1>2, <2>1, <2>2, <3>1
    <2>4. CASE x \in M /\ L = {}
      <3>1. M = {x} /\ v[x] \in Fraction
        BY <2>2, <2>4
      <3>2. ~Less(v[x], v[x]) /\ ~(x < x)
        BY <2>2, <3>1 DEF Less, Fraction
      <3> HIDE DEF x, L
      <3>3. First(M, x)
        BY <3>1, <3>2
      <3> QED BY <2>4, <3>3
    <2>5. CASE x \in M /\ L # {}
      <3>1. PICK n \in L : First(L, n)
        BY <1>2, <2>2, <2>5
      <3>2. v[x] \in Fraction /\ v[n] \in Fraction /\ n \in M /\ n < x /\ M = L \cup {x}
        BY <2>2, <2>5, <3>1
      <3> HIDE DEF x, L
      <3>3. CASE Less(v[x], v[n])
        <4>1. \A k \in L : AtMost(v[n], v[k]) /\ Less(v[x], v[k])
          BY <2>2, <3>1, <3>2, <3>3, AtMostLess DEF AtMost
        <4>2. \A k \in L : ~Less(v[k], v[x])
          BY <2>2, <3>2, <4>1 DEF Less, Fraction
        <4>3. ~Less(v[x], v[x]) /\ ~(x < x)
          BY <2>2, <3>2 DEF Less, Fraction
        <4>4. First(M, x)
          BY <3>2, <4>1, <4>2, <4>3
        <4> QED BY <2>5, <4>4
      <3>4. CASE ~Less(v[x], v[n])
        <4>1. ~(x < n)
          BY <2>2, <3>2
        <4>2. First(M, n)
          BY <3>1, <3>2, <3>4, <4>1
        <4> QED BY <3>2, <4>2
      <3> QED BY <3>3, <3>4
    <2> QED BY <2>3, <2>4, <2>5
  <1> HIDE DEF S
  <1>3. m \in S
    BY <1>1, <1>2, Induct
  <1>4. N \in SUBSET (N \cap (1..m))
    OBVIOUS
  <1> QED BY <1>3, <1>4 DEF S

\* And one has the greatest, and is the first that has it.
LEMMA MostExists ==
  ASSUME NEW m \in Nat, NEW N \in SUBSET (1..m), N # {}, NEW v, \A n \in N : v[n] \in Fraction
  PROVE  \E n \in N : /\ \A k \in N : ~Less(v[n], v[k])
                      /\ \A k \in N : k < n => Less(v[k], v[n])
  <1> DEFINE w == [n \in N |-> <<0 - v[n][1], v[n][2]>>]
  <1>1. \A n \in N : w[n] \in Fraction /\ w[n][1] = 0 - v[n][1] /\ w[n][2] = v[n][2]
    BY DEF Fraction
  <1> HIDE DEF w
  <1>2. \A n \in N : \A k \in N : Less(w[k], w[n]) <=> Less(v[n], v[k])
    <2> TAKE n \in N
    <2> TAKE k \in N
    <2> DEFINE p == v[n][1]  q == v[n][2]  r == v[k][1]  s == v[k][2]
    <2>1. p \in Int /\ q \in Int /\ r \in Int /\ s \in Int
      BY DEF Fraction
    <2>2. (Less(w[k], w[n]) <=> (0 - r) * q < (0 - p) * s) /\ (Less(v[n], v[k]) <=> p * s < r * q)
      BY <1>1 DEF Less
    <2> HIDE DEF p, q, r, s
    <2>3. (0 - r) * q = 0 - r * q /\ (0 - p) * s = 0 - p * s /\ r * q \in Int /\ p * s \in Int
      BY <2>1
    <2> QED BY <2>2, <2>3
  <1>3. \E n \in N : /\ \A k \in N : ~Less(w[k], w[n])
                     /\ \A k \in N : k < n => Less(w[n], w[k])
    BY <1>1, LeastExists
  <1> QED BY <1>2, <1>3

\* Less than what is rounded up is less than what was rounded.
LEMMA LessThanCeil ==
  ASSUME NEW c \in Nat, NEW a \in Amounts
  PROVE  Ceil(a) \in Nat /\ (c < Ceil(a) <=> c * a[2] < a[1])
  <1> DEFINE x == a[1]  i == a[2]  n == x + i - 1  q == n \div i
  <1>1. x \in Nat /\ i \in Nat \ {0} /\ n \in Nat
    BY DEF Amounts
  <1>2. Ceil(a) = q
    BY DEF Ceil, RoundUp
  <1> HIDE DEF x, i
  <1>3. q \in Nat /\ q * i <= x + i - 1 /\ x + i - 1 < (q + 1) * i
    <2> HIDE DEF n
    <2>1. q \in Nat /\ q * i <= n /\ n < (q + 1) * i
      BY <1>1
    <2> QED BY <2>1 DEF n
  <1> HIDE DEF n, q
  <1>4. ASSUME c < q PROVE c * i < x
    <2>1. (c + 1) * i <= q * i
      BY <1>1, <1>3, <1>4
    <2>2. (c + 1) * i = c * i + i /\ c * i \in Nat
      BY <1>1
    <2> QED BY <1>1, <1>3, <2>1, <2>2
  <1>5. ASSUME c >= q PROVE ~(c * i < x)
    <2>1. q * i <= c * i
      BY <1>1, <1>3, <1>5
    <2>2. (q + 1) * i = q * i + i /\ q * i \in Nat /\ c * i \in Nat
      BY <1>1, <1>3
    <2> QED BY <1>1, <1>3, <2>1, <2>2
  <1> QED BY <1>2, <1>3, <1>4, <1>5 DEF x, i

-----------------------------------------------------------------------------
(* The units. A quantity is an amount or what is missing to know it.          *)
Quantity(m) == m.computable \in BOOLEAN /\ (m.computable => m.value \in Amounts)

\* What a number of slots carries.
LEMMA FromConcurrencyIs ==
  ASSUME CapacityAssumption, WellTyped(inputs), NEW slots \in Nat
  PROVE  LET unit == FromConcurrency(slots, inputs)
             latency == inputs.meanJobLatencyMs
         IN  /\ Quantity(unit)
             /\ unit.computable => /\ latency \in Nat \ {0} /\ latency # Null
                                   /\ unit.value = <<slots * MsPerDay, latency>>
  <1> DEFINE latency == inputs.meanJobLatencyMs
             unit == FromConcurrency(slots, inputs)
  <1>1. latency \in Nat \cup {Null} /\ Null \notin Nat /\ MsPerDay \in Nat \ {0}
    BY DEF WellTyped, Nullable, CapacityAssumption
  <1>2. unit = IF latency = Null THEN NotComputable({"meanJobLatencyMs"})
               ELSE IF latency <= 0 THEN NotComputable({"meanJobLatencyMs"})
               ELSE Computed(<<slots * MsPerDay * 1, 1 * latency>>)
    BY DEF FromConcurrency, Lift, Positive, Given, Computed, NotComputable, Whole, //
  <1> HIDE DEF unit, latency
  <1>3. CASE latency = Null \/ latency <= 0
    <2>1. unit = NotComputable({"meanJobLatencyMs"})
      BY <1>2, <1>3
    <2> QED BY <2>1 DEF NotComputable, Quantity, unit
  <1>4. CASE latency # Null /\ ~(latency <= 0)
    <2>1. latency \in Nat \ {0} /\ slots * MsPerDay \in Nat
      BY <1>1, <1>4
    <2>2. slots * MsPerDay * 1 = slots * MsPerDay /\ 1 * latency = latency
      BY <2>1
    <2>3. unit = Computed(<<slots * MsPerDay, latency>>)
      BY <1>2, <1>4, <2>2
    <2>4. <<slots * MsPerDay, latency>> \in Amounts
      BY <2>1 DEF Amounts
    <2> QED BY <1>4, <2>1, <2>3, <2>4 DEF Computed, Quantity, unit, latency
  <1> QED BY <1>3, <1>4

\* What a limit of requests a minute carries.
LEMMA FromHttpRpmIs ==
  ASSUME CapacityAssumption, NEW rpm \in Nat, NEW requests, requests.computable \in BOOLEAN,
         requests.computable => requests.value \in Fraction
  PROVE  LET unit == FromHttpRpm(rpm, requests)
         IN  /\ Quantity(unit)
             /\ unit.computable =>
                  /\ requests.computable /\ requests.value[1] > 0
                  /\ unit.value = <<rpm * MinutesPerDay * requests.value[2], requests.value[1]>>
  <1> DEFINE unit == FromHttpRpm(rpm, requests)
             p == requests.value[1]
             q == requests.value[2]
  <1>1. MinutesPerDay \in Nat \ {0}
    BY DEF CapacityAssumption
  <1>2. unit = IF ~requests.computable THEN requests
               ELSE IF p <= 0 THEN NotComputable({"requestsPerJob"})
               ELSE Computed(<<rpm * MinutesPerDay * q, 1 * p>>)
    BY DEF FromHttpRpm, Lift, Positive, Computed, NotComputable, Whole, //
  <1> HIDE DEF unit
  <1>3. CASE ~requests.computable
    BY <1>2, <1>3 DEF Quantity, unit
  <1>4. CASE requests.computable /\ p <= 0
    <2>1. unit = NotComputable({"requestsPerJob"})
      BY <1>2, <1>4
    <2> QED BY <2>1 DEF NotComputable, Quantity, unit
  <1>5. CASE requests.computable /\ ~(p <= 0)
    <2>1. p \in Nat \ {0} /\ q \in Nat \ {0} /\ p > 0
      BY <1>5 DEF Fraction
    <2> HIDE DEF p, q
    <2>2. rpm * MinutesPerDay * q \in Nat /\ 1 * p = p
      BY <1>1, <2>1
    <2>3. unit = Computed(<<rpm * MinutesPerDay * q, p>>)
      BY <1>2, <1>5, <2>2
    <2>4. <<rpm * MinutesPerDay * q, p>> \in Amounts
      BY <2>1, <2>2 DEF Amounts
    <2> QED BY <1>5, <2>1, <2>3, <2>4 DEF Computed, Quantity, unit, p, q
  <1> QED BY <1>3, <1>4, <1>5

\* What a limit of bytes a month carries.
LEMMA FromMonthlyBytesIs ==
  ASSUME CapacityAssumption, WellTyped(inputs), NEW bytes \in Nat,
         NEW requests, requests.computable \in BOOLEAN, requests.computable => requests.value \in Fraction
  PROVE  LET unit == FromMonthlyBytes(bytes, requests, inputs)
         IN  /\ Quantity(unit)
             /\ unit.computable => (bytes > 0 => unit.value[1] > 0)
  <1> DEFINE unit == FromMonthlyBytes(bytes, requests, inputs)
             size == inputs.bytesPerHttpRequest
             p == requests.value[1] * size
             q == requests.value[2] * 1
             paths == {"requestsPerJob", "bytesPerHttpRequest"}
  <1>1. size \in Nat \cup {Null} /\ Null \notin Nat /\ DaysPerMonth \in Nat \ {0}
    BY DEF WellTyped, Nullable, CapacityAssumption
  <1>2. unit = IF ~requests.computable THEN requests
               ELSE IF size = Null THEN NotComputable({"bytesPerHttpRequest"})
               ELSE IF p <= 0 THEN NotComputable(paths)
               ELSE Computed(<<bytes * q, DaysPerMonth * p>>)
    BY DEF FromMonthlyBytes, Lift, Positive, Product, Both, Given, Computed, NotComputable, Whole, **, //
  <1> HIDE DEF unit
  <1>3. CASE ~requests.computable
    BY <1>2, <1>3 DEF Quantity, unit
  <1>4. CASE requests.computable /\ size = Null
    <2>1. unit = NotComputable({"bytesPerHttpRequest"})
      BY <1>2, <1>4
    <2> QED BY <2>1 DEF NotComputable, Quantity, unit
  <1>5. CASE requests.computable /\ size # Null /\ p <= 0
    <2>1. unit = NotComputable(paths)
      BY <1>2, <1>5
    <2> QED BY <2>1 DEF NotComputable, Quantity, unit
  <1>6. CASE requests.computable /\ size # Null /\ ~(p <= 0)
    <2>1. p \in Nat \ {0} /\ q \in Nat \ {0}
      <3>1. requests.value[1] \in Int /\ requests.value[2] \in Nat \ {0} /\ size \in Nat
        BY <1>1, <1>6 DEF Fraction
      <3> QED BY <1>6, <3>1
    <2> HIDE DEF p, q
    <2>2. unit = Computed(<<bytes * q, DaysPerMonth * p>>)
      BY <1>2, <1>6
    <2>3. bytes * q \in Nat /\ DaysPerMonth * p \in Nat \ {0} /\ (bytes > 0 => bytes * q > 0)
      BY <1>1, <2>1
    <2>4. <<bytes * q, DaysPerMonth * p>> \in Amounts
      BY <2>3 DEF Amounts
    <2> QED BY <2>2, <2>3, <2>4 DEF Computed, Quantity, unit
  <1> QED BY <1>3, <1>4, <1>5, <1>6

\* The constraints are those of the workers and then those of the proxies.
LEMMA KindsAre ==
  /\ DOMAIN WorkerKinds = {1, 2, 3} /\ DOMAIN ProxyKinds = {1, 2, 3} /\ DOMAIN Kinds = 1..6
  /\ \A n \in {1, 2, 3} : Kinds[n] = WorkerKinds[n] /\ Kinds[n + 3] = ProxyKinds[n]
  /\ ToSet(WorkerKinds) = {WorkerKinds[n] : n \in {1, 2, 3}}
  /\ ToSet(ProxyKinds) = {ProxyKinds[n] : n \in {1, 2, 3}}
  /\ ToSet(Kinds) = ToSet(WorkerKinds) \cup ToSet(ProxyKinds)
  /\ ToSet(Kinds) = {"workerConcurrency", "workerJobTarget", "workerHttpEgress",
                     "proxyConcurrency", "proxyHttpRpm", "proxyMonthlyBandwidth"}
  /\ WorkerKinds[1] = "workerConcurrency" /\ WorkerKinds[2] = "workerJobTarget"
  /\ WorkerKinds[3] = "workerHttpEgress" /\ ProxyKinds[1] = "proxyConcurrency"
  /\ ProxyKinds[2] = "proxyHttpRpm" /\ ProxyKinds[3] = "proxyMonthlyBandwidth"
  <1> DEFINE w == WorkerKinds  p == ProxyKinds
  <1>1. /\ DOMAIN w = {1, 2, 3} /\ w[1] = "workerConcurrency" /\ w[2] = "workerJobTarget"
        /\ w[3] = "workerHttpEgress" /\ Len(w) = 3
    BY DEF WorkerKinds
  <1>2. /\ DOMAIN p = {1, 2, 3} /\ p[1] = "proxyConcurrency" /\ p[2] = "proxyHttpRpm"
        /\ p[3] = "proxyMonthlyBandwidth" /\ Len(p) = 3
    BY DEF ProxyKinds
  <1>4. /\ DOMAIN Kinds = 1..6
        /\ Kinds[1] = "workerConcurrency" /\ Kinds[2] = "workerJobTarget"
        /\ Kinds[3] = "workerHttpEgress" /\ Kinds[4] = "proxyConcurrency"
        /\ Kinds[5] = "proxyHttpRpm" /\ Kinds[6] = "proxyMonthlyBandwidth"
    <2> DEFINE S == {"workerConcurrency", "workerJobTarget", "workerHttpEgress",
                     "proxyConcurrency", "proxyHttpRpm", "proxyMonthlyBandwidth"}
    <2>1. w \in Seq(S) /\ p \in Seq(S)
      BY DEF WorkerKinds, ProxyKinds
    <2>2. Kinds = w \o p
      BY DEF Kinds
    <2> HIDE DEF w, p, S
    <2>3. /\ w \o p \in Seq(S) /\ Len(w \o p) = Len(w) + Len(p)
          /\ \A i \in 1..(Len(w) + Len(p)) : (w \o p)[i] = IF i <= Len(w) THEN w[i] ELSE p[i - Len(w)]
      BY <2>1, ConcatProperties
    <2>4. Len(w) = 3 /\ Len(w) + Len(p) = 6
      BY <1>1, <1>2
    <2>5. DOMAIN (w \o p) = 1..6
      BY <2>3, <2>4
    <2> DEFINE c == w \o p
    <2>6. \A n \in 1..6 : c[n] = IF n <= 3 THEN w[n] ELSE p[n - 3]
      BY <2>3, <2>4
    <2> HIDE DEF c
    <2>7. c[1] = w[1] /\ c[2] = w[2] /\ c[3] = w[3]
      BY <2>6
    <2>8. c[4] = p[1] /\ c[5] = p[2] /\ c[6] = p[3]
      <3>1. 4 - 3 = 1 /\ 5 - 3 = 2 /\ 6 - 3 = 3
        OBVIOUS
      <3>2. c[4] = p[4 - 3] /\ c[5] = p[5 - 3] /\ c[6] = p[6 - 3]
        BY <2>6
      <3> QED BY <3>1, <3>2
    <2> QED BY <1>1, <1>2, <2>2, <2>5, <2>7, <2>8 DEF c
  <1> HIDE DEF w, p
  <1>5. \A n \in {1, 2, 3} : Kinds[n] = w[n] /\ Kinds[n + 3] = p[n]
    <2>1. 1 + 3 = 4 /\ 2 + 3 = 5 /\ 3 + 3 = 6
      OBVIOUS
    <2> QED BY <1>1, <1>2, <1>4, <2>1
  <1>6. /\ ToSet(w) = {w[n] : n \in {1, 2, 3}} /\ ToSet(p) = {p[n] : n \in {1, 2, 3}}
        /\ ToSet(Kinds) = {Kinds[n] : n \in 1..6}
    BY <1>1, <1>2, <1>4 DEF ToSet
  <1>7. 1..6 = {1, 2, 3, 4, 5, 6}
    OBVIOUS
  <1>8. ToSet(Kinds) = {Kinds[1], Kinds[2], Kinds[3], Kinds[4], Kinds[5], Kinds[6]}
    BY <1>6, <1>7
  <1>9. ToSet(w) = {w[1], w[2], w[3]} /\ ToSet(p) = {p[1], p[2], p[3]}
    BY <1>6
  <1>10. ToSet(Kinds) = ToSet(w) \cup ToSet(p)
    BY <1>1, <1>2, <1>4, <1>8, <1>9
  <1> QED BY <1>1, <1>2, <1>4, <1>5, <1>6, <1>8, <1>10 DEF w, p

\* The requests of one job, retries included.
LEMMA RequestsAre ==
  ASSUME CapacityAssumption, WellTyped(inputs), NEW a \in Fraction
  PROVE  LET each == inputs.requestsPerJob
             requests == By(Given(each, "requestsPerJob"), a)
         IN  /\ requests.computable \in BOOLEAN /\ (requests.computable <=> each # Null)
             /\ requests.computable => /\ each \in Nat /\ requests.value \in Fraction
                                       /\ requests.value = <<each * a[1], a[2]>>
  <1> DEFINE each == inputs.requestsPerJob
             requests == By(Given(each, "requestsPerJob"), a)
  <1>1. each \in Nat \cup {Null} /\ Null \notin Nat /\ a[1] \in Int /\ a[2] \in Nat \ {0}
    BY DEF WellTyped, Nullable, CapacityAssumption, Fraction
  <1>2. requests = IF each = Null THEN NotComputable({"requestsPerJob"})
                   ELSE Computed(<<each * a[1], 1 * a[2]>>)
    BY DEF By, Lift, Given, Computed, NotComputable, Whole, **
  <1> HIDE DEF requests, each
  <1>3. CASE each = Null
    <2>1. requests = NotComputable({"requestsPerJob"})
      BY <1>2, <1>3
    <2>2. requests.computable = FALSE
      BY <2>1 DEF NotComputable
    <2> QED BY <1>3, <2>2 DEF requests, each
  <1>4. CASE each # Null
    <2>1. each \in Nat /\ each * a[1] \in Int /\ 1 * a[2] = a[2]
      BY <1>1, <1>4
    <2>2. requests = Computed(<<each * a[1], a[2]>>) /\ <<each * a[1], a[2]>> \in Fraction
      BY <1>1, <1>2, <1>4, <2>1 DEF Fraction
    <2>3. requests.computable = TRUE /\ requests.value = <<each * a[1], a[2]>>
      BY <2>2 DEF Computed
    <2>4. requests.value \in Fraction /\ each \in Nat
      BY <2>1, <2>2, <2>3
    <2> QED BY <1>4, <2>3, <2>4 DEF requests, each
  <1> QED BY <1>3, <1>4

\* What one worker or one proxy can carry.
LEMMA UnitsAre ==
  ASSUME CapacityAssumption, WellTyped(inputs), NEW r, r.attemptAmplification \in Fraction
  PROVE  LET units == CalculateUnitCapacityConstraints(inputs, r)
             requests == By(Given(inputs.requestsPerJob, "requestsPerJob"), r.attemptAmplification)
         IN  /\ DOMAIN units \subseteq ToSet(Kinds)
             /\ {"workerConcurrency", "workerJobTarget"} \subseteq DOMAIN units
             /\ \A kind \in DOMAIN units : Quantity(units[kind])
             /\ (Issues(inputs) = {} /\ inputs.targetJobsPerMinute > 0)
                  => \A kind \in DOMAIN units : units[kind].computable => units[kind].value[1] > 0
             /\ units["workerConcurrency"] = FromConcurrency(inputs.concurrencyPerWorker, inputs)
             /\ units["workerJobTarget"]
                  = Computed(Whole(inputs.targetJobsPerMinute * MinutesPerDay))
             /\ "workerHttpEgress" \in DOMAIN units
                  => /\ inputs.httpRpmPerHost \in Nat /\ inputs.httpRpmPerHost # Null
                     /\ units["workerHttpEgress"] = FromHttpRpm(inputs.httpRpmPerHost, requests)
  <1> DEFINE units == CalculateUnitCapacityConstraints(inputs, r)
             requests == By(Given(inputs.requestsPerJob, "requestsPerJob"), r.attemptAmplification)
             limited == DOMAIN LimitOf
             D == {k \in ToSet(Kinds) : k \in limited => inputs[LimitOf[k]] # Null}
             kinds == {"workerConcurrency", "workerJobTarget", "workerHttpEgress",
                       "proxyConcurrency", "proxyHttpRpm", "proxyMonthlyBandwidth"}
  <1>1. ToSet(Kinds) = kinds
    BY KindsAre
  <1>2. /\ limited = {"workerHttpEgress", "proxyConcurrency", "proxyHttpRpm", "proxyMonthlyBandwidth"}
        /\ LimitOf["workerHttpEgress"] = "httpRpmPerHost"
        /\ LimitOf["proxyConcurrency"] = "maxConcurrentPerProxy"
        /\ LimitOf["proxyHttpRpm"] = "maxRequestsPerMinutePerProxy"
        /\ LimitOf["proxyMonthlyBandwidth"] = "maxBytesPerMonthPerProxy"
    BY DEF LimitOf
  <1>3. DOMAIN units = D
    BY DEF CalculateUnitCapacityConstraints
  <1>4. ASSUME NEW kind \in D
        PROVE  /\ kind = "workerConcurrency"
                    => units[kind] = FromConcurrency(inputs.concurrencyPerWorker, inputs)
               /\ kind = "workerJobTarget"
                    => units[kind] = Computed(Whole(inputs.targetJobsPerMinute * MinutesPerDay))
               /\ kind = "workerHttpEgress"
                    => units[kind] = FromHttpRpm(inputs.httpRpmPerHost, requests)
               /\ kind = "proxyConcurrency"
                    => units[kind] = FromConcurrency(inputs.maxConcurrentPerProxy, inputs)
               /\ kind = "proxyHttpRpm"
                    => units[kind] = FromHttpRpm(inputs.maxRequestsPerMinutePerProxy, requests)
               /\ kind = "proxyMonthlyBandwidth"
                    => units[kind] = FromMonthlyBytes(inputs.maxBytesPerMonthPerProxy, requests, inputs)
    BY DEF CalculateUnitCapacityConstraints
  <1> HIDE DEF units, limited
  <1>5. D \subseteq kinds /\ {"workerConcurrency", "workerJobTarget"} \subseteq D
    BY <1>1, <1>2
  <1>6. /\ "workerHttpEgress" \in D => inputs.httpRpmPerHost # Null
        /\ "proxyConcurrency" \in D => inputs.maxConcurrentPerProxy # Null
        /\ "proxyHttpRpm" \in D => inputs.maxRequestsPerMinutePerProxy # Null
        /\ "proxyMonthlyBandwidth" \in D => inputs.maxBytesPerMonthPerProxy # Null
    BY <1>2
  <1> HIDE DEF D
  <1>7. /\ inputs.concurrencyPerWorker \in Nat /\ inputs.targetJobsPerMinute \in Nat
        /\ inputs.httpRpmPerHost \in Nat \cup {Null} /\ inputs.maxConcurrentPerProxy \in Nat \cup {Null}
        /\ inputs.maxRequestsPerMinutePerProxy \in Nat \cup {Null}
        /\ inputs.maxBytesPerMonthPerProxy \in Nat \cup {Null}
        /\ Null \notin Nat /\ MinutesPerDay \in Nat \ {0} /\ MsPerDay \in Nat \ {0}
    BY DEF WellTyped, Nullable, Required, CapacityAssumption
  <1>8. requests.computable \in BOOLEAN /\ (requests.computable => requests.value \in Fraction)
    BY RequestsAre
  <1> HIDE DEF requests
  <1>9. Issues(inputs) = {} => /\ inputs.concurrencyPerWorker # 0 /\ inputs.httpRpmPerHost # 0
                               /\ inputs.maxConcurrentPerProxy # 0
                               /\ inputs.maxRequestsPerMinutePerProxy # 0
                               /\ inputs.maxBytesPerMonthPerProxy # 0
    <2>1. {"concurrencyPerWorker", "httpRpmPerHost", "maxConcurrentPerProxy",
           "maxRequestsPerMinutePerProxy", "maxBytesPerMonthPerProxy"} \subseteq AtLeastOne
      BY DEF AtLeastOne, Nullable
    <2> QED BY <2>1 DEF Issues
  <1>10. ASSUME NEW kind \in D
         PROVE  /\ Quantity(units[kind])
                /\ (Issues(inputs) = {} /\ inputs.targetJobsPerMinute > 0)
                     => (units[kind].computable => units[kind].value[1] > 0)
    <2>1. CASE kind = "workerConcurrency"
      <3> DEFINE slots == inputs.concurrencyPerWorker
      <3>1. slots \in Nat /\ units[kind] = FromConcurrency(slots, inputs)
        BY <1>4, <1>7, <2>1
      <3>2. slots > 0 => slots * MsPerDay > 0
        BY <1>7, <3>1
      <3>3. Quantity(units[kind]) /\ (units[kind].computable => units[kind].value[1] = slots * MsPerDay)
        BY <3>1, FromConcurrencyIs
      <3> QED BY <1>9, <3>1, <3>2, <3>3
    <2>2. CASE kind = "workerJobTarget"
      <3> DEFINE n == inputs.targetJobsPerMinute * MinutesPerDay
      <3>1. n \in Nat /\ (inputs.targetJobsPerMinute > 0 => n > 0)
        BY <1>7
      <3>2. units[kind] = Computed(<<n, 1>>)
        BY <1>4, <2>2 DEF Whole
      <3> HIDE DEF n
      <3>3. units[kind].computable = TRUE /\ units[kind].value = <<n, 1>>
        BY <3>2 DEF Computed
      <3>4. units[kind].value \in Amounts /\ units[kind].value[1] = n
        BY <3>1, <3>3 DEF Amounts
      <3>5. Quantity(units[kind])
        BY <3>3, <3>4 DEF Quantity
      <3> QED BY <3>1, <3>4, <3>5
    <2>3. CASE kind = "workerHttpEgress"
      <3> DEFINE rpm == inputs.httpRpmPerHost
      <3>1. rpm \in Nat /\ units[kind] = FromHttpRpm(rpm, requests)
        BY <1>4, <1>6, <1>7, <2>3
      <3> HIDE DEF rpm
      <3>2. /\ Quantity(units[kind])
            /\ units[kind].computable => requests.computable
            /\ units[kind].computable => units[kind].value[1] = rpm * MinutesPerDay * requests.value[2]
        <4> DEFINE unit == FromHttpRpm(rpm, requests)
        <4>1. /\ Quantity(unit)
              /\ unit.computable =>
                   /\ requests.computable
                   /\ unit.value = <<rpm * MinutesPerDay * requests.value[2], requests.value[1]>>
          BY <1>8, <3>1, FromHttpRpmIs
        <4>2. units[kind] = unit
          BY <3>1
        <4> HIDE DEF unit
        <4> QED BY <4>1, <4>2
      <3>3. requests.computable => requests.value[2] \in Nat \ {0}
        BY <1>8 DEF Fraction
      <3>4. requests.computable /\ rpm > 0 => rpm * MinutesPerDay * requests.value[2] > 0
        BY <1>7, <3>1, <3>3
      <3>5. Issues(inputs) = {} => rpm > 0
        BY <1>9, <3>1 DEF rpm
      <3> QED BY <3>2, <3>4, <3>5
    <2>4. CASE kind = "proxyConcurrency"
      <3> DEFINE slots == inputs.maxConcurrentPerProxy
      <3>1. slots \in Nat /\ units[kind] = FromConcurrency(slots, inputs)
        BY <1>4, <1>6, <1>7, <2>4
      <3>2. slots > 0 => slots * MsPerDay > 0
        BY <1>7, <3>1
      <3>3. Quantity(units[kind]) /\ (units[kind].computable => units[kind].value[1] = slots * MsPerDay)
        BY <3>1, FromConcurrencyIs
      <3> QED BY <1>9, <3>1, <3>2, <3>3
    <2>5. CASE kind = "proxyHttpRpm"
      <3> DEFINE rpm == inputs.maxRequestsPerMinutePerProxy
      <3>1. rpm \in Nat /\ units[kind] = FromHttpRpm(rpm, requests)
        BY <1>4, <1>6, <1>7, <2>5
      <3> HIDE DEF rpm
      <3>2. /\ Quantity(units[kind])
            /\ units[kind].computable => requests.computable
            /\ units[kind].computable => units[kind].value[1] = rpm * MinutesPerDay * requests.value[2]
        <4> DEFINE unit == FromHttpRpm(rpm, requests)
        <4>1. /\ Quantity(unit)
              /\ unit.computable =>
                   /\ requests.computable
                   /\ unit.value = <<rpm * MinutesPerDay * requests.value[2], requests.value[1]>>
          BY <1>8, <3>1, FromHttpRpmIs
        <4>2. units[kind] = unit
          BY <3>1
        <4> HIDE DEF unit
        <4> QED BY <4>1, <4>2
      <3>3. requests.computable => requests.value[2] \in Nat \ {0}
        BY <1>8 DEF Fraction
      <3>4. requests.computable /\ rpm > 0 => rpm * MinutesPerDay * requests.value[2] > 0
        BY <1>7, <3>1, <3>3
      <3>5. Issues(inputs) = {} => rpm > 0
        BY <1>9, <3>1 DEF rpm
      <3> QED BY <3>2, <3>4, <3>5
    <2>6. CASE kind = "proxyMonthlyBandwidth"
      <3> DEFINE bytes == inputs.maxBytesPerMonthPerProxy
      <3>1. bytes \in Nat /\ units[kind] = FromMonthlyBytes(bytes, requests, inputs)
        BY <1>4, <1>6, <1>7, <2>6
      <3> HIDE DEF bytes
      <3>2. /\ Quantity(units[kind])
            /\ units[kind].computable => (bytes > 0 => units[kind].value[1] > 0)
        BY <1>8, <3>1, FromMonthlyBytesIs
      <3>3. Issues(inputs) = {} => bytes > 0
        BY <1>9, <3>1 DEF bytes
      <3> QED BY <3>2, <3>3
    <2> QED BY <1>5, <2>1, <2>2, <2>3, <2>4, <2>5, <2>6
  <1>11. D \subseteq ToSet(Kinds)
    BY <1>1, <1>5
  <1>12. /\ units["workerConcurrency"] = FromConcurrency(inputs.concurrencyPerWorker, inputs)
         /\ units["workerJobTarget"] = Computed(Whole(inputs.targetJobsPerMinute * MinutesPerDay))
    BY <1>4, <1>5
  <1>13. "workerHttpEgress" \in D
           => /\ inputs.httpRpmPerHost \in Nat /\ inputs.httpRpmPerHost # Null
              /\ units["workerHttpEgress"] = FromHttpRpm(inputs.httpRpmPerHost, requests)
    BY <1>4, <1>6, <1>7
  <1> QED BY <1>3, <1>5, <1>10, <1>11, <1>12, <1>13 DEF units, requests

-----------------------------------------------------------------------------
(* What a number of jobs takes.                                               *)

\* What the jobs take of a unit is more than some.
Asks(jobs, count, unit) == count < Ceil(RequiredRawUnits(jobs, unit).value)
\* The jobs are more than so many of a unit carry, with every figure rounded
\* against that, and with every figure rounded towards it.
Strains(jobs, count, unit) ==
  count * unit.value[1] * Precision < jobs * unit.value[2] * (Precision - Drift)
MayStrain(jobs, count, unit) ==
  count * unit.value[1] * Precision < jobs * unit.value[2] * (Precision + Drift)
Sized(units) ==
  /\ DOMAIN units \subseteq ToSet(Kinds)
  /\ {"workerConcurrency", "workerJobTarget"} \subseteq DOMAIN units
  /\ \A k \in DOMAIN units : Quantity(units[k]) /\ (units[k].computable => units[k].value[1] > 0)

\* A tolerated part is more than two rounding errors on the way to it.
LEMMA TwoErrors ==
  ASSUME CapacityAssumption
  PROVE  LET T == Tolerance  P == Precision  D == Drift
         IN  /\ T \in Nat \ {0} /\ P \in Nat \ {0} /\ D \in Nat
             /\ P - D \in Nat \ {0} /\ P + D \in Nat \ {0} /\ T - 1 \in Nat
             /\ T * P * P <= (T + 1) * (P - D) * (P - D)
             /\ (T - 1) * (P + D) * (P + D) <= T * P * P
  <1> DEFINE T == Tolerance  P == Precision  D == Drift
  <1>1. T \in Nat \ {0} /\ P \in Nat \ {0} /\ D \in Nat /\ D < P /\ 2 * (T + 1) * D <= P
    BY DEF CapacityAssumption
  <1> HIDE DEF T, P, D
  <1>2. P - D \in Nat \ {0} /\ P + D \in Nat \ {0} /\ T - 1 \in Nat
    BY <1>1
  <1>3. 2 * (T + 1) * D * P <= P * P
    <2>1. 2 * (T + 1) * D \in Nat
      BY <1>1
    <2> DEFINE x == 2 * (T + 1) * D
    <2> HIDE DEF x
    <2>2. x \in Nat /\ x <= P => x * P <= P * P
      BY <1>1
    <2> QED BY <1>1, <2>1, <2>2 DEF x
  <1>4. T * D * D \in Nat /\ D * D \in Nat /\ D * P \in Nat /\ T * D * P \in Nat /\ T * P * P \in Nat
    BY <1>1
  <1>5. (T + 1) * (P - D) * (P - D)
          = T * P * P + P * P - 2 * (T + 1) * D * P + T * D * D + D * D
    BY <1>1
  <1>6. (T - 1) * (P + D) * (P + D)
          = T * P * P - P * P + 2 * (T + 1) * D * P - 4 * (D * P) + T * D * D - D * D
    BY <1>1
  <1>7. T * D * D <= 4 * (D * P)
    <2>1. T * D <= P
      <3>1. T * D \in Nat /\ 2 * (T + 1) * D = 2 * (T * D) + 2 * D
        BY <1>1
      <3> QED BY <1>1, <3>1
    <2>2. (T * D) * D <= P * D
      <3>1. T * D \in Nat
        BY <1>1
      <3> DEFINE x == T * D
      <3> HIDE DEF x
      <3>2. x \in Nat /\ x <= P => x * D <= P * D
        BY <1>1
      <3> QED BY <2>1, <3>1, <3>2 DEF x
    <2>3. P * D = D * P
      BY <1>1
    <2> QED BY <1>4, <2>2, <2>3
  <1>8. P * P \in Nat /\ 2 * (T + 1) * D * P \in Nat
    BY <1>1
  <1>9. T * P * P <= (T + 1) * (P - D) * (P - D)
    BY <1>3, <1>4, <1>5, <1>8
  <1>10. (T - 1) * (P + D) * (P + D) <= T * P * P
    BY <1>3, <1>4, <1>6, <1>7, <1>8
  <1> QED BY <1>1, <1>2, <1>9, <1>10 DEF T, P, D

\* A rounded figure is off by a few parts.
LEMMA RoundedIs ==
  ASSUME CapacityAssumption, NEW figure, NEW r
  PROVE  \E e \in Precision - Drift .. Precision + Drift :
           /\ e \in Nat \ {0} /\ Rounded(figure, r) = <<r[1] * e, r[2] * Precision>>
  <1> DEFINE n == IF Nudge(figure, r) \in -Drift..Drift THEN Nudge(figure, r) ELSE 0
             e == Precision + n
  <1>1. Precision \in Nat \ {0} /\ Drift \in Nat /\ Drift < Precision
    BY DEF CapacityAssumption
  <1>2. n \in -Drift..Drift
    <2>1. 0 \in -Drift..Drift
      BY <1>1
    <2> QED BY <2>1
  <1>3. Rounded(figure, r) = <<r[1] * e, r[2] * Precision>>
    BY DEF Rounded, **
  <1> HIDE DEF n
  <1>4. e \in Precision - Drift .. Precision + Drift /\ e \in Nat \ {0}
    BY <1>1, <1>2
  <1> HIDE DEF e
  <1> QED BY <1>3, <1>4

\* Less of a product, from less of a factor, and back.
LEMMA Cancels ==
  ASSUME NEW x \in Int, NEW y \in Int, NEW k \in Nat \ {0}
  PROVE  (x * k < y * k <=> x < y) /\ (x * k <= y * k <=> x <= y)
  OBVIOUS

\* Jobs that strain some of a unit take more of it, and jobs that take more of
\* it may strain them.
LEMMA RawIs ==
  ASSUME CapacityAssumption, NEW unit, Quantity(unit), NEW jobs \in Nat
  PROVE  LET raw == RequiredRawUnits(jobs, unit)
         IN  /\ Quantity(raw) /\ (raw.computable => unit.computable)
             /\ unit.computable /\ unit.value[1] > 0 =>
                  /\ raw.computable
                  /\ \A c \in Nat : /\ Strains(jobs, c, unit) => Asks(jobs, c, unit)
                                    /\ Asks(jobs, c, unit) => MayStrain(jobs, c, unit)
  <1> DEFINE raw == RequiredRawUnits(jobs, unit)
             p == unit.value[1]  q == unit.value[2]
  <1>1. unit.computable \in BOOLEAN /\ (unit.computable => p \in Nat /\ q \in Nat \ {0})
    BY DEF Quantity, Amounts
  <1>2. CASE ~unit.computable
    <2>1. raw = unit
      BY <1>1, <1>2 DEF RequiredRawUnits
    <2> QED BY <1>2, <2>1
  <1>3. CASE unit.computable /\ p <= 0
    <2>1. raw = IF jobs = 0 THEN Computed(Whole(0)) ELSE NotComputable({})
      BY <1>1, <1>3 DEF RequiredRawUnits
    <2>2. Quantity(raw)
      BY <2>1 DEF Computed, NotComputable, Whole, Quantity, Amounts
    <2> QED BY <1>1, <1>3, <2>2
  <1>4. CASE unit.computable /\ ~(p <= 0)
    <2> DEFINE P == Precision  D == Drift
    <2>1. raw = Computed(Rounded("units", <<jobs * q, 1 * p>>))
      BY <1>1, <1>4 DEF RequiredRawUnits, Whole, //
    <2>2. /\ p \in Nat \ {0} /\ q \in Nat \ {0} /\ jobs * q \in Nat /\ 1 * p = p
          /\ P \in Nat \ {0} /\ D \in Nat
      BY <1>1, <1>4, TwoErrors
    <2>3. PICK e \in P - D .. P + D :
             /\ e \in Nat \ {0}
             /\ Rounded("units", <<jobs * q, p>>) = <<jobs * q * e, p * P>>
      <3> DEFINE r == <<jobs * q, p>>
      <3>1. r[1] = jobs * q /\ r[2] = p
        OBVIOUS
      <3> HIDE DEF r
      <3>2. \E e \in P - D .. P + D :
              e \in Nat \ {0} /\ Rounded("units", r) = <<r[1] * e, r[2] * P>>
        BY RoundedIs
      <3> QED BY <3>1, <3>2 DEF r
    <2> HIDE DEF p, q
    <2> DEFINE v == <<jobs * q * e, p * P>>
    <2>4. raw = Computed(v)
      BY <2>1, <2>2, <2>3
    <2>5. raw.computable = TRUE /\ raw.value = v /\ v \in Amounts
          /\ v[1] = jobs * q * e /\ v[2] = p * P
      BY <2>2, <2>3, <2>4 DEF Computed, Amounts
    <2> HIDE DEF v, raw
    <2>6. \A c \in Nat : Asks(jobs, c, unit) <=> c * (p * P) < jobs * q * e
      BY <2>5, LessThanCeil DEF Asks, raw
    <2>7. ASSUME NEW c \in Nat
          PROVE  /\ Strains(jobs, c, unit) => Asks(jobs, c, unit)
                 /\ Asks(jobs, c, unit) => MayStrain(jobs, c, unit)
      <3>1. /\ Strains(jobs, c, unit) <=> c * p * P < jobs * q * (P - D)
            /\ MayStrain(jobs, c, unit) <=> c * p * P < jobs * q * (P + D)
        BY DEF Strains, MayStrain, p, q
      <3>2. jobs * q * (P - D) <= jobs * q * e /\ jobs * q * e <= jobs * q * (P + D)
        <4> DEFINE x == jobs * q
        <4>1. x \in Nat /\ P - D \in Int /\ P + D \in Int /\ P - D <= e /\ e <= P + D /\ e \in Int
          BY <2>2, <2>3
        <4> HIDE DEF x
        <4>2. x * (P - D) <= x * e /\ x * e <= x * (P + D)
          BY <4>1
        <4> QED BY <4>2 DEF x
      <3>3. c * (p * P) = c * p * P /\ c * p * P \in Nat
        BY <2>2
      <3>4. jobs * q * (P - D) \in Int /\ jobs * q * e \in Int /\ jobs * q * (P + D) \in Int
        BY <2>2, <2>3
      <3> QED BY <2>6, <3>1, <3>2, <3>3, <3>4
    <2>8. Quantity(raw)
      BY <2>5 DEF Quantity
    <2> QED BY <1>4, <2>5, <2>7, <2>8 DEF raw, p, q
  <1> QED BY <1>2, <1>3, <1>4

\* The recommended workers are more than some workers when the jobs ask for more
\* by one of the constraints.
LEMMA WorkersAre ==
  ASSUME CapacityAssumption, NEW in, NEW units, Sized(units), NEW jobs \in Nat, NEW w \in Nat,
         \A k \in ToSet(WorkerKinds) \cap DOMAIN units : units[k].computable
  PROVE  LET recommended == CalculateWorkers(in, jobs, units).recommendedWorkers
         IN  Less(Whole(w), recommended.value)
               <=> \E k \in ToSet(WorkerKinds) \cap DOMAIN units : Asks(jobs, w, units[k])
  <1> DEFINE D == ToSet(WorkerKinds) \cap DOMAIN units
             required == [k \in ToSet(WorkerKinds) |-> RequiredUnits(jobs, units, k)]
             known == {k \in DOMAIN required : required[k].computable}
             need(k) == WholeUnits(required[k].value)
             needs == {need(k) : k \in known}
             recommended == CalculateWorkers(in, jobs, units).recommendedWorkers
  <1>1. \A k \in D : /\ required[k].computable /\ need(k) \in Nat
                     /\ \A c \in Nat : c < need(k) <=> Asks(jobs, c, units[k])
    <2> TAKE k \in D
    <2>1. Quantity(units[k]) /\ units[k].computable /\ units[k].value[1] > 0
      BY DEF Sized
    <2>2. required[k] = RequiredRawUnits(jobs, units[k])
      BY DEF RequiredUnits
    <2> DEFINE raw == RequiredRawUnits(jobs, units[k])
    <2>3. raw.computable /\ Quantity(raw)
      BY <2>1, RawIs
    <2>6. \A c \in Nat : c < Ceil(raw.value) <=> Asks(jobs, c, units[k])
      BY DEF Asks
    <2> HIDE DEF raw
    <2>4. Ceil(raw.value) \in Nat
      BY <2>3, LessThanCeil DEF Quantity
    <2>5. need(k) = Ceil(raw.value) /\ required[k] = raw
      BY <2>2 DEF WholeUnits, raw
    <2> QED BY <2>3, <2>4, <2>5, <2>6
  <1>2. known = D
    <2>1. \A k \in ToSet(WorkerKinds) : k \notin DOMAIN units => required[k].computable = FALSE
      BY DEF RequiredUnits, NotComputable
    <2>2. DOMAIN required = ToSet(WorkerKinds)
      OBVIOUS
    <2> HIDE DEF required
    <2> QED BY <1>1, <2>1, <2>2
  <1>3. recommended = IF known = {} THEN NotComputable({}) ELSE Computed(Whole(Max(needs)))
    BY DEF CalculateWorkers
  <1> HIDE DEF recommended, known, required, need
  <1>4. "workerConcurrency" \in D
    BY KindsAre DEF Sized
  <1>5. recommended.value = <<Max(needs), 1>>
    BY <1>2, <1>3, <1>4 DEF Computed, Whole
  <1>6. needs = {need(k) : k \in D} /\ needs \in SUBSET Nat /\ needs # {}
    BY <1>1, <1>2, <1>4
  <1> HIDE DEF needs
  <1>7. \E x \in needs : \A y \in needs : y <= x
    <2> DEFINE P == {n \in 1..3 : WorkerKinds[n] \in D}
               v == [n \in P |-> Whole(need(WorkerKinds[n]))]
    <2>1. P \in SUBSET (1..3) /\ \A k \in D : \E n \in P : k = WorkerKinds[n]
      <3>1. 1..3 = {1, 2, 3}
        OBVIOUS
      <3> QED BY <3>1, KindsAre
    <2>2. P # {}
      BY <1>4, <2>1
    <2>3. \A n \in P : WorkerKinds[n] \in D /\ v[n] = <<need(WorkerKinds[n]), 1>>
      BY DEF Whole
    <2> HIDE DEF P, v
    <2>4. \A n \in P : v[n] \in Fraction
      <3> TAKE n \in P
      <3> DEFINE a == need(WorkerKinds[n])
      <3>1. a \in Nat /\ v[n] = <<a, 1>>
        BY <1>1, <2>3
      <3> HIDE DEF a
      <3> QED BY <3>1 DEF Fraction
    <2>5. PICK n \in P : \A k \in P : ~Less(v[n], v[k])
      <3>1. 3 \in Nat
        OBVIOUS
      <3> QED BY <2>1, <2>2, <2>4, <3>1, MostExists
    <2>6. \A k \in P : need(WorkerKinds[k]) <= need(WorkerKinds[n])
      <3> TAKE k \in P
      <3> DEFINE a == need(WorkerKinds[k])  b == need(WorkerKinds[n])
      <3>1. a \in Nat /\ b \in Nat
        BY <1>1, <2>3
      <3>2. ~(b * 1 < a * 1)
        BY <2>3, <2>5 DEF Less
      <3> HIDE DEF a, b
      <3>3. a <= b
        BY <3>1, <3>2
      <3> QED BY <3>3 DEF a, b
    <2>7. need(WorkerKinds[n]) \in needs
      BY <1>6, <2>3
    <2>8. \A y \in needs : y <= need(WorkerKinds[n])
      BY <1>6, <2>1, <2>6
    <2> QED BY <2>7, <2>8
  <1>8. Max(needs) \in needs /\ \A y \in needs : y <= Max(needs)
    <2>1. needs \in SUBSET Int
      BY <1>6
    <2> QED BY <1>7, <2>1, MaxIs
  <1> DEFINE top == Max(needs)
  <1>9. Less(Whole(w), recommended.value) <=> w < top
    <2>1. top \in Nat
      BY <1>6, <1>8
    <2> HIDE DEF top
    <2>2. w * 1 < top * 1 <=> w < top
      BY <2>1
    <2> QED BY <1>5, <2>2 DEF Less, Whole, top
  <1>10. w < top <=> \E y \in needs : w < y
    BY <1>6, <1>8
  <1> HIDE DEF top
  <1>11. (\E y \in needs : w < y) <=> \E k \in D : Asks(jobs, w, units[k])
    BY <1>1, <1>6
  <1> QED BY <1>9, <1>10, <1>11 DEF recommended

\* The proxies needed are what the most demanding constraint takes.
LEMMA NeedIs ==
  ASSUME CapacityAssumption, NEW units, \A k \in DOMAIN units : Quantity(units[k]),
         NEW jobs \in Nat
  PROVE  LET raw == [k \in ToSet(ProxyKinds) |-> RequiredUnits(jobs, units, k)]
             need == ProxyNeed(raw)
             known == {k \in ToSet(ProxyKinds) : raw[k].computable}
         IN  /\ \A k \in known : k \in DOMAIN units /\ raw[k] = RequiredRawUnits(jobs, units[k])
             /\ \A k \in known : Quantity(raw[k])
             /\ Quantity(need.required) /\ (need.required.computable <=> known # {})
             /\ known # {} => \E k \in known : /\ need.required = raw[k]
                                               /\ \A j \in known : AtMost(raw[j].value, raw[k].value)
  <1> DEFINE raw == [k \in ToSet(ProxyKinds) |-> RequiredUnits(jobs, units, k)]
             need == ProxyNeed(raw)
             known == {k \in ToSet(ProxyKinds) : raw[k].computable}
             N == {n \in DOMAIN ProxyKinds : raw[ProxyKinds[n]].computable}
             none == NotComputable({LimitOf[k] : k \in ToSet(ProxyKinds)})
  <1>1. \A k \in ToSet(ProxyKinds) :
          raw[k] = IF k \notin DOMAIN units THEN NotComputable({LimitOf[k]})
                   ELSE RequiredRawUnits(jobs, units[k])
    BY DEF RequiredUnits
  <1>2. need.required = IF N = {} THEN none ELSE raw[ProxyKinds[Most(raw, N)]]
    BY DEF ProxyNeed
  <1> HIDE DEF raw, need
  <1>3. \A k \in ToSet(ProxyKinds) :
          Quantity(raw[k]) /\ (k \notin DOMAIN units => raw[k].computable = FALSE)
    <2> TAKE k \in ToSet(ProxyKinds)
    <2>1. CASE k \notin DOMAIN units
      <3>1. raw[k] = NotComputable({LimitOf[k]})
        BY <1>1, <2>1
      <3> QED BY <2>1, <3>1 DEF NotComputable, Quantity
    <2>2. CASE k \in DOMAIN units
      <3>1. raw[k] = RequiredRawUnits(jobs, units[k]) /\ Quantity(units[k])
        BY <1>1, <2>2
      <3>2. Quantity(RequiredRawUnits(jobs, units[k]))
        BY <3>1, RawIs
      <3> QED BY <2>2, <3>1, <3>2
    <2> QED BY <2>1, <2>2
  <1>4. \A k \in known : /\ k \in DOMAIN units /\ raw[k] = RequiredRawUnits(jobs, units[k])
                         /\ Quantity(raw[k]) /\ raw[k].value \in Amounts
    BY <1>1, <1>3 DEF Quantity
  <1>5. /\ N \in SUBSET (1..3) /\ \A n \in N : ProxyKinds[n] \in known
        /\ \A k \in known : \E n \in N : k = ProxyKinds[n]
    <2>1. DOMAIN ProxyKinds = 1..3 /\ ToSet(ProxyKinds) = {ProxyKinds[n] : n \in 1..3}
      <3>1. 1..3 = {1, 2, 3}
        OBVIOUS
      <3> QED BY <3>1, KindsAre
    <2> QED BY <2>1
  <1> HIDE DEF N, known
  <1>6. CASE known = {}
    <2>1. N = {}
      BY <1>5, <1>6
    <2>2. need.required = none
      BY <1>2, <2>1
    <2>3. need.required.computable = FALSE
      BY <2>2 DEF NotComputable
    <2>4. Quantity(need.required)
      BY <2>3 DEF Quantity
    <2> QED BY <1>4, <1>6, <2>3, <2>4 DEF raw, need, known
  <1>7. CASE known # {}
    <2>1. N # {}
      BY <1>5, <1>7
    <2> DEFINE v == [n \in N |-> raw[ProxyKinds[n]].value]
               n == Most(raw, N)
    <2>2. \A k \in N : v[k] = raw[ProxyKinds[k]].value /\ v[k] \in Fraction
      BY <1>4, <1>5 DEF Amounts, Fraction
    <2> HIDE DEF v
    <2>3. \E k \in N : /\ \A j \in N : ~Less(v[k], v[j])
                       /\ \A j \in N : j < k => Less(v[j], v[k])
      <3>1. 3 \in Nat
        OBVIOUS
      <3> QED BY <1>5, <2>1, <2>2, <3>1, MostExists
    <2>4. \E k \in N : /\ \A j \in N : ~Less(raw[ProxyKinds[k]].value, raw[ProxyKinds[j]].value)
                       /\ \A j \in N : j < k => Less(raw[ProxyKinds[j]].value, raw[ProxyKinds[k]].value)
      BY <2>2, <2>3
    <2>5. n \in N /\ \A j \in N : ~Less(raw[ProxyKinds[n]].value, raw[ProxyKinds[j]].value)
      BY <2>4 DEF Most
    <2> HIDE DEF n
    <2> DEFINE k == ProxyKinds[n]
    <2>6. k \in known /\ need.required = raw[k]
      BY <1>2, <1>5, <2>1, <2>5 DEF n
    <2>7. \A j \in known : AtMost(raw[j].value, raw[k].value)
      BY <1>5, <2>5 DEF AtMost
    <2> HIDE DEF k
    <2>8. /\ Quantity(need.required) /\ need.required.computable
          /\ \E x \in known : /\ need.required = raw[x]
                              /\ \A j \in known : AtMost(raw[j].value, raw[x].value)
      BY <1>4, <2>6, <2>7 DEF known
    <2> QED BY <1>4, <1>7, <2>8 DEF raw, need, known
  <1> QED BY <1>6, <1>7

\* They are more than some proxies when the jobs ask for more by one of the
\* constraints.
LEMMA ProxiesAre ==
  ASSUME CapacityAssumption, NEW units, Sized(units), NEW jobs \in Nat
  PROVE  LET need == ProxyNeed([k \in ToSet(ProxyKinds) |-> RequiredUnits(jobs, units, k)])
             known == {k \in ToSet(ProxyKinds) \cap DOMAIN units : units[k].computable}
         IN  /\ need.required.computable <=> known # {}
             /\ need.required.computable =>
                  \A c \in Nat : c < Ceil(need.required.value)
                                   <=> \E k \in known : Asks(jobs, c, units[k])
  <1> DEFINE raw == [k \in ToSet(ProxyKinds) |-> RequiredUnits(jobs, units, k)]
             need == ProxyNeed(raw)
             some == {k \in ToSet(ProxyKinds) : raw[k].computable}
             known == {k \in ToSet(ProxyKinds) \cap DOMAIN units : units[k].computable}
  <1>1. /\ \A k \in some : k \in DOMAIN units /\ raw[k] = RequiredRawUnits(jobs, units[k])
        /\ \A k \in some : Quantity(raw[k])
        /\ Quantity(need.required) /\ (need.required.computable <=> some # {})
        /\ some # {} => \E k \in some : /\ need.required = raw[k]
                                        /\ \A j \in some : AtMost(raw[j].value, raw[k].value)
    BY NeedIs DEF Sized
  <1>2. \A k \in known : raw[k] = RequiredRawUnits(jobs, units[k])
    BY DEF RequiredUnits
  <1> HIDE DEF raw, need
  <1>3. \A k \in ToSet(ProxyKinds) \cap DOMAIN units :
          LET asked == RequiredRawUnits(jobs, units[k])
          IN  /\ asked.computable => units[k].computable
              /\ units[k].computable => asked.computable /\ Quantity(asked)
    BY RawIs DEF Sized
  <1>4. some = known
    <2>1. \A k \in some : k \in known
      BY <1>1, <1>3
    <2>2. \A k \in known : k \in some
      BY <1>2, <1>3
    <2> QED BY <2>1, <2>2
  <1>5. \A k \in known : /\ Quantity(raw[k]) /\ raw[k].computable
                         /\ \A c \in Nat : c < Ceil(raw[k].value) <=> Asks(jobs, c, units[k])
    BY <1>2, <1>3 DEF Asks
  <1> HIDE DEF some, known
  <1>6. ASSUME known # {}, NEW c \in Nat
        PROVE  c < Ceil(need.required.value) <=> \E k \in known : Asks(jobs, c, units[k])
    <2>1. PICK k \in known : /\ need.required = raw[k]
                             /\ \A j \in known : AtMost(raw[j].value, raw[k].value)
      BY <1>1, <1>4, <1>6
    <2>2. \A j \in known : raw[j].value \in Amounts
      BY <1>5 DEF Quantity
    <2>3. ASSUME NEW j \in known, c < Ceil(raw[j].value) PROVE c < Ceil(raw[k].value)
      <3> DEFINE a == raw[j].value  b == raw[k].value
      <3>1. a \in Amounts /\ b \in Amounts /\ AtMost(a, b)
        BY <2>1, <2>2
      <3> HIDE DEF a, b
      <3>2. Whole(c) \in Fraction /\ a \in Fraction /\ b \in Fraction
        BY <3>1 DEF Whole, Fraction, Amounts
      <3>3. \A x \in Amounts : Less(Whole(c), x) <=> c < Ceil(x)
        <4> TAKE x \in Amounts
        <4>1. c < Ceil(x) <=> c * x[2] < x[1]
          BY LessThanCeil
        <4>2. x[1] * 1 = x[1]
          BY DEF Amounts
        <4> QED BY <4>1, <4>2 DEF Less, Whole
      <3>4. Less(Whole(c), b)
        <4>1. Less(Whole(c), a)
          BY <2>3, <3>1, <3>3 DEF a
        <4> QED BY <3>1, <3>2, <4>1, AtMostLess
      <3> QED BY <3>1, <3>3, <3>4 DEF b
    <2>4. c < Ceil(raw[k].value) <=> \E j \in known : c < Ceil(raw[j].value)
      BY <2>3
    <2> QED BY <1>5, <2>1, <2>4
  <1> QED BY <1>1, <1>4, <1>6 DEF need, raw, known

-----------------------------------------------------------------------------
(* The workload.                                                              *)

\* The jobs are more than a capacity, and less than it, by more than is tolerated.
Beyond(c, jobs) == c[1] * (Tolerance + 1) < jobs * c[2] * Tolerance
Below(c, jobs) == jobs * c[2] * Tolerance < c[1] * (Tolerance - 1)

\* Over capacity and within it, the demand is more than the tolerance away.
LEMMA StatusIs ==
  ASSUME CapacityAssumption, NEW jobs \in Nat, NEW m, m.computable, m.value \in Amounts
  PROVE  /\ CapacityStatus(jobs, m) = "over-capacity" => Beyond(m.value, jobs)
         /\ CapacityStatus(jobs, m) = "within-capacity" => Below(m.value, jobs)
  <1> DEFINE c == m.value  a == c[1]  b == c[2]  T == Tolerance  J == Whole(jobs)
             s == CapacityStatus(jobs, m)
             near == ~Less(Tolerated(c), Gap(J, c))
  <1>1. a \in Nat /\ b \in Nat \ {0} /\ T \in Nat \ {0}
    BY DEF Amounts, CapacityAssumption
  <1>2. s = IF near THEN "at-capacity"
            ELSE IF Less(c, J) THEN "over-capacity" ELSE "within-capacity"
    BY DEF CapacityStatus
  <1>3. Less(c, J) <=> a < jobs * b
    BY <1>1 DEF Less, Whole
  <1>4. Less(J, c) <=> jobs * b < a
    BY <1>1 DEF Less, Whole
  <1>5. /\ Tolerated(c) = IF a * 1 < 1 * b THEN <<1, T>> ELSE <<a * 1, b * T>>
        /\ Gap(J, c) = IF jobs * b < a * 1 THEN <<a * 1 - jobs * b, b * 1>>
                       ELSE <<jobs * b - a * 1, 1 * b>>
    BY DEF Tolerated, Gap, Less, Whole, **, --
  <1> DEFINE gap == IF jobs * b < a THEN a - jobs * b ELSE jobs * b - a
  <1>6. Gap(J, c) = <<gap, b>>
    <2>1. a * 1 = a /\ b * 1 = b /\ 1 * b = b
      BY <1>1
    <2> HIDE DEF a, b
    <2> QED BY <1>5, <2>1
  <1> HIDE DEF c, J, near, s
  <1>7. ~near => a < gap * T
    <2>1. gap \in Int
      BY <1>1
    <2> HIDE DEF gap, a, b, T
    <2>2. ASSUME ~near, a * 1 < 1 * b PROVE a < gap * T
      <3>1. 1 * b < gap * T
        BY <1>5, <1>6, <2>2 DEF near, Less
      <3> QED BY <1>1, <2>1, <2>2, <3>1
    <2>3. ASSUME ~near, ~(a * 1 < 1 * b) PROVE a < gap * T
      <3>1. (a * 1) * b < gap * (b * T)
        BY <1>5, <1>6, <2>3 DEF near, Less
      <3>2. (a * 1) * b = a * b /\ gap * (b * T) = (gap * T) * b /\ gap * T \in Int
        BY <1>1, <2>1
      <3> QED BY <1>1, <3>1, <3>2, Cancels
    <2> QED BY <2>2, <2>3
  <1>8. ASSUME s = "over-capacity" PROVE a * (T + 1) < jobs * b * T
    <2>1. ~near /\ a < jobs * b
      BY <1>2, <1>3, <1>8
    <2>2. a < (jobs * b - a) * T
      BY <1>1, <1>7, <2>1
    <2>3. (jobs * b - a) * T = jobs * b * T - a * T /\ a * (T + 1) = a * T + a
      BY <1>1
    <2> QED BY <1>1, <2>2, <2>3
  <1>9. ASSUME s = "within-capacity" PROVE jobs * b * T < a * (T - 1)
    <2>1. ~near /\ ~(a < jobs * b)
      BY <1>2, <1>3, <1>9
    <2>2. a < (a - jobs * b) * T
      <3>1. CASE jobs * b < a
        BY <1>7, <2>1, <3>1
      <3>2. CASE ~(jobs * b < a)
        <4>1. jobs * b = a
          BY <1>1, <2>1, <3>2
        <4> QED BY <1>1, <1>7, <2>1, <4>1
      <3> QED BY <3>1, <3>2
    <2>3. (a - jobs * b) * T = a * T - jobs * b * T /\ a * (T - 1) = a * T - a
      BY <1>1
    <2> QED BY <1>1, <2>2, <2>3
  <1> QED BY <1>8, <1>9 DEF Beyond, Below, a, b, c, T, s
\* Scaled to a number of them, a unit that carries less than the jobs, by more
\* than is tolerated, is strained; and one that may be strained carries no more
\* than the jobs by as much.
LEMMA ScaleIs ==
  ASSUME CapacityAssumption, NEW unit, Quantity(unit), NEW count \in Nat, NEW jobs \in Nat
  PROVE  LET scaled == ScaleCapacity(unit, count)
         IN  /\ Quantity(scaled) /\ (scaled.computable <=> count = 0 \/ unit.computable)
             /\ scaled.computable =>
                  /\ Beyond(scaled.value, jobs)
                       => IF count = 0 THEN jobs > 0 ELSE Strains(jobs, count, unit)
                  /\ Below(scaled.value, jobs) => count # 0 /\ ~MayStrain(jobs, count, unit)
  <1> DEFINE scaled == ScaleCapacity(unit, count)
             T == Tolerance  P == Precision  D == Drift
  <1>0. /\ T \in Nat \ {0} /\ P \in Nat \ {0} /\ D \in Nat
        /\ P - D \in Nat \ {0} /\ P + D \in Nat \ {0} /\ T - 1 \in Nat
        /\ T * P * P <= (T + 1) * (P - D) * (P - D)
        /\ (T - 1) * (P + D) * (P + D) <= T * P * P
    BY TwoErrors
  <1>1. CASE count = 0
    <2>1. scaled = Computed(<<0, 1>>)
      BY <1>1 DEF ScaleCapacity, Whole
    <2>2. <<0, 1>> \in Amounts
      BY DEF Amounts
    <2>3. scaled.computable = TRUE /\ scaled.value = <<0, 1>>
      BY <2>1 DEF Computed
    <2> HIDE DEF scaled
    <2>4. Beyond(scaled.value, jobs) => jobs > 0
      BY <1>0, <2>3 DEF Beyond
    <2>5. ~Below(scaled.value, jobs)
      BY <1>0, <2>3 DEF Below
    <2> QED BY <1>1, <2>2, <2>3, <2>4, <2>5 DEF Quantity, scaled
  <1>2. CASE count # 0 /\ ~unit.computable
    <2>1. scaled = unit
      BY <1>2 DEF ScaleCapacity, Lift
    <2> QED BY <1>2, <2>1
  <1>3. CASE count # 0 /\ unit.computable
    <2> DEFINE p == unit.value[1]  q == unit.value[2]  r == <<p * count, q * 1>>
    <2>1. scaled = Computed(Rounded("capacity", r))
      BY <1>3 DEF ScaleCapacity, Lift, Whole, **
    <2>2. p \in Nat /\ q \in Nat \ {0}
      BY <1>3 DEF Quantity, Amounts
    <2> HIDE DEF p, q
    <2>3. r[1] = p * count /\ r[2] = q /\ p * count = count * p /\ count * p \in Nat
      BY <2>2
    <2> HIDE DEF r
    <2>4. PICK e \in P - D .. P + D :
             e \in Nat \ {0} /\ Rounded("capacity", r) = <<r[1] * e, r[2] * P>>
      BY RoundedIs
    <2> DEFINE A == count * p  v == <<A * e, q * P>>
    <2>5. scaled.computable = TRUE /\ scaled.value = v
      BY <2>1, <2>3, <2>4 DEF Computed
    <2>6. A \in Nat /\ v \in Amounts /\ v[1] = A * e /\ v[2] = q * P
      BY <1>0, <2>2, <2>4 DEF Amounts
    <2> DEFINE B == jobs * q
    <2>7. /\ Strains(jobs, count, unit) <=> A * P < B * (P - D)
          /\ MayStrain(jobs, count, unit) <=> A * P < B * (P + D)
      BY DEF Strains, MayStrain, p, q
    <2>8. B \in Nat
      BY <2>2
    <2> HIDE DEF v, A, scaled
    <2>9. /\ Beyond(v, jobs) <=> (A * e) * (T + 1) < jobs * (q * P) * T
          /\ Below(v, jobs) <=> jobs * (q * P) * T < (A * e) * (T - 1)
      BY <2>6 DEF Beyond, Below
    <2>10. jobs * (q * P) * T = B * P * T
      BY <1>0, <2>2
    <2> HIDE DEF B
    <2>11. A * (P - D) <= A * e /\ A * e <= A * (P + D)
      <3>1. P - D <= e /\ e <= P + D /\ P - D \in Int /\ P + D \in Int
        BY <1>0, <2>4
      <3> QED BY <2>4, <2>6, <3>1
    <2>12. ASSUME Beyond(v, jobs) PROVE A * P < B * (P - D)
      <3> DEFINE L == P - D
      <3> HIDE DEF L, T, P, D
      <3>1. L \in Nat \ {0} /\ T * P * P <= (T + 1) * L * L /\ A * L <= A * e
        BY <1>0, <2>11 DEF L
      <3>2. (A * L) * (T + 1) <= (A * e) * (T + 1)
        BY <1>0, <2>4, <2>6, <3>1
      <3>3. (A * L) * (T + 1) < B * P * T
        <4>1. (A * L) * (T + 1) \in Int /\ (A * e) * (T + 1) \in Int /\ B * P * T \in Int
          BY <1>0, <2>4, <2>6, <2>8, <3>1
        <4> QED BY <2>9, <2>10, <2>12, <3>2, <4>1
      <3>4. ((A * L) * (T + 1)) * L < (B * P * T) * L
        <4>1. (A * L) * (T + 1) \in Int /\ B * P * T \in Int
          BY <1>0, <2>6, <2>8, <3>1
        <4> QED BY <3>1, <3>3, <4>1, Cancels
      <3>5. A * (T * P * P) <= A * ((T + 1) * L * L)
        <4> DEFINE x == T * P * P  y == (T + 1) * L * L
        <4>1. x \in Int /\ y \in Int /\ x <= y
          BY <1>0, <3>1
        <4> HIDE DEF x, y
        <4>2. A * x <= A * y
          BY <2>6, <4>1
        <4> QED BY <4>2 DEF x, y
      <3>6. /\ A * ((T + 1) * L * L) = ((A * L) * (T + 1)) * L
            /\ A * (T * P * P) = (A * P) * (T * P)
            /\ (B * P * T) * L = (B * L) * (T * P)
        BY <1>0, <2>6, <2>8, <3>1
      <3>7. (A * P) * (T * P) < (B * L) * (T * P)
        <4>1. (A * P) * (T * P) \in Int /\ (B * L) * (T * P) \in Int /\ ((A * L) * (T + 1)) * L \in Int
          BY <1>0, <2>6, <2>8, <3>1
        <4> QED BY <3>4, <3>5, <3>6, <4>1
      <3>8. A * P \in Int /\ B * L \in Int /\ T * P \in Nat \ {0}
        BY <1>0, <2>6, <2>8, <3>1
      <3> QED BY <3>7, <3>8, Cancels DEF L
    <2>13. ASSUME Below(v, jobs), A * P < B * (P + D) PROVE FALSE
      <3> DEFINE U == P + D  S == T - 1
      <3> HIDE DEF U, S, T, P, D
      <3>1. /\ U \in Nat \ {0} /\ S \in Nat /\ S * U * U <= T * P * P
            /\ A * e <= A * U /\ A * P < B * U
        BY <1>0, <2>11, <2>13 DEF U, S
      <3>2. (A * e) * S <= (A * U) * S
        BY <2>4, <2>6, <3>1
      <3>3. B * P * T < (A * U) * S
        <4>1. (A * e) * S \in Int /\ (A * U) * S \in Int /\ B * P * T \in Int
          BY <1>0, <2>4, <2>6, <2>8, <3>1
        <4> QED BY <2>9, <2>10, <2>13, <3>2, <4>1 DEF S
      <3>4. (B * P * T) * P < ((A * U) * S) * P
        <4>1. (A * U) * S \in Int /\ B * P * T \in Int
          BY <1>0, <2>6, <2>8, <3>1
        <4> QED BY <1>0, <3>3, <4>1, Cancels
      <3>5. (A * P) * (U * S) <= (B * U) * (U * S)
        <4> DEFINE x == A * P  y == B * U  z == U * S
        <4>1. x \in Int /\ y \in Int /\ x <= y /\ z \in Nat
          BY <1>0, <2>6, <2>8, <3>1
        <4> HIDE DEF x, y, z
        <4>2. x * z <= y * z
          BY <4>1
        <4> QED BY <4>2 DEF x, y, z
      <3>6. B * (S * U * U) <= B * (T * P * P)
        <4> DEFINE x == S * U * U  y == T * P * P
        <4>1. x \in Int /\ y \in Int /\ x <= y
          BY <1>0, <3>1
        <4> HIDE DEF x, y
        <4>2. B * x <= B * y
          BY <2>8, <4>1
        <4> QED BY <4>2 DEF x, y
      <3>7. /\ ((A * U) * S) * P = (A * P) * (U * S)
            /\ (B * U) * (U * S) = B * (S * U * U)
            /\ B * (T * P * P) = (B * P * T) * P
        BY <1>0, <2>6, <2>8, <3>1
      <3>8. /\ (A * P) * (U * S) \in Int /\ B * (S * U * U) \in Int /\ (B * P * T) * P \in Int
        BY <1>0, <2>6, <2>8, <3>1
      <3> QED BY <3>4, <3>5, <3>6, <3>7, <3>8
    <2>14. Beyond(v, jobs) => Strains(jobs, count, unit)
      BY <2>7, <2>12
    <2>15. Below(v, jobs) => ~MayStrain(jobs, count, unit)
      BY <2>7, <2>13
    <2> QED BY <1>3, <2>5, <2>6, <2>14, <2>15 DEF Quantity, scaled
  <1> QED BY <1>1, <1>2, <1>3
\* What is more than a capacity below the demand is below it too.
LEMMA BelowRises ==
  ASSUME CapacityAssumption, NEW a \in Amounts, NEW b \in Amounts, NEW jobs \in Nat,
         ~Less(b, a), Below(a, jobs)
  PROVE  Below(b, jobs)
  <1> DEFINE p == a[1]  q == a[2]  u == b[1]  v == b[2]  T == Tolerance  S == Tolerance - 1
  <1>1. /\ p \in Nat /\ u \in Nat /\ q \in Nat \ {0} /\ v \in Nat \ {0}
        /\ T \in Nat \ {0} /\ S \in Nat
    BY TwoErrors DEF Amounts
  <1>2. p * v <= u * q
    <2>1. ~(u * q < p * v)
      BY DEF Less
    <2> QED BY <1>1, <2>1
  <1>3. jobs * q * T < p * S
    BY DEF Below
  <1> HIDE DEF p, q, u, v, T, S
  <1>4. (jobs * q * T) * v < (p * S) * v
    <2>1. jobs * q * T \in Int /\ p * S \in Int
      BY <1>1
    <2> QED BY <1>1, <1>3, <2>1, Cancels
  <1>5. (p * v) * S <= (u * q) * S
    <2>1. p * v \in Int /\ u * q \in Int
      BY <1>1
    <2> DEFINE x == p * v  y == u * q
    <2> HIDE DEF x, y
    <2>2. x \in Int /\ y \in Int /\ x <= y => x * S <= y * S
      BY <1>1
    <2> QED BY <1>2, <2>1, <2>2 DEF x, y
  <1>6. /\ (p * S) * v = (p * v) * S /\ (u * q) * S = (u * S) * q
        /\ (jobs * q * T) * v = (jobs * v * T) * q
    BY <1>1
  <1>7. jobs * v * T \in Int /\ u * S \in Int /\ (p * v) * S \in Int
    BY <1>1
  <1>8. (jobs * v * T) * q < (u * S) * q
    <2>1. (jobs * v * T) * q \in Int /\ (u * S) * q \in Int
      BY <1>1
    <2> QED BY <1>4, <1>5, <1>6, <1>7, <2>1
  <1>9. jobs * v * T < u * S
    BY <1>1, <1>7, <1>8, Cancels
  <1> QED BY <1>9 DEF Below, u, v, T, S

\* Demand over capacity strains the workers or the proxies by one of the
\* constraints that apply, and demand within it strains none of them.
LEMMA WorkloadIs ==
  ASSUME CapacityAssumption, NEW in, in.workers \in Nat \ {0}, in.proxyPoolSize \in Nat, NEW cohorts, NEW jobs \in Nat,
         NEW units, Sized(units),
         CalculateCapacityWorkload(in, cohorts, jobs, units).sustainableJobsPerDay.computable
  PROVE  LET W == ToSet(WorkerKinds) \cap DOMAIN units
             P == ToSet(ProxyKinds) \cap DOMAIN units
         IN  /\ \A k \in W : units[k].computable
             /\ in.proxyPoolSize > 0 => \A k \in P : units[k].computable
             /\ CalculateCapacityWorkload(in, cohorts, jobs, units).status = "over-capacity"
                  => \/ \E k \in W : Strains(jobs, in.workers, units[k])
                     \/ \E k \in P : IF in.proxyPoolSize = 0 THEN jobs > 0
                                     ELSE Strains(jobs, in.proxyPoolSize, units[k])
             /\ CalculateCapacityWorkload(in, cohorts, jobs, units).status = "within-capacity"
                  => /\ \A k \in W : ~MayStrain(jobs, in.workers, units[k])
                     /\ \A k \in P : /\ in.proxyPoolSize # 0
                                     /\ ~MayStrain(jobs, in.proxyPoolSize, units[k])
  <1> DEFINE W == ToSet(WorkerKinds) \cap DOMAIN units
             P == ToSet(ProxyKinds) \cap DOMAIN units
             count(n) == IF n \in DOMAIN WorkerKinds THEN in.workers ELSE in.proxyPoolSize
             N == {k \in DOMAIN Kinds : Kinds[k] \in DOMAIN units}
             scaled == [n \in N |-> ScaleCapacity(units[Kinds[n]], count(n))]
             r == CalculateCapacityWorkload(in, cohorts, jobs, units)
             unavailable == {n \in DOMAIN scaled : ~scaled[n].computable}
             missing == NotComputable(UNION {scaled[n].missing : n \in unavailable})
  <1>1. r = WorkloadOf(cohorts, jobs, scaled)
    BY DEF CalculateCapacityWorkload
  <1>2. DOMAIN scaled = N /\ \A n \in N : scaled[n] = ScaleCapacity(units[Kinds[n]], count(n))
    OBVIOUS
  <1>3. /\ N \in SUBSET (1..6) /\ \A n \in N : Kinds[n] \in DOMAIN units /\ count(n) \in Nat
        /\ \A n \in N : n \in {1, 2, 3} => Kinds[n] \in W /\ count(n) = in.workers
        /\ \A n \in N : n \notin {1, 2, 3} => Kinds[n] \in P /\ count(n) = in.proxyPoolSize
        /\ \A k \in W : \E n \in N : n \in {1, 2, 3} /\ k = Kinds[n]
        /\ \A k \in P : \E n \in N : n \notin {1, 2, 3} /\ k = Kinds[n]
    <2>1. /\ DOMAIN WorkerKinds = {1, 2, 3} /\ DOMAIN Kinds = 1..6
          /\ \A n \in {1, 2, 3} : Kinds[n] = WorkerKinds[n] /\ Kinds[n + 3] = ProxyKinds[n]
          /\ ToSet(WorkerKinds) = {WorkerKinds[n] : n \in {1, 2, 3}}
          /\ ToSet(ProxyKinds) = {ProxyKinds[n] : n \in {1, 2, 3}}
      BY KindsAre
    <2>2. \A n \in 1..6 : n \notin {1, 2, 3} => n - 3 \in {1, 2, 3} /\ n - 3 + 3 = n
      OBVIOUS
    <2>3. \A n \in {1, 2, 3} : n \in 1..6 /\ n + 3 \in 1..6 /\ n + 3 \notin {1, 2, 3}
      OBVIOUS
    <2>4. /\ \A n \in N : n \in {1, 2, 3} => Kinds[n] \in W
          /\ \A k \in W : \E n \in N : n \in {1, 2, 3} /\ k = Kinds[n]
      BY <2>1, <2>3
    <2>5. /\ \A n \in N : n \notin {1, 2, 3} => Kinds[n] \in P
          /\ \A k \in P : \E n \in N : n \notin {1, 2, 3} /\ k = Kinds[n]
      <3>1. ASSUME NEW n \in N, n \notin {1, 2, 3} PROVE Kinds[n] \in P
        <4>1. Kinds[n - 3 + 3] = ProxyKinds[n - 3] /\ n - 3 + 3 = n /\ n - 3 \in {1, 2, 3}
          BY <2>1, <2>2, <3>1
        <4>2. Kinds[n] = ProxyKinds[n - 3]
          BY <4>1
        <4> QED BY <2>1, <4>1, <4>2
      <3>2. ASSUME NEW k \in P PROVE \E n \in N : n \notin {1, 2, 3} /\ k = Kinds[n]
        <4>1. PICK m \in {1, 2, 3} : k = ProxyKinds[m]
          BY <2>1
        <4>2. Kinds[m + 3] = k /\ m + 3 \in 1..6 /\ m + 3 \notin {1, 2, 3}
          BY <2>1, <2>3, <4>1
        <4>3. m + 3 \in N
          BY <2>1, <4>2
        <4> QED BY <4>2, <4>3
      <3> QED BY <3>1, <3>2
    <2>6. \A n \in N : /\ n \in 1..6 /\ Kinds[n] \in DOMAIN units /\ count(n) \in Nat
                       /\ (n \in {1, 2, 3} => count(n) = in.workers)
                       /\ (n \notin {1, 2, 3} => count(n) = in.proxyPoolSize)
      BY <2>1
    <2> QED BY <2>4, <2>5, <2>6
  <1> HIDE DEF N, count, scaled, W, P, r
  <1>4. \A n \in N :
          /\ Quantity(scaled[n])
          /\ scaled[n].computable <=> count(n) = 0 \/ units[Kinds[n]].computable
          /\ scaled[n].computable =>
               /\ Beyond(scaled[n].value, jobs)
                    => IF count(n) = 0 THEN jobs > 0 ELSE Strains(jobs, count(n), units[Kinds[n]])
               /\ Below(scaled[n].value, jobs)
                    => count(n) # 0 /\ ~MayStrain(jobs, count(n), units[Kinds[n]])
    BY <1>2, <1>3, ScaleIs DEF Sized
  <1>5. unavailable = {}
    <2>1. SUFFICES ASSUME unavailable # {} PROVE FALSE
      OBVIOUS
    <2>2. r = Workload(jobs, missing, Null, missing)
      BY <1>1, <2>1 DEF WorkloadOf
    <2> HIDE DEF missing, unavailable
    <2>3. r.sustainableJobsPerDay = missing
      BY <2>2 DEF Workload
    <2>4. missing.computable = FALSE
      BY DEF missing, NotComputable
    <2> QED BY <2>3, <2>4 DEF r
  <1>6. \A n \in N : scaled[n].computable
    BY <1>2, <1>5
  <1>7. /\ \A k \in W : units[k].computable
        /\ in.proxyPoolSize > 0 => \A k \in P : units[k].computable
    <2>1. \A n \in N : count(n) = 0 \/ units[Kinds[n]].computable
      BY <1>4, <1>6
    <2> QED BY <1>3, <2>1
  <1> DEFINE least == Least(scaled)
  <1>8. r = Workload(jobs, scaled[least], Kinds[least], SubmissionRateFor(cohorts, scaled[least].value))
    BY <1>1, <1>5 DEF WorkloadOf
  <1>9. least \in N /\ \A n \in N : ~Less(scaled[n].value, scaled[least].value)
    <2>1. N # {}
      BY <1>3, KindsAre DEF Sized, W
    <2> DEFINE v == [n \in N |-> scaled[n].value]
    <2>2. \A n \in N : v[n] = scaled[n].value /\ v[n] \in Fraction
      BY <1>4, <1>6 DEF Quantity, Amounts, Fraction
    <2> HIDE DEF v
    <2>3. \E n \in N : /\ \A k \in N : ~Less(v[k], v[n])
                       /\ \A k \in N : k < n => Less(v[n], v[k])
      <3>1. 6 \in Nat
        OBVIOUS
      <3> QED BY <1>3, <2>1, <2>2, <3>1, LeastExists
    <2>4. \E n \in N : /\ \A k \in N : ~Less(scaled[k].value, scaled[n].value)
                       /\ \A k \in N : k < n => Less(scaled[n].value, scaled[k].value)
      BY <2>2, <2>3
    <2> QED BY <1>2, <2>4 DEF Least
  <1> HIDE DEF least
  <1> DEFINE c == scaled[least].value
  <1>10. r.status = CapacityStatus(jobs, scaled[least])
    BY <1>8 DEF Workload
  <1>11. /\ r.status = "over-capacity" => Beyond(c, jobs)
         /\ r.status = "within-capacity" => Below(c, jobs)
    <2>1. scaled[least].computable /\ c \in Amounts
      BY <1>4, <1>6, <1>9 DEF Quantity
    <2> DEFINE m == scaled[least]
    <2>2. m.computable /\ m.value \in Amounts /\ r.status = CapacityStatus(jobs, m)
      BY <1>10, <2>1
    <2> HIDE DEF m
    <2>3. /\ r.status = "over-capacity" => Beyond(m.value, jobs)
          /\ r.status = "within-capacity" => Below(m.value, jobs)
      BY <2>2, StatusIs
    <2> QED BY <2>3 DEF m
  <1>12. ASSUME NEW n \in N, Below(c, jobs) PROVE Below(scaled[n].value, jobs)
    <2> DEFINE v == scaled[n].value
    <2>1. c \in Amounts /\ v \in Amounts /\ ~Less(v, c)
      BY <1>4, <1>6, <1>9 DEF Quantity
    <2> HIDE DEF c, v
    <2> QED BY <1>12, <2>1, BelowRises DEF v
  <1> HIDE DEF c
  <1>13. ASSUME r.status = "over-capacity"
         PROVE  \/ \E k \in W : Strains(jobs, in.workers, units[k])
                \/ \E k \in P : IF in.proxyPoolSize = 0 THEN jobs > 0
                                ELSE Strains(jobs, in.proxyPoolSize, units[k])
    <2>1. IF count(least) = 0 THEN jobs > 0 ELSE Strains(jobs, count(least), units[Kinds[least]])
      BY <1>4, <1>6, <1>9, <1>11, <1>13 DEF c
    <2>2. CASE least \in {1, 2, 3}
      <3>1. Kinds[least] \in W /\ count(least) = in.workers /\ in.workers # 0
        BY <1>3, <1>9, <2>2
      <3> QED BY <2>1, <3>1
    <2>3. CASE least \notin {1, 2, 3}
      <3>1. Kinds[least] \in P /\ count(least) = in.proxyPoolSize
        BY <1>3, <1>9, <2>3
      <3> QED BY <2>1, <3>1
    <2> QED BY <2>2, <2>3
  <1>14. ASSUME r.status = "within-capacity"
         PROVE  /\ \A k \in W : ~MayStrain(jobs, in.workers, units[k])
                /\ \A k \in P : /\ in.proxyPoolSize # 0
                                /\ ~MayStrain(jobs, in.proxyPoolSize, units[k])
    <2>1. \A n \in N : count(n) # 0 /\ ~MayStrain(jobs, count(n), units[Kinds[n]])
      BY <1>4, <1>6, <1>11, <1>12, <1>14
    <2> QED BY <1>3, <2>1
  <1> QED BY <1>7, <1>13, <1>14 DEF r, W, P

-----------------------------------------------------------------------------
(* The warnings.                                                              *)
LEMMA WarningsAre ==
  ASSUME NEW in, NEW cohorts, NEW jobs, NEW traffic, NEW workers, NEW proxy, NEW cost, NEW r
  PROVE  LET findings == BuildFindings(in, cohorts, jobs, traffic, workers, proxy, cost, r)
             average == AverageJobs(in, jobs)
             limit == workers.aggregateHttpLimitPerMinute
             httpRpm == Lift(traffic.adjustedPerDay,
                             LAMBDA x : Rounded("httpRpm", x ** <<1, MinutesPerDay>>))
         IN  /\ (/\ average.computable
                 /\ Less(Whole(workers.aggregateJobConcurrency), average.value))
                  => "concurrency_below_demand" \in findings
             /\ Less(Whole(workers.aggregateJobTargetPerMinute),
                     Rounded("jobsRpm", <<jobs, MinutesPerDay>>))
                  => "admission_below_demand" \in findings
             /\ httpRpm.computable /\ limit.computable /\ Less(limit.value, httpRpm.value)
                  => "egress_below_demand" \in findings
             /\ (/\ proxy.recommendedProxies.computable
                 /\ Less(Whole(in.proxyPoolSize), proxy.recommendedProxies.value))
                  => "proxy_pool_below_demand" \in findings
  BY DEF BuildFindings

\* Demand that strains the workers is warned of.
LEMMA WorkersWarn ==
  ASSUME CapacityAssumption, WellTyped(inputs), NEW r, r.attemptAmplification \in Fraction,
         NEW jobs \in Nat, NEW cohorts, NEW proxy, NEW cost, NEW horizonJobs,
         NEW kind \in ToSet(WorkerKinds) \cap DOMAIN CalculateUnitCapacityConstraints(inputs, r),
         CalculateUnitCapacityConstraints(inputs, r)[kind].computable,
         Strains(jobs, inputs.workers, CalculateUnitCapacityConstraints(inputs, r)[kind])
  PROVE  LET units == CalculateUnitCapacityConstraints(inputs, r)
             traffic == CalculateTraffic(inputs, jobs, horizonJobs, r)
             workers == CalculateWorkers(inputs, jobs, units)
         IN  {"concurrency_below_demand", "admission_below_demand", "egress_below_demand"}
               \cap BuildFindings(inputs, cohorts, jobs, traffic, workers, proxy, cost, r) # {}
  <1> DEFINE units == CalculateUnitCapacityConstraints(inputs, r)
             requests == By(Given(inputs.requestsPerJob, "requestsPerJob"), r.attemptAmplification)
             traffic == CalculateTraffic(inputs, jobs, horizonJobs, r)
             workers == CalculateWorkers(inputs, jobs, units)
             findings == BuildFindings(inputs, cohorts, jobs, traffic, workers, proxy, cost, r)
             average == AverageJobs(inputs, jobs)
             limit == workers.aggregateHttpLimitPerMinute
             perDay == traffic.adjustedPerDay
             httpRpm == Lift(perDay, LAMBDA x : Rounded("httpRpm", x ** <<1, MinutesPerDay>>))
             jobsRpm == Rounded("jobsRpm", <<jobs, MinutesPerDay>>)
             w == inputs.workers
             a == r.attemptAmplification[1]
             b == r.attemptAmplification[2]
             P == Precision
             L == Precision - Drift
             errors == Precision - Drift .. Precision + Drift
  <1>1. /\ w \in Nat /\ inputs.concurrencyPerWorker \in Nat /\ inputs.targetJobsPerMinute \in Nat
        /\ MsPerDay \in Nat \ {0} /\ MinutesPerDay \in Nat \ {0} /\ a \in Int /\ b \in Nat \ {0}
        /\ P \in Nat \ {0} /\ L \in Nat \ {0}
    BY TwoErrors DEF WellTyped, Required, CapacityAssumption, Fraction
  <1>2. units[kind].computable /\ Strains(jobs, w, units[kind]) /\ kind \in DOMAIN units
    OBVIOUS
  <1>3. kind \in {"workerConcurrency", "workerJobTarget", "workerHttpEgress"}
    BY KindsAre
  <1>4. /\ units["workerConcurrency"] = FromConcurrency(inputs.concurrencyPerWorker, inputs)
        /\ units["workerJobTarget"] = Computed(Whole(inputs.targetJobsPerMinute * MinutesPerDay))
        /\ "workerHttpEgress" \in DOMAIN units
             => /\ inputs.httpRpmPerHost \in Nat /\ inputs.httpRpmPerHost # Null
                /\ units["workerHttpEgress"] = FromHttpRpm(inputs.httpRpmPerHost, requests)
    BY UnitsAre
  <1>5. /\ average.computable /\ Less(Whole(workers.aggregateJobConcurrency), average.value)
             => "concurrency_below_demand" \in findings
        /\ Less(Whole(workers.aggregateJobTargetPerMinute), jobsRpm)
             => "admission_below_demand" \in findings
        /\ httpRpm.computable /\ limit.computable /\ Less(limit.value, httpRpm.value)
             => "egress_below_demand" \in findings
    <2> HIDE DEF traffic, workers
    <2> QED BY WarningsAre
  <1>6. /\ workers.aggregateJobConcurrency = w * inputs.concurrencyPerWorker
        /\ workers.aggregateJobTargetPerMinute = w * inputs.targetJobsPerMinute
        /\ limit = By(Given(inputs.httpRpmPerHost, "httpRpmPerHost"), Whole(w))
    BY DEF CalculateWorkers
  <1>7. perDay
          = By(By(Given(inputs.requestsPerJob, "requestsPerJob"), Whole(jobs)), r.attemptAmplification)
    BY DEF CalculateTraffic
  <1>8. \A figure, x : \E e \in errors :
          e \in Nat \ {0} /\ L <= e /\ Rounded(figure, x) = <<x[1] * e, x[2] * P>>
    <2>1. \A e \in errors : L <= e
      BY TwoErrors
    <2> QED BY <2>1, RoundedIs
  <1>9. ASSUME NEW x \in Nat, NEW y \in Int, NEW e \in Nat \ {0}, L <= e, x < y * L
        PROVE  x < y * e
    <2>1. y > 0
      <3>1. y <= 0 => y * L <= 0
        BY <1>1
      <3>2. y * L \in Int
        BY <1>1
      <3> QED BY <1>9, <3>1, <3>2
    <2>2. y * L <= y * e
      BY <1>1, <1>9, <2>1
    <2>3. y * L \in Int /\ y * e \in Int
      BY <1>1
    <2> QED BY <1>9, <2>2, <2>3
  <1> HIDE DEF units, traffic, workers, findings, average, perDay, limit, jobsRpm, P, L, errors
  <1>10. CASE kind = "workerConcurrency"
    <2> DEFINE slots == inputs.concurrencyPerWorker
               latency == inputs.meanJobLatencyMs
               x == <<jobs * latency, MsPerDay * 1>>
    <2>1. latency \in Nat \ {0} /\ latency # Null /\ units[kind].value = <<slots * MsPerDay, latency>>
      BY <1>1, <1>2, <1>4, <1>10, FromConcurrencyIs
    <2>2. w * (slots * MsPerDay) * P < jobs * latency * L
      BY <1>2, <2>1 DEF Strains, P, L
    <2>3. average = Computed(Rounded("averageJobs", x))
      BY <2>1 DEF average, AverageJobs, Lift, Given, Computed, Whole, **
    <2>4. workers.aggregateJobConcurrency = w * slots /\ slots \in Nat
      BY <1>1, <1>6
    <2>5. x[1] = jobs * latency /\ x[2] = MsPerDay * 1
      OBVIOUS
    <2> HIDE DEF slots, latency, w, x
    <2>6. PICK e \in errors :
             /\ e \in Nat \ {0} /\ L <= e
             /\ Rounded("averageJobs", x) = <<jobs * latency * e, MsPerDay * 1 * P>>
      BY <1>8, <2>5
    <2>7. average.computable = TRUE /\ average.value = <<jobs * latency * e, MsPerDay * 1 * P>>
      BY <2>3, <2>6 DEF Computed
    <2>8. (w * slots) * (MsPerDay * 1 * P) < (jobs * latency * e) * 1
      <3>1. w * (slots * MsPerDay) * P \in Nat /\ jobs * latency \in Int
        BY <1>1, <2>1, <2>4
      <3>2. w * (slots * MsPerDay) * P < jobs * latency * e
        BY <1>9, <2>2, <2>6, <3>1
      <3>3. /\ (w * slots) * (MsPerDay * 1 * P) = w * (slots * MsPerDay) * P
            /\ (jobs * latency * e) * 1 = jobs * latency * e
        BY <1>1, <2>1, <2>4, <2>6
      <3> QED BY <3>2, <3>3
    <2>9. Less(Whole(workers.aggregateJobConcurrency), average.value)
      BY <2>4, <2>7, <2>8 DEF Less, Whole
    <2> QED BY <1>5, <2>7, <2>9 DEF findings, units, traffic, workers
  <1>11. CASE kind = "workerJobTarget"
    <2> DEFINE target == inputs.targetJobsPerMinute
               x == <<jobs, MinutesPerDay>>
    <2>1. units[kind].value = <<target * MinutesPerDay, 1>>
      BY <1>4, <1>11 DEF Computed, Whole
    <2>2. w * (target * MinutesPerDay) * P < jobs * 1 * L
      BY <1>2, <2>1 DEF Strains, P, L
    <2>3. workers.aggregateJobTargetPerMinute = w * target /\ target \in Nat
      BY <1>1, <1>6
    <2>4. x[1] = jobs /\ x[2] = MinutesPerDay
      OBVIOUS
    <2> HIDE DEF target, w, x
    <2>5. PICK e \in errors : /\ e \in Nat \ {0} /\ L <= e
                              /\ Rounded("jobsRpm", x) = <<jobs * e, MinutesPerDay * P>>
      BY <1>8, <2>4
    <2>6. (w * target) * (MinutesPerDay * P) < (jobs * e) * 1
      <3>1. w * (target * MinutesPerDay) * P \in Nat /\ jobs * 1 = jobs /\ jobs \in Int
        BY <1>1, <2>3
      <3>2. w * (target * MinutesPerDay) * P < jobs * e
        BY <1>9, <2>2, <2>5, <3>1
      <3>3. /\ (w * target) * (MinutesPerDay * P) = w * (target * MinutesPerDay) * P
            /\ (jobs * e) * 1 = jobs * e
        BY <1>1, <2>3, <2>5
      <3> QED BY <3>2, <3>3
    <2>7. Less(Whole(workers.aggregateJobTargetPerMinute), jobsRpm)
      BY <2>3, <2>5, <2>6 DEF Less, Whole, jobsRpm, x
    <2> QED BY <1>5, <2>7 DEF findings, units, traffic, workers
  <1>12. CASE kind = "workerHttpEgress"
    <2> DEFINE rpm == inputs.httpRpmPerHost
               each == inputs.requestsPerJob
    <2>1. rpm \in Nat /\ rpm # Null /\ units[kind] = FromHttpRpm(rpm, requests)
      BY <1>2, <1>4, <1>12
    <2>2. /\ requests.computable \in BOOLEAN /\ (requests.computable <=> each # Null)
          /\ requests.computable => /\ each \in Nat /\ requests.value \in Fraction
                                    /\ requests.value = <<each * a, b>>
      BY RequestsAre
    <2> HIDE DEF requests
    <2>3. /\ requests.computable
          /\ units[kind].value = <<rpm * MinutesPerDay * requests.value[2], requests.value[1]>>
      BY <1>2, <2>1, <2>2, FromHttpRpmIs
    <2>4. each \in Nat /\ each # Null /\ units[kind].value = <<rpm * MinutesPerDay * b, each * a>>
      BY <2>2, <2>3
    <2>5. w * (rpm * MinutesPerDay * b) * P < jobs * (each * a) * L
      BY <1>2, <2>4 DEF Strains, P, L
    <2> DEFINE day == <<each * jobs * a, 1 * 1 * b>>
               x == <<each * jobs * a * 1, 1 * 1 * b * MinutesPerDay>>
    <2>6. perDay = Computed(day)
      <3>1. By(Given(each, "requestsPerJob"), Whole(jobs)) = Computed(<<each * jobs, 1 * 1>>)
        BY <2>4 DEF By, Lift, Given, Computed, Whole, **
      <3> DEFINE m == Computed(<<each * jobs, 1 * 1>>)
      <3>2. By(m, r.attemptAmplification) = Computed(day)
        BY DEF By, Lift, Computed, **
      <3> QED BY <1>7, <3>1, <3>2
    <2>7. limit = Computed(<<rpm * w, 1 * 1>>)
      BY <1>6, <2>1 DEF By, Lift, Given, Computed, Whole, **
    <2>8. httpRpm = Computed(Rounded("httpRpm", x))
      <3>1. day ** <<1, MinutesPerDay>> = x
        BY DEF **
      <3> HIDE DEF day, x
      <3>2. httpRpm = Computed(Rounded("httpRpm", day ** <<1, MinutesPerDay>>))
        BY <2>6 DEF Lift, Computed
      <3> QED BY <3>1, <3>2
    <2>9. x[1] = each * jobs * a * 1 /\ x[2] = 1 * 1 * b * MinutesPerDay
      OBVIOUS
    <2> HIDE DEF rpm, each, w, a, b, x, httpRpm
    <2>10. PICK e \in errors :
              /\ e \in Nat \ {0} /\ L <= e
              /\ Rounded("httpRpm", x)
                   = <<each * jobs * a * 1 * e, 1 * 1 * b * MinutesPerDay * P>>
      BY <1>8, <2>9
    <2>11. /\ httpRpm.computable = TRUE /\ limit.computable = TRUE
           /\ httpRpm.value = <<each * jobs * a * 1 * e, 1 * 1 * b * MinutesPerDay * P>>
           /\ limit.value = <<rpm * w, 1 * 1>>
      BY <2>7, <2>8, <2>10 DEF Computed
    <2>12. (rpm * w) * (1 * 1 * b * MinutesPerDay * P) < (each * jobs * a * 1 * e) * (1 * 1)
      <3>1. w * (rpm * MinutesPerDay * b) * P \in Nat /\ jobs * (each * a) \in Int
        BY <1>1, <2>1, <2>4
      <3>2. w * (rpm * MinutesPerDay * b) * P < jobs * (each * a) * e
        BY <1>9, <2>5, <2>10, <3>1
      <3>3. w * (rpm * MinutesPerDay * b) * P = (rpm * w) * (1 * 1 * b * MinutesPerDay * P)
        BY <1>1, <2>1
      <3>4. jobs * (each * a) * e = (each * jobs * a * 1 * e) * (1 * 1)
        BY <1>1, <2>4, <2>10
      <3> QED BY <3>2, <3>3, <3>4
    <2>13. Less(limit.value, httpRpm.value)
      BY <2>11, <2>12 DEF Less
    <2> QED BY <1>5, <2>11, <2>13 DEF findings, units, traffic, workers, limit, httpRpm, perDay
  <1> QED BY <1>3, <1>10, <1>11, <1>12

-----------------------------------------------------------------------------
(* The three answers.                                                         *)

\* The traffic multiplier is a number.
LEMMA AmplificationIs ==
  ASSUME CapacityAssumption, WellTyped(inputs)
  PROVE  EvaluateReliability(inputs).attemptAmplification \in Fraction
  <1>1. /\ inputs.maxAttempts \in Nat /\ inputs.nonRetryableShare \in Nat
        /\ inputs.perAttemptSuccessRate \in Nat
    BY DEF WellTyped, Required
  <1>2. PICK m \in Nat \ {0}, q \in Fraction, p \in Fraction :
           /\ p[1] <= p[2] /\ 0 <= p[1] /\ q[1] <= q[2] /\ 0 <= q[1]
           /\ EvaluateReliability(inputs) = Reliability(m, q, p)
    BY <1>1, ReliabilityIs
  <1> DEFINE t == Whole(1) -- q
             e == ExpectedOf(p, m)
             r == Reliability(m, q, p)
  <1>3. r.attemptAmplification = q ++ (t ** e)
    BY DEF Reliability, Amplification, ExpectedOf
  <1>4. e \in Fraction
    BY <1>2, ExpectedStep
  <1>5. t \in Fraction
    <2>1. Whole(1) \in Fraction
      BY DEF Whole, Fraction
    <2> QED BY <2>1, Closed2
  <1> HIDE DEF t, e, r
  <1>6. t ** e \in Fraction
    BY <1>4, <1>5, Closed2
  <1>7. q ++ (t ** e) \in Fraction
    BY <1>6, Closed2
  <1> QED BY <1>2, <1>3, <1>7 DEF r

\* The run rate is a number of jobs.
LEMMA RunRateIs ==
  ASSUME CapacityAssumption, WellTyped(inputs)
  PROVE  RunRate(SimulateCohorts(inputs), inputs) \in Nat
  <1> DEFINE s == Spans(inputs.stages)
             f == Polled(s)
             profile == Profile(s, f)
             plateau == LastPolledAge(profile)
             arrivals == inputs.newSubmissionsPerDay
             days == [n \in 1..inputs.horizonDays |->
                        SimulatedDay(profile, arrivals, plateau, n - 1, Min({n, profile.lifecycleDays}))]
             cohorts == Cohorts(inputs, profile, days, plateau)
  <1>1. inputs.stages \in Seq(PollingStage) /\ arrivals \in Nat
    BY DEF WellTyped, Required
  <1>2. f \in Seq(Nat)
    <2>1. s \in Lifecycles
      BY <1>1, SpansAre
    <2> QED BY <2>1, PolledIs
  <1>3. SimulateCohorts(inputs) = cohorts
    BY DEF SimulateCohorts, BuildLifecycleProfile, ProfileOf, CohortsWith, CohortsOf, Polled
  <1>4. profile.pollsPerSubmissionTotal = Prefix(f, Len(f))
    BY <1>2, ProfileIs
  <1>5. Prefix(f, Len(f)) \in Nat
    <2>1. Len(f) \in Nat /\ \A i \in 1..Len(f) : f[i] \in Nat
      BY <1>2
    <2>2. Len(f) \in 0..Len(f) /\ Len(f) \in Len(f)..Len(f)
      BY <2>1
    <2> HIDE DEF f
    <2> QED BY <2>1, <2>2, PrefixRises
  <1>6. cohorts.profile = profile
    <2> HIDE DEF profile, days, plateau
    <2> QED BY CohortsAre
  <1> HIDE DEF profile, cohorts, f
  <1> QED BY <1>1, <1>3, <1>4, <1>5, <1>6 DEF RunRate

\* The parts of the plan.
LEMMA SimulatedIs ==
  ASSUME NEW in
  PROVE  LET r == SimulateCapacity(in)
             cohorts == SimulateCohorts(in)
             reliability == EvaluateReliability(in)
             jobs == RunRate(cohorts, in)
             units == CalculateUnitCapacityConstraints(in, reliability)
             traffic == CalculateTraffic(in, jobs, cohorts.totalScrapeJobs, reliability)
             proxy == CalculateProxy(in, jobs, units)
             workers == CalculateWorkers(in, jobs, units)
             cost == CalculateCost(in, traffic, CalculateBandwidth(in, traffic), reliability, proxy)
         IN  /\ r.valid = (Issues(in) = {})
             /\ r.capacityWorkload = CalculateCapacityWorkload(in, cohorts, jobs, units)
             /\ r.workers = workers /\ r.proxy = proxy
             /\ r.growth = CalculateGrowth(in, jobs, proxy, cost)
             /\ r.findings = BuildFindings(in, cohorts, jobs, traffic, workers, proxy, cost, reliability)
  BY DEF SimulateCapacity, Simulated, Loaded, Routed, Crewed, Priced

\* The proxies of the plan.
LEMMA ProxyPlanIs ==
  ASSUME NEW in, NEW units, NEW jobs
  PROVE  LET need == ProxyNeed([k \in ToSet(ProxyKinds) |-> RequiredUnits(jobs, units, k)])
             proxy == CalculateProxy(in, jobs, units)
         IN  /\ proxy.rawRequired = need.required
             /\ proxy.theoreticalProxies = Lift(need.required, LAMBDA x : Whole(Ceil(x)))
             /\ proxy.recommendedProxies = Lift(need.required, LAMBDA x : Whole(Ceil(x ** Margin(in))))
  BY DEF CalculateProxy, ProxyPlanFor, ProxyPlan

\* The margin only adds proxies, so a pool too small without it is warned of.
LEMMA MarginAdds ==
  ASSUME CapacityAssumption, WellTyped(inputs), NEW a \in Amounts, NEW c \in Nat, c < Ceil(a)
  PROVE  Ceil(a ** Margin(inputs)) \in Nat /\ c < Ceil(a ** Margin(inputs))
  <1> DEFINE x == a[1]  y == a[2]  s == ShareUnit  m == inputs.safetyMargin
             b == a ** Margin(inputs)
  <1>1. x \in Nat /\ y \in Nat \ {0} /\ s \in Nat \ {0} /\ m \in Nat
    BY DEF Amounts, CapacityAssumption, WellTyped, Required
  <1>2. b = <<x * (s + m), y * s>>
    BY DEF Margin, **
  <1>3. c * y < x
    BY LessThanCeil
  <1> HIDE DEF x, y, s, m, b
  <1>4. x * (s + m) \in Nat /\ y * s \in Nat \ {0}
    BY <1>1
  <1>5. b \in Amounts /\ b[1] = x * (s + m) /\ b[2] = y * s
    BY <1>2, <1>4 DEF Amounts
  <1>6. c * (y * s) < x * (s + m)
    <2>1. (c * y + 1) * s <= x * s
      BY <1>1, <1>3
    <2>2. (c * y + 1) * s = c * (y * s) + s
      BY <1>1
    <2>3. x * (s + m) = x * s + x * m /\ x * m \in Nat /\ x * s \in Nat /\ c * (y * s) \in Nat
      BY <1>1
    <2> QED BY <1>1, <2>1, <2>2, <2>3
  <1> QED BY <1>5, <1>6, LessThanCeil DEF b

\* The first month of the growth asks for the proxies of today.
LEMMA GrowthStarts ==
  ASSUME CapacityAssumption, WellTyped(inputs), NEW jobs, NEW proxy, NEW cost,
         Quantity(proxy.rawRequired),
         proxy.recommendedProxies
           = IF proxy.rawRequired.computable
             THEN Computed(Whole(Ceil(proxy.rawRequired.value ** Margin(inputs))))
             ELSE proxy.rawRequired
  PROVE  CalculateGrowth(inputs, jobs, proxy, cost)[1].recommendedProxies = proxy.recommendedProxies
  <1> DEFINE rate == IF inputs.growthEnabled THEN inputs.monthlyGrowthRate ELSE 0
             base == <<ShareUnit + rate, ShareUnit>>
             factor == Power(base, 1 - 1)
             v == proxy.rawRequired.value
             M == Margin(inputs)
             first == CalculateGrowth(inputs, jobs, proxy, cost)[1]
  <1>1. 1 \in 1..Max({1, inputs.months})
    <2>1. inputs.months \in Nat
      BY DEF WellTyped, Required
    <2>2. Max({1, inputs.months}) \in Nat \ {0}
      BY <2>1, MaxOfTwo
    <2> DEFINE top == Max({1, inputs.months})
    <2> HIDE DEF top
    <2>3. 1 \in 1..top
      BY <2>2 DEF top
    <2> QED BY <2>3 DEF top
  <1>2. first.recommendedProxies = IF proxy.rawRequired.computable
                                   THEN Computed(Whole(Ceil(v ** factor ** M)))
                                   ELSE proxy.rawRequired
    BY <1>1 DEF CalculateGrowth, Lift
  <1>3. factor = <<1, 1>>
    <2>1. 1 - 1 = 0
      OBVIOUS
    <2> HIDE DEF base
    <2>2. Power(base, 0) = Whole(1)
      BY PowerStep
    <2> QED BY <2>1, <2>2 DEF Whole
  <1>4. proxy.recommendedProxies = IF proxy.rawRequired.computable
                                   THEN Computed(Whole(Ceil(v ** M))) ELSE proxy.rawRequired
    OBVIOUS
  <1> HIDE DEF first, factor, M
  <1>5. proxy.rawRequired.computable => v ** factor ** M = v ** M
    <2>1. SUFFICES ASSUME proxy.rawRequired.computable PROVE v ** factor ** M = v ** M
      OBVIOUS
    <2>2. v[1] \in Nat /\ v[2] \in Nat
      BY <2>1 DEF Quantity, Amounts
    <2> DEFINE x == v[1]  y == v[2]
    <2>3. v ** <<1, 1>> = <<x * 1, y * 1>>
      BY DEF **
    <2>4. x * 1 = x /\ y * 1 = y
      BY <2>2
    <2>5. v ** factor = <<x, y>>
      BY <1>3, <2>3, <2>4
    <2>6. <<x, y>> ** M = v ** M
      BY DEF **
    <2> QED BY <2>5, <2>6
  <1> QED BY <1>2, <1>4, <1>5 DEF first

\* The three answers agree.
LEMMA PlanAgreesHolds ==
  ASSUME CapacityAssumption, WellTyped(inputs)
  PROVE  PlanAgrees
  <1> DEFINE r == SimulateCapacity(inputs)
             cohorts == SimulateCohorts(inputs)
             reliability == EvaluateReliability(inputs)
             jobs == RunRate(cohorts, inputs)
             units == CalculateUnitCapacityConstraints(inputs, reliability)
             traffic == CalculateTraffic(inputs, jobs, cohorts.totalScrapeJobs, reliability)
             proxy == CalculateProxy(inputs, jobs, units)
             workers == CalculateWorkers(inputs, jobs, units)
             cost == CalculateCost(inputs, traffic, CalculateBandwidth(inputs, traffic), reliability, proxy)
             raw == ProxyNeed([k \in ToSet(ProxyKinds) |-> RequiredUnits(jobs, units, k)]).required
             workload == CalculateCapacityWorkload(inputs, cohorts, jobs, units)
             findings == BuildFindings(inputs, cohorts, jobs, traffic, workers, proxy, cost, reliability)
             owned == inputs.proxyPoolSize
             W == ToSet(WorkerKinds) \cap DOMAIN units
             P == ToSet(ProxyKinds) \cap DOMAIN units
             known == {k \in P : units[k].computable}
             lacking == Less(Whole(inputs.workers), workers.recommendedWorkers.value)
             small == /\ proxy.theoreticalProxies.computable
                      /\ Less(Whole(owned), proxy.theoreticalProxies.value)
             below == {"concurrency_below_demand", "admission_below_demand",
                       "egress_below_demand", "proxy_pool_below_demand"}
  <1>1. /\ r.valid = (Issues(inputs) = {}) /\ r.capacityWorkload = workload
        /\ r.workers = workers /\ r.proxy = proxy
        /\ r.growth = CalculateGrowth(inputs, jobs, proxy, cost) /\ r.findings = findings
    BY SimulatedIs
  <1>2. jobs \in Nat /\ reliability.attemptAmplification \in Fraction
    BY RunRateIs, AmplificationIs
  <1> HIDE DEF r, cohorts, reliability, jobs
  <1>3. /\ DOMAIN units \subseteq ToSet(Kinds)
        /\ {"workerConcurrency", "workerJobTarget"} \subseteq DOMAIN units
        /\ \A kind \in DOMAIN units : Quantity(units[kind])
        /\ (Issues(inputs) = {} /\ inputs.targetJobsPerMinute > 0)
             => \A kind \in DOMAIN units : units[kind].computable => units[kind].value[1] > 0
    BY <1>2, UnitsAre
  <1>4. /\ proxy.rawRequired = raw
        /\ proxy.theoreticalProxies = Lift(raw, LAMBDA x : Whole(Ceil(x)))
        /\ proxy.recommendedProxies = Lift(raw, LAMBDA x : Whole(Ceil(x ** Margin(inputs))))
    <2> HIDE DEF units
    <2> QED BY ProxyPlanIs
  <1> HIDE DEF proxy
  <1>5. Quantity(raw)
    <2> HIDE DEF units
    <2> QED BY <1>2, <1>3, NeedIs
  <1>6. /\ raw.computable => proxy.theoreticalProxies = Computed(Whole(Ceil(raw.value)))
        /\ ~raw.computable => proxy.theoreticalProxies = raw
        /\ raw.computable =>
             proxy.recommendedProxies = Computed(Whole(Ceil(raw.value ** Margin(inputs))))
        /\ ~raw.computable => proxy.recommendedProxies = raw
    <2> HIDE DEF raw
    <2> QED BY <1>4 DEF Lift
  <1>7. r.growth[1].recommendedProxies = r.proxy.recommendedProxies
    <2> HIDE DEF raw, cost
    <2>1. Quantity(proxy.rawRequired)
      BY <1>4, <1>5
    <2>2. proxy.recommendedProxies
            = IF proxy.rawRequired.computable
              THEN Computed(Whole(Ceil(proxy.rawRequired.value ** Margin(inputs))))
              ELSE proxy.rawRequired
      <3>1. proxy.rawRequired = raw
        BY <1>4
      <3>2. raw.computable \in BOOLEAN
        BY <1>5 DEF Quantity
      <3> QED BY <1>6, <3>1, <3>2
    <2>3. CalculateGrowth(inputs, jobs, proxy, cost)[1].recommendedProxies = proxy.recommendedProxies
      BY <2>1, <2>2, GrowthStarts
    <2> QED BY <1>1, <2>3
  <1>8. /\ proxy.theoreticalProxies.computable <=> raw.computable
        /\ raw.computable => /\ proxy.theoreticalProxies.value = <<Ceil(raw.value), 1>>
                             /\ proxy.recommendedProxies.computable
                             /\ proxy.recommendedProxies.value = <<Ceil(raw.value ** Margin(inputs)), 1>>
    <2> HIDE DEF raw
    <2> QED BY <1>6 DEF Computed, Whole
  <1>9. /\ inputs.workers \in Nat /\ owned \in Nat
        /\ Issues(inputs) = {} => inputs.workers # 0
    <2>1. "workers" \in AtLeastOne
      BY DEF AtLeastOne
    <2> QED BY <2>1 DEF WellTyped, Required, Issues
  <1> HIDE DEF raw, owned
  <1>10. small <=> raw.computable /\ owned < Ceil(raw.value)
    <2>1. raw.computable => Ceil(raw.value) \in Nat
      BY <1>5, LessThanCeil DEF Quantity
    <2> DEFINE top == Ceil(raw.value)
    <2>2. raw.computable => (Less(Whole(owned), <<top, 1>>) <=> owned * 1 < top * 1)
      BY DEF Less, Whole
    <2> HIDE DEF top
    <2>3. raw.computable => (Less(Whole(owned), <<top, 1>>) <=> owned < top)
      BY <1>9, <2>1, <2>2 DEF top
    <2> QED BY <1>8, <2>3 DEF top
  <1>11. ASSUME small PROVE "proxy_pool_below_demand" \in findings
    <2>1. raw.value \in Amounts /\ raw.computable /\ owned < Ceil(raw.value)
      BY <1>5, <1>10, <1>11 DEF Quantity
    <2> DEFINE top == Ceil(raw.value ** Margin(inputs))
    <2>2. top \in Nat /\ owned < top
      BY <1>9, <2>1, MarginAdds
    <2>3. proxy.recommendedProxies.computable /\ proxy.recommendedProxies.value = <<top, 1>>
      BY <1>8, <2>1
    <2> HIDE DEF top
    <2>4. Less(Whole(owned), proxy.recommendedProxies.value)
      BY <1>9, <2>2, <2>3 DEF Less, Whole
    <2> HIDE DEF traffic, workers, cost
    <2>5. Less(Whole(inputs.proxyPoolSize), proxy.recommendedProxies.value)
      BY <2>4 DEF owned
    <2> QED BY <2>3, <2>5, WarningsAre
  <1>12. ASSUME Issues(inputs) = {}, inputs.targetJobsPerMinute > 0,
                workload.sustainableJobsPerDay.computable,
                proxy.theoreticalProxies.computable \/ owned > 0
         PROVE  /\ workload.status = "over-capacity"
                     => (lacking \/ small) /\ below \cap findings # {}
                /\ workload.status = "within-capacity" => ~lacking /\ ~small
    <2>1. Sized(units)
      <3> HIDE DEF units
      <3> QED BY <1>3, <1>12 DEF Sized
    <2>2. /\ \A k \in W : units[k].computable
          /\ owned > 0 => \A k \in P : units[k].computable
          /\ workload.status = "over-capacity"
               => \/ \E k \in W : Strains(jobs, inputs.workers, units[k])
                  \/ \E k \in P : IF owned = 0 THEN jobs > 0 ELSE Strains(jobs, owned, units[k])
          /\ workload.status = "within-capacity"
               => /\ \A k \in W : ~MayStrain(jobs, inputs.workers, units[k])
                  /\ \A k \in P : owned # 0 /\ ~MayStrain(jobs, owned, units[k])
      <3>1. inputs.workers \in Nat \ {0} /\ inputs.proxyPoolSize \in Nat
        BY <1>9, <1>12 DEF owned
      <3> HIDE DEF units
      <3> QED BY <1>2, <1>12, <2>1, <3>1, WorkloadIs DEF owned
    <2>3. lacking <=> \E k \in W : Asks(jobs, inputs.workers, units[k])
      <3> HIDE DEF units
      <3> QED BY <1>2, <1>9, <2>1, <2>2, WorkersAre
    <2>4. /\ raw.computable <=> known # {}
          /\ raw.computable =>
               \A c \in Nat : c < Ceil(raw.value) <=> \E k \in known : Asks(jobs, c, units[k])
      <3> HIDE DEF units
      <3> QED BY <1>2, <2>1, ProxiesAre DEF raw
    <2>5. small <=> \E k \in known : Asks(jobs, owned, units[k])
      <3> HIDE DEF small, known
      <3> QED BY <1>9, <1>10, <2>4
    <2>6. ASSUME NEW k \in DOMAIN units, units[k].computable, NEW c \in Nat
          PROVE  /\ Strains(jobs, c, units[k]) => Asks(jobs, c, units[k])
                 /\ Asks(jobs, c, units[k]) => MayStrain(jobs, c, units[k])
      <3> HIDE DEF units
      <3> DEFINE unit == units[k]
      <3>1. Quantity(unit) /\ unit.computable /\ unit.value[1] > 0
        BY <2>1, <2>6 DEF Sized
      <3> HIDE DEF unit
      <3>2. /\ Strains(jobs, c, unit) => Asks(jobs, c, unit)
            /\ Asks(jobs, c, unit) => MayStrain(jobs, c, unit)
        BY <1>2, <3>1, RawIs
      <3> QED BY <3>2 DEF unit
    <2>7. ASSUME NEW k \in P, IF owned = 0 THEN jobs > 0 ELSE Strains(jobs, owned, units[k])
          PROVE  \E n \in known : Asks(jobs, owned, units[n])
      <3> HIDE DEF units
      <3>1. CASE owned > 0
        <4>1. units[k].computable /\ k \in DOMAIN units /\ Strains(jobs, owned, units[k])
          BY <1>9, <2>2, <2>7, <3>1
        <4>2. Asks(jobs, owned, units[k])
          BY <1>9, <2>6, <4>1
        <4> QED BY <4>1, <4>2
      <3>2. CASE owned = 0
        <4>1. PICK n \in known : TRUE
          BY <1>8, <1>12, <2>4, <3>2
        <4> DEFINE y == units[n].value[2]  l == Precision - Drift
        <4>2. y \in Nat \ {0} /\ units[n].value[1] \in Nat /\ l \in Nat \ {0} /\ Precision \in Nat
          BY <1>3, TwoErrors DEF Quantity, Amounts
        <4>3. 0 * units[n].value[1] * Precision = 0 /\ jobs \in Nat \ {0}
          BY <1>2, <2>7, <3>2, <4>2
        <4> HIDE DEF y, l
        <4>4. 0 < jobs * y * l
          <5>1. jobs * y \in Nat \ {0}
            BY <4>2, <4>3
          <5> QED BY <4>2, <5>1
        <4>5. Strains(jobs, owned, units[n])
          BY <3>2, <4>3, <4>4 DEF Strains, y, l
        <4>6. n \in DOMAIN units /\ units[n].computable
          BY <4>1
        <4>7. Asks(jobs, owned, units[n])
          BY <1>9, <2>6, <4>5, <4>6
        <4> QED BY <4>1, <4>7
      <3> QED BY <1>9, <3>1, <3>2
    <2>8. ASSUME NEW k \in W, Strains(jobs, inputs.workers, units[k]) PROVE below \cap findings # {}
      <3> DEFINE three == {"concurrency_below_demand", "admission_below_demand", "egress_below_demand"}
      <3>1. three \cap findings # {}
        BY <1>2, <2>2, <2>8, WorkersWarn
      <3> HIDE DEF findings
      <3>2. three \subseteq below
        OBVIOUS
      <3> QED BY <3>1, <3>2
    <2>9. small => below \cap findings # {}
      <3> HIDE DEF findings, small
      <3> QED BY <1>11
    <2>10. ASSUME NEW k \in W, Strains(jobs, inputs.workers, units[k])
           PROVE  Asks(jobs, inputs.workers, units[k])
      <3> HIDE DEF units
      <3>1. k \in DOMAIN units /\ units[k].computable
        BY <2>2
      <3> QED BY <1>9, <2>6, <2>10, <3>1
    <2>11. ASSUME workload.status = "within-capacity" PROVE ~lacking /\ ~small
      <3> HIDE DEF units, lacking, small, workload
      <3>1. ASSUME NEW k \in W PROVE ~Asks(jobs, inputs.workers, units[k])
        <4>1. k \in DOMAIN units /\ units[k].computable /\ ~MayStrain(jobs, inputs.workers, units[k])
          BY <2>2, <2>11
        <4> QED BY <1>9, <2>6, <4>1
      <3>2. ASSUME NEW k \in known PROVE ~Asks(jobs, owned, units[k])
        <4>1. k \in DOMAIN units /\ units[k].computable /\ ~MayStrain(jobs, owned, units[k])
          BY <2>2, <2>11
        <4> QED BY <1>9, <2>6, <4>1
      <3> QED BY <2>3, <2>5, <3>1, <3>2
    <2> HIDE DEF lacking, small, W, P, known, workload, findings, below
    <2> QED BY <2>2, <2>3, <2>5, <2>7, <2>8, <2>9, <2>10, <2>11
  <1> HIDE DEF units, workers, workload, findings, cost
  <1>13. AnswersAgree(r)
    BY <1>1, <1>7, <1>11, <1>12 DEF AnswersAgree, owned
  <1> QED BY <1>13 DEF PlanAgrees, r

-----------------------------------------------------------------------------
\* The inputs of an open page are well typed, whatever is typed, added, moved or
\* removed: what the calculation reads is a number, or null where it may be.
THEOREM PageIsTyped ==
  ASSUME PageAssumption
  PROVE  PageSpec => []PageIInv
  <1>1. PageInit => PageIInv
    BY DEF PageInit, PageIInv
  <1>2. PageIInv /\ [PageNext]_pageVars => PageIInv'
    BY PageNextIInv
  <1> QED BY <1>1, <1>2, PTL DEF PageSpec

\* The plan of an open page is consistent: the jobs of every simulated day are
\* those of its cohorts, the outcomes of an attempt are all there are, and,
\* however the figures are rounded within what the tolerance is made for, the
\* status of demand clearly over or within capacity is that of the recommended
\* fleet and of the warnings.
THEOREM PlanIsConsistent ==
  ASSUME PageAssumption
  PROVE  PageSpec => []PlanHolds
  <1>1. PageIInv => PlanHolds
    <2> SUFFICES ASSUME PageTypeOK PROVE PageTypeOK /\ CohortsAddUp /\ AttemptsAddUp /\ PlanAgrees
      BY DEF PageIInv, PlanHolds
    <2>1. CapacityAssumption /\ WellTyped(inputs)
      BY DEF PageAssumption, PageTypeOK
    <2> QED BY <2>1, CohortsHold, AttemptsHold, PlanAgreesHolds
  <1>2. PageSpec => []PageIInv
    BY PageIsTyped
  <1> QED BY <1>1, <1>2, PTL
-----------------------------------------------------------------------------
(* The pool under a source, and what is proved of the pool. PoolFacts is      *)
(* ProxyPool once more, with the proofs about it: its definitions, expanded,  *)
(* are those of Pool, operator by operator.                                   *)

PoolFacts == INSTANCE ProxyPoolProofs WITH supply <- Supply, RequireProxy <- TRUE

LEMMA SameViews ==
  /\ Pool!Refreshed = PoolFacts!Refreshed
  /\ Pool!AnnouncedByRefresh = PoolFacts!AnnouncedByRefresh
  /\ Pool!Healthy = PoolFacts!Healthy /\ Pool!Free = PoolFacts!Free
  /\ Pool!BenchedUntil = PoolFacts!BenchedUntil
  BY DEF Pool!Refreshed, PoolFacts!Refreshed, Pool!AnnouncedByRefresh,
         PoolFacts!AnnouncedByRefresh, Pool!Healthy, PoolFacts!Healthy, Pool!Free,
         PoolFacts!Free, Pool!BenchedUntil, PoolFacts!BenchedUntil, Pool!Expired,
         PoolFacts!Expired, Pool!Recovered, PoolFacts!Recovered, Pool!HealthOf,
         PoolFacts!HealthOf, Pool!Usable, PoolFacts!Usable, Pool!HasCapacity,
         PoolFacts!HasCapacity, Pool!Unbounded, PoolFacts!Unbounded, Pool!CapacityOf,
         PoolFacts!CapacityOf, Pool!Lesser, PoolFacts!Lesser

LEMMA SameChoice ==
  ASSUME NEW p, NEW credit, Pool!Select(p, credit)
  PROVE  PoolFacts!Select(p, credit)
  BY DEF Pool!Select, PoolFacts!Select, Pool!Unproven, PoolFacts!Unproven,
         Pool!PickEstablished, PoolFacts!PickEstablished, Pool!Established,
         PoolFacts!Established, Pool!PickUnproven, PoolFacts!PickUnproven, Pool!Exploring,
         PoolFacts!Exploring, Pool!Free, PoolFacts!Free, Pool!Best, PoolFacts!Best,
         Pool!LessLoaded, PoolFacts!LessLoaded, Pool!LessTried, PoolFacts!LessTried,
         Pool!Healthy, PoolFacts!Healthy, Pool!HasCapacity, PoolFacts!HasCapacity,
         Pool!CapacityOf, PoolFacts!CapacityOf, Pool!LessRecent, PoolFacts!LessRecent,
         Pool!Usable, PoolFacts!Usable, Pool!Unbounded, PoolFacts!Unbounded, Pool!Lesser,
         PoolFacts!Lesser

LEMMA SamePass ==
  ASSUME NEW j, NEW budget, Pool!Pass(j, budget)
  PROVE  PoolFacts!Pass(j, budget)
  <1>1. CASE aborted[j]
    BY <1>1 DEF Pool!Pass, PoolFacts!Pass, Pool!AcquireThrows, PoolFacts!AcquireThrows,
                Pool!poolVars, PoolFacts!poolVars
  <1>2. ASSUME ~aborted[j], Pool!Grant(j) PROVE PoolFacts!Pass(j, budget)
    <2>1. \A e : Pool!CheckedOut(e) = PoolFacts!CheckedOut(e)
      BY DEF Pool!CheckedOut, PoolFacts!CheckedOut
    <2>2. PICK p \in Pool!Free, credit \in {0, exploreCredit, exploreCredit + 1} :
            Pool!Grant(j)!(p, credit)
      BY <1>2 DEF Pool!Grant
    <2>3. PoolFacts!Grant(j)
      BY <2>1, <2>2, SameViews, SameChoice DEF PoolFacts!Grant
    <2> QED BY <1>2, <2>3 DEF PoolFacts!Pass
  <1>3. CASE ~aborted[j] /\ ~Pool!Grant(j)
    BY <1>3, SameViews
    DEF Pool!Pass, PoolFacts!Pass, Pool!AcquireThrows, PoolFacts!AcquireThrows, Pool!GoDirect,
        PoolFacts!GoDirect, Pool!ParkForSlot, PoolFacts!ParkForSlot, Pool!Exhausted,
        PoolFacts!Exhausted, Pool!ParkForRecovery, PoolFacts!ParkForRecovery, Pool!poolVars,
        PoolFacts!poolVars, Pool!Swept, PoolFacts!Swept, Pool!CooldownWorthIt,
        PoolFacts!CooldownWorthIt, Pool!EarliestEligibleAt, PoolFacts!EarliestEligibleAt
  <1> QED BY <1>1, <1>2, <1>3

LEMMA SameReports ==
  ASSUME NEW e, NEW current
  PROVE  /\ Pool!ReportSuccess(e, current) = PoolFacts!ReportSuccess(e, current)
         /\ Pool!MarkBlocked(e, current) = PoolFacts!MarkBlocked(e, current)
         /\ Pool!ReportUnsuitable(e, current) = PoolFacts!ReportUnsuitable(e, current)
         /\ Pool!ReportFailure(e, current) = PoolFacts!ReportFailure(e, current)
         /\ Pool!HealthOf(e) = PoolFacts!HealthOf(e)
  BY DEF Pool!ReportSuccess, PoolFacts!ReportSuccess, Pool!MarkBlocked, PoolFacts!MarkBlocked,
         Pool!ReportUnsuitable, PoolFacts!ReportUnsuitable, Pool!ReportFailure,
         PoolFacts!ReportFailure, Pool!HealthOf, PoolFacts!HealthOf, Pool!Settled,
         PoolFacts!Settled, Pool!Credited, PoolFacts!Credited, Pool!Blocked, PoolFacts!Blocked,
         Pool!Unsuitable, PoolFacts!Unsuitable, Pool!Failed, PoolFacts!Failed, Pool!Usable,
         PoolFacts!Usable, Pool!EarnTrust, PoolFacts!EarnTrust, Pool!Struck, PoolFacts!Struck,
         Pool!LoseTrust, PoolFacts!LoseTrust, Pool!Lesser, PoolFacts!Lesser, Pool!Greater,
         PoolFacts!Greater

LEMMA SameReturn ==
  ASSUME NEW e, NEW outcome, NEW current
  PROVE  Pool!Returned(e, outcome, current) = PoolFacts!Returned(e, outcome, current)
  BY SameReports DEF Pool!Returned, PoolFacts!Returned, Pool!Reported, PoolFacts!Reported

LEMMA SameRelease ==
  ASSUME NEW j, NEW outcome, Pool!Release(j, outcome)
  PROVE  PoolFacts!Release(j, outcome)
  <1> DEFINE p == lease[j].id
             current == lease[j].generation = entry[p].generation
             told == Pool!Returned(entry[p], outcome, current)
             same == PoolFacts!Returned(entry[p], outcome, current)
  <1>1. told = same
    <2> HIDE DEF current
    <2> QED BY SameReturn
  <1>2. /\ Pool!HealthOf(told) = PoolFacts!HealthOf(told)
        /\ Pool!HealthOf(entry[p]) = PoolFacts!HealthOf(entry[p])
    BY SameReports
  <1>3. /\ entry' = [entry EXCEPT ![p] = told]
        /\ announced' = [announced EXCEPT ![p] =
                           IF Pool!HealthOf(told) # Pool!HealthOf(entry[p])
                           THEN Pool!HealthOf(told) ELSE @]
    BY DEF Pool!Release
  <1>4. /\ jobState[j] = "leased" /\ lease' = [lease EXCEPT ![j] = Null]
        /\ PoolFacts!WakeWaiters([jobState EXCEPT ![j] = "idle"])
        /\ UNCHANGED <<now, configured, Supply, roster, sequence, exploreCredit,
                       poolExhaustedCount, deadline, aborted, acquires>>
    BY DEF Pool!Release, Pool!WakeWaiters, PoolFacts!WakeWaiters
  <1>5. /\ entry' = [entry EXCEPT ![p] = same]
        /\ announced' = [announced EXCEPT ![p] =
                           IF PoolFacts!HealthOf(same) # PoolFacts!HealthOf(entry[p])
                           THEN PoolFacts!HealthOf(same) ELSE @]
    <2> HIDE DEF told, same
    <2> QED BY <1>1, <1>2, <1>3
  <1> QED BY <1>4, <1>5 DEF PoolFacts!Release

LEMMA SameNext ==
  ASSUME Pool!Next PROVE PoolFacts!Next
  <1>1. ASSUME NEW j \in Jobs, Pool!Acquire(j) \/ Pool!Resume(j)
        PROVE  PoolFacts!Acquire(j) \/ PoolFacts!Resume(j)
    BY <1>1, SamePass DEF Pool!Acquire, PoolFacts!Acquire, Pool!Resume, PoolFacts!Resume,
                          Pool!CanAcquire, PoolFacts!CanAcquire
  <1>2. ASSUME NEW j \in Jobs, Pool!FinishDirect(j) \/ Pool!TimerFires(j) \/ Pool!Abort(j)
        PROVE  PoolFacts!FinishDirect(j) \/ PoolFacts!TimerFires(j) \/ PoolFacts!Abort(j)
    BY <1>2 DEF Pool!FinishDirect, PoolFacts!FinishDirect, Pool!TimerFires,
                PoolFacts!TimerFires, Pool!Abort, PoolFacts!Abort, Pool!poolVars,
                PoolFacts!poolVars
  <1>3. ASSUME NEW targets, Pool!Add(targets) PROVE PoolFacts!Add(targets)
    BY <1>3, SameViews DEF Pool!Add, PoolFacts!Add, Pool!Fresh, PoolFacts!Fresh,
                           Pool!WakeWaiters, PoolFacts!WakeWaiters
  <1>4. ASSUME NEW targets, Pool!Evict(targets) PROVE PoolFacts!Evict(targets)
    BY <1>4, SameViews DEF Pool!Evict, PoolFacts!Evict, Pool!Evictable, PoolFacts!Evictable,
                           Pool!Swept, PoolFacts!Swept, Pool!jobVars, PoolFacts!jobVars
  <1>5. CASE Pool!GetStats
    BY <1>5, SameViews DEF Pool!GetStats, PoolFacts!GetStats, Pool!Swept, PoolFacts!Swept,
                           Pool!jobVars, PoolFacts!jobVars, PoolFacts!Next
  <1>6. CASE Pool!SupplyChanges \/ Pool!Tick \/ Pool!Finished
    BY <1>6 DEF Pool!SupplyChanges, PoolFacts!SupplyChanges, Pool!Tick, PoolFacts!Tick,
                Pool!Finished, PoolFacts!Finished, Pool!CanAcquire, PoolFacts!CanAcquire,
                Pool!poolVars, PoolFacts!poolVars, Pool!jobVars, PoolFacts!jobVars, Pool!vars,
                PoolFacts!vars,
                PoolFacts!Next
  <1> QED BY <1>1, <1>2, <1>3, <1>4, <1>5, <1>6, SameRelease
     DEF Pool!Next, PoolFacts!Next, Pool!ReleaseSome, PoolFacts!ReleaseSome, Pool!Outcomes,
         PoolFacts!Outcomes

LEMMA SameSpec == Pool!Spec => PoolFacts!Spec
  <1>1. Pool!Init => PoolFacts!Init
    BY DEF Pool!Init, PoolFacts!Init, Pool!Fresh, PoolFacts!Fresh
  <1>2. [Pool!Next]_(Pool!vars) => [PoolFacts!Next]_(PoolFacts!vars)
    BY SameNext DEF Pool!vars, PoolFacts!vars, Pool!poolVars, PoolFacts!poolVars, Pool!jobVars,
                    PoolFacts!jobVars
  <1> QED BY <1>1, <1>2, PTL DEF Pool!Spec, PoolFacts!Spec

LEMMA SameBooks ==
  ASSUME PoolFacts!LeasesInOrder PROVE Pool!LeasesInOrder
  BY DEF Pool!LeasesInOrder, PoolFacts!LeasesInOrder, Pool!TypeOK, PoolFacts!TypeOK,
         Pool!LeaseAccounting, PoolFacts!LeaseAccounting, Pool!WithinCeiling,
         PoolFacts!WithinCeiling, Pool!CurrentLeaseInRotation,
         PoolFacts!CurrentLeaseInRotation, Pool!Entry, PoolFacts!Entry, Pool!Healths,
         PoolFacts!Healths, Pool!JobStates, PoolFacts!JobStates, Pool!Leases, PoolFacts!Leases,
         Pool!Holders, PoolFacts!Holders, Pool!Holds, PoolFacts!Holds, Pool!Benched,
         PoolFacts!Benched, Pool!BlockKinds, PoolFacts!BlockKinds, Pool!Cardinality,
         PoolFacts!Cardinality

LEMMA SameWaits ==
  ASSUME PoolFacts!NoStrandedWaiter, PoolFacts!NeverSilentlyDirect, PoolFacts!EventsTrackHealth
  PROVE  Pool!NoStrandedWaiter /\ Pool!NeverSilentlyDirect /\ Pool!EventsTrackHealth
  BY DEF Pool!NoStrandedWaiter, PoolFacts!NoStrandedWaiter, Pool!NeverSilentlyDirect,
         PoolFacts!NeverSilentlyDirect, Pool!EventsTrackHealth, PoolFacts!EventsTrackHealth,
         Pool!HealthOf, PoolFacts!HealthOf, Pool!Expired, PoolFacts!Expired, Pool!Usable,
         PoolFacts!Usable

LEMMA SamePromise == PoolFacts!ImplementsLeasedPool => Pool!ImplementsLeasedPool
  <1>1. Pool!Standing = PoolFacts!Standing /\ Pool!HeldBy = PoolFacts!HeldBy
    BY DEF Pool!Standing, PoolFacts!Standing, Pool!HeldBy, PoolFacts!HeldBy, Pool!Usable,
           PoolFacts!Usable, Pool!Holders, PoolFacts!Holders, Pool!Holds, PoolFacts!Holds
  <1>2. PoolFacts!Promise!LeasedInit => Pool!Promise!LeasedInit
    BY <1>1 DEF PoolFacts!Promise!LeasedInit, Pool!Promise!LeasedInit
  <1>3. [PoolFacts!Promise!LeasedNext]_(PoolFacts!Promise!leasedVars)
          => [Pool!Promise!LeasedNext]_(Pool!Promise!leasedVars)
    BY DEF Pool!Promise!LeasedNext, PoolFacts!Promise!LeasedNext, Pool!Promise!leasedVars,
           PoolFacts!Promise!leasedVars, Pool!Promise!Take, PoolFacts!Promise!Take,
           Pool!Promise!GiveBack, PoolFacts!Promise!GiveBack, Pool!Promise!EndBenches,
           PoolFacts!Promise!EndBenches, Pool!Promise!Join, PoolFacts!Promise!Join,
           Pool!Promise!Leave, PoolFacts!Promise!Leave, Pool!Promise!Cardinality,
           PoolFacts!Promise!Cardinality, Pool!Standing, PoolFacts!Standing, Pool!HeldBy,
           PoolFacts!HeldBy, Pool!Usable, PoolFacts!Usable, Pool!Holders, PoolFacts!Holders,
           Pool!Holds, PoolFacts!Holds
  <1> QED BY <1>2, <1>3, PTL DEF PoolFacts!ImplementsLeasedPool, Pool!ImplementsLeasedPool,
                                 PoolFacts!Promise!LeasedSpec, Pool!Promise!LeasedSpec

LEMMA LimitsOfPool ==
  /\ PoolFacts!IsFiniteSet(Proxies) /\ PoolFacts!IsFiniteSet(Jobs)
  /\ MaxConsecutiveFailures \in Nat \ {0}
  /\ CooldownMs \in Nat
  /\ MaxConcurrentPerProxy \in Nat
  /\ ProbationConcurrency \in Nat \ {0}
  /\ ExplorationPeriod \in Nat
  /\ TRUE \in BOOLEAN
  /\ AcquireWaitMs \in Nat
  /\ MaxAcquires \in Nat /\ MaxTime \in Nat
  /\ Null \notin Nat
  /\ Null \notin [id : Proxies, generation : Nat]
  /\ Null \notin {"consecutive_failures", "unsuitable_exit", "detected_block"}
  BY SourceAssumption, PoolLimits DEF IsFiniteSet, PoolFacts!IsFiniteSet

\* A pool that is filled, replenished and evicted from while jobs run keeps its
\* books: no lease is lost or taken twice, nobody waits for a release that is not
\* coming, no request goes out without a proxy, and the event log tells the truth.
THEOREM SuppliedPoolInOrder ==
  Spec => [](/\ Pool!LeasesInOrder /\ Pool!NoStrandedWaiter
             /\ Pool!NeverSilentlyDirect /\ Pool!EventsTrackHealth)
  BY LimitsOfPool, SourceDrivesPool, SameSpec, SameBooks, SameWaits, PoolFacts!LeasesAreInOrder,
     PoolFacts!NobodyStranded, PoolFacts!NeverDirect, PoolFacts!EventsAreTrue, PTL

\* Replenishing never cuts a bench short: one is served in full and once, and a
\* retirement is for good, for as long as the source keeps the proxy.
THEOREM SuppliedSentencesServed ==
  Spec => Pool!SentenceServed
  <1>1. PoolFacts!SentenceServed => Pool!SentenceServed
    BY PTL DEF Pool!SentenceServed, PoolFacts!SentenceServed, Pool!Benched, PoolFacts!Benched,
               Pool!vars, PoolFacts!vars, Pool!poolVars, PoolFacts!poolVars, Pool!jobVars,
               PoolFacts!jobVars
  <1> QED BY <1>1, LimitsOfPool, SourceDrivesPool, SameSpec, PoolFacts!SentencesServed, PTL

\* The source manager and its pool together are a LeasedPool: proxies join and
\* leave only when nobody holds them, and whoever asks for a lease cannot tell a
\* pool that is being replenished from the one it was promised.
THEOREM SuppliedPoolKeepsPromise ==
  Spec => Pool!ImplementsLeasedPool
  BY LimitsOfPool, SourceDrivesPool, SameSpec, SamePromise, PoolFacts!PoolKeepsPromise, PTL
=============================================================================
