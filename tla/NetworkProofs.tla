--------------------------- MODULE NetworkProofs ----------------------------
(* What the parts between a runner and the network keep, for every value of   *)
(* their constants: the session pool, the rate limiter, the byte counting of  *)
(* the HTTP client, and the scrapes of the two platforms.                     *)
EXTENDS SessionPool, RateLimiter, Transport, TikTok, ShortLinks, Instagram,
        SumLemmas, SequenceTheorems

-----------------------------------------------------------------------------
(* What the report of an attempt does to the entry of its session.          *)

\* A streak long enough for a bench comes with one.
BenchedByStreak(e) ==
  e.consecutiveFailures >= MaxConsecutiveFailures => e.cooldownUntil # Null

\* An entry stays an entry when a field other than inUse is replaced.
LEMMA SetStreak ==
  ASSUME NEW e \in Entry, NEW v \in Nat
  PROVE  LET f == [e EXCEPT !.consecutiveFailures = v] IN f \in Entry /\ f.inUse = e.inUse
  BY DEF Entry

LEMMA SetBlocked ==
  ASSUME NEW e \in Entry, NEW v \in BOOLEAN
  PROVE  LET f == [e EXCEPT !.blocked = v] IN f \in Entry /\ f.inUse = e.inUse
  BY DEF Entry

LEMMA SetCooldown ==
  ASSUME NEW e \in Entry, NEW v \in Nat \cup {Null}
  PROVE  LET f == [e EXCEPT !.cooldownUntil = v] IN f \in Entry /\ f.inUse = e.inUse
  BY DEF Entry

\* No report is about whether the session is in use.
LEMMA ReportedType ==
  ASSUME NEW e \in Entry, NEW o \in Outcomes, now \in Nat
  PROVE  Reported(e, o) \in Entry /\ Reported(e, o).inUse = e.inUse
  <1> DEFINE Kept(f) == f \in Entry /\ f.inUse = e.inUse
             struck == [e EXCEPT !.consecutiveFailures = @ + 1]
  <1>1. 0 \in Nat /\ e.consecutiveFailures + 1 \in Nat /\ e.cooldownUntil \in Nat \cup {Null}
    BY DEF Entry
  <1>2. now + CooldownMs \in Nat \cup {Null} /\ Null \in Nat \cup {Null}
    <2>1. CooldownMs \in Nat
      BY SessionAssumption
    <2>2. now + CooldownMs \in Nat
      BY <2>1
    <2> QED BY <2>2
  <1>3. Kept(ReportSuccess(e))
    <2> DEFINE ended == [e EXCEPT !.consecutiveFailures = 0]
    <2>1. ended \in Entry /\ ended.inUse = e.inUse
      BY SetStreak
    <2>2. ReportSuccess(e) = [ended EXCEPT !.cooldownUntil = Null]
      BY DEF ReportSuccess, Entry
    <2>3. Null \in Nat \cup {Null}
      OBVIOUS
    <2> HIDE DEF ended
    <2> QED BY <2>1, <2>2, <2>3, SetCooldown
  <1>4. Kept(struck)
    BY <1>1, SetStreak
  <1>5. Kept(ReportFailure(e))
    BY <1>1, <1>2, <1>4, SetCooldown DEF ReportFailure
  <1>6. Kept([struck EXCEPT !.blocked = TRUE])
    BY <1>4, SetBlocked
  <1>7. Kept(MarkBlocked(e))
    BY <1>2, <1>6, SetCooldown DEF MarkBlocked
  <1> HIDE DEF Kept
  <1>8. Kept(e)
    BY DEF Kept
  <1>9. Kept(Reported(e, o))
    BY <1>3, <1>5, <1>7, <1>8 DEF Reported, Outcomes
  <1> QED BY <1>9 DEF Kept

\* Only a success lifts a bench, and it ends the streak at once.
LEMMA ReportedBenches ==
  ASSUME NEW e \in Entry, NEW o \in Outcomes, now \in Nat, BenchedByStreak(e)
  PROVE  BenchedByStreak(Reported(e, o))
  <1>1. now + CooldownMs # Null
    BY SessionAssumption
  <1>2. CASE o = "success"
    <2>1. ReportSuccess(e).consecutiveFailures = 0
      BY DEF ReportSuccess, Entry
    <2> QED BY <1>2, <2>1, SessionAssumption DEF Reported, BenchedByStreak
  <1>3. CASE o = "failure"
    BY <1>3, <1>1, SessionAssumption DEF Reported, ReportFailure, BenchedByStreak, Entry
  <1>4. CASE o = "blocked"
    BY <1>4, <1>1 DEF Reported, MarkBlocked, BenchedByStreak, Entry
  <1>5. CASE o = "unused"
    BY <1>5 DEF Reported
  <1> QED BY <1>2, <1>3, <1>4, <1>5 DEF Outcomes

\* The same with the release that follows the report.
LEMMA ReleasedFacts ==
  ASSUME NEW e \in Entry, NEW o \in Outcomes, now \in Nat, BenchedByStreak(e)
  PROVE  /\ Released(e, o) \in Entry
         /\ ~Released(e, o).inUse
         /\ BenchedByStreak(Released(e, o))
  <1>1. Reported(e, o) \in Entry /\ BenchedByStreak(Reported(e, o))
    BY ReportedType, ReportedBenches
  <1> QED BY <1>1 DEF Released, BenchedByStreak, Entry

-----------------------------------------------------------------------------
(* The invariant.  Its parts need no strengthening but the types.           *)

SessionIInv == TypeOK /\ StreakIsBenched /\ InUseHasHolder

LEMMA SessionInitIInv == Init => SessionIInv
  <1> SUFFICES ASSUME Init PROVE SessionIInv
    OBVIOUS
  <1>1. TypeOK
    BY DEF Init, TypeOK, Entry
  <1>2. \A s \in Sessions : entry[s].consecutiveFailures = 0 /\ entry[s].inUse = FALSE
    BY DEF Init
  <1>3. ~(0 >= MaxConsecutiveFailures)
    BY SessionAssumption
  <1> QED BY <1>1, <1>2, <1>3 DEF SessionIInv, StreakIsBenched, InUseHasHolder

\* The session leased is marked in use, by the job that now holds it; the one
\* other job's hold is untouched, for this job held nothing.
LEMMA AcquireIInv ==
  ASSUME SessionIInv, NEW j \in Jobs, NEW route \in Routes, Acquire(j, route)
  PROVE  SessionIInv'
  <1>1. PICK s \in Sessions :
          /\ entry' = [entry EXCEPT ![s].inUse = TRUE, ![s].lastUsedAt = now]
          /\ held' = [held EXCEPT ![j] = s]
    BY DEF Acquire, LeastRecent, Usable
  <1>2. now' = now /\ held[j] = Null
    BY DEF Acquire
  <1> USE DEF SessionIInv
  <1>3. TypeOK'
    <2>1. [entry[s] EXCEPT !.inUse = TRUE, !.lastUsedAt = now] \in Entry
      BY DEF TypeOK, Entry
    <2>2. entry' = [entry EXCEPT ![s] = [entry[s] EXCEPT !.inUse = TRUE, !.lastUsedAt = now]]
      BY <1>1 DEF TypeOK, Entry
    <2>3. entry' \in [Sessions -> Entry]
      BY <2>1, <2>2 DEF TypeOK
    <2>4. held' \in [Jobs -> Sessions \cup {Null}]
      BY <1>1 DEF TypeOK
    <2> QED BY <1>2, <2>3, <2>4 DEF TypeOK
  <1>4. StreakIsBenched'
    BY <1>1 DEF TypeOK, StreakIsBenched, Entry
  <1>5. InUseHasHolder'
    <2> SUFFICES ASSUME NEW t \in Sessions, entry'[t].inUse
                 PROVE  \E k \in Jobs : held'[k] = t
      BY DEF InUseHasHolder
    <2>1. CASE t = s
      BY <2>1, <1>1 DEF TypeOK
    <2>2. CASE t # s
      <3>1. entry'[t] = entry[t]
        BY <1>1, <2>2 DEF TypeOK
      <3>2. PICK k \in Jobs : held[k] = t
        BY <3>1 DEF InUseHasHolder
      <3>3. k # j
        BY <3>2, <1>2, SessionAssumption
      <3> QED BY <3>2, <3>3, <1>1 DEF TypeOK
    <2> QED BY <2>1, <2>2
  <1> QED BY <1>3, <1>4, <1>5

\* The first holder to come back clears the flag for all of them, so no session
\* but its own can lose the holder the flag stands for.
LEMMA ReleaseIInv ==
  ASSUME SessionIInv, NEW j \in Jobs, NEW o \in Outcomes, Release(j, o)
  PROVE  SessionIInv'
  <1> DEFINE s == held[j]
  <1> USE DEF SessionIInv
  <1>1. s \in Sessions /\ entry[s] \in Entry /\ now \in Nat
    BY DEF Release, TypeOK
  <1>2. BenchedByStreak(entry[s])
    BY <1>1 DEF StreakIsBenched, BenchedByStreak
  <1>3. /\ Released(entry[s], o) \in Entry
        /\ ~Released(entry[s], o).inUse
        /\ BenchedByStreak(Released(entry[s], o))
    BY <1>1, <1>2, ReleasedFacts
  <1>4. /\ entry' = [entry EXCEPT ![s] = Released(entry[s], o)]
        /\ held' = [held EXCEPT ![j] = Null]
        /\ now' = now
    BY DEF Release
  <1>5. \A t \in Sessions :
          entry'[t] = IF t = s THEN Released(entry[s], o) ELSE entry[t]
    BY <1>1, <1>4 DEF TypeOK
  <1>6. TypeOK'
    BY <1>1, <1>3, <1>4 DEF TypeOK
  <1>7. StreakIsBenched'
    BY <1>3, <1>5 DEF StreakIsBenched, BenchedByStreak
  <1>8. InUseHasHolder'
    <2> SUFFICES ASSUME NEW t \in Sessions, entry'[t].inUse
                 PROVE  \E k \in Jobs : held'[k] = t
      BY DEF InUseHasHolder
    <2>1. t # s /\ entry[t].inUse
      BY <1>3, <1>5
    <2>2. PICK k \in Jobs : held[k] = t
      BY <2>1 DEF InUseHasHolder
    <2>3. k # j
      BY <2>1, <2>2
    <2> QED BY <2>2, <2>3, <1>4 DEF TypeOK
  <1> QED BY <1>6, <1>7, <1>8

LEMMA SessionNextIInv == SessionIInv /\ [Next]_vars => SessionIInv'
  <1> SUFFICES ASSUME SessionIInv, [Next]_vars PROVE SessionIInv'
    OBVIOUS
  <1>1. CASE UNCHANGED vars
    BY <1>1 DEF vars, SessionIInv, TypeOK, StreakIsBenched, InUseHasHolder
  <1>2. ASSUME NEW j \in Jobs, NEW route \in Routes, Acquire(j, route) PROVE SessionIInv'
    BY <1>2, AcquireIInv
  <1>3. ASSUME NEW j \in Jobs, NEW route \in Routes, Anonymous(j, route) PROVE SessionIInv'
    BY <1>3, <1>1 DEF Anonymous
  <1>4. ASSUME NEW j \in Jobs, NEW o \in Outcomes, Release(j, o) PROVE SessionIInv'
    BY <1>4, ReleaseIInv
  <1>5. CASE Tick
    BY <1>5 DEF Tick, SessionIInv, TypeOK, StreakIsBenched, InUseHasHolder
  <1>6. CASE Finished
    BY <1>6, <1>1 DEF Finished
  <1> QED BY <1>1, <1>2, <1>3, <1>4, <1>5, <1>6 DEF Next

LEMMA SessionInvariance == Spec => []SessionIInv
  BY SessionInitIInv, SessionNextIInv, PTL DEF Spec

\* A session that failed too often in a row always carries a bench, in whatever
\* order concurrent holders report (reportSuccess, reportFailure, markBlocked).
THEOREM StreaksBenched == Spec => []StreakIsBenched
  <1>1. SessionIInv => StreakIsBenched
    BY DEF SessionIInv
  <1> QED BY <1>1, SessionInvariance, PTL

\* The in-use flag of acquire and release never outlives the last holder.
THEOREM InUseHeld == Spec => []InUseHasHolder
  <1>1. SessionIInv => InUseHasHolder
    BY DEF SessionIInv
  <1> QED BY <1>1, SessionInvariance, PTL

-----------------------------------------------------------------------------
(* The inductive invariant.                                                   *)

Bucket == [tokens : 0 .. Capacity, at : 0 .. clock]
LimitedEntry  == [phase : Phases, host : Hosts \cup {None}, since : 0 .. clock, until : Nat,
           aborted : BOOLEAN]

LimiterTypes ==
  /\ clock \in 0 .. MaxClock
  /\ buckets \in [Hosts -> Bucket \cup {None}]
  /\ chain \in [Hosts -> Seq(Requests)]
  /\ req \in [Requests -> LimitedEntry]
  /\ grants \in [Hosts -> Seq(0 .. clock)]

\* The lines: who waits for a host with a ceiling stands in its line, once, in
\* order of arrival; only the first sleeps, within its own budget, and a timer
\* is never later than it may be.
Line(h) ==
  /\ \A i, j \in DOMAIN chain[h] : chain[h][i] = chain[h][j] => i = j
  /\ \A i \in DOMAIN chain[h] :
       /\ Waiting(chain[h][i]) /\ req[chain[h][i]].host = h
       /\ i # 1 => req[chain[h][i]].phase = "queued"
       /\ \A j \in DOMAIN chain[h] :
            i <= j => req[chain[h][i]].since <= req[chain[h][j]].since
  /\ chain[h] # <<>> => Limited(h) /\ buckets[h] # None

InLine(r) == Waiting(r) => /\ req[r].host \in Hosts
                           /\ \E i \in DOMAIN chain[req[r].host] : chain[req[r].host][i] = r

Sleeper(r) ==
  req[r].phase = "asleep" =>
    /\ clock <= req[r].until + Late
    /\ MaxWait[req[r].host] > 0 => req[r].until <= req[r].since + MaxWait[req[r].host]

\* What has been handed out since any grant, and what is left, came from one
\* burst and from the time up to the last refill.
Covered(h, g, b) ==
  \A i \in DOMAIN g :
    /\ g[i] <= b.at
    /\ (Len(g) - i + 1) * Cost + b.tokens <= Capacity + (b.at - g[i]) * Rate[h]

Account(h) ==
  /\ grants[h] # <<>> => buckets[h] # None
  /\ buckets[h] # None => Limited(h) /\ Covered(h, grants[h], buckets[h])
  /\ \A i, j \in DOMAIN grants[h] :
       i <= j => (j - i + 1) * Cost <= Capacity + (grants[h][j] - grants[h][i]) * Rate[h]

InBudget(r) == Waiting(r) /\ MaxWait[req[r].host] > 0 =>
                 clock - req[r].since <= MaxWait[req[r].host] + Late

LimiterIInv ==
  /\ LimiterTypes
  /\ \A h \in Hosts : Line(h) /\ Account(h)
  /\ \A r \in Requests : InLine(r) /\ Sleeper(r) /\ InBudget(r)

-----------------------------------------------------------------------------
(* The bucket.                                                              *)

LEMMA Products ==
  /\ \A a, b \in Nat : a * b \in Nat
  /\ \A a, b \in Int : a * b \in Int
  /\ \A a, b, c \in Int : (a + b) * c = a * c + b * c
  OBVIOUS

\* k grants within a burst and what came in m ticks: so they are after n more
\* ticks in which no more was gained than came, ...
LEMMA StillCovered ==
  ASSUME NEW k \in Int, NEW cost \in Int, NEW m \in Int, NEW n \in Int, NEW rate \in Int,
         NEW capacity \in Int, NEW before \in Int, NEW after \in Int,
         k * cost + before <= capacity + m * rate, after <= before + n * rate
  PROVE  k * cost + after <= capacity + (m + n) * rate
  <1>1. (m + n) * rate = m * rate + n * rate
    BY Products
  <1>2. k * cost \in Int /\ m * rate \in Int /\ n * rate \in Int
    BY Products
  <1> QED BY <1>1, <1>2

\* ... and so are k + 1, when one token was taken out for the last.
LEMMA OneMoreCovered ==
  ASSUME NEW k \in Int, NEW cost \in Int, NEW m \in Int, NEW rate \in Int,
         NEW capacity \in Int, NEW before \in Int,
         k * cost + before <= capacity + m * rate
  PROVE  (k + 1) * cost + (before - cost) <= capacity + m * rate
  <1>1. (k + 1) * cost = k * cost + 1 * cost
    BY Products
  <1>2. k * cost \in Int /\ m * rate \in Int /\ 1 * cost = cost
    BY Products
  <1> QED BY <1>1, <1>2

LEMMA LimiterConstants ==
  ASSUME RateLimiterAssumption
  PROVE  /\ Capacity \in Nat /\ Cost \in Nat /\ Cost > 0 /\ Cost <= Capacity
         /\ \A h \in Hosts : Rate[h] \in Nat /\ MaxWait[h] \in Nat
         /\ Late \in Nat /\ MaxClock \in Nat
  <1>1. /\ Burst \in Nat /\ Burst >= 1 /\ Cost \in Nat /\ Cost > 0
        /\ \A h \in Hosts : Rate[h] \in Nat /\ MaxWait[h] \in Nat
        /\ Late \in Nat /\ MaxClock \in Nat
    BY DEF RateLimiterAssumption
  <1>2. Capacity \in Nat
    BY <1>1, Products DEF Capacity
  <1>3. (Burst - 1) * Cost \in Nat /\ Burst * Cost = (Burst - 1) * Cost + 1 * Cost
    <2>1. Burst - 1 \in Nat
      BY <1>1
    <2>2. (Burst - 1) * Cost \in Nat
      BY <1>1, <2>1, Products
    <2>3. ((Burst - 1) + 1) * Cost = (Burst - 1) * Cost + 1 * Cost
      BY <1>1, <2>1, Products
    <2> QED BY <1>1, <2>1, <2>2, <2>3
  <1>4. Cost <= Capacity
    BY <1>1, <1>3 DEF Capacity
  <1> QED BY <1>1, <1>2, <1>4

\* A refill forgets nothing: the tokens gained are no more than what arrived.
LEMMA RefillCovers ==
  ASSUME RateLimiterAssumption, LimiterTypes, NEW h \in Hosts, NEW b \in Bucket,
         NEW g \in Seq(0 .. clock), Covered(h, g, b)
  PROVE  /\ Refilled(b, h) \in Bucket /\ Refilled(b, h).at = clock
         /\ Covered(h, g, Refilled(b, h))
  <1> DEFINE gained == (clock - b.at) * Rate[h]
  <1>1. /\ clock \in Nat /\ b.at \in Nat /\ b.at <= clock /\ b.tokens \in Nat /\ b.tokens <= Capacity
        /\ Capacity \in Nat /\ Rate[h] \in Nat /\ Cost \in Nat
    BY LimiterConstants DEF LimiterTypes, Bucket
  <1>2. gained \in Nat
    <2>1. clock - b.at \in Nat
      BY <1>1
    <2> QED BY <1>1, <2>1, Products
  <1> HIDE DEF gained
  <1>3. /\ Refilled(b, h).tokens = Lower(Capacity, b.tokens + gained)
        /\ Refilled(b, h).at = clock
        /\ Refilled(b, h) = [tokens |-> Lower(Capacity, b.tokens + gained), at |-> clock]
    BY DEF Refilled, gained
  <1>4. /\ Refilled(b, h).tokens \in 0 .. Capacity
        /\ Refilled(b, h).tokens <= b.tokens + gained
    BY <1>1, <1>2, <1>3 DEF Lower
  <1>5. Refilled(b, h) \in Bucket
    BY <1>1, <1>3, <1>4 DEF Bucket
  <1>6. ASSUME NEW i \in DOMAIN g
        PROVE  /\ g[i] <= clock
               /\ (Len(g) - i + 1) * Cost + Refilled(b, h).tokens
                    <= Capacity + (clock - g[i]) * Rate[h]
    <2> DEFINE k == Len(g) - i + 1
               m == b.at - g[i]
               n == clock - b.at
    <2>1. g[i] \in 0 .. clock /\ i \in Int /\ Len(g) \in Int
      <3>1. DOMAIN g = 1 .. Len(g) /\ Len(g) \in Nat
        BY LenProperties
      <3>2. i \in 1 .. Len(g)
        BY <3>1
      <3>3. g[i] \in 0 .. clock
        BY <3>2, ElementOfSeq
      <3> QED BY <3>1, <3>2, <3>3
    <2>2. g[i] <= b.at /\ k * Cost + b.tokens <= Capacity + m * Rate[h]
      BY DEF Covered
    <2>3. k \in Int /\ m \in Int /\ n \in Int /\ m + n = clock - g[i]
      <3>1. g[i] \in Int /\ b.at \in Int /\ clock \in Int
        BY <1>1, <2>1
      <3> QED BY <2>1, <3>1
    <2>4. Refilled(b, h).tokens <= b.tokens + n * Rate[h] /\ Refilled(b, h).tokens \in Int
      BY <1>1, <1>4 DEF gained
    <2> HIDE DEF k, m, n
    <2> DEFINE after == Refilled(b, h).tokens
    <2>5. k * Cost + after <= Capacity + (m + n) * Rate[h]
      <3>1. /\ after \in Int /\ b.tokens \in Int /\ Cost \in Int /\ Rate[h] \in Int
            /\ Capacity \in Int
        BY <1>1, <2>4
      <3>2. after <= b.tokens + n * Rate[h]
        BY <2>4
      <3> HIDE DEF after
      <3> QED BY <2>2, <2>3, <3>1, <3>2, StillCovered
    <2> QED BY <1>1, <2>1, <2>2, <2>3, <2>5 DEF k
  <1> QED BY <1>3, <1>5, <1>6 DEF Covered

\* One token more is handed out, clock, out of a bucket that has it.
LEMMA GrantCovers ==
  ASSUME RateLimiterAssumption, LimiterTypes, NEW h \in Hosts, NEW b \in Bucket, b.at = clock,
         NEW g \in Seq(0 .. clock), Covered(h, g, b), b.tokens >= Cost,
         \A i, j \in DOMAIN g :
           i <= j => (j - i + 1) * Cost <= Capacity + (g[j] - g[i]) * Rate[h]
  PROVE  LET after == Append(g, clock)
             left  == [b EXCEPT !.tokens = @ - Cost]
         IN  /\ after \in Seq(0 .. clock) /\ left \in Bucket /\ left.at = clock
             /\ Covered(h, after, left)
             /\ \A i, j \in DOMAIN after :
                  i <= j => (j - i + 1) * Cost <= Capacity + (after[j] - after[i]) * Rate[h]
  <1> DEFINE after == Append(g, clock)
             left  == [b EXCEPT !.tokens = @ - Cost]
  <1>1. /\ clock \in Nat /\ clock \in 0 .. clock /\ b.tokens \in Nat /\ b.tokens <= Capacity
        /\ Capacity \in Nat /\ Rate[h] \in Nat /\ Cost \in Nat
    BY LimiterConstants DEF LimiterTypes, Bucket
  <1>2. /\ after \in Seq(0 .. clock) /\ Len(after) = Len(g) + 1 /\ Len(g) \in Nat
        /\ DOMAIN after = 1 .. Len(g) + 1 /\ DOMAIN g = 1 .. Len(g)
        /\ \A i \in 1 .. Len(g) : after[i] = g[i]
        /\ after[Len(g) + 1] = clock
    BY <1>1, AppendProperties
  <1>3. /\ left.tokens = b.tokens - Cost /\ left.at = clock /\ left \in Bucket
        /\ left.tokens \in Nat
    BY <1>1 DEF Bucket
  <1>4. ASSUME NEW i \in DOMAIN after
        PROVE  /\ after[i] <= clock
               /\ (Len(after) - i + 1) * Cost + left.tokens <= Capacity + (clock - after[i]) * Rate[h]
    <2>1. CASE i = Len(g) + 1
      <3>1. Len(after) - i + 1 = 1 /\ clock - after[i] = 0
        BY <1>1, <1>2, <2>1
      <3>2. 1 * Cost = Cost /\ 0 * Rate[h] = 0
        BY <1>1
      <3> QED BY <1>1, <1>2, <1>3, <2>1, <3>1, <3>2
    <2>2. CASE i \in 1 .. Len(g)
      <3> DEFINE k == Len(g) - i + 1
                 m == clock - g[i]
      <3>1. g[i] <= clock /\ k * Cost + b.tokens <= Capacity + m * Rate[h]
        BY <1>2, <2>2 DEF Covered
      <3>2. g[i] \in 0 .. clock
        BY <1>2, <2>2
      <3>3. k \in Int /\ m \in Int /\ Len(after) - i + 1 = k + 1
        BY <1>1, <1>2, <2>2, <3>2
      <3> HIDE DEF k, m
      <3>4. (k + 1) * Cost + (b.tokens - Cost) <= Capacity + m * Rate[h]
        BY <1>1, <3>1, <3>3, OneMoreCovered
      <3> QED BY <1>2, <1>3, <2>2, <3>1, <3>3, <3>4 DEF m
    <2> QED BY <1>2, <2>1, <2>2
  <1>5. Covered(h, after, left)
    BY <1>3, <1>4 DEF Covered
  <1>6. ASSUME NEW i \in DOMAIN after, NEW j \in DOMAIN after, i <= j
        PROVE  (j - i + 1) * Cost <= Capacity + (after[j] - after[i]) * Rate[h]
    <2>1. CASE j \in 1 .. Len(g)
      BY <1>2, <1>6, <2>1
    <2>2. CASE j = Len(g) + 1
      <3>1. after[i] \in 0 .. clock
        BY <1>2
      <3> DEFINE granted == j - i + 1
                 ticks == clock - after[i]
      <3>2. granted \in Int /\ ticks \in Int
        BY <1>1, <1>2, <3>1
      <3>3. granted * Cost + left.tokens <= Capacity + ticks * Rate[h]
        BY <1>2, <1>4, <2>2
      <3> HIDE DEF left, granted, ticks
      <3>4. granted * Cost \in Int /\ ticks * Rate[h] \in Int
        BY <1>1, <3>2, Products
      <3> DEFINE x == granted * Cost
                 y == ticks * Rate[h]
      <3> HIDE DEF x, y
      <3>5. x <= Capacity + y
        <4>1. x \in Int /\ y \in Int /\ x + left.tokens <= Capacity + y
          BY <3>3, <3>4 DEF x, y
        <4>2. left.tokens \in Nat /\ Capacity \in Int
          BY <1>1, <1>3
        <4> QED BY <4>1, <4>2
      <3> QED BY <1>2, <2>2, <3>5 DEF granted, ticks, x, y
    <2> QED BY <1>2, <2>1, <2>2
  <1> QED BY <1>2, <1>3, <1>5, <1>6

-----------------------------------------------------------------------------
(* The lines.                                                               *)

\* Who waits stands in a line, behind somebody whose turn it is.
LEMMA InSomeLine ==
  ASSUME LimiterIInv, NEW r \in Requests, Waiting(r)
  PROVE  LET h == req[r].host IN
         /\ h \in Hosts /\ chain[h] \in Seq(Requests) /\ chain[h] # <<>>
         /\ Limited(h) /\ buckets[h] \in Bucket
         /\ chain[h][1] \in Requests /\ Head(chain[h]) = chain[h][1]
         /\ 1 \in DOMAIN chain[h] /\ \E i \in DOMAIN chain[h] : chain[h][i] = r
  <1> DEFINE h == req[r].host
  <1>1. h \in Hosts /\ \E i \in DOMAIN chain[h] : chain[h][i] = r
    BY DEF LimiterIInv, InLine
  <1> HIDE DEF h
  <1>2. chain[h] \in Seq(Requests)
    BY <1>1 DEF LimiterIInv, LimiterTypes
  <1>3. DOMAIN chain[h] = 1 .. Len(chain[h]) /\ Len(chain[h]) \in Nat
    BY <1>2, LenProperties
  <1>4. chain[h] # <<>> /\ 1 \in DOMAIN chain[h]
    BY <1>1, <1>3
  <1>5. chain[h][1] \in Requests
    BY <1>2, <1>3, <1>4, ElementOfSeq
  <1>6. Limited(h) /\ buckets[h] \in Bucket
    BY <1>1, <1>4 DEF LimiterIInv, Line, LimiterTypes
  <1> QED BY <1>1, <1>2, <1>4, <1>5, <1>6 DEF h

\* The first in line leaves: everybody moves up, nobody else is touched.
LEMMA LeavesKeeps ==
  ASSUME RateLimiterAssumption, LimiterIInv, NEW r \in Requests, AtTurn(r),
         NEW how \in {"sent", "throttled", "aborted"}, Leaves(r, how), clock' = clock,
         \A k \in Hosts : buckets[k] # None => buckets'[k] # None
  PROVE  /\ chain' \in [Hosts -> Seq(Requests)] /\ req' \in [Requests -> LimitedEntry]
         /\ \A k \in Hosts : Line(k)'
         /\ \A q \in Requests : InLine(q)' /\ Sleeper(q)' /\ InBudget(q)'
  <1> DEFINE h == req[r].host
             c == chain[h]
  <1>1. /\ h \in Hosts /\ c \in Seq(Requests) /\ c # <<>> /\ c[1] = r /\ 1 \in DOMAIN c
        /\ Waiting(r)
    BY InSomeLine DEF AtTurn
  <1>2. /\ req' = [req EXCEPT ![r].phase = how]
        /\ chain' = [chain EXCEPT ![h] = Tail(c)]
    BY DEF Leaves, LeftBy
  <1>3. /\ chain \in [Hosts -> Seq(Requests)] /\ req \in [Requests -> LimitedEntry]
        /\ clock \in Nat
    BY LimiterConstants DEF LimiterIInv, LimiterTypes
  <1> HIDE DEF h, c
  <1>4. /\ Tail(c) \in Seq(Requests) /\ Len(Tail(c)) = Len(c) - 1 /\ Len(c) \in Nat
        /\ DOMAIN c = 1 .. Len(c) /\ DOMAIN Tail(c) = 1 .. Len(Tail(c))
        /\ \A i \in 1 .. Len(Tail(c)) : Tail(c)[i] = c[i + 1]
    BY <1>1, HeadTailProperties, LenProperties
  <1>5. \A i \in DOMAIN Tail(c) : /\ i + 1 \in DOMAIN c /\ i + 1 # 1 /\ Tail(c)[i] = c[i + 1]
                                  /\ i \in Nat
    BY <1>4
  <1>6. /\ chain' \in [Hosts -> Seq(Requests)] /\ chain'[h] = Tail(c)
        /\ \A k \in Hosts : k # h => chain'[k] = chain[k]
    BY <1>1, <1>2, <1>3, <1>4
  <1>7. /\ req' \in [Requests -> LimitedEntry]
        /\ req'[r] = [req[r] EXCEPT !.phase = how]
        /\ \A q \in Requests : q # r => req'[q] = req[q]
    BY <1>2, <1>3 DEF LimitedEntry, Phases
  <1>8. /\ req'[r].phase = how /\ ~Waiting(r)'
        /\ \A q \in Requests : Waiting(q)' => q # r /\ Waiting(q)
    BY <1>3, <1>7 DEF LimitedEntry, Waiting
  <1>9. c = chain[h] /\ Line(h)
    BY <1>1 DEF LimiterIInv, c
  <1>10. \A i \in DOMAIN c : c[i] \in Requests /\ (i # 1 => c[i] # r)
    <2>1. \A i \in DOMAIN c : c[i] \in Requests
      BY <1>1, <1>4, ElementOfSeq
    <2> QED BY <2>1, <1>1, <1>9 DEF Line
  <1>11. ASSUME NEW k \in Hosts PROVE Line(k)'
    <2>1. CASE k = h
      <3> DEFINE d == Tail(c)
      <3>1. chain'[k] = d
        BY <1>6, <2>1
      <3>2. \A i \in DOMAIN d : /\ d[i] = c[i + 1] /\ i + 1 \in DOMAIN c /\ i + 1 # 1
                                /\ d[i] \in Requests /\ d[i] # r /\ i \in Nat
        BY <1>5, <1>10
      <3> HIDE DEF d
      <3>3. \A i, j \in DOMAIN d : d[i] = d[j] => i = j
        <4> SUFFICES ASSUME NEW i \in DOMAIN d, NEW j \in DOMAIN d, d[i] = d[j] PROVE i = j
          OBVIOUS
        <4>1. i + 1 = j + 1
          BY <1>9, <3>2 DEF Line
        <4> QED BY <3>2, <4>1
      <3>4. ASSUME NEW i \in DOMAIN d
            PROVE  /\ req'[d[i]].phase \in {"queued", "asleep"} /\ req'[d[i]].host = k
                   /\ i # 1 => req'[d[i]].phase = "queued"
                   /\ \A j \in DOMAIN d : i <= j => req'[d[i]].since <= req'[d[j]].since
        <4>1. req'[d[i]] = req[d[i]] /\ \A j \in DOMAIN d : req'[d[j]] = req[d[j]]
          BY <1>7, <3>2
        <4>2. /\ Waiting(d[i]) /\ req[d[i]].host = h /\ req[d[i]].phase = "queued"
              /\ \A j \in DOMAIN d : i + 1 <= j + 1 => req[d[i]].since <= req[d[j]].since
          BY <1>9, <3>2 DEF Line
        <4>3. \A j \in DOMAIN d : i <= j => i + 1 <= j + 1
          BY <3>2
        <4> QED BY <2>1, <4>1, <4>2, <4>3 DEF Waiting
      <3>5. Limited(k)' /\ buckets'[k] # None
        BY <1>1, <1>9, <2>1 DEF Line, Limited
      <3> QED BY <3>1, <3>3, <3>4, <3>5 DEF Line, Waiting
    <2>2. CASE k # h
      <3>1. Line(k) /\ chain'[k] = chain[k]
        BY <1>6, <2>2 DEF LimiterIInv
      <3>2. \A i \in DOMAIN chain[k] : chain[k][i] \in Requests
        BY <1>3, ElementOfSeq, LenProperties
      <3>3. \A i \in DOMAIN chain[k] : chain[k][i] # r
        BY <2>2, <3>1 DEF Line, h
      <3>4. \A i \in DOMAIN chain[k] : req'[chain[k][i]] = req[chain[k][i]]
        BY <1>7, <3>2, <3>3
      <3> QED BY <3>1, <3>4 DEF Line, Waiting, Limited
    <2> QED BY <2>1, <2>2
  <1>12. ASSUME NEW q \in Requests PROVE InLine(q)' /\ Sleeper(q)' /\ InBudget(q)'
    <2>1. CASE q = r
      BY <1>3, <1>8, <2>1 DEF InLine, Sleeper, InBudget, Waiting, LimitedEntry
    <2>2. CASE q # r
      <3>1. req'[q] = req[q] /\ InLine(q) /\ Sleeper(q) /\ InBudget(q)
        BY <1>7, <2>2 DEF LimiterIInv
      <3>2. Sleeper(q)' /\ InBudget(q)'
        BY <3>1 DEF Sleeper, InBudget, Waiting
      <3>3. InLine(q)'
        <4> SUFFICES ASSUME Waiting(q)
                     PROVE  /\ req[q].host \in Hosts
                            /\ \E i \in DOMAIN chain'[req[q].host] : chain'[req[q].host][i] = q
          BY <3>1 DEF InLine, Waiting
        <4>1. PICK i \in DOMAIN chain[req[q].host] : chain[req[q].host][i] = q
          BY <3>1 DEF InLine
        <4>2. CASE req[q].host # h
          BY <1>6, <3>1, <4>1, <4>2 DEF InLine
        <4>3. CASE req[q].host = h
          <5>1. i \in DOMAIN c /\ c[i] = q /\ i # 1
            BY <1>1, <1>9, <2>2, <4>1, <4>3
          <5>2. i - 1 \in DOMAIN Tail(c) /\ (i - 1) + 1 = i
            BY <1>4, <5>1
          <5>3. Tail(c)[i - 1] = c[(i - 1) + 1]
            BY <1>5, <5>2
          <5>4. Tail(c)[i - 1] = q
            BY <5>1, <5>2, <5>3
          <5> QED BY <1>1, <1>6, <4>3, <5>2, <5>4
        <4> QED BY <4>2, <4>3
      <3> QED BY <3>2, <3>3
    <2> QED BY <2>1, <2>2
  <1> QED BY <1>6, <1>7, <1>11, <1>12

\* A request enters at the end of its line, and after all who stand there.
LEMMA EnterKeeps ==
  ASSUME RateLimiterAssumption, LimiterIInv, NEW r \in Requests, NEW h \in Hosts, Enter(r, h)
  PROVE  LimiterIInv'
  <1> DEFINE e == [Idle EXCEPT !.phase = IF Limited(h) THEN "queued" ELSE "sent",
                               !.host = h, !.since = clock]
  <1>1. /\ req[r].phase = "new" /\ req' = [req EXCEPT ![r] = e] /\ clock' = clock /\ grants' = grants
        /\ clock \in Nat /\ req \in [Requests -> LimitedEntry] /\ chain \in [Hosts -> Seq(Requests)]
    BY LimiterConstants DEF Enter, LimiterIInv, LimiterTypes
  <1>2. /\ e \in LimitedEntry /\ e.host = h /\ e.since = clock
        /\ e.phase = IF Limited(h) THEN "queued" ELSE "sent"
    <2> DEFINE p == IF Limited(h) THEN "queued" ELSE "sent"
    <2>1. p \in Phases
      BY DEF Phases
    <2>2. e = [phase |-> p, host |-> h, since |-> clock, until |-> 0, aborted |-> FALSE]
      <3> DEFINE base == [phase |-> "new", host |-> None, since |-> 0, until |-> 0,
                          aborted |-> FALSE]
      <3>1. e = [base EXCEPT !.phase = p, !.host = h, !.since = clock]
        BY DEF Idle
      <3> HIDE DEF p, e
      <3> QED BY <3>1
    <2> HIDE DEF p, e
    <2>3. e \in LimitedEntry /\ e.host = h /\ e.since = clock /\ e.phase = p
      BY <1>1, <2>1, <2>2 DEF LimitedEntry
    <2> QED BY <2>3 DEF p
  <1> HIDE DEF e
  <1>3. /\ req' \in [Requests -> LimitedEntry] /\ req'[r] = e
        /\ \A q \in Requests : q # r => req'[q] = req[q]
    BY <1>1, <1>2
  <1>4. ~Waiting(r)
    BY <1>1 DEF Waiting
  <1>5. ASSUME NEW k \in Hosts
        PROVE  \A i \in DOMAIN chain[k] :
                 chain[k][i] \in Requests /\ req'[chain[k][i]] = req[chain[k][i]]
    <2>1. chain[k] \in Seq(Requests) /\ Line(k)
      BY <1>1 DEF LimiterIInv
    <2>2. \A i \in DOMAIN chain[k] : chain[k][i] \in Requests /\ chain[k][i] # r
      BY <1>4, <2>1, ElementOfSeq, LenProperties DEF Line
    <2> QED BY <1>3, <2>2
  <1>6. ASSUME NEW q \in Requests PROVE Sleeper(q)' /\ InBudget(q)'
    <2>1. CASE q = r
      BY <1>1, <1>2, <1>3, <2>1, LimiterConstants DEF Sleeper, InBudget, Waiting
    <2>2. CASE q # r
      BY <1>1, <1>3, <2>2 DEF LimiterIInv, Sleeper, InBudget, Waiting
    <2> QED BY <2>1, <2>2
  <1>7. CASE ~Limited(h)
    <2>1. chain' = chain /\ buckets' = buckets
      BY <1>7 DEF Enter
    <2>2. LimiterTypes'
      BY <1>1, <1>3, <2>1 DEF LimiterIInv, LimiterTypes, LimitedEntry, Bucket
    <2>3. ASSUME NEW k \in Hosts PROVE Line(k)' /\ Account(k)'
      <3>1. Line(k)'
        BY <1>5, <2>1 DEF LimiterIInv, Line, Waiting, Limited
      <3>2. Account(k)'
        BY <1>1, <2>1 DEF LimiterIInv, Account, Covered, Limited
      <3> QED BY <3>1, <3>2
    <2>4. ASSUME NEW q \in Requests PROVE InLine(q)'
      <3>1. CASE q = r
        BY <1>2, <1>3, <1>7, <3>1 DEF InLine, Waiting
      <3>2. CASE q # r
        BY <1>3, <2>1, <3>2 DEF LimiterIInv, InLine, Waiting
      <3> QED BY <3>1, <3>2
    <2> QED BY <1>6, <2>2, <2>3, <2>4 DEF LimiterIInv
  <1>8. CASE Limited(h)
    <2> DEFINE c == chain[h]
               d == Append(c, r)
               full == [tokens |-> Capacity, at |-> clock]
    <2>1. /\ chain' = [chain EXCEPT ![h] = d]
          /\ buckets' = IF buckets[h] # None THEN buckets ELSE [buckets EXCEPT ![h] = full]
      BY <1>8 DEF Enter
    <2>2. /\ d \in Seq(Requests) /\ Len(d) = Len(c) + 1 /\ Len(c) \in Nat
          /\ DOMAIN d = 1 .. Len(c) + 1 /\ DOMAIN c = 1 .. Len(c)
          /\ \A i \in 1 .. Len(c) : d[i] = c[i]
          /\ d[Len(c) + 1] = r
      BY <1>1, AppendProperties
    <2>3. chain' \in [Hosts -> Seq(Requests)] /\ chain'[h] = d
          /\ \A k \in Hosts : k # h => chain'[k] = chain[k]
      BY <1>1, <2>1, <2>2
    <2>4. full \in Bucket
      BY <1>1, LimiterConstants DEF Bucket
    <2>5. /\ buckets' \in [Hosts -> Bucket \cup {None}]
          /\ \A k \in Hosts : buckets'[k] = IF k = h /\ buckets[h] = None THEN full ELSE buckets[k]
      BY <2>1, <2>4 DEF LimiterIInv, LimiterTypes
    <2>6. LimiterTypes'
      BY <1>1, <1>3, <2>3, <2>5 DEF LimiterIInv, LimiterTypes, LimitedEntry, Bucket
    <2>7. full # None
      <3>1. full \in [tokens : Nat, at : Nat]
        BY <1>1, LimiterConstants
      <3> QED BY <3>1 DEF RateLimiterAssumption
    <2> HIDE DEF full
    <2>8. ASSUME NEW k \in Hosts PROVE Line(k)'
      <3>1. CASE k # h
        <4>1. chain'[k] = chain[k] /\ buckets'[k] = buckets[k] /\ Line(k)
          BY <2>3, <2>5, <3>1 DEF LimiterIInv
        <4>2. \A i \in DOMAIN chain[k] : req'[chain[k][i]] = req[chain[k][i]]
          BY <1>5
        <4> HIDE DEF c, d
        <4> QED BY <4>1, <4>2 DEF Line, Waiting, Limited
      <3>2. CASE k = h
        <4>1. /\ \A i \in DOMAIN c : /\ c[i] \in Requests /\ c[i] # r /\ req'[c[i]] = req[c[i]]
                                      /\ d[i] = c[i] /\ i \in Nat
              /\ \A i \in DOMAIN d : i \in DOMAIN c \/ i = Len(c) + 1
          <5>1. \A i \in DOMAIN c : Waiting(c[i])
            BY DEF LimiterIInv, Line
          <5> QED BY <1>4, <1>5, <2>2, <5>1
        <4>2. /\ req'[r].phase = "queued" /\ req'[r].host = h /\ req'[r].since = clock
              /\ d[Len(c) + 1] = r
          BY <1>2, <1>3, <1>8, <2>2
        <4>3. Line(h) /\ \A i \in DOMAIN c : req[c[i]].since <= clock
          BY <1>1, <4>1 DEF LimiterIInv, LimitedEntry
        <4>4. chain'[h] = d /\ Len(c) \in Nat /\ DOMAIN c = 1 .. Len(c)
          BY <2>2, <2>3
        <4> HIDE DEF d
        <4>5. \A i, j \in DOMAIN d : d[i] = d[j] => i = j
          BY <4>1, <4>2, <4>3 DEF Line
        <4>6. ASSUME NEW i \in DOMAIN d
              PROVE  /\ req'[d[i]].phase \in {"queued", "asleep"} /\ req'[d[i]].host = h
                     /\ i # 1 => req'[d[i]].phase = "queued"
                     /\ \A j \in DOMAIN d : i <= j => req'[d[i]].since <= req'[d[j]].since
          <5>1. CASE i \in DOMAIN c
            <6>1. /\ Waiting(c[i]) /\ req[c[i]].host = h
                  /\ i # 1 => req[c[i]].phase = "queued"
                  /\ \A j \in DOMAIN c : i <= j => req[c[i]].since <= req[c[j]].since
              BY <4>3, <5>1 DEF Line
            <6>2. req'[d[i]] = req[c[i]] /\ \A j \in DOMAIN c : req'[d[j]] = req[c[j]]
              BY <4>1, <5>1
            <6> QED BY <4>1, <4>2, <4>3, <5>1, <6>1, <6>2 DEF Waiting
          <5>2. CASE i = Len(c) + 1
            <6>1. \A j \in DOMAIN d : i <= j => j = i
              BY <4>1, <4>4, <5>2
            <6>2. req'[d[i]].since = clock
              BY <4>2, <5>2
            <6>3. \A j \in DOMAIN d : i <= j => req'[d[i]].since <= req'[d[j]].since
              BY <1>1, <6>1, <6>2
            <6> QED BY <4>2, <5>2, <6>3
          <5> QED BY <4>1, <5>1, <5>2
        <4>7. Limited(h)' /\ buckets'[h] # None
          BY <1>8, <2>5, <2>7 DEF Limited
        <4> QED BY <3>2, <4>4, <4>5, <4>6, <4>7 DEF Line, Waiting
      <3> QED BY <3>1, <3>2
    <2>9. ASSUME NEW k \in Hosts PROVE Account(k)'
      <3>1. Account(k)
        BY DEF LimiterIInv
      <3>2. CASE buckets'[k] = buckets[k]
        BY <1>1, <3>1, <3>2 DEF Account, Covered, Limited
      <3>3. CASE k = h /\ buckets[h] = None
        <4>1. grants[h] = <<>>
          BY <3>1, <3>3 DEF Account
        <4> QED BY <1>1, <1>8, <3>3, <4>1 DEF Account, Covered, Limited
      <3> QED BY <2>5, <3>2, <3>3
    <2>10. ASSUME NEW q \in Requests PROVE InLine(q)'
      <3>1. CASE q = r
        <4>1. req'[r].host = h /\ Len(c) + 1 \in DOMAIN d /\ d[Len(c) + 1] = r
          BY <1>2, <1>3, <2>2
        <4> QED BY <2>3, <3>1, <4>1 DEF InLine
      <3>2. CASE q # r
        <4>1. SUFFICES ASSUME Waiting(q)
                       PROVE  /\ req[q].host \in Hosts
                              /\ \E i \in DOMAIN chain'[req[q].host] : chain'[req[q].host][i] = q
          BY <1>3, <3>2 DEF InLine, Waiting
        <4>2. PICK i \in DOMAIN chain[req[q].host] : chain[req[q].host][i] = q
          BY <4>1 DEF LimiterIInv, InLine
        <4>3. req[q].host \in Hosts
          BY <4>1 DEF LimiterIInv, InLine
        <4>4. CASE req[q].host # h
          BY <2>3, <4>2, <4>3, <4>4
        <4>5. CASE req[q].host = h
          <5>1. i \in DOMAIN d /\ d[i] = q
            BY <2>2, <4>2, <4>5
          <5> QED BY <2>3, <4>3, <4>5, <5>1
        <4> QED BY <4>4, <4>5
      <3> QED BY <3>1, <3>2
    <2> QED BY <1>6, <2>6, <2>8, <2>9, <2>10 DEF LimiterIInv
  <1> QED BY <1>7, <1>8

\* An abort changes nothing but what the turn will notice.
LEMMA AbortKeeps ==
  ASSUME RateLimiterAssumption, LimiterIInv, NEW r \in Requests, Abort(r)
  PROVE  LimiterIInv'
  <1>1. /\ req' = [req EXCEPT ![r].aborted = TRUE] /\ clock' = clock /\ grants' = grants
        /\ buckets' = buckets /\ chain' = chain /\ req \in [Requests -> LimitedEntry]
        /\ chain \in [Hosts -> Seq(Requests)]
    BY DEF Abort, LimiterIInv, LimiterTypes
  <1>2. /\ req' \in [Requests -> LimitedEntry]
        /\ \A q \in Requests : /\ req'[q].phase = req[q].phase /\ req'[q].host = req[q].host
                               /\ req'[q].since = req[q].since /\ req'[q].until = req[q].until
    BY <1>1 DEF LimitedEntry
  <1>3. LimiterTypes'
    BY <1>1, <1>2 DEF LimiterIInv, LimiterTypes, LimitedEntry, Bucket
  <1>4. ASSUME NEW k \in Hosts PROVE Line(k)' /\ Account(k)'
    <2>1. chain[k] \in Seq(Requests) /\ Line(k) /\ Account(k)
      BY <1>1 DEF LimiterIInv
    <2>2. \A i \in DOMAIN chain[k] : chain[k][i] \in Requests
      BY <2>1, ElementOfSeq, LenProperties
    <2>3. Line(k)'
      BY <1>1, <1>2, <2>1, <2>2 DEF Line, Waiting, Limited
    <2>4. Account(k)'
      BY <1>1, <2>1 DEF Account, Covered, Limited
    <2> QED BY <2>3, <2>4
  <1>5. ASSUME NEW q \in Requests PROVE InLine(q)' /\ Sleeper(q)' /\ InBudget(q)'
    <2>1. InLine(q) /\ Sleeper(q) /\ InBudget(q)
      BY DEF LimiterIInv
    <2>2. Waiting(q)' = Waiting(q)
      BY <1>2 DEF Waiting
    <2>3. InLine(q)'
      BY <1>1, <1>2, <2>1, <2>2 DEF InLine
    <2>4. Sleeper(q)' /\ InBudget(q)'
      BY <1>1, <1>2, <2>1, <2>2 DEF Sleeper, InBudget
    <2> QED BY <2>3, <2>4
  <1> QED BY <1>3, <1>4, <1>5 DEF LimiterIInv

LEMMA TurnAbortedKeeps ==
  ASSUME RateLimiterAssumption, LimiterIInv, NEW r \in Requests, TurnAborted(r)
  PROVE  LimiterIInv'
  <1>1. /\ AtTurn(r) /\ Leaves(r, "aborted") /\ clock' = clock /\ buckets' = buckets
        /\ grants' = grants
    BY DEF TurnAborted
  <1>2. /\ chain' \in [Hosts -> Seq(Requests)] /\ req' \in [Requests -> LimitedEntry]
        /\ \A k \in Hosts : Line(k)'
        /\ \A q \in Requests : InLine(q)' /\ Sleeper(q)' /\ InBudget(q)'
    BY <1>1, LeavesKeeps
  <1>3. LimiterTypes'
    BY <1>1, <1>2 DEF LimiterIInv, LimiterTypes, LimitedEntry, Bucket
  <1>4. \A k \in Hosts : Account(k)'
    BY <1>1 DEF LimiterIInv, Account, Covered, Limited
  <1> QED BY <1>2, <1>3, <1>4 DEF LimiterIInv

LEMMA Quotient == \A a \in Nat : \A b \in Nat : b > 0 => a \div b \in Nat
  OBVIOUS

\* Only the first in line sleeps, and only for as long as its budget allows.
LEMMA SleepKeeps ==
  ASSUME RateLimiterAssumption, LimiterIInv, NEW r \in Requests, AtTurn(r), clock' = clock, chain' = chain,
         NEW sleep \in Nat,
         MaxWait[req[r].host] > 0 => clock - req[r].since + sleep <= MaxWait[req[r].host],
         req' = [req EXCEPT ![r].phase = "asleep", ![r].until = clock + sleep],
         \A k \in Hosts : buckets[k] # None => buckets'[k] # None
  PROVE  /\ req' \in [Requests -> LimitedEntry]
         /\ \A k \in Hosts : Line(k)'
         /\ \A q \in Requests : InLine(q)' /\ Sleeper(q)' /\ InBudget(q)'
  <1> DEFINE h == req[r].host
             c == chain[h]
  <1>1. /\ h \in Hosts /\ c \in Seq(Requests) /\ c[1] = r /\ 1 \in DOMAIN c /\ Waiting(r)
    BY InSomeLine DEF AtTurn
  <1>2. /\ chain \in [Hosts -> Seq(Requests)] /\ req \in [Requests -> LimitedEntry] /\ clock \in Nat
        /\ Late \in Nat /\ MaxWait[h] \in Nat
    BY <1>1, LimiterConstants DEF LimiterIInv, LimiterTypes
  <1>3. /\ req' \in [Requests -> LimitedEntry]
        /\ req'[r].phase = "asleep" /\ req'[r].until = clock + sleep
        /\ req'[r].host = h /\ req'[r].since = req[r].since
        /\ \A q \in Requests : q # r => req'[q] = req[q]
    <2> DEFINE before == req[r]
               asleep == [before EXCEPT !.phase = "asleep"]
               until  == clock + sleep
               e      == [asleep EXCEPT !.until = until]
    <2>1. before \in LimitedEntry /\ before.host = h /\ until \in Nat
      BY <1>2
    <2>2. req' = [req EXCEPT ![r] = e]
      BY <1>2
    <2> HIDE DEF before, until
    <2>3. asleep \in LimitedEntry /\ asleep.phase = "asleep" /\ asleep.host = h
          /\ asleep.since = before.since
      BY <2>1 DEF LimitedEntry, Phases
    <2> HIDE DEF asleep
    <2>4. /\ e \in LimitedEntry /\ e.phase = "asleep" /\ e.until = until /\ e.host = h
          /\ e.since = before.since
      BY <2>1, <2>3 DEF LimitedEntry
    <2> HIDE DEF e, h, c
    <2>5. req' \in [Requests -> LimitedEntry] /\ req'[r] = e
          /\ \A q \in Requests : q # r => req'[q] = req[q]
      BY <1>2, <2>2, <2>4
    <2> QED BY <2>4, <2>5 DEF before, until
  <1>4. \A q \in Requests : /\ Waiting(q)' = Waiting(q) /\ req'[q].host = req[q].host
                            /\ req'[q].since = req[q].since
    BY <1>1, <1>3 DEF Waiting
  <1>5. ASSUME NEW k \in Hosts PROVE Line(k)'
    <2>1. chain[k] \in Seq(Requests) /\ Line(k)
      BY <1>2 DEF LimiterIInv
    <2>2. \A i \in DOMAIN chain[k] : chain[k][i] \in Requests
      BY <2>1, ElementOfSeq, LenProperties
    <2>3. ASSUME NEW i \in DOMAIN chain[k], i # 1 PROVE chain[k][i] # r
      BY <1>1, <2>1, <2>3 DEF Line
    <2>4. ASSUME NEW i \in DOMAIN chain[k]
          PROVE  /\ req'[chain[k][i]].phase \in {"queued", "asleep"}
                 /\ req'[chain[k][i]].host = k
                 /\ i # 1 => req'[chain[k][i]].phase = "queued"
                 /\ \A j \in DOMAIN chain[k] :
                      i <= j => req'[chain[k][i]].since <= req'[chain[k][j]].since
      <3>1. /\ Waiting(chain[k][i])' /\ req'[chain[k][i]].host = k
            /\ \A j \in DOMAIN chain[k] :
                 i <= j => req'[chain[k][i]].since <= req'[chain[k][j]].since
        BY <1>4, <2>1, <2>2 DEF Line
      <3>2. i # 1 => req'[chain[k][i]].phase = "queued"
        BY <1>3, <2>1, <2>2, <2>3 DEF Line
      <3> QED BY <3>1, <3>2 DEF Waiting
    <2> QED BY <2>1, <2>4 DEF Line, Waiting, Limited
  <1>6. ASSUME NEW q \in Requests PROVE InLine(q)' /\ Sleeper(q)' /\ InBudget(q)'
    <2>1. InLine(q) /\ Sleeper(q) /\ InBudget(q)
      BY DEF LimiterIInv
    <2>2. InLine(q)' /\ InBudget(q)'
      BY <1>4, <2>1 DEF InLine, InBudget
    <2>3. Sleeper(q)'
      <3>1. CASE q # r
        BY <1>3, <2>1, <3>1 DEF Sleeper
      <3>2. CASE q = r
        <4>1. req[r].since \in Nat
          BY <1>2 DEF LimitedEntry
        <4> QED BY <1>2, <1>3, <3>2, <4>1 DEF Sleeper
      <3> QED BY <3>1, <3>2
    <2> QED BY <2>2, <2>3
  <1> QED BY <1>3, <1>5, <1>6

LEMMA TurnKeeps ==
  ASSUME RateLimiterAssumption, LimiterIInv, NEW r \in Requests, Turn(r)
  PROVE  LimiterIInv'
  <1> DEFINE h == req[r].host
             b == Refilled(buckets[h], h)
             left == [b EXCEPT !.tokens = @ - Cost]
             sleep == SleepFor(b, h)
             g == grants[h]
  <1>1. AtTurn(r) /\ clock' = clock
    BY DEF Turn
  <1>2. /\ h \in Hosts /\ Limited(h) /\ buckets[h] \in Bucket /\ buckets[h] # None
    <2>1. h \in Hosts /\ Limited(h) /\ buckets[h] \in Bucket /\ chain[h] # <<>>
      BY <1>1, InSomeLine DEF AtTurn
    <2> QED BY <2>1 DEF LimiterIInv, Line
  <1>3. /\ LimiterTypes /\ clock \in Nat /\ buckets \in [Hosts -> Bucket \cup {None}]
        /\ grants \in [Hosts -> Seq(0 .. clock)] /\ g \in Seq(0 .. clock)
    BY <1>2, LimiterConstants DEF LimiterIInv, LimiterTypes
  <1>4. /\ Covered(h, g, buckets[h])
        /\ \A i, j \in DOMAIN g : i <= j => (j - i + 1) * Cost <= Capacity + (g[j] - g[i]) * Rate[h]
    BY <1>2 DEF LimiterIInv, Account
  <1>5. b \in Bucket /\ b.at = clock /\ Covered(h, g, b)
    BY <1>2, <1>3, <1>4, RefillCovers
  <1>6. \A x \in Bucket : x # None
    BY <1>3 DEF Bucket, RateLimiterAssumption
  <1>7. buckets' = [buckets EXCEPT ![h] = IF b.tokens >= Cost THEN left ELSE b]
    BY DEF Turn
  <1>8. CASE b.tokens >= Cost
    <2> DEFINE after == Append(g, clock)
    <2>1. /\ after \in Seq(0 .. clock) /\ left \in Bucket /\ left.at = clock
          /\ Covered(h, after, left)
          /\ \A i, j \in DOMAIN after :
               i <= j => (j - i + 1) * Cost <= Capacity + (after[j] - after[i]) * Rate[h]
      BY <1>2, <1>3, <1>4, <1>5, <1>8, GrantCovers
    <2>2. /\ Leaves(r, "sent") /\ grants' = [grants EXCEPT ![h] = after]
          /\ buckets' = [buckets EXCEPT ![h] = left]
      <3>1. ~(b.tokens < Cost)
        <4>1. b.tokens \in Nat /\ Cost \in Nat
          BY <1>5, LimiterConstants DEF Bucket
        <4> HIDE DEF b
        <4> QED BY <1>8, <4>1
      <3>2. Leaves(r, "sent") /\ grants' = [grants EXCEPT ![h] = after]
        BY <3>1 DEF Turn
      <3> QED BY <1>7, <1>8, <3>2
    <2> HIDE DEF h, b, left, g, after
    <2>3. /\ buckets' \in [Hosts -> Bucket \cup {None}] /\ buckets'[h] = left
          /\ \A k \in Hosts : k # h => buckets'[k] = buckets[k]
          /\ grants' \in [Hosts -> Seq(0 .. clock)] /\ grants'[h] = after
          /\ \A k \in Hosts : k # h => grants'[k] = grants[k]
      BY <1>2, <1>3, <2>1, <2>2
    <2>4. /\ chain' \in [Hosts -> Seq(Requests)] /\ req' \in [Requests -> LimitedEntry]
          /\ \A k \in Hosts : Line(k)'
          /\ \A q \in Requests : InLine(q)' /\ Sleeper(q)' /\ InBudget(q)'
      BY <1>1, <1>6, <2>1, <2>2, <2>3, LeavesKeeps
    <2>5. LimiterTypes'
      BY <1>1, <1>3, <2>3, <2>4 DEF LimiterTypes, LimitedEntry, Bucket
    <2>6. ASSUME NEW k \in Hosts PROVE Account(k)'
      <3>1. CASE k = h
        BY <1>2, <1>6, <2>1, <2>3, <3>1 DEF Account, Covered, Limited
      <3>2. CASE k # h
        <4>1. Account(k)
          BY DEF LimiterIInv
        <4> QED BY <2>3, <3>2, <4>1 DEF Account, Covered, Limited
      <3> QED BY <3>1, <3>2
    <2> QED BY <2>4, <2>5, <2>6 DEF LimiterIInv
  <1>9. CASE ~(b.tokens >= Cost)
    <2>1. /\ buckets' = [buckets EXCEPT ![h] = b] /\ grants' = grants
          /\ \/ Leaves(r, "throttled")
             \/ /\ ~TooLong(r, h, sleep) /\ chain' = chain
                /\ req' = [req EXCEPT ![r].phase = "asleep", ![r].until = clock + sleep]
      BY <1>7, <1>9, <1>5, LimiterConstants DEF Turn, Bucket
    <2>2. sleep \in Nat
      <3>1. /\ Rate[h] \in Nat /\ Rate[h] > 0 /\ Cost \in Nat /\ b.tokens \in Nat
            /\ b.tokens < Cost
        BY <1>2, <1>5, <1>9, LimiterConstants DEF Limited, Bucket
      <3>2. Cost - b.tokens + Rate[h] - 1 \in Nat
        BY <3>1
      <3> QED BY <3>1, <3>2, Quotient DEF SleepFor
    <2>3. ~TooLong(r, h, sleep) => (MaxWait[h] > 0 => clock - req[r].since + sleep <= MaxWait[h])
      <3>1. req[r].since \in Nat /\ MaxWait[h] \in Nat
        BY <1>2, LimiterConstants DEF LimiterIInv, LimiterTypes, LimitedEntry
      <3> HIDE DEF sleep, h
      <3> QED BY <1>3, <2>2, <3>1 DEF TooLong
    <2> HIDE DEF h, b, left, g, sleep
    <2>4. /\ buckets' \in [Hosts -> Bucket \cup {None}] /\ buckets'[h] = b
          /\ \A k \in Hosts : k # h => buckets'[k] = buckets[k]
      BY <1>2, <1>3, <1>5, <2>1
    <2>5. /\ chain' \in [Hosts -> Seq(Requests)] /\ req' \in [Requests -> LimitedEntry]
          /\ \A k \in Hosts : Line(k)'
          /\ \A q \in Requests : InLine(q)' /\ Sleeper(q)' /\ InBudget(q)'
      <3>1. \A k \in Hosts : buckets[k] # None => buckets'[k] # None
        BY <1>5, <1>6, <2>4
      <3>2. CASE Leaves(r, "throttled")
        BY <1>1, <3>1, <3>2, LeavesKeeps
      <3>3. CASE /\ ~TooLong(r, h, sleep) /\ chain' = chain
                 /\ req' = [req EXCEPT ![r].phase = "asleep", ![r].until = clock + sleep]
        <4>1. chain' \in [Hosts -> Seq(Requests)]
          BY <3>3 DEF LimiterIInv, LimiterTypes
        <4>2. MaxWait[req[r].host] > 0 => clock - req[r].since + sleep <= MaxWait[req[r].host]
          BY <2>3, <3>3 DEF h
        <4> QED BY <1>1, <2>2, <3>1, <3>3, <4>1, <4>2, SleepKeeps
      <3> QED BY <2>1, <3>2, <3>3
    <2>6. LimiterTypes'
      BY <1>1, <1>3, <2>1, <2>4, <2>5 DEF LimiterTypes, LimitedEntry, Bucket
    <2>7. ASSUME NEW k \in Hosts PROVE Account(k)'
      <3>1. Account(k)
        BY DEF LimiterIInv
      <3>2. CASE k = h
        <4>1. buckets'[k] = b /\ grants'[k] = g /\ g = grants[k] /\ Covered(k, g, b)
          BY <1>5, <2>1, <2>4, <3>2 DEF g
        <4>2. buckets[k] # None /\ Limited(k)
          BY <1>2, <3>2
        <4>3. b # None
          BY <1>5, <1>6
        <4> QED BY <3>1, <4>1, <4>2, <4>3 DEF Account, Covered, Limited
      <3>3. CASE k # h
        BY <2>1, <2>4, <3>1, <3>3 DEF Account, Covered, Limited
      <3> QED BY <3>2, <3>3
    <2> QED BY <2>5, <2>6, <2>7 DEF LimiterIInv
  <1> QED BY <1>8, <1>9

\* Time passes over no turn that is due: who sleeps is first in line, and has
\* not slept too long yet; who stands behind it came later, and waits within
\* its own budget because the first one does.
LEMMA TickKeeps ==
  ASSUME RateLimiterAssumption, LimiterIInv, TimePasses
  PROVE  LimiterIInv'
  <1>1. /\ clock < MaxClock /\ clock' = clock + 1 /\ buckets' = buckets /\ chain' = chain
        /\ req' = req /\ grants' = grants /\ \A r \in Requests : ~Due(r)
    BY DEF TimePasses
  <1>2. /\ clock \in Nat /\ MaxClock \in Nat /\ Late \in Nat /\ LimiterTypes
    BY LimiterConstants DEF LimiterIInv, LimiterTypes
  <1>3. /\ clock' \in 0 .. MaxClock /\ clock' \in Nat
        /\ \A t \in 0 .. clock : t \in 0 .. clock'
    BY <1>1, <1>2
  <1>4. LimiterTypes'
    <2>1. buckets' \in [Hosts -> (Bucket \cup {None})']
      BY <1>1, <1>2, <1>3 DEF LimiterTypes, Bucket, Capacity
    <2>2. req' \in [Requests -> LimitedEntry']
      BY <1>1, <1>2, <1>3 DEF LimiterTypes, LimitedEntry
    <2>3. grants' \in [Hosts -> Seq(0 .. clock')]
      <3>1. 0 .. clock \subseteq 0 .. clock'
        BY <1>3
      <3>2. \A h \in Hosts : grants[h] \in Seq(0 .. clock')
        BY <1>2, <3>1, SeqMonotonic DEF LimiterTypes
      <3> QED BY <1>1, <1>2, <3>2 DEF LimiterTypes
    <2> QED BY <1>1, <1>2, <1>3, <2>1, <2>2, <2>3 DEF LimiterTypes
  <1>5. \A k \in Hosts : Line(k)' /\ Account(k)'
    BY <1>1 DEF LimiterIInv, Line, Account, Covered, Waiting, Limited
  <1>6. ASSUME NEW q \in Requests, Waiting(q), Head(chain[req[q].host]) = q
        PROVE  req[q].phase = "asleep" /\ clock + 1 <= req[q].until + Late
    <2>1. ~Due(q)
      BY <1>1
    <2>2. req[q].until \in Nat
      BY <1>2 DEF LimiterTypes, LimitedEntry
    <2>3. CASE ~AtTurn(q)
      <3>1. req[q].phase = "asleep" /\ ~(clock >= req[q].until)
        BY <1>6, <2>3 DEF AtTurn
      <3> QED BY <1>2, <2>2, <3>1
    <2>4. CASE AtTurn(q)
      <3>1. req[q].phase = "asleep" /\ ~(clock >= req[q].until + Late)
        BY <2>1, <2>4 DEF Due
      <3> QED BY <1>2, <2>2, <3>1
    <2> QED BY <2>3, <2>4
  <1>7. ASSUME NEW q \in Requests PROVE InLine(q)' /\ Sleeper(q)' /\ InBudget(q)'
    <2>1. InLine(q) /\ Sleeper(q)
      BY DEF LimiterIInv
    <2>2. InLine(q)'
      BY <1>1, <2>1 DEF InLine, Waiting
    <2>3. Sleeper(q)'
      <3>1. SUFFICES ASSUME req[q].phase = "asleep" PROVE clock + 1 <= req[q].until + Late
        BY <1>1, <2>1 DEF Sleeper
      <3> DEFINE h == req[q].host
      <3>2. Waiting(q)
        BY <3>1 DEF Waiting
      <3>3. /\ h \in Hosts /\ Head(chain[h]) = chain[h][1]
            /\ \E i \in DOMAIN chain[h] : chain[h][i] = q
        BY <3>2, InSomeLine
      <3>4. chain[h][1] = q
        BY <3>1, <3>3 DEF LimiterIInv, Line
      <3> QED BY <1>6, <3>2, <3>3, <3>4
    <2>4. ASSUME Waiting(q), MaxWait[req[q].host] > 0
          PROVE  clock + 1 - req[q].since <= MaxWait[req[q].host] + Late
      <3> DEFINE h == req[q].host
                 first == chain[h][1]
      <3>2. /\ h \in Hosts /\ first \in Requests /\ Head(chain[h]) = first
            /\ 1 \in DOMAIN chain[h] /\ chain[h] \in Seq(Requests)
            /\ \E i \in DOMAIN chain[h] : chain[h][i] = q
        BY <2>4, InSomeLine
      <3>3. PICK i \in DOMAIN chain[h] : chain[h][i] = q
        BY <3>2
      <3>4. 1 <= i
        BY <3>2, <3>3, LenProperties
      <3>5. /\ Waiting(first) /\ req[first].host = h
            /\ req[first].since <= req[q].since
        BY <3>2, <3>3, <3>4 DEF LimiterIInv, Line
      <3>6. /\ req[first].phase = "asleep" /\ clock + 1 <= req[first].until + Late
            /\ req[first].until <= req[first].since + MaxWait[h]
        BY <1>6, <2>4, <3>2, <3>5 DEF LimiterIInv, Sleeper
      <3>7. /\ req[first].until \in Nat /\ req[first].since \in Nat /\ req[q].since \in Nat
            /\ MaxWait[h] \in Nat
        BY <1>2, <3>2, LimiterConstants DEF LimiterTypes, LimitedEntry
      <3> HIDE DEF h, first
      <3>8. clock + 1 - req[q].since <= MaxWait[h] + Late
        BY <1>2, <3>5, <3>6, <3>7
      <3> QED BY <3>8 DEF h
    <2>5. InBudget(q)'
      <3>1. /\ Waiting(q)' <=> Waiting(q)
            /\ req'[q].host = req[q].host /\ req'[q].since = req[q].since
        BY <1>1 DEF Waiting
      <3>2. clock' - req'[q].since = clock + 1 - req[q].since
        <4>1. req[q].since \in Nat /\ clock' = clock + 1
          BY <1>1, <1>2 DEF LimiterTypes, LimitedEntry
        <4> QED BY <1>2, <3>1, <4>1
      <3> QED BY <2>4, <3>1, <3>2 DEF InBudget
    <2> QED BY <2>2, <2>3, <2>5
  <1> QED BY <1>4, <1>5, <1>7 DEF LimiterIInv

-----------------------------------------------------------------------------
(* Initially, in every step, and so always.                                 *)

LEMMA LimiterInitIInv ==
  ASSUME RateLimiterAssumption, LimiterInit
  PROVE  LimiterIInv
  <1>1. LimiterTypes
    BY LimiterConstants DEF LimiterInit, LimiterTypes, LimitedEntry, Bucket, Idle, Phases
  <1>2. \A h \in Hosts : Line(h) /\ Account(h)
    BY DEF LimiterInit, Line, Account, Covered
  <1>3. \A r \in Requests : InLine(r) /\ Sleeper(r) /\ InBudget(r)
    BY DEF LimiterInit, InLine, Sleeper, InBudget, Waiting, Idle
  <1> QED BY <1>1, <1>2, <1>3 DEF LimiterIInv

LEMMA LimiterNextIInv ==
  ASSUME RateLimiterAssumption, LimiterIInv, [LimiterNext]_limiterVars
  PROVE  LimiterIInv'
  <1>1. CASE UNCHANGED limiterVars
    BY <1>1 DEF limiterVars, LimiterIInv, LimiterTypes, LimitedEntry, Bucket, Line, Account, Covered, InLine, Sleeper,
                InBudget, Waiting, Limited
  <1>2. ASSUME NEW r \in Requests, NEW h \in Hosts, Enter(r, h) PROVE LimiterIInv'
    BY <1>2, EnterKeeps
  <1>3. ASSUME NEW r \in Requests, Abort(r) PROVE LimiterIInv'
    BY <1>3, AbortKeeps
  <1>4. ASSUME NEW r \in Requests, TurnAborted(r) PROVE LimiterIInv'
    BY <1>4, TurnAbortedKeeps
  <1>5. ASSUME NEW r \in Requests, Turn(r) PROVE LimiterIInv'
    BY <1>5, TurnKeeps
  <1>6. CASE TimePasses
    BY <1>6, TickKeeps
  <1> QED BY <1>1, <1>2, <1>3, <1>4, <1>5, <1>6 DEF LimiterNext

LEMMA LimiterInvariance ==
  ASSUME RateLimiterAssumption
  PROVE  LimiterSpec => []LimiterIInv
  <1>1. LimiterInit => LimiterIInv
    BY LimiterInitIInv
  <1>2. LimiterIInv /\ [LimiterNext]_limiterVars => LimiterIInv'
    BY LimiterNextIInv
  <1> QED BY <1>1, <1>2, PTL DEF LimiterSpec

LEMMA KeepsEgress ==
  ASSUME RateLimiterAssumption, LimiterIInv
  PROVE  EgressKept
  <1>1. WithinRate
    BY DEF LimiterIInv, Account, WithinRate
  <1>2. WaitWithinBudget
    BY DEF LimiterIInv, InBudget, WaitWithinBudget
  <1>3. \A h \in Hosts : \/ buckets[h] = None
                         \/ buckets[h].tokens \in 0 .. Capacity /\ buckets[h].at \in 0 .. clock
    BY DEF LimiterIInv, LimiterTypes, Bucket
  <1>4. \A r \in Requests : req[r].phase \in Phases
    BY DEF LimiterIInv, LimiterTypes, LimitedEntry
  <1>5. ASSUME NEW h \in Hosts
        PROVE  /\ IsInjective(chain[h])
               /\ ToSet(chain[h]) = {r \in Requests : Waiting(r) /\ req[r].host = h}
    <2>1. chain[h] \in Seq(Requests) /\ Line(h)
      BY DEF LimiterIInv, LimiterTypes
    <2>2. IsInjective(chain[h])
      BY <2>1 DEF Line, IsInjective
    <2>3. \A i \in DOMAIN chain[h] : chain[h][i] \in Requests
      BY <2>1, ElementOfSeq, LenProperties
    <2>4. ASSUME NEW r \in Requests, Waiting(r), req[r].host = h
          PROVE  r \in {chain[h][i] : i \in DOMAIN chain[h]}
      BY <2>4 DEF LimiterIInv, InLine
    <2>5. {chain[h][i] : i \in DOMAIN chain[h]} = {r \in Requests : Waiting(r) /\ req[r].host = h}
      BY <2>1, <2>3, <2>4 DEF Line
    <2> QED BY <2>2, <2>5 DEF ToSet
  <1>6. clock \in 0 .. MaxClock
    BY DEF LimiterIInv, LimiterTypes
  <1> QED BY <1>1, <1>2, <1>3, <1>4, <1>5, <1>6 DEF EgressKept, LimiterTypeOK

\* No host is ever asked more than its ceiling allows and no request waits
\* beyond its budget: TokenBucketRateLimiter.acquire keeps both whoever enters,
\* is aborted or gives up, with timers as late as Late.
THEOREM EgressIsKept ==
  ASSUME RateLimiterAssumption
  PROVE  LimiterSpec => []EgressKept
  <1>1. LimiterIInv => EgressKept
    BY KeepsEgress
  <1> QED BY <1>1, LimiterInvariance, PTL

-----------------------------------------------------------------------------
(* The books of the HTTP client.                                           *)

\* What a set of calls has on the wire: bytes up and down, and requests sent.
WireBytes(w, S)      == SumFunctionOnSet([r \in Calls |-> w[r].up + w[r].down], S)
WireStarted(w, S)    == SumFunctionOnSet([r \in Calls |-> w[r].up], S)
\* What the wire has moved for a set of calls, whatever became of them.
MovedBytes(m, S)     == SumFunctionOnSet([r \in Calls |-> m[r].bytes], S)
MovedTransfers(m, S) == SumFunctionOnSet([r \in Calls |-> m[r].transfers], S)
\* What the ledger of a cycle holds, over all its gateways.
LedgerBytes(l, c)    == SumFunctionOnSet([x \in Gateways |-> l[c][x].bytes], Gateways)
LedgerRequests(l, c) == SumFunctionOnSet([x \in Gateways |-> l[c][x].requests], Gateways)

\* The books of a cycle: what is booked and what is still on the wire is what moved.
Balanced(l, w, m, c, S) ==
  /\ LedgerBytes(l, c) + WireBytes(w, S) = MovedBytes(m, S)
  /\ LedgerRequests(l, c) + WireStarted(w, S) = MovedTransfers(m, S)

\* One call, or one line of the ledger, is replaced and the rest stays.
SetTo(v, w, r, e) == v = [w EXCEPT ![r] = e]

Books(k, l, c, x, e) == k = [l EXCEPT ![c][x] = e]

\* The types of a call, of a line of the ledger and of what moved.
OfCall  == [phase : {"new", "wire", "done"}, exit : Gateways \cup {Null},
            reason : Reasons \cup {Null}, outcome : Settlements \cup {Null},
            up : {0, 1}, down : {0, 1}, hops : Nat]
OfCycle == [requests : Nat, bytes : Nat]
OfMoves == [cycle : 0 .. MaxAggregators, transfers : Nat, bytes : Nat]

\* The sums over the calls are integers.
LEMMA WireSums ==
  ASSUME IsFiniteSet(Calls), NEW S \in SUBSET Calls, NEW w \in [Calls -> OfCall]
  PROVE  WireBytes(w, S) \in Int /\ WireStarted(w, S) \in Int
  <1> DEFINE f == [r \in Calls |-> w[r].up + w[r].down]
             g == [r \in Calls |-> w[r].up]
  <1>1. IsFiniteSet(S)
    BY FS_Subset
  <1>2. \A r \in S : w[r].up \in {0, 1} /\ w[r].down \in {0, 1}
    BY DEF OfCall
  <1>3. \A r \in S : f[r] \in Int /\ g[r] \in Int
    BY <1>2
  <1> HIDE DEF f, g
  <1>4. SumFunctionOnSet(f, S) \in Int /\ SumFunctionOnSet(g, S) \in Int
    BY <1>1, <1>3, SumType
  <1> QED BY <1>4 DEF f, g, WireBytes, WireStarted

\* Replacing one call changes the sums over the calls by its difference.
LEMMA WireChange ==
  ASSUME IsFiniteSet(Calls), NEW S \in SUBSET Calls, NEW w \in [Calls -> OfCall],
         NEW r \in Calls, NEW e \in OfCall, NEW v, SetTo(v, w, r, e)
  PROVE  /\ r \in S => /\ WireBytes(v, S) = WireBytes(w, S) + (e.up + e.down) - (w[r].up + w[r].down)
                       /\ WireStarted(v, S) = WireStarted(w, S) + e.up - w[r].up
         /\ r \notin S => WireBytes(v, S) = WireBytes(w, S) /\ WireStarted(v, S) = WireStarted(w, S)
  <1> DEFINE f1 == [q \in Calls |-> w[q].up + w[q].down]
             f2 == [q \in Calls |-> v[q].up + v[q].down]
             g1 == [q \in Calls |-> w[q].up]
             g2 == [q \in Calls |-> v[q].up]
  <1>1. IsFiniteSet(S)
    BY FS_Subset
  <1>2. \A q \in Calls : /\ w[q].up \in {0, 1} /\ w[q].down \in {0, 1}
                         /\ q # r => v[q] = w[q]
    BY DEF OfCall, SetTo
  <1>3. v[r] = e /\ e.up \in {0, 1} /\ e.down \in {0, 1}
    BY DEF OfCall, SetTo
  <1>4. \A q \in S : f1[q] \in Int /\ g1[q] \in Int
    BY <1>2
  <1>5. f2[r] \in Int /\ g2[r] \in Int
    BY <1>3
  <1>6. \A q \in S \ {r} : f2[q] = f1[q] /\ g2[q] = g1[q]
    BY <1>2
  <1>7. /\ f2[r] = e.up + e.down /\ g2[r] = e.up
        /\ f1[r] = w[r].up + w[r].down /\ g1[r] = w[r].up
    BY <1>3
  <1>8. CASE r \in S
    <2> HIDE DEF f1, f2, g1, g2
    <2>1. SumFunctionOnSet(f2, S) = SumFunctionOnSet(f1, S) + f2[r] - f1[r]
      BY <1>1, <1>4, <1>5, <1>6, <1>8, SumChange
    <2>2. SumFunctionOnSet(g2, S) = SumFunctionOnSet(g1, S) + g2[r] - g1[r]
      BY <1>1, <1>4, <1>5, <1>6, <1>8, SumChange
    <2> QED BY <1>7, <1>8, <2>1, <2>2 DEF f1, f2, g1, g2, WireBytes, WireStarted
  <1>9. CASE r \notin S
    <2>1. \A q \in S : f2[q] = f1[q] /\ g2[q] = g1[q]
      BY <1>6, <1>9
    <2> HIDE DEF f1, f2, g1, g2
    <2>2. SumFunctionOnSet(f2, S) = SumFunctionOnSet(f1, S) /\ SumFunctionOnSet(g2, S) = SumFunctionOnSet(g1, S)
      BY <1>1, <2>1, SumSame
    <2> QED BY <1>9, <2>2 DEF f1, f2, g1, g2, WireBytes, WireStarted
  <1> QED BY <1>8, <1>9

\* So are the sums of what moved.
LEMMA MovedSums ==
  ASSUME IsFiniteSet(Calls), NEW S \in SUBSET Calls, NEW m \in [Calls -> OfMoves]
  PROVE  MovedBytes(m, S) \in Int /\ MovedTransfers(m, S) \in Int
  <1> DEFINE f == [r \in Calls |-> m[r].bytes]
             g == [r \in Calls |-> m[r].transfers]
  <1>1. IsFiniteSet(S)
    BY FS_Subset
  <1>2. \A r \in S : f[r] \in Int /\ g[r] \in Int
    BY DEF OfMoves
  <1> HIDE DEF f, g
  <1>3. SumFunctionOnSet(f, S) \in Int /\ SumFunctionOnSet(g, S) \in Int
    BY <1>1, <1>2, SumType
  <1> QED BY <1>3 DEF f, g, MovedBytes, MovedTransfers

\* So with the sums of what moved.
LEMMA MovedChange ==
  ASSUME IsFiniteSet(Calls), NEW S \in SUBSET Calls, NEW m \in [Calls -> OfMoves],
         NEW r \in Calls, NEW e \in OfMoves, NEW n, SetTo(n, m, r, e)
  PROVE  /\ r \in S => /\ MovedBytes(n, S) = MovedBytes(m, S) + e.bytes - m[r].bytes
                       /\ MovedTransfers(n, S) = MovedTransfers(m, S) + e.transfers - m[r].transfers
         /\ r \notin S => /\ MovedBytes(n, S) = MovedBytes(m, S)
                          /\ MovedTransfers(n, S) = MovedTransfers(m, S)
  <1> DEFINE f1 == [q \in Calls |-> m[q].bytes]
             f2 == [q \in Calls |-> n[q].bytes]
             g1 == [q \in Calls |-> m[q].transfers]
             g2 == [q \in Calls |-> n[q].transfers]
  <1>1. IsFiniteSet(S)
    BY FS_Subset
  <1>2. \A q \in Calls : q # r => n[q] = m[q]
    BY DEF SetTo
  <1>3. n[r] = e
    BY DEF SetTo
  <1>4. \A q \in S : f1[q] \in Int /\ g1[q] \in Int
    BY DEF OfMoves
  <1>5. f2[r] \in Int /\ g2[r] \in Int
    BY <1>3 DEF OfMoves
  <1>6. \A q \in S \ {r} : f2[q] = f1[q] /\ g2[q] = g1[q]
    BY <1>2
  <1>7. /\ f2[r] = e.bytes /\ g2[r] = e.transfers
        /\ f1[r] = m[r].bytes /\ g1[r] = m[r].transfers
    BY <1>3
  <1>8. CASE r \in S
    <2> HIDE DEF f1, f2, g1, g2
    <2>1. SumFunctionOnSet(f2, S) = SumFunctionOnSet(f1, S) + f2[r] - f1[r]
      BY <1>1, <1>4, <1>5, <1>6, <1>8, SumChange
    <2>2. SumFunctionOnSet(g2, S) = SumFunctionOnSet(g1, S) + g2[r] - g1[r]
      BY <1>1, <1>4, <1>5, <1>6, <1>8, SumChange
    <2> QED BY <1>7, <1>8, <2>1, <2>2 DEF f1, f2, g1, g2, MovedBytes, MovedTransfers
  <1>9. CASE r \notin S
    <2>1. \A q \in S : f2[q] = f1[q] /\ g2[q] = g1[q]
      BY <1>6, <1>9
    <2> HIDE DEF f1, f2, g1, g2
    <2>2. /\ SumFunctionOnSet(f2, S) = SumFunctionOnSet(f1, S)
          /\ SumFunctionOnSet(g2, S) = SumFunctionOnSet(g1, S)
      BY <1>1, <2>1, SumSame
    <2> QED BY <1>9, <2>2 DEF f1, f2, g1, g2, MovedBytes, MovedTransfers
  <1> QED BY <1>8, <1>9

\* A call that has moved nothing adds nothing.
\* A call that has moved nothing joins a cycle without changing its sums.
LEMMA EmptyCall ==
  ASSUME IsFiniteSet(Calls), NEW S \in SUBSET Calls, NEW r \in Calls, r \notin S,
         NEW w \in [Calls -> OfCall], NEW m \in [Calls -> OfMoves],
         w[r].up = 0, w[r].down = 0, m[r].transfers = 0, m[r].bytes = 0
  PROVE  /\ WireBytes(w, S \cup {r}) = WireBytes(w, S)
         /\ WireStarted(w, S \cup {r}) = WireStarted(w, S)
         /\ MovedBytes(m, S \cup {r}) = MovedBytes(m, S)
         /\ MovedTransfers(m, S \cup {r}) = MovedTransfers(m, S)
  <1> DEFINE f1 == [q \in Calls |-> w[q].up + w[q].down]
             f2 == [q \in Calls |-> w[q].up]
             f3 == [q \in Calls |-> m[q].bytes]
             f4 == [q \in Calls |-> m[q].transfers]
  <1>1. IsFiniteSet(S)
    BY FS_Subset
  <1>2. \A q \in Calls : /\ w[q].up \in Int /\ w[q].down \in Int
                         /\ m[q].bytes \in Int /\ m[q].transfers \in Int
    BY DEF OfCall, OfMoves
  <1>3. \A q \in S \cup {r} : f1[q] \in Int /\ f2[q] \in Int /\ f3[q] \in Int /\ f4[q] \in Int
    BY <1>2
  <1>4. f1[r] = 0 /\ f2[r] = 0 /\ f3[r] = 0 /\ f4[r] = 0
    OBVIOUS
  <1> HIDE DEF f1, f2, f3, f4
  <1>5. /\ SumFunctionOnSet(f1, S) \in Int /\ SumFunctionOnSet(f2, S) \in Int
        /\ SumFunctionOnSet(f3, S) \in Int /\ SumFunctionOnSet(f4, S) \in Int
    BY <1>1, <1>3, SumType
  <1>6. /\ SumFunctionOnSet(f1, S \cup {r}) = SumFunctionOnSet(f1, S) + f1[r]
        /\ SumFunctionOnSet(f2, S \cup {r}) = SumFunctionOnSet(f2, S) + f2[r]
        /\ SumFunctionOnSet(f3, S \cup {r}) = SumFunctionOnSet(f3, S) + f3[r]
        /\ SumFunctionOnSet(f4, S \cup {r}) = SumFunctionOnSet(f4, S) + f4[r]
    BY <1>1, <1>3, SumAdd
  <1> QED BY <1>4, <1>5, <1>6 DEF f1, f2, f3, f4, WireBytes, WireStarted, MovedBytes, MovedTransfers

\* The sums over a ledger are integers.
LEMMA LedgerSums ==
  ASSUME IsFiniteSet(Gateways), NEW l \in [Cycles -> [Gateways -> OfCycle]], NEW c \in Cycles
  PROVE  LedgerBytes(l, c) \in Int /\ LedgerRequests(l, c) \in Int
  <1> DEFINE f == [x \in Gateways |-> l[c][x].bytes]
             g == [x \in Gateways |-> l[c][x].requests]
  <1>1. \A x \in Gateways : f[x] \in Int /\ g[x] \in Int
    BY DEF OfCycle
  <1> HIDE DEF f, g
  <1>2. SumFunctionOnSet(f, Gateways) \in Int /\ SumFunctionOnSet(g, Gateways) \in Int
    BY <1>1, SumType
  <1> QED BY <1>2 DEF f, g, LedgerBytes, LedgerRequests

\* Booking on one line changes the sums of its cycle, and of no other.
LEMMA LedgerChange ==
  ASSUME IsFiniteSet(Gateways), NEW l \in [Cycles -> [Gateways -> OfCycle]], NEW c \in Cycles,
         NEW x \in Gateways, NEW e \in OfCycle, NEW k, Books(k, l, c, x, e)
  PROVE  /\ LedgerBytes(k, c) = LedgerBytes(l, c) + e.bytes - l[c][x].bytes
         /\ LedgerRequests(k, c) = LedgerRequests(l, c) + e.requests - l[c][x].requests
         /\ \A d \in Cycles \ {c} : /\ LedgerBytes(k, d) = LedgerBytes(l, d)
                                    /\ LedgerRequests(k, d) = LedgerRequests(l, d)
  <1> DEFINE f1 == [y \in Gateways |-> l[c][y].bytes]
             f2 == [y \in Gateways |-> k[c][y].bytes]
             g1 == [y \in Gateways |-> l[c][y].requests]
             g2 == [y \in Gateways |-> k[c][y].requests]
  <1>1. k[c][x] = e /\ \A y \in Gateways \ {x} : k[c][y] = l[c][y]
    BY DEF Books
  <1>2. \A d \in Cycles \ {c} : k[d] = l[d]
    BY DEF Books
  <1>3. \A y \in Gateways : f1[y] \in Int /\ g1[y] \in Int
    BY DEF OfCycle
  <1>4. f2[x] \in Int /\ g2[x] \in Int
    BY <1>1 DEF OfCycle
  <1>5. \A y \in Gateways \ {x} : f2[y] = f1[y] /\ g2[y] = g1[y]
    BY <1>1
  <1>6. /\ f2[x] = e.bytes /\ g2[x] = e.requests
        /\ f1[x] = l[c][x].bytes /\ g1[x] = l[c][x].requests
    BY <1>1
  <1>7. /\ SumFunctionOnSet(f2, Gateways) = SumFunctionOnSet(f1, Gateways) + f2[x] - f1[x]
        /\ SumFunctionOnSet(g2, Gateways) = SumFunctionOnSet(g1, Gateways) + g2[x] - g1[x]
    <2> HIDE DEF f1, f2, g1, g2
    <2>1. SumFunctionOnSet(f2, Gateways) = SumFunctionOnSet(f1, Gateways) + f2[x] - f1[x]
      BY <1>3, <1>4, <1>5, SumChange
    <2>2. SumFunctionOnSet(g2, Gateways) = SumFunctionOnSet(g1, Gateways) + g2[x] - g1[x]
      BY <1>3, <1>4, <1>5, SumChange
    <2> QED BY <2>1, <2>2
  <1>8. /\ LedgerBytes(k, c) = SumFunctionOnSet(f2, Gateways)
        /\ LedgerRequests(k, c) = SumFunctionOnSet(g2, Gateways)
        /\ LedgerBytes(l, c) = SumFunctionOnSet(f1, Gateways)
        /\ LedgerRequests(l, c) = SumFunctionOnSet(g1, Gateways)
    BY DEF LedgerBytes, LedgerRequests
  <1>9. \A d \in Cycles \ {c} : /\ LedgerBytes(k, d) = LedgerBytes(l, d)
                                /\ LedgerRequests(k, d) = LedgerRequests(l, d)
    BY <1>2 DEF LedgerBytes, LedgerRequests
  <1> HIDE DEF f1, f2, g1, g2
  <1> QED BY <1>6, <1>7, <1>8, <1>9

\* The inductive invariant: a call on the wire belongs to the open cycle, what is
\* not on the wire carries nothing, and the books of every cycle balance.
WireIInv ==
  /\ WireTypeOK
  /\ wire \in [Calls -> OfCall] /\ moved \in [Calls -> OfMoves]
  /\ ledger \in [Cycles -> [Gateways -> OfCycle]]
  /\ \A r \in Calls :
       /\ OnWire(r) => /\ cycle # 0 /\ moved[r].cycle = cycle /\ wire[r].exit \in Gateways
                       /\ wire[r].down = 1 => wire[r].up = 1
       /\ ~OnWire(r) => wire[r].up = 0 /\ wire[r].down = 0
       /\ wire[r].phase = "new" => moved[r] = [cycle |-> 0, transfers |-> 0, bytes |-> 0]
  /\ \A c \in Cycles : Balanced(ledger, wire, moved, c, InCycle(c))

\* Balanced books, read at one call or at the end of a cycle, are BytesAccounted.
LEMMA BalanceIsAccounted == WireIInv => BytesAccounted
  BY DEF WireIInv, BytesAccounted, Balanced, LedgerBytes, LedgerRequests, WireBytes, WireStarted,
         MovedBytes, MovedTransfers

\* Nothing has moved when the transport is made.
LEMMA WireInitIInv == ASSUME TransportAssumption, WireInit PROVE WireIInv
  <1> DEFINE zero == [cycle |-> 0, transfers |-> 0, bytes |-> 0]
  <1>1. Unsent \in OfCall /\ zero \in OfMoves /\ [requests |-> 0, bytes |-> 0] \in OfCycle
    BY DEF Unsent, OfCall, OfMoves, OfCycle, TransportAssumption
  <1>2. /\ wire \in [Calls -> OfCall] /\ moved \in [Calls -> OfMoves]
        /\ ledger \in [Cycles -> [Gateways -> OfCycle]]
    BY <1>1 DEF WireInit
  <1>3. WireTypeOK
    <2>1. /\ cycle \in 0 .. MaxAggregators
          /\ closed \in BOOLEAN
          /\ agents \subseteq Supported
      <3>1. cycle \in 0 .. MaxAggregators
        BY DEF WireInit, TransportAssumption
      <3>2. closed \in BOOLEAN
        BY DEF WireInit
      <3> QED BY <3>1, <3>2 DEF WireInit
    <2>2. \A r \in Calls : wire[r].phase = "new" /\ wire[r].outcome = Null
      BY DEF WireInit, Unsent
    <2> QED BY <2>1, <2>2 DEF WireTypeOK, OnWire
  <1>4. ASSUME NEW c \in Cycles PROVE Balanced(ledger, wire, moved, c, InCycle(c))
    <2>1. InCycle(c) = {}
      BY DEF InCycle, WireInit, Cycles
    <2>2. /\ WireBytes(wire, {}) = 0 /\ WireStarted(wire, {}) = 0
          /\ MovedBytes(moved, {}) = 0 /\ MovedTransfers(moved, {}) = 0
      BY SumEmpty DEF WireBytes, WireStarted, MovedBytes, MovedTransfers
    <2>3. LedgerBytes(ledger, c) = 0 /\ LedgerRequests(ledger, c) = 0
      <3> DEFINE f == [x \in Gateways |-> ledger[c][x].bytes]
                 g == [x \in Gateways |-> ledger[c][x].requests]
      <3>1. \A x \in Gateways : f[x] = 0 /\ g[x] = 0
        BY DEF WireInit
      <3> HIDE DEF f, g
      <3>2. SumFunctionOnSet(f, Gateways) = 0 /\ SumFunctionOnSet(g, Gateways) = 0
        BY <3>1, SumZero DEF TransportAssumption
      <3> QED BY <3>2 DEF f, g, LedgerBytes, LedgerRequests
    <2> QED BY <2>1, <2>2, <2>3 DEF Balanced
  <1> QED BY <1>2, <1>3, <1>4 DEF WireIInv, WireInit, Unsent, OnWire

\* What one call does to the cycle it belongs to, and to no other.
\* What a call gains on the wire is what moves: the books still balance.
LEMMA CallMoves ==
  ASSUME TransportAssumption, WireIInv, NEW r \in Calls, NEW e \in OfCall, NEW n \in OfMoves,
         SetTo(wire', wire, r, e), SetTo(moved', moved, r, n), ledger' = ledger,
         n.cycle = moved[r].cycle,
         n.bytes - moved[r].bytes = (e.up + e.down) - (wire[r].up + wire[r].down),
         n.transfers - moved[r].transfers = e.up - wire[r].up
  PROVE  \A c \in Cycles : Balanced(ledger', wire', moved', c, InCycle(c)')
  <1> TAKE c \in Cycles
  <1> DEFINE S == InCycle(c)
  <1>0. IsFiniteSet(Calls) /\ IsFiniteSet(Gateways) /\ S \in SUBSET Calls
    BY DEF TransportAssumption, InCycle
  <1>1. InCycle(c)' = S
    BY DEF InCycle, WireIInv, SetTo
  <1>2. wire \in [Calls -> OfCall] /\ moved \in [Calls -> OfMoves] /\ ledger \in [Cycles -> [Gateways -> OfCycle]]
    BY DEF WireIInv
  <1> HIDE DEF S
  <1>3. /\ WireBytes(wire, S) \in Int /\ WireStarted(wire, S) \in Int
        /\ MovedBytes(moved, S) \in Int /\ MovedTransfers(moved, S) \in Int
        /\ LedgerBytes(ledger, c) \in Int /\ LedgerRequests(ledger, c) \in Int
    BY <1>0, <1>2, WireSums, MovedSums, LedgerSums
  <1>4. Balanced(ledger, wire, moved, c, S)
    BY DEF WireIInv, S
  <1>5. /\ e.up \in Int /\ e.down \in Int /\ wire[r].up \in Int /\ wire[r].down \in Int
        /\ n.bytes \in Int /\ n.transfers \in Int /\ moved[r].bytes \in Int /\ moved[r].transfers \in Int
    BY <1>2 DEF OfCall, OfMoves
  <1>6. CASE r \in S
    <2>1. /\ WireBytes(wire', S) = WireBytes(wire, S) + (e.up + e.down) - (wire[r].up + wire[r].down)
          /\ WireStarted(wire', S) = WireStarted(wire, S) + e.up - wire[r].up
      BY <1>0, <1>2, <1>6, WireChange
    <2>2. /\ MovedBytes(moved', S) = MovedBytes(moved, S) + n.bytes - moved[r].bytes
          /\ MovedTransfers(moved', S) = MovedTransfers(moved, S) + n.transfers - moved[r].transfers
      BY <1>0, <1>2, <1>6, MovedChange
    <2> QED BY <1>1, <1>3, <1>4, <1>5, <2>1, <2>2 DEF Balanced
  <1>7. CASE r \notin S
    <2>1. WireBytes(wire', S) = WireBytes(wire, S) /\ WireStarted(wire', S) = WireStarted(wire, S)
      BY <1>0, <1>2, <1>7, WireChange
    <2>2. MovedBytes(moved', S) = MovedBytes(moved, S) /\ MovedTransfers(moved', S) = MovedTransfers(moved, S)
      BY <1>0, <1>2, <1>7, MovedChange
    <2> QED BY <1>1, <1>4, <2>1, <2>2 DEF Balanced
  <1> QED BY <1>6, <1>7

\* What is booked leaves the call: the same bytes, and one transfer if it had begun.
\* What a call takes off the wire is booked once: the books still balance.
LEMMA CallBooks ==
  ASSUME TransportAssumption, WireIInv, NEW r \in Calls, OnWire(r), NEW e \in OfCall,
         e.up = 0, e.down = 0, SetTo(wire', wire, r, e), moved' = moved,
         \/ ledger' = Booked(wire[r]) /\ wire[r].up = 1
         \/ ledger' = ledger /\ wire[r].up = 0 /\ wire[r].down = 0
  PROVE  \A c \in Cycles : Balanced(ledger', wire', moved', c, InCycle(c)')
  <1> DEFINE x == wire[r].exit
  <1>0. /\ IsFiniteSet(Calls) /\ IsFiniteSet(Gateways) /\ cycle \in Cycles /\ x \in Gateways
        /\ moved[r].cycle = cycle
    BY DEF TransportAssumption, WireIInv, WireTypeOK, Cycles
  <1>2. wire \in [Calls -> OfCall] /\ moved \in [Calls -> OfMoves] /\ ledger \in [Cycles -> [Gateways -> OfCycle]]
    BY DEF WireIInv
  <1>3. CASE ledger' = ledger /\ wire[r].up = 0 /\ wire[r].down = 0
    <2>1. moved[r] \in OfMoves /\ SetTo(moved', moved, r, moved[r])
      BY <1>2 DEF SetTo
    <2>2. moved[r].bytes \in Int /\ moved[r].transfers \in Int
      BY <1>2 DEF OfMoves
    <2> QED BY <1>3, <2>1, <2>2, CallMoves
  <1>4. CASE ledger' = Booked(wire[r]) /\ wire[r].up = 1
    <2> TAKE c \in Cycles
    <2> DEFINE S == InCycle(c)
               b == [requests |-> ledger[cycle][x].requests + 1,
                     bytes |-> ledger[cycle][x].bytes + wire[r].up + wire[r].down]
    <2>1. S \in SUBSET Calls /\ InCycle(c)' = S /\ (r \in S <=> c = cycle)
      BY <1>0 DEF InCycle
    <2>2. /\ wire[r].up \in {0, 1} /\ wire[r].down \in {0, 1}
          /\ ledger[cycle][x].requests \in Nat /\ ledger[cycle][x].bytes \in Nat
      BY <1>0, <1>2 DEF OfCall, OfCycle
    <2>3. b \in OfCycle /\ Books(ledger', ledger, cycle, x, b)
      BY <1>4, <2>2 DEF OfCycle, Booked, Books
    <2> HIDE DEF S
    <2>4. /\ WireBytes(wire, S) \in Int /\ WireStarted(wire, S) \in Int
          /\ MovedBytes(moved, S) \in Int /\ MovedTransfers(moved, S) \in Int
          /\ LedgerBytes(ledger, c) \in Int /\ LedgerRequests(ledger, c) \in Int
      BY <1>0, <1>2, <2>1, WireSums, MovedSums, LedgerSums
    <2>5. Balanced(ledger, wire, moved, c, S)
      BY DEF WireIInv, S
    <2>6. CASE c = cycle
      <3>1. /\ WireBytes(wire', S) = WireBytes(wire, S) + (e.up + e.down) - (wire[r].up + wire[r].down)
            /\ WireStarted(wire', S) = WireStarted(wire, S) + e.up - wire[r].up
        BY <1>0, <1>2, <2>1, <2>6, WireChange
      <3>2. b.bytes = ledger[cycle][x].bytes + wire[r].up + wire[r].down /\ b.requests = ledger[cycle][x].requests + 1
        OBVIOUS
      <3> HIDE DEF b, x
      <3>3. /\ LedgerBytes(ledger', c) = LedgerBytes(ledger, c) + b.bytes - ledger[c][x].bytes
            /\ LedgerRequests(ledger', c) = LedgerRequests(ledger, c) + b.requests - ledger[c][x].requests
        BY <1>0, <1>2, <2>3, <2>6, LedgerChange
      <3>4. /\ LedgerBytes(ledger', c) = LedgerBytes(ledger, c) + (wire[r].up + wire[r].down)
            /\ LedgerRequests(ledger', c) = LedgerRequests(ledger, c) + 1
        <4>1. ledger[c][x] = ledger[cycle][x]
          BY <2>6
        <4> QED BY <2>2, <2>4, <3>2, <3>3, <4>1
      <3>5. /\ WireBytes(wire', S) = WireBytes(wire, S) - (wire[r].up + wire[r].down)
            /\ WireStarted(wire', S) = WireStarted(wire, S) - 1
        BY <1>4, <2>2, <2>4, <3>1
      <3>6. /\ LedgerBytes(ledger', c) + WireBytes(wire', S) = MovedBytes(moved', S)
            /\ LedgerRequests(ledger', c) + WireStarted(wire', S) = MovedTransfers(moved', S)
        BY <2>2, <2>4, <2>5, <3>4, <3>5 DEF Balanced
      <3> QED BY <2>1, <3>6 DEF Balanced
    <2>7. CASE c # cycle
      <3>1. WireBytes(wire', S) = WireBytes(wire, S) /\ WireStarted(wire', S) = WireStarted(wire, S)
        BY <1>0, <1>2, <2>1, <2>7, WireChange
      <3> HIDE DEF b, x
      <3>2. LedgerBytes(ledger', c) = LedgerBytes(ledger, c) /\ LedgerRequests(ledger', c) = LedgerRequests(ledger, c)
        BY <1>0, <1>2, <2>3, <2>7, LedgerChange
      <3> QED BY <2>1, <2>5, <3>1, <3>2 DEF Balanced
    <2> QED BY <2>6, <2>7
  <1> QED BY <1>3, <1>4

\* The rest of the invariant, after a step of one call.
\* A step that replaces one call and keeps the books keeps the invariant.
LEMMA CallKept ==
  ASSUME TransportAssumption, WireIInv, NEW r \in Calls, NEW e \in OfCall, NEW n \in OfMoves,
         SetTo(wire', wire, r, e), SetTo(moved', moved, r, n),
         cycle' = cycle, closed' = closed, agents \subseteq agents', agents' \subseteq Supported,
         ledger' \in [Cycles -> [Gateways -> OfCycle]],
         e.phase # "new",
         e.phase = "wire" => /\ cycle # 0 /\ n.cycle = cycle /\ e.exit \in agents'
                             /\ e.down = 1 => e.up = 1,
         e.phase # "wire" => e.up = 0 /\ e.down = 0,
         \A c \in Cycles : Balanced(ledger', wire', moved', c, InCycle(c)')
  PROVE  WireIInv'
  <1>1. wire' \in [Calls -> OfCall] /\ moved' \in [Calls -> OfMoves]
    BY DEF WireIInv, SetTo
  <1>2. wire'[r] = e /\ moved'[r] = n /\ \A q \in Calls : q # r => wire'[q] = wire[q] /\ moved'[q] = moved[q]
    BY DEF WireIInv, SetTo
  <1>3. \A q \in Calls : wire[q].phase = "wire" => wire[q].exit \in agents
    BY DEF WireIInv, WireTypeOK, OnWire
  <1>4. \A q \in Calls : wire'[q].phase = "wire" => wire'[q].exit \in agents'
    BY <1>2, <1>3
  <1>5. \A q \in Calls : /\ wire'[q].phase \in {"new", "wire", "done"}
                         /\ wire'[q].outcome \in Settlements \cup {Null}
    BY <1>1 DEF OfCall
  <1>6. WireTypeOK'
    <2>1. cycle' \in 0 .. MaxAggregators /\ closed' \in BOOLEAN
      BY DEF WireIInv, WireTypeOK
    <2> QED BY <1>4, <1>5, <2>1 DEF WireTypeOK, OnWire
  <1>7. agents' \subseteq Gateways
    BY DEF TransportAssumption
  <1>8. ASSUME NEW q \in Calls
        PROVE  /\ OnWire(q)' => /\ cycle' # 0 /\ moved'[q].cycle = cycle' /\ wire'[q].exit \in Gateways
                                /\ wire'[q].down = 1 => wire'[q].up = 1
               /\ ~OnWire(q)' => wire'[q].up = 0 /\ wire'[q].down = 0
               /\ wire'[q].phase = "new" => moved'[q] = [cycle |-> 0, transfers |-> 0, bytes |-> 0]
    <2>1. CASE q = r
      BY <1>2, <1>4, <1>7, <2>1 DEF OnWire
    <2>2. CASE q # r
      BY <1>2, <2>2 DEF OnWire, WireIInv
    <2> QED BY <2>1, <2>2
  <1> QED BY <1>1, <1>6, <1>8 DEF WireIInv

\* A call that is sent joins the open cycle with nothing on the wire yet.
LEMMA WireSends ==
  ASSUME TransportAssumption, WireIInv, NEW r \in Calls, NEW x \in Gateways,
         NEW reason \in Reasons \cup {Null}, Send(r, x, reason)
  PROVE  WireIInv'
  <1> DEFINE e0 == [Unsent EXCEPT !.exit = x, !.reason = reason]
             e == IF x \notin Supported THEN [e0 EXCEPT !.phase = "done", !.outcome = "unknown"]
                  ELSE IF reason # Null THEN [e0 EXCEPT !.phase = "done", !.outcome = reason]
                  ELSE [e0 EXCEPT !.phase = "wire", !.hops = 1]
             n == [moved[r] EXCEPT !.cycle = cycle]
  <1>1. /\ wire[r].phase = "new" /\ cycle > 0 /\ ~closed
        /\ SetTo(wire', wire, r, e) /\ SetTo(moved', moved, r, n)
        /\ cycle' = cycle /\ closed' = closed /\ ledger' = ledger
        /\ agents' = IF x \in Supported THEN agents \cup {x} ELSE agents
    BY DEF Send, SetTo
  <1>2. /\ e \in OfCall /\ e.up = 0 /\ e.down = 0
        /\ e.phase \in {"wire", "done"} /\ (e.phase = "wire" => x \in Supported /\ e.exit = x)
    BY DEF Unsent, OfCall, Settlements
  <1>3. wire[r].up = 0 /\ wire[r].down = 0 /\ moved[r] = [cycle |-> 0, transfers |-> 0, bytes |-> 0]
    BY <1>1 DEF WireIInv, OnWire
  <1>4. /\ n = [cycle |-> cycle, transfers |-> 0, bytes |-> 0] /\ n \in OfMoves
        /\ cycle \in Cycles
    BY <1>1, <1>3 DEF OfMoves, WireIInv, WireTypeOK, Cycles, TransportAssumption
  <1> HIDE DEF e, n
  <1>5. ASSUME NEW c \in Cycles PROVE Balanced(ledger', wire', moved', c, InCycle(c)')
    <2> DEFINE S == InCycle(c)
               U == InCycle(c)'
    <2>1. IsFiniteSet(Calls) /\ S \in SUBSET Calls /\ U \in SUBSET Calls /\ r \notin S
      BY <1>3 DEF TransportAssumption, InCycle, Cycles
    <2>2. wire \in [Calls -> OfCall] /\ moved \in [Calls -> OfMoves]
      BY DEF WireIInv
    <2>3. U = IF c = cycle THEN S \cup {r} ELSE S
      <3>1. moved'[r].cycle = cycle /\ \A q \in Calls : q # r => moved'[q] = moved[q]
        BY <1>1, <1>4, <2>2 DEF SetTo
      <3>2. moved[r].cycle = 0 /\ c # 0
        BY <1>3 DEF Cycles
      <3>3. \A q \in Calls : q \in U <=> (q \in S \/ (q = r /\ c = cycle))
        BY <3>1, <3>2 DEF InCycle
      <3>4. S \in SUBSET Calls /\ U \in SUBSET Calls
        BY <2>1
      <3> HIDE DEF S, U
      <3>5. CASE c = cycle
        BY <3>3, <3>4, <3>5
      <3>6. CASE c # cycle
        BY <3>3, <3>4, <3>6
      <3> QED BY <3>5, <3>6
    <2>4. Balanced(ledger, wire, moved, c, S)
      BY DEF WireIInv
    <2> HIDE DEF S, U
    <2>5. /\ WireBytes(wire', S) = WireBytes(wire, S) /\ WireStarted(wire', S) = WireStarted(wire, S)
          /\ MovedBytes(moved', S) = MovedBytes(moved, S)
          /\ MovedTransfers(moved', S) = MovedTransfers(moved, S)
      <3>1. WireBytes(wire', S) = WireBytes(wire, S) /\ WireStarted(wire', S) = WireStarted(wire, S)
        BY <1>1, <1>2, <2>1, <2>2, WireChange
      <3>2. MovedBytes(moved', S) = MovedBytes(moved, S) /\ MovedTransfers(moved', S) = MovedTransfers(moved, S)
        BY <1>1, <1>4, <2>1, <2>2, MovedChange
      <3> QED BY <3>1, <3>2
    <2>6. CASE c = cycle
      <3>1. /\ WireBytes(wire', S \cup {r}) = WireBytes(wire', S)
            /\ WireStarted(wire', S \cup {r}) = WireStarted(wire', S)
            /\ MovedBytes(moved', S \cup {r}) = MovedBytes(moved', S)
            /\ MovedTransfers(moved', S \cup {r}) = MovedTransfers(moved', S)
        <4>1. wire' \in [Calls -> OfCall] /\ moved' \in [Calls -> OfMoves] /\ wire'[r] = e /\ moved'[r] = n
          BY <1>1, <1>2, <1>4, <2>2 DEF SetTo
        <4>2. n.transfers = 0 /\ n.bytes = 0
          BY <1>4
        <4> QED BY <1>2, <2>1, <4>1, <4>2, EmptyCall
      <3> QED BY <1>1, <2>3, <2>4, <2>5, <2>6, <3>1 DEF Balanced, U
    <2>7. CASE c # cycle
      BY <1>1, <2>3, <2>4, <2>5, <2>7 DEF Balanced, U
    <2> QED BY <2>6, <2>7
  <1>6. /\ agents \subseteq agents' /\ agents' \subseteq Supported
        /\ e.phase = "wire" => e.exit \in agents'
        /\ ledger' \in [Cycles -> [Gateways -> OfCycle]]
        /\ cycle # 0 /\ n.cycle = cycle
    <2>1. agents \subseteq Supported
      BY DEF WireIInv, WireTypeOK
    <2>2. ledger' \in [Cycles -> [Gateways -> OfCycle]]
      BY <1>1 DEF WireIInv
    <2>3. cycle # 0 /\ n.cycle = cycle
      BY <1>1, <1>4
    <2> QED BY <1>1, <1>2, <2>1, <2>2, <2>3
  <1> QED BY <1>1, <1>2, <1>4, <1>5, <1>6, CallKept

\* Bytes that move are counted, on the wire and as moved.
LEMMA WireMoves ==
  ASSUME TransportAssumption, WireIInv, NEW r \in Calls, RequestStart(r) \/ ResponseData(r)
  PROVE  WireIInv'
  <1>1. wire[r] \in OfCall /\ moved[r] \in OfMoves /\ wire[r].phase = "wire"
        /\ cycle # 0 /\ moved[r].cycle = cycle /\ wire[r].exit \in agents
    BY DEF WireIInv, RequestStart, ResponseData, OnWire, WireTypeOK
  <1>2. PICK e \in OfCall, n \in OfMoves :
          /\ SetTo(wire', wire, r, e) /\ SetTo(moved', moved, r, n)
          /\ n.cycle = moved[r].cycle
          /\ n.bytes - moved[r].bytes = (e.up + e.down) - (wire[r].up + wire[r].down)
          /\ n.transfers - moved[r].transfers = e.up - wire[r].up
          /\ e.phase = "wire" /\ e.exit = wire[r].exit /\ (e.down = 1 => e.up = 1)
    <2>1. CASE RequestStart(r)
      <3> DEFINE e == [wire[r] EXCEPT !.up = 1]
                 n == [moved[r] EXCEPT !.bytes = @ + 1, !.transfers = @ + 1]
      <3>1. e \in OfCall /\ n \in OfMoves
        <4>1. e \in OfCall
          BY <1>1 DEF OfCall
        <4>2. n \in OfMoves
          <5>1. /\ moved[r].cycle \in 0 .. MaxAggregators
                /\ moved[r].transfers + 1 \in Nat /\ moved[r].bytes + 1 \in Nat
            BY <1>1 DEF OfMoves
          <5>2. moved[r] \in OfMoves
            BY <1>1
          <5> DEFINE m == [moved[r] EXCEPT !.bytes = @ + 1]
          <5>3. m \in OfMoves /\ m.transfers = moved[r].transfers
            BY <5>1, <5>2 DEF OfMoves
          <5>4. n = [m EXCEPT !.transfers = @ + 1]
            BY <5>2 DEF OfMoves
          <5> HIDE DEF n, m
          <5> QED BY <5>1, <5>3, <5>4 DEF OfMoves
        <4> QED BY <4>1, <4>2
      <3>2. SetTo(wire', wire, r, e) /\ SetTo(moved', moved, r, n)
        BY <2>1 DEF RequestStart, SetTo
      <3>3. /\ wire[r].up = 0 /\ e.up = 1 /\ e.down = wire[r].down /\ wire[r].down \in {0, 1}
            /\ e.phase = "wire" /\ e.exit = wire[r].exit
        BY <1>1, <2>1 DEF RequestStart, OfCall
      <3>4. /\ n.bytes = moved[r].bytes + 1 /\ n.transfers = moved[r].transfers + 1 /\ n.cycle = moved[r].cycle
            /\ moved[r].bytes \in Nat /\ moved[r].transfers \in Nat
        BY <1>1 DEF OfMoves
      <3> HIDE DEF e, n
      <3>5. /\ n.bytes - moved[r].bytes = (e.up + e.down) - (wire[r].up + wire[r].down)
            /\ n.transfers - moved[r].transfers = e.up - wire[r].up
        BY <3>3, <3>4
      <3> QED BY <3>1, <3>2, <3>3, <3>4, <3>5
    <2>2. CASE ResponseData(r)
      <3> DEFINE e == [wire[r] EXCEPT !.down = 1]
                 n == [moved[r] EXCEPT !.bytes = @ + 1]
      <3>1. e \in OfCall /\ n \in OfMoves
        BY <1>1 DEF OfCall, OfMoves
      <3>2. SetTo(wire', wire, r, e) /\ SetTo(moved', moved, r, n)
        BY <2>2 DEF ResponseData, SetTo
      <3>3. /\ wire[r].down = 0 /\ e.down = 1 /\ e.up = wire[r].up /\ wire[r].up = 1
            /\ e.phase = "wire" /\ e.exit = wire[r].exit
        BY <1>1, <2>2 DEF ResponseData, OfCall
      <3>4. /\ n.bytes = moved[r].bytes + 1 /\ n.transfers = moved[r].transfers /\ n.cycle = moved[r].cycle
            /\ moved[r].bytes \in Nat /\ moved[r].transfers \in Nat
        BY <1>1 DEF OfMoves
      <3> HIDE DEF e, n
      <3>5. /\ n.bytes - moved[r].bytes = (e.up + e.down) - (wire[r].up + wire[r].down)
            /\ n.transfers - moved[r].transfers = e.up - wire[r].up
        BY <3>3, <3>4
      <3> QED BY <3>1, <3>2, <3>3, <3>4, <3>5
    <2> QED BY <2>1, <2>2
  <1>3. cycle' = cycle /\ closed' = closed /\ agents' = agents /\ ledger' = ledger
    BY DEF RequestStart, ResponseData
  <1>4. ledger' \in [Cycles -> [Gateways -> OfCycle]] /\ agents' \subseteq Supported
    BY <1>3 DEF WireIInv, WireTypeOK
  <1>5. \A c \in Cycles : Balanced(ledger', wire', moved', c, InCycle(c)')
    BY <1>2, <1>3, CallMoves
  <1> QED BY <1>1, <1>2, <1>3, <1>4, <1>5, CallKept

\* A call that ends, fails or is aborted is booked and leaves the wire.
LEMMA WireEnds ==
  ASSUME TransportAssumption, WireIInv, NEW r \in Calls,
         \/ ResponseEnd(r)
         \/ \E error \in Errors : ResponseError(r, error)
         \/ \E reason \in Reasons : WireAborts(r, reason)
  PROVE  WireIInv'
  <1>1. wire[r] \in OfCall /\ moved[r] \in OfMoves /\ wire[r].phase = "wire" /\ OnWire(r)
        /\ cycle # 0 /\ moved[r].cycle = cycle /\ wire[r].exit \in agents /\ wire[r].exit \in Gateways
        /\ (wire[r].down = 1 => wire[r].up = 1) /\ wire[r].up \in {0, 1} /\ wire[r].down \in {0, 1}
    <2>1. OnWire(r)
      BY DEF ResponseEnd, ResponseError, WireAborts
    <2>2. wire[r] \in OfCall /\ moved[r] \in OfMoves
      BY DEF WireIInv
    <2>3. wire[r].up \in {0, 1} /\ wire[r].down \in {0, 1}
      BY <2>2 DEF OfCall
    <2> QED BY <2>1, <2>2, <2>3 DEF WireIInv, OnWire, WireTypeOK
  <1>2. /\ cycle' = cycle /\ closed' = closed /\ agents' = agents /\ moved' = moved
    BY DEF ResponseEnd, ResponseError, WireAborts
  <1>3. \A o \in Settlements : LET f == Over(wire[r], o) IN
          f \in OfCall /\ f.up = 0 /\ f.down = 0 /\ f.phase = "done"
    BY <1>1 DEF Over, Reset, OfCall
  <1>4. PICK e \in OfCall : /\ SetTo(wire', wire, r, e) /\ e.up = 0 /\ e.down = 0
                             /\ e.phase \in {"wire", "done"} /\ (e.phase = "wire" => e.exit = wire[r].exit)
    <2>1. CASE ResponseEnd(r)
      <3>1. CASE wire' = [wire EXCEPT ![r] = Over(@, "response")]
        <4>1. "response" \in Settlements
          BY DEF Settlements
        <4> QED BY <3>1, <4>1, <1>3 DEF SetTo
      <3>2. CASE wire' = [wire EXCEPT ![r] = [Reset(@) EXCEPT !.hops = wire[r].hops + 1]]
        <4> DEFINE h == wire[r].hops + 1
                   e == [Reset(wire[r]) EXCEPT !.hops = h]
        <4>1. e \in OfCall /\ e.up = 0 /\ e.down = 0 /\ e.phase = "wire" /\ e.exit = wire[r].exit
          <5>1. Reset(wire[r]) \in OfCall /\ Reset(wire[r]).up = 0 /\ Reset(wire[r]).down = 0
            BY <1>1 DEF Reset, OfCall
          <5>2. Reset(wire[r]).phase = "wire" /\ Reset(wire[r]).exit = wire[r].exit
            BY <1>1 DEF Reset, OfCall
          <5>3. h \in Nat
            BY <1>1 DEF OfCall
          <5> HIDE DEF h
          <5> QED BY <5>1, <5>2, <5>3 DEF OfCall
        <4>2. SetTo(wire', wire, r, e)
          BY <3>2 DEF SetTo
        <4> HIDE DEF e
        <4> QED BY <4>1, <4>2
      <3> QED BY <2>1, <3>1, <3>2 DEF ResponseEnd
    <2>2. ASSUME NEW error \in Errors, ResponseError(r, error)
          PROVE  /\ Over(wire[r], ToHttpError(error)) \in OfCall
                 /\ SetTo(wire', wire, r, Over(wire[r], ToHttpError(error)))
                 /\ Over(wire[r], ToHttpError(error)).up = 0
                 /\ Over(wire[r], ToHttpError(error)).down = 0
                 /\ Over(wire[r], ToHttpError(error)).phase = "done"
      <3>1. ToHttpError(error) \in Settlements
        BY DEF ToHttpError, Settlements, Reasons
      <3> QED BY <2>2, <3>1, <1>3 DEF ResponseError, SetTo
    <2>3. ASSUME NEW reason \in Reasons, WireAborts(r, reason)
          PROVE  \E e \in OfCall : /\ SetTo(wire', wire, r, e) /\ e.up = 0 /\ e.down = 0 /\ e.phase = "done"
      <3> DEFINE e == Over([wire[r] EXCEPT !.reason = reason], reason)
      <3>1. reason \in Settlements
        BY DEF Settlements
      <3>2. e \in OfCall /\ e.up = 0 /\ e.down = 0 /\ e.phase = "done"
        BY <1>1, <3>1 DEF Over, Reset, OfCall
      <3>3. SetTo(wire', wire, r, e)
        <4>1. wire' = [wire EXCEPT ![r] = Over([@ EXCEPT !.reason = reason], reason)]
          BY <2>3 DEF WireAborts
        <4> QED BY <4>1, Zenon DEF SetTo
      <3> HIDE DEF e
      <3> QED BY <3>2, <3>3
    <2> QED BY <2>1, <2>2, <2>3
  <1>5. \/ ledger' = Booked(wire[r]) /\ wire[r].up = 1
        \/ ledger' = ledger /\ wire[r].up = 0 /\ wire[r].down = 0
    <2>1. CASE ResponseEnd(r)
      <3>1. ledger' = Booked(wire[r]) /\ wire[r].down > 0
        BY <2>1 DEF ResponseEnd
      <3>2. wire[r].up = 1
        BY <1>1, <3>1
      <3> QED BY <3>1, <3>2
    <2>2. CASE ledger' = BookedOnError(wire[r])
      <3>1. CASE wire[r].up > 0 \/ wire[r].down > 0
        BY <1>1, <2>2, <3>1 DEF BookedOnError
      <3>2. CASE ~(wire[r].up > 0 \/ wire[r].down > 0)
        BY <1>1, <2>2, <3>2 DEF BookedOnError
      <3> QED BY <3>1, <3>2
    <2> QED BY <2>1, <2>2 DEF ResponseError, WireAborts
  <1>6. ledger' \in [Cycles -> [Gateways -> OfCycle]]
    <2>1. ledger \in [Cycles -> [Gateways -> OfCycle]] /\ cycle \in Cycles
      BY <1>1 DEF WireIInv, WireTypeOK, Cycles, TransportAssumption
    <2>2. Booked(wire[r]) \in [Cycles -> [Gateways -> OfCycle]]
      <3> DEFINE x == wire[r].exit
                 b == [requests |-> ledger[cycle][x].requests + 1,
                       bytes |-> ledger[cycle][x].bytes + wire[r].up + wire[r].down]
      <3>1. b \in OfCycle
        BY <1>1, <2>1 DEF OfCycle
      <3>2. Booked(wire[r]) = [ledger EXCEPT ![cycle][x] = b]
        BY DEF Booked
      <3> HIDE DEF b, x
      <3> QED BY <2>1, <3>1, <3>2
    <2> QED BY <1>5, <2>1, <2>2
  <1>7. \A c \in Cycles : Balanced(ledger', wire', moved', c, InCycle(c)')
    BY <1>1, <1>2, <1>4, <1>5, CallBooks
  <1>8. SetTo(moved', moved, r, moved[r])
    BY <1>2 DEF SetTo, WireIInv
  <1>9. agents' \subseteq Supported
    BY <1>2 DEF WireIInv, WireTypeOK
  <1> QED BY <1>1, <1>2, <1>4, <1>6, <1>7, <1>8, <1>9, CallKept

\* Opening a cycle and closing the transport leave the calls alone.
LEMMA WireElse ==
  ASSUME TransportAssumption, WireIInv, ClientFor \/ CloseTransport \/ UNCHANGED wireVars
  PROVE  WireIInv'
  <1>1. agents' = agents /\ wire' = wire /\ ledger' = ledger /\ moved' = moved
    BY DEF ClientFor, CloseTransport, wireVars
  <1>2. cycle' \in 0 .. MaxAggregators /\ closed' \in BOOLEAN
    <2>1. cycle \in 0 .. MaxAggregators /\ closed \in BOOLEAN
      BY DEF WireIInv, WireTypeOK
    <2>2. MaxAggregators \in Nat
      BY DEF TransportAssumption
    <2>3. CASE ClientFor
      BY <2>1, <2>2, <2>3 DEF ClientFor
    <2>4. CASE CloseTransport
      BY <2>1, <2>4 DEF CloseTransport
    <2>5. CASE UNCHANGED wireVars
      BY <2>1, <2>5 DEF wireVars
    <2> QED BY <2>3, <2>4, <2>5
  <1>3. (\A r \in Calls : ~OnWire(r)) \/ cycle' = cycle
    BY DEF ClientFor, CloseTransport, wireVars
  <1>4. WireTypeOK'
    BY <1>1, <1>2 DEF WireIInv, WireTypeOK, OnWire
  <1>5. \A c \in Cycles : Balanced(ledger', wire', moved', c, InCycle(c)')
    <2>1. \A c \in Cycles : InCycle(c)' = InCycle(c)
      BY <1>1 DEF InCycle
    <2> QED BY <1>1, <2>1 DEF WireIInv
  <1> QED BY <1>1, <1>3, <1>4, <1>5 DEF WireIInv, OnWire

\* Every byte and every transfer of a cycle is in its ledger or still on the wire,
\* once, whichever way the call ends: for every set of calls, gateways and cycles.
THEOREM BandwidthAccounted == ASSUME TransportAssumption PROVE WireSpec => []BytesAccounted
  <1>1. WireInit => WireIInv
    BY WireInitIInv
  <1>2. WireIInv /\ [WireNext]_wireVars => WireIInv'
    BY WireSends, WireMoves, WireEnds, WireElse DEF WireNext
  <1> QED BY <1>1, <1>2, BalanceIsAccounted, PTL DEF WireSpec

-----------------------------------------------------------------------------
(* The failures the scrapers share.                                        *)

\* The failure of every code is a record of the schema.
LEMMA CodesKept == \A c \in FailureCodes : ScrapeError(c) \in FailureRecords
  <1>1. \A c : DefaultRetryable(c) \in BOOLEAN
    BY DEF DefaultRetryable
  <1>2. \A c : DefaultStatus(c) \in {"rate_limited", "not_found", "private", "error"}
    BY DEF DefaultStatus
  <1> QED BY <1>1, <1>2 DEF ScrapeError, Failure, FailureRecords

\* So is an http_error, whether it may be tried again or not.
LEMMA HttpErrorKept == \A P : Failure("error", "http_error", P \in {"408", "5xx"}) \in FailureRecords
  BY DEF Failure, FailureRecords, FailureCodes

-----------------------------------------------------------------------------
(* TikTok: how an answer counts for the proxy.                             *)

\* What is thrown counts against the proxy only when the network failed.
LEMMA ThrownJudged ==
  \A c \in ThrownCodes :
    ProxyOutcome(ScrapeError(c)) = IF c \in {"timeout", "network_error"} THEN "failure" ELSE "neutral"
  BY DEF ThrownCodes, ScrapeError, Failure, DefaultStatus, DefaultRetryable, ProxyOutcome

\* How each failure of an answer counts for the proxy.
LEMMA AnswerJudged ==
  /\ ProxyOutcome(ScrapeError("not_found")) = "success"
  /\ ProxyOutcome(ScrapeError("private")) = "success"
  /\ ProxyOutcome(ScrapeError("rate_limited")) = "blocked"
  /\ ProxyOutcome(ScrapeError("blocked")) = "blocked"
  /\ ProxyOutcome(ScrapeError("geo_blocked")) = "unsuitable"
  /\ ProxyOutcome(ScrapeError("parse_error")) = "neutral"
  /\ \A retryable : ProxyOutcome(Failure("error", "http_error", retryable)) = "failure"
  BY DEF ScrapeError, Failure, DefaultStatus, DefaultRetryable, ProxyOutcome

\* A status of the embed page counts as it tells; 400 says the video is gone.
LEMMA EmbedStatusJudged ==
  ASSUME NEW s
  PROVE  ProxyOutcome(EmbedFailure(s)) = IF s = "400" THEN "success" ELSE Tells(s)
  BY AnswerJudged DEF EmbedFailure, Tells

\* A status of the player API counts as it tells.
LEMMA PlayerStatusJudged ==
  ASSUME NEW s
  PROVE  ProxyOutcome(PlayerFailure(s)) = Tells(s)
  BY AnswerJudged DEF PlayerFailure, Tells

\* Every verdict on an answer is a failure of the schema.
LEMMA VerdictsKept ==
  ASSUME TikTokAssumption
  PROVE  /\ \A v \in EmbedPages \cup Others : EmbedVerdict(v) # Null => EmbedVerdict(v) \in FailureRecords
         /\ \A v \in PlayerBodies \cup Others : PlayerVerdict(v) # Null => PlayerVerdict(v) \in FailureRecords
  <1>1. \A c \in VideoCauses : ScrapeError(c) \in FailureRecords
    BY CodesKept DEF TikTokAssumption, FailureCodes
  <1>2. {"not_found", "rate_limited", "blocked", "private", "geo_blocked", "parse_error"} \subseteq FailureCodes
    BY DEF FailureCodes
  <1>3. \A s : EmbedFailure(s) \in FailureRecords /\ PlayerFailure(s) \in FailureRecords
    BY <1>2, CodesKept, HttpErrorKept DEF EmbedFailure, PlayerFailure
  <1>4. \A v \in EmbedPages \cup Others : v.kind = "thrown" => v.code \in VideoCauses
    BY DEF EmbedPages, Others
  <1>5. \A v \in PlayerBodies \cup Others : v.kind = "thrown" => v.code \in VideoCauses
    BY DEF PlayerBodies, Others
  <1> QED BY <1>1, <1>2, <1>3, <1>4, <1>5, CodesKept DEF EmbedVerdict, PlayerVerdict

\* The inductive invariant: the player is asked for a page that was parsed.
VideoIInv ==
  /\ step \in {"new", "embed", "player", "done"}
  /\ step \in {"new", "embed"} => page = Null /\ answer = Null
  /\ step = "player" => page \in EmbedPages /\ ParsesPage(page)
  /\ ProxyJudgedByAnswer

\* A failure is no success.
LEMMA NoViews == \A f \in FailureRecords : "views" \notin DOMAIN f
  BY DEF FailureRecords

\* The answer to the embed request keeps the invariant.
LEMMA EmbedJudged ==
  ASSUME TikTokAssumption, VideoIInv, NEW v \in EmbedPages \cup Others, EmbedAnswers(v)
  PROVE  VideoIInv'
  <1>1. step = "embed" /\ page = Null /\ answer' = v
    BY DEF EmbedAnswers, VideoIInv
  <1>2. CASE EmbedVerdict(v) = Null
    <2>1. step' = "player" /\ page' = v
      BY <1>2 DEF EmbedAnswers
    <2>2. v \in EmbedPages /\ ParsesPage(v)
      <3>1. CASE v \in EmbedPages
        <4>1. v.kind = "page" /\ ScrapeError("blocked") # Null /\ ScrapeError("parse_error") # Null
          BY <3>1, CodesKept DEF EmbedPages, TikTokAssumption, FailureCodes
        <4> QED BY <3>1, <4>1, <1>2 DEF EmbedVerdict
      <3>2. CASE v \in Others
        <4>1. v.kind \in {"status", "thrown"} /\ (v.kind = "thrown" => v.code \in FailureCodes)
          BY <3>2 DEF Others, TikTokAssumption, FailureCodes
        <4>2. EmbedFailure(v.status) # Null
          BY CodesKept, HttpErrorKept DEF EmbedFailure, TikTokAssumption, FailureCodes
        <4> QED BY <4>1, <4>2, <1>2, CodesKept DEF EmbedVerdict, TikTokAssumption
      <3> QED BY <3>1, <3>2
    <2> QED BY <2>1, <2>2 DEF VideoIInv, ProxyJudgedByAnswer
  <1>3. CASE EmbedVerdict(v) # Null
    <2>1. step' = "done" /\ scraped' = EmbedVerdict(v) /\ page' = Null
      BY <1>1, <1>3 DEF EmbedAnswers, VideoFinishes
    <2>2. ~Succeeded'
      BY <2>1, <1>3, VerdictsKept, NoViews DEF Succeeded
    <2>3. ProxyOutcome(EmbedVerdict(v)) =
      CASE v.kind = "status"
             -> IF v.status = "400" THEN "success" ELSE Tells(v.status)
        [] v.kind = "page"  -> IF v.challenge THEN "blocked" ELSE "neutral"
        [] v.kind = "items" -> "neutral"
        [] v.kind = "thrown"
             -> IF v.code \in {"timeout", "network_error"} THEN "failure" ELSE "neutral"
      <3>1. CASE v \in EmbedPages
        <4>1. v.kind = "page"
          BY <3>1 DEF EmbedPages
        <4> QED BY <4>1, <1>3, AnswerJudged DEF EmbedVerdict
      <3>2. CASE v \in Others
        <4>1. v.kind \in {"status", "thrown"} /\ (v.kind = "thrown" => v.code \in ThrownCodes)
          BY <3>2 DEF Others, TikTokAssumption
        <4> QED BY <4>1, EmbedStatusJudged, ThrownJudged DEF EmbedVerdict
      <3> QED BY <3>1, <3>2
    <2> QED BY <1>1, <2>1, <2>2, <2>3 DEF VideoIInv, ProxyJudgedByAnswer
  <1> QED BY <1>2, <1>3

\* The answer to the player request keeps the invariant.
LEMMA PlayerJudged ==
  ASSUME TikTokAssumption, VideoIInv, NEW v \in PlayerBodies \cup Others, PlayerAnswers(v)
  PROVE  VideoIInv'
  <1>1. step = "player" /\ page' = page /\ page # Null /\ page.video = "this" /\ answer' = v /\ step' = "done"
    BY DEF PlayerAnswers, VideoIInv, VideoFinishes, TikTokAssumption, ParsesPage
  <1>2. v \in PlayerBodies \/ v \in Others
    OBVIOUS
  <1>3. v \in PlayerBodies => v.kind = "items"
    BY DEF PlayerBodies
  <1>4. v \in Others => /\ v.kind \in {"status", "thrown"}
                        /\ v.kind = "thrown" => v.code \in ThrownCodes /\ v.code \in FailureCodes
    BY DEF Others, TikTokAssumption, FailureCodes
  <1>5. CASE PlayerVerdict(v) = Null
    <2>1. scraped' = [views |-> "this", engagement |-> "this"]
      BY <1>1, <1>5 DEF PlayerAnswers, VideoFinishes
    <2>2. "this" \in v.videos
      <3>1. v \notin Others
        <4>1. PlayerFailure(v.status) # Null
          BY CodesKept, HttpErrorKept DEF PlayerFailure, TikTokAssumption, FailureCodes
        <4> QED BY <4>1, <1>4, <1>5, CodesKept DEF PlayerVerdict, TikTokAssumption
      <3>2. ScrapeError("parse_error") # Null
        BY CodesKept DEF TikTokAssumption, FailureCodes
      <3> QED BY <3>1, <3>2, <1>2, <1>3, <1>5 DEF PlayerVerdict, ParsesItems
    <2>3. Succeeded' /\ scraped'.views = "this"
      BY <2>1, <1>1 DEF Succeeded
    <2> QED BY <1>1, <2>2, <2>3 DEF VideoIInv, ProxyJudgedByAnswer
  <1>6. CASE PlayerVerdict(v) # Null
    <2>1. scraped' = PlayerVerdict(v)
      BY <1>6 DEF PlayerAnswers, VideoFinishes
    <2>2. ~Succeeded'
      BY <2>1, <1>6, VerdictsKept, NoViews DEF Succeeded
    <2>3. ProxyOutcome(PlayerVerdict(v)) =
      CASE v.kind = "status" -> Tells(v.status)
        [] v.kind = "items"  -> "neutral"
        [] v.kind = "thrown"
             -> IF v.code \in {"timeout", "network_error"} THEN "failure" ELSE "neutral"
      BY <1>2, <1>3, <1>4, <1>6, PlayerStatusJudged, ThrownJudged, AnswerJudged DEF PlayerVerdict
    <2>4. v.kind \in {"status", "thrown", "items"}
      BY <1>2, <1>3, <1>4
    <2> QED BY <1>1, <2>1, <2>2, <2>3, <2>4 DEF VideoIInv, ProxyJudgedByAnswer
  <1> QED BY <1>5, <1>6

\* The proxy is judged by the answer that ended the scrape, for every page, body,
\* status and code the two requests can bring.
THEOREM ProxyJudgement == ASSUME TikTokAssumption PROVE TikTokSpec => []ProxyJudgedByAnswer
  <1>1. TikTokInit => VideoIInv
    BY DEF TikTokInit, VideoIInv, ProxyJudgedByAnswer
  <1>2. VideoIInv /\ [TikTokNext]_tiktokVars => VideoIInv'
    <2> SUFFICES ASSUME VideoIInv, [TikTokNext]_tiktokVars PROVE VideoIInv'
      OBVIOUS
    <2>1. CASE ScrapeVideo
      BY <2>1 DEF ScrapeVideo, VideoFinishes, VideoIInv, ProxyJudgedByAnswer, Succeeded
    <2>2. CASE \E v \in EmbedPages \cup Others : EmbedAnswers(v)
      BY <2>2, EmbedJudged
    <2>3. CASE \E v \in PlayerBodies \cup Others : PlayerAnswers(v)
      BY <2>3, PlayerJudged
    <2>4. CASE UNCHANGED tiktokVars
      BY <2>4 DEF tiktokVars, VideoIInv, ProxyJudgedByAnswer, Succeeded
    <2> QED BY <2>1, <2>2, <2>3, <2>4 DEF TikTokNext
  <1>3. VideoIInv => ProxyJudgedByAnswer
    BY DEF VideoIInv
  <1> QED BY <1>1, <1>2, <1>3, PTL DEF TikTokSpec

-----------------------------------------------------------------------------
(* Short links: where the resolver asks and what it resolves to.           *)

\* Every refusal of the resolver is a failure of the schema.
LEMMA RefusalsKept ==
  ASSUME LinksAssumption
  PROVE  /\ \A c \in LinkCauses : ScrapeError(c) \in FailureRecords
         /\ \A s : ResponseFailure(s) \in FailureRecords
         /\ InvalidUrl \in FailureRecords
  <1>1. /\ {"not_found", "rate_limited", "blocked", "geo_blocked"} \subseteq FailureCodes
        /\ LinkCauses \subseteq FailureCodes
    BY DEF FailureCodes, LinksAssumption
  <1>2. \A b \in BOOLEAN : Failure("error", "http_error", b) \in FailureRecords
    BY DEF Failure, FailureRecords, FailureCodes
  <1>3. InvalidUrl \in FailureRecords
    BY DEF InvalidUrl, Failure, FailureRecords, FailureCodes
  <1>4. \A s : ResponseFailure(s) \in FailureRecords
    BY <1>1, <1>2, <1>3, CodesKept DEF ResponseFailure
  <1> QED BY <1>1, <1>3, <1>4, CodesKept

\* A failure resolves to no URL.
LEMMA NoUrl == \A f \in FailureRecords : "url" \notin DOMAIN f
  BY DEF FailureRecords

\* The canonical URL of a post is one its scraper takes, and its own normal form.
LEMMA CanonicalIsScrapable ==
  ASSUME NEW p \in Platforms, NEW u \in Urls, IsPost(p, u)
  PROVE  /\ Canonical(p, u) \in Urls
         /\ Scrapable(p, Canonical(p, u))
         /\ ~IsShort(p, Canonical(p, u))
         /\ Canonical(p, Canonical(p, u)) = Canonical(p, u)
  <1>1. CASE p = "tiktok"
    BY <1>1 DEF IsPost, Canonical, CanonicalHost, Scrapable, IsShort, Matches, Url, Urls, Platforms,
       Domains, AllHosts, ShortHosts, PostPaths, Paths
  <1>2. CASE p = "instagram"
    BY <1>2 DEF IsPost, Canonical, CanonicalHost, Scrapable, IsShort, Matches, Url, Urls, Platforms,
       Domains, AllHosts, ShortHosts, PostPaths, Paths
  <1> QED BY <1>1, <1>2 DEF Platforms

\* A short link names no post, and its normal form stays on the platform.
LEMMA ShortIsNoPost ==
  ASSUME NEW p \in Platforms, NEW u \in Urls, IsShort(p, u)
  PROVE  /\ ~IsPost(p, u)
         /\ Normalize(p, u).resolve /\ Normalize(p, u).url \in Urls /\ Matches(p, Normalize(p, u).url)
  <1>1. CASE p = "tiktok"
    <2>1. ~IsPost(p, u)
      BY <1>1 DEF IsShort, IsPost, ShortHosts
    <2> QED BY <2>1, <1>1 DEF IsShort, Normalize
  <1>2. CASE p = "instagram"
    <2>1. ~IsPost(p, u)
      BY <1>2 DEF IsShort, IsPost, ShortHosts, PostPaths
    <2>2. [u EXCEPT !.host = CanonicalHost(p)] \in Urls /\ Matches(p, [u EXCEPT !.host = CanonicalHost(p)])
      BY <1>2 DEF CanonicalHost, Urls, AllHosts, Domains, Matches
    <2>3. Matches(p, u)
      BY DEF IsShort
    <2> QED BY <2>1, <2>2, <2>3, <1>2 DEF Normalize
  <1> QED BY <1>1, <1>2 DEF Platforms

\* What needs no resolving names a post, and its normal form is canonical.
LEMMA NormalOfPost ==
  ASSUME NEW p \in Platforms, NEW u \in Urls, LinksAssumption, Resolved(Normalize(p, u))
  PROVE  IsPost(p, u) /\ Normalize(p, u) = [url |-> Canonical(p, u), resolve |-> FALSE]
  <1>1. ~IsShort(p, u)
    BY ShortIsNoPost DEF Resolved
  <1>2. IsPost(p, u)
    BY <1>1 DEF Normalize, Resolved
  <1> QED BY <1>1, <1>2 DEF Normalize

\* The inductive invariant: the resolver stands on its platform, and it has a
\* request left for as long as it has not returned.
LinksIInv ==
  /\ platform \in Platforms /\ current \in Urls /\ Matches(platform, current)
  /\ requests \in Nat
  /\ resolution = Null => requests <= MaxRedirects
  /\ ResolutionStaysHome

\* A request that ends in a refusal was made at home.
LEMMA AskedIsHome ==
  ASSUME LinksAssumption, LinksIInv, Asks, NEW r \in FailureRecords, ResolverReturns(r)
  PROVE  LinksIInv'
  <1>1. /\ platform' = platform /\ current' = current /\ resolution' = r
        /\ asked' = asked \cup {current} /\ requests' = requests + 1 /\ resolution = Null
    BY DEF Asks, ResolverReturns
  <1>2. r # Null /\ "url" \notin DOMAIN r
    BY NoUrl DEF LinksAssumption
  <1>3. \A u \in asked' : Matches(platform', u)
    BY <1>1 DEF LinksIInv, ResolutionStaysHome
  <1>4. requests' <= MaxRedirects + 1 /\ requests' \in Nat
    BY <1>1 DEF LinksIInv, LinksAssumption
  <1> QED BY <1>1, <1>2, <1>3, <1>4 DEF LinksIInv, ResolutionStaysHome

\* Every URL the resolver asks is on the platform, and what it resolves to is a
\* post its scraper takes: for every number of redirects and every answer.
THEOREM ResolutionHome == ASSUME LinksAssumption PROVE LinksSpec => []ResolutionStaysHome
  <1>1. LinksInit => LinksIInv
    <2> SUFFICES ASSUME LinksInit PROVE LinksIInv
      OBVIOUS
    <2>1. current \in Urls /\ Matches(platform, current)
      BY ShortIsNoPost DEF LinksInit
    <2> QED BY <2>1 DEF LinksInit, LinksIInv, ResolutionStaysHome, LinksAssumption
  <1>2. LinksIInv /\ [LinksNext]_linksVars => LinksIInv'
    <2> SUFFICES ASSUME LinksIInv, [LinksNext]_linksVars PROVE LinksIInv'
      OBVIOUS
    <2>1. ASSUME NEW code \in LinkCauses, Thrown(code) PROVE LinksIInv'
      BY <2>1, RefusalsKept, AskedIsHome DEF Thrown
    <2>2. ASSUME NEW s \in LinkStatuses, Answered(s) PROVE LinksIInv'
      BY <2>2, RefusalsKept, AskedIsHome DEF Answered
    <2>3. ASSUME NEW u \in Urls \cup {Null}, Redirected(u) PROVE LinksIInv'
      <3>1. CASE ResolverReturns(InvalidUrl)
        BY <2>3, <3>1, RefusalsKept, AskedIsHome DEF Redirected
      <3>2. CASE ~ResolverReturns(InvalidUrl)
        <4>1. /\ requests # MaxRedirects /\ u \in Urls /\ Matches(platform, u) /\ current' = u
              /\ platform' = platform /\ resolution' = resolution
          BY <2>3, <3>2 DEF Redirected, Allowed
        <4>2. resolution = Null /\ requests' = requests + 1 /\ asked' = asked \cup {current}
          BY <2>3 DEF Redirected, Asks
        <4>3. requests' \in Nat /\ requests' <= MaxRedirects /\ requests' <= MaxRedirects + 1
          BY <4>1, <4>2 DEF LinksIInv, LinksAssumption
        <4> QED BY <4>1, <4>2, <4>3 DEF LinksIInv, ResolutionStaysHome
      <3> QED BY <3>1, <3>2
    <2>4. CASE Resolves
      <3> DEFINE n == Normalize(platform, current)
      <3>1. /\ platform' = platform /\ current' = current /\ asked' = asked /\ requests' = requests
            /\ resolution' = [url |-> n.url] /\ resolution = Null /\ Resolved(n)
        BY <2>4 DEF Resolves, ResolverReturns
      <3>2. IsPost(platform, current) /\ n.url = Canonical(platform, current)
        BY <3>1, NormalOfPost DEF LinksIInv
      <3>3. /\ Scrapable(platform, n.url) /\ n.url \in Urls
            /\ ~IsShort(platform, n.url) /\ Canonical(platform, n.url) = n.url
        BY <3>2, CanonicalIsScrapable DEF LinksIInv
      <3>4. Normalize(platform, n.url) = [url |-> n.url, resolve |-> FALSE]
        BY <3>3 DEF Normalize, Scrapable
      <3>5. requests' <= MaxRedirects
        BY <3>1 DEF LinksIInv
      <3> HIDE DEF n
      <3> QED BY <3>1, <3>3, <3>4, <3>5 DEF LinksIInv, ResolutionStaysHome
    <2>5. CASE UNCHANGED linksVars
      BY <2>5 DEF linksVars, LinksIInv, ResolutionStaysHome
    <2> QED BY <2>1, <2>2, <2>3, <2>4, <2>5 DEF LinksNext
  <1>3. LinksIInv => ResolutionStaysHome
    BY DEF LinksIInv
  <1> QED BY <1>1, <1>2, <1>3, PTL DEF LinksSpec

-----------------------------------------------------------------------------
(* Instagram: one request for each promise, and the session as last resort.*)

\* The types of an attempt and of a cached promise.
OfAttempt ==
  [phase : ScrapePhases, exit : Exits \cup {Null}, session : Bindings \cup {Null},
   page : Pages, on : Attempts \cup {Null}, got : AllAnswers \cup {Null}, wire : BOOLEAN,
   failure : FailureRecords \cup {Null}, result : FailureRecords \cup {"ok", Null}]
Promises == [by : Attempts, value : AllAnswers \cup {Null}]
PromiseMap(m, K) == m \in [K -> Promises \cup {Null}]
Underway == {"bootstrap", "post", "clips", "info"}

\* An attempt with a request on the wire is under way and waits for its own answer.
AttemptWell(e, a) ==
  /\ e.phase \in Underway => e.exit \in Exits
  /\ e.wire => e.on = a /\ e.got = Null /\ e.phase \in Underway

\* An attempt at a page of clips waits for the promise of that page, or knows its value.
PageKnown(e, p) ==
  /\ e.got = Null => p # Null /\ p.value = Null /\ p.by = e.on
  /\ e.got # Null /\ Ok(e.got) => p # Null /\ p.value = e.got

\* The session is asked only after the public requests failed, on its own exit.
LastResort(e, p) ==
  /\ e.session = e.exit /\ e.failure # Null
  /\ e.failure.code = "session_error" => /\ p # Null /\ p.value # Null
                                         /\ NextPage([e EXCEPT !.got = p.value]) = Null

\* The requests on the wire that a promise of either cache stands for.
AsksBootstrap(e, x) == e.phase = "bootstrap" /\ e.wire /\ e.exit = x
AsksPage(e, k)      == e.phase = "clips" /\ e.wire /\ PageKey(e) = k

\* The inductive invariant: each promise of a cache has one request on the wire, or
\* its value, and what an attempt awaits or has heard is what the cache says.
InstagramIInv ==
  /\ PromiseMap(anonymousStates, Exits)
  /\ PromiseMap(runCache, Keys)
  /\ attempt \in [Attempts -> OfAttempt]
  /\ \A a \in Attempts :
        /\ AttemptWell(attempt[a], a)
        /\ attempt[a].phase = "clips" => PageKnown(attempt[a], runCache[PageKey(attempt[a])])
        /\ attempt[a].phase = "info" => LastResort(attempt[a], runCache[PageKey(attempt[a])])
  /\ \A x \in Exits : SharedWell(anonymousStates, x, {a \in Attempts : AsksBootstrap(attempt[a], x)})
  /\ \A k \in Keys : SharedWell(runCache, k, {a \in Attempts : AsksPage(attempt[a], k)})

\* No status is taken for a missing session.
LEMMA StatusFails ==
  ASSUME NEW s
  PROVE  /\ HttpFailure(s) \in FailureRecords /\ HttpFailure(s).code # "session_error"
         /\ BootstrapFailure(s) \in FailureRecords /\ BootstrapFailure(s).code # "session_error"
  <1>1. \A st, c, b : Failure(st, c, b).code = c
    BY DEF Failure
  <1>2. /\ Failure("not_found", "not_found", FALSE) \in FailureRecords
        /\ Failure("rate_limited", "rate_limited", TRUE) \in FailureRecords
        /\ Failure("rate_limited", "blocked", TRUE) \in FailureRecords
        /\ Failure("private", "private", FALSE) \in FailureRecords
        /\ Failure("error", "http_error", TRUE) \in FailureRecords
        /\ Failure("error", "geo_blocked", TRUE) \in FailureRecords
    BY DEF Failure, FailureRecords, FailureCodes
  <1>3. Failure("error", "http_error", s = "5xx") \in FailureRecords
    BY DEF Failure, FailureRecords, FailureCodes
  <1>4. Failure("error", "http_error", s \in {"408", "5xx"}) \in FailureRecords
    BY HttpErrorKept
  <1>5. /\ ScrapeError("rate_limited") \in FailureRecords /\ ScrapeError("rate_limited").code = "rate_limited"
        /\ ScrapeError("geo_blocked") \in FailureRecords /\ ScrapeError("geo_blocked").code = "geo_blocked"
    BY <1>1, CodesKept DEF FailureCodes, ScrapeError
  <1>6. HttpFailure(s) \in FailureRecords /\ HttpFailure(s).code # "session_error"
    <2>1. CASE s \in {"404", "401", "429", "403", "login", "moved", "451"}
      <3>1. \/ HttpFailure(s) = Failure("not_found", "not_found", FALSE)
            \/ HttpFailure(s) = Failure("rate_limited", "rate_limited", TRUE)
            \/ HttpFailure(s) = Failure("rate_limited", "blocked", TRUE)
            \/ HttpFailure(s) = Failure("private", "private", FALSE)
            \/ HttpFailure(s) = Failure("error", "http_error", TRUE)
            \/ HttpFailure(s) = Failure("error", "geo_blocked", TRUE)
        BY <2>1 DEF HttpFailure
      <3>2. /\ Failure("not_found", "not_found", FALSE).code # "session_error"
            /\ Failure("rate_limited", "rate_limited", TRUE).code # "session_error"
            /\ Failure("rate_limited", "blocked", TRUE).code # "session_error"
            /\ Failure("private", "private", FALSE).code # "session_error"
            /\ Failure("error", "http_error", TRUE).code # "session_error"
            /\ Failure("error", "geo_blocked", TRUE).code # "session_error"
        BY DEF Failure
      <3> HIDE DEF Failure
      <3> QED BY <1>2, <3>1, <3>2, Zenon
    <2>2. CASE s \notin {"404", "401", "429", "403", "login", "moved", "451"}
      <3>1. HttpFailure(s) = Failure("error", "http_error", s \in {"408", "5xx"})
        BY <2>2, Zenon DEF HttpFailure
      <3>2. Failure("error", "http_error", s \in {"408", "5xx"}).code = "http_error"
        BY <1>1
      <3> HIDE DEF Failure
      <3> QED BY <1>4, <3>1, <3>2, Zenon
    <2> QED BY <2>1, <2>2
  <1>7. BootstrapFailure(s) \in FailureRecords /\ BootstrapFailure(s).code # "session_error"
    BY <1>1, <1>3, <1>5 DEF BootstrapFailure
  <1> QED BY <1>6, <1>7

\* What is thrown has a code of the HTTP client.
LEMMA ThrownIsCode ==
  ASSUME InstagramAssumption, NEW v \in AllAnswers, v.kind = "thrown"
  PROVE  v.code \in ThrownCodes
  <1>1. PICK p \in ScrapePhases : v \in Answers(p)
    BY DEF AllAnswers
  <1>2. \A w \in Bodies(p) : w.kind # "thrown"
    BY DEF Bodies, Body
  <1> QED BY <1>1, <1>2 DEF Answers, InstagramAssumption

(* An answer that is not used fails the public way, not its last resort.   *)
\* A public answer fails with a code of the schema, never for want of a session.
LEMMA PublicFailure ==
  ASSUME InstagramAssumption, NEW phase, NEW v \in AllAnswers
  PROVE  /\ FailureIn(phase, v) # Null => /\ FailureIn(phase, v) \in FailureRecords
                                          /\ FailureIn(phase, v).code # "session_error"
         /\ FailureIn(phase, v) = Null => Ok(v)
  <1>1. \A c \in FailureCodes : ScrapeError(c) \in FailureRecords /\ ScrapeError(c).code = c
    BY CodesKept DEF ScrapeError, Failure
  <1>2. \A c \in ThrownCodes : c # "session_error" /\ c \in FailureCodes
    BY DEF ThrownCodes, FailureCodes
  <1>3. {"blocked", "not_found", "parse_error"} \subseteq FailureCodes
    BY DEF FailureCodes
  <1>4. Null \notin FailureRecords
    BY DEF InstagramAssumption
  <1> QED BY <1>1, <1>2, <1>3, <1>4, StatusFails, ThrownIsCode DEF FailureIn, Ok

\* The paging starts and stays within the pages.
LEMMA FirstPage == ASSUME InstagramAssumption PROVE <<1, 1>> \in Pages
  <1>1. Len(Authors) \in Nat /\ Len(Authors) # 0 /\ DOMAIN Authors = 1 .. Len(Authors)
    BY DEF InstagramAssumption
  <1> QED BY <1>1 DEF Pages, InstagramAssumption

\* The page that follows is a page.
LEMMA NextIsPage ==
  ASSUME InstagramAssumption, NEW e, e.page \in Pages, NextPage(e) # Null
  PROVE  NextPage(e) \in Pages
  <1>1. Len(Authors) \in Nat /\ DOMAIN Authors = 1 .. Len(Authors) /\ MaxPages \in Nat \ {0}
    BY DEF InstagramAssumption
  <1>2. PICK i \in 1 .. Len(Authors), n \in 1 .. MaxPages : e.page = <<i, n>>
    BY <1>1 DEF Pages
  <1>3. CASE NextPage(e) = <<i, n + 1>> /\ n < MaxPages
    BY <1>1, <1>3 DEF Pages
  <1>4. CASE NextPage(e) = <<i + 1, 1>> /\ i < Len(Authors)
    BY <1>1, <1>4 DEF Pages
  <1> QED BY <1>2, <1>3, <1>4 DEF NextPage

-----------------------------------------------------------------------------
\* No promise and no answer is the absent value.
LEMMA NoPromise == ASSUME InstagramAssumption PROVE Null \notin Promises /\ Null \notin AllAnswers
  BY DEF InstagramAssumption, Promises

\* The fields of a new promise.
LEMMA MadePromise ==
  ASSUME NEW a \in Attempts, NEW v \in AllAnswers \cup {Null}
  PROVE  Promise(a, v) \in Promises /\ Promise(a, v).by = a /\ Promise(a, v).value = v
  BY DEF Promise, Promises

(* What asking for k makes of a map, and what the answer of a does.         *)
\* What asking for key k of a cache leaves behind: the promise that was there, or
\* one for the asker alone.
AfterAsking(n, map, K, k, a, A) ==
  /\ PromiseMap(n, K) /\ \A j \in K : j # k => n[j] = map[j]
  /\ SharedWell(n, k, IF map[k] = Null THEN {a} ELSE A)
  /\ map[k] # Null => n[k] = map[k]
  /\ map[k] = Null => n[k] = Promise(a, Null)

\* What answering the one request for key k leaves behind: nobody on the wire, and
\* the value kept if it is good.
AfterSettling(n, map, K, k, a, A, v) ==
  /\ map[k] # Null /\ map[k].value = Null /\ A = {a} /\ map[k].by = a
  /\ PromiseMap(n, K) /\ \A j \in K : j # k => n[j] = map[j]
  /\ SharedWell(n, k, {})
  /\ Ok(v) /\ v.kind # "no_token" => n[k] = Promise(a, v)

\* Asking through a cache keeps one request for each promise.
LEMMA Asked ==
  ASSUME InstagramAssumption, NEW K, NEW map, PromiseMap(map, K), NEW k \in K,
         NEW a \in Attempts, NEW A, SharedWell(map, k, A)
  PROVE  AfterAsking(WithPromise(map, k, a), map, K, k, a, A)
  <1>1. Promise(a, Null) \in Promises /\ Promise(a, Null).by = a /\ Promise(a, Null).value = Null
    BY MadePromise
  <1>2. Promise(a, Null) # Null
    BY <1>1, NoPromise
  <1> QED BY <1>1, <1>2 DEF WithPromise, SharedWell, PromiseMap, AfterAsking

\* Settling a promise leaves no request for it.
LEMMA Settled ==
  ASSUME InstagramAssumption, NEW K, NEW map, PromiseMap(map, K), NEW k \in K,
         NEW A, NEW a \in A, a \in Attempts, SharedWell(map, k, A), NEW v \in AllAnswers
  PROVE  AfterSettling(PromiseSettled(map, k, a, v), map, K, k, a, A, v)
  <1>1. Promise(a, v) \in Promises /\ Promise(a, v).by = a /\ Promise(a, v).value = v
    BY MadePromise
  <1>2. Promise(a, v) # Null /\ v # Null
    BY <1>1, NoPromise
  <1>3. map[k] # Null /\ map[k].value = Null /\ A = {a} /\ map[k].by = a
    BY DEF SharedWell
  <1> QED BY <1>1, <1>2, <1>3 DEF PromiseSettled, SharedWell, PromiseMap, AfterSettling

\* An attempt that sends a request of its own.
LEMMA Sending ==
  ASSUME NEW e \in OfAttempt, NEW a \in Attempts, NEW phase \in ScrapePhases
  PROVE  LET f == Sends(e, a, phase) IN
         /\ f \in OfAttempt /\ f.phase = phase /\ f.wire /\ f.on = a /\ f.got = Null
         /\ f.exit = e.exit /\ f.page = e.page /\ f.session = e.session /\ f.failure = e.failure
  BY DEF Sends, OfAttempt

\* An attempt that sends, or shares the promise that is there.
SharesAs(f, e, a, phase, p) ==
  /\ f \in OfAttempt /\ f.phase = phase /\ f.exit = e.exit /\ f.page = e.page
  /\ p = Null => f.wire /\ f.on = a /\ f.got = Null
  /\ p # Null => f.wire = FALSE /\ f.on = p.by /\ f.got = p.value

\* Sharing a promise sends nothing.
LEMMA Sharing ==
  ASSUME InstagramAssumption, NEW e \in OfAttempt, NEW a \in Attempts, NEW phase \in ScrapePhases,
         NEW p \in Promises \cup {Null}, e.wire = FALSE
  PROVE  SharesAs(Shares(e, a, phase, p), e, a, phase, p)
  <1>1. CASE p = Null
    BY <1>1, Sending DEF Shares, SharesAs
  <1>2. CASE p # Null
    <2>1. p.by \in Attempts /\ p.value \in AllAnswers \cup {Null}
      BY <1>2 DEF Promises
    <2> QED BY <1>2, <2>1 DEF Shares, OfAttempt, SharesAs
  <1> QED BY <1>1, <1>2

\* The attempts at rest: new, returned, and with an exit bound.
LEMMA Fresh ==
  ASSUME InstagramAssumption
  PROVE  /\ New \in OfAttempt /\ New.wire = FALSE /\ New.phase = "new"
         /\ \A r \in FailureRecords \cup {"ok", Null} :
              LET f == ScrapeReturns(r) IN f \in OfAttempt /\ f.wire = FALSE /\ f.phase = "done"
         /\ \A x \in Exits, s \in Bindings \cup {Null} :
              LET f == [New EXCEPT !.exit = x, !.session = s] IN
              f \in OfAttempt /\ f.wire = FALSE /\ f.exit = x
  <1>1. <<1, 1>> \in Pages
    BY FirstPage
  <1>2. New \in OfAttempt
    BY <1>1 DEF New, OfAttempt, ScrapePhases
  <1> QED BY <1>2 DEF OfAttempt, ScrapeReturns, New, ScrapePhases

(* A step of one attempt that neither asks for a shared request nor waits for one. *)
\* A step of one attempt that leaves both caches alone keeps the invariant.
LEMMA Alone ==
  ASSUME InstagramAssumption, InstagramIInv, NEW a \in Attempts, NEW e \in OfAttempt,
         Becomes(a, e), attempt[a].wire = FALSE,
         e.wire = FALSE \/ e.phase \in {"post", "info"}, AttemptWell(e, a), e.phase # "clips",
         e.phase = "info" => LastResort(e, runCache[PageKey(e)])
  PROVE  InstagramIInv'
  <1>1. attempt \in [Attempts -> OfAttempt]
    BY DEF InstagramIInv
  <1>2. /\ attempt' \in [Attempts -> OfAttempt] /\ attempt'[a] = e
        /\ \A b \in Attempts \ {a} : attempt'[b] = attempt[b]
        /\ anonymousStates' = anonymousStates /\ runCache' = runCache
    BY <1>1 DEF Becomes
  <1>3. \A b \in Attempts :
          /\ AttemptWell(attempt'[b], b)
          /\ attempt'[b].phase = "clips" => PageKnown(attempt'[b], runCache'[PageKey(attempt'[b])])
          /\ attempt'[b].phase = "info" => LastResort(attempt'[b], runCache'[PageKey(attempt'[b])])
    <2> TAKE b \in Attempts
    <2>1. CASE b = a
      BY <1>2, <2>1
    <2>2. CASE b # a
      BY <1>2, <2>2 DEF InstagramIInv
    <2> QED BY <2>1, <2>2
  <1>4. \A x, k, b : b \in Attempts => /\ AsksBootstrap(attempt'[b], x) = AsksBootstrap(attempt[b], x)
                                       /\ AsksPage(attempt'[b], k) = AsksPage(attempt[b], k)
    BY <1>2 DEF AsksBootstrap, AsksPage
  <1>5. \A x \in Exits : SharedWell(anonymousStates', x, {b \in Attempts : AsksBootstrap(attempt'[b], x)})
    <2> TAKE x \in Exits
    <2>1. {b \in Attempts : AsksBootstrap(attempt'[b], x)} = {b \in Attempts : AsksBootstrap(attempt[b], x)}
      BY <1>4
    <2> QED BY <1>2, <2>1 DEF InstagramIInv
  <1>6. \A k \in Keys : SharedWell(runCache', k, {b \in Attempts : AsksPage(attempt'[b], k)})
    <2> TAKE k \in Keys
    <2>1. {b \in Attempts : AsksPage(attempt'[b], k)} = {b \in Attempts : AsksPage(attempt[b], k)}
      BY <1>4
    <2> QED BY <1>2, <2>1 DEF InstagramIInv
  <1> QED BY <1>2, <1>3, <1>5, <1>6 DEF InstagramIInv

(* An attempt asks for the page it is to look at.                           *)
\* Asking for a page of clips keeps the invariant.
LEMMA PageAsked ==
  ASSUME InstagramAssumption, InstagramIInv, NEW a \in Attempts, NEW e \in OfAttempt,
         AsksForPage(e, a), attempt[a].wire = FALSE, e.wire = FALSE, e.exit \in Exits
  PROVE  InstagramIInv'
  <1> DEFINE k == PageKey(e)
             f == Shares(e, a, "clips", runCache[k])
  <1>1. /\ attempt \in [Attempts -> OfAttempt] /\ PromiseMap(runCache, Keys)
        /\ e.page \in Pages /\ k \in Keys /\ "clips" \in ScrapePhases
    BY DEF InstagramIInv, OfAttempt, PageKey, Keys, ScrapePhases
  <1>2. /\ f \in OfAttempt /\ f.phase = "clips" /\ f.exit = e.exit /\ f.page = e.page
        /\ runCache[k] = Null => f.wire /\ f.on = a /\ f.got = Null
        /\ runCache[k] # Null => f.wire = FALSE /\ f.on = runCache[k].by /\ f.got = runCache[k].value
    <2>1. runCache[k] \in Promises \cup {Null}
      BY <1>1 DEF PromiseMap
    <2>2. SharesAs(f, e, a, "clips", runCache[k])
      BY <1>1, <2>1, Sharing
    <2> QED BY <2>2 DEF SharesAs
  <1>3. PageKey(f) = k
    BY <1>2 DEF PageKey
  <1> DEFINE old(j) == {b \in Attempts : AsksPage(attempt[b], j)}
  <1>4. \A j \in Keys : SharedWell(runCache, j, old(j))
    BY DEF InstagramIInv
  <1>5. /\ PromiseMap(runCache', Keys)
        /\ \A j \in Keys : j # k => runCache'[j] = runCache[j]
        /\ SharedWell(runCache', k, IF runCache[k] = Null THEN {a} ELSE old(k))
        /\ runCache[k] # Null => runCache'[k] = runCache[k]
        /\ runCache[k] = Null => runCache'[k] = Promise(a, Null)
    <2>1. runCache' = WithPromise(runCache, k, a)
      BY DEF AsksForPage
    <2>2. SharedWell(runCache, k, old(k))
      BY <1>1, <1>4
    <2> DEFINE A == old(k)
    <2>3. SharedWell(runCache, k, A)
      BY <2>2
    <2> HIDE DEF k, A
    <2>4. AfterAsking(WithPromise(runCache, k, a), runCache, Keys, k, a, A)
      BY <1>1, <2>3, Asked
    <2> QED BY <2>1, <2>4 DEF A, AfterAsking
  <1>6. anonymousStates' = anonymousStates /\ attempt' = [attempt EXCEPT ![a] = f]
    BY DEF AsksForPage
  <1> HIDE DEF f, k
  <1>7. /\ attempt' \in [Attempts -> OfAttempt] /\ attempt'[a] = f
        /\ \A b \in Attempts \ {a} : attempt'[b] = attempt[b]
    BY <1>1, <1>2, <1>6
  <1>8. \A j \in Keys : runCache[j] # Null => runCache'[j] = runCache[j]
    BY <1>5
  <1>9. ASSUME NEW b \in Attempts
        PROVE  /\ AttemptWell(attempt'[b], b)
               /\ attempt'[b].phase = "clips" => PageKnown(attempt'[b], runCache'[PageKey(attempt'[b])])
               /\ attempt'[b].phase = "info" => LastResort(attempt'[b], runCache'[PageKey(attempt'[b])])
    <2>1. CASE b = a
      <3>1. AttemptWell(f, a)
        BY <1>2 DEF AttemptWell, Underway
      <3>2. PageKnown(f, runCache'[k])
        <4>1. CASE runCache[k] = Null
          BY <1>2, <1>5, <4>1, MadePromise, NoPromise DEF PageKnown
        <4>2. CASE runCache[k] # Null
          BY <1>2, <1>5, <4>2 DEF PageKnown
        <4> QED BY <4>1, <4>2
      <3> QED BY <1>2, <1>3, <1>7, <2>1, <3>1, <3>2
    <2>2. CASE b # a
      <3>1. attempt'[b] = attempt[b] /\ AttemptWell(attempt[b], b)
        BY <1>7, <2>2 DEF InstagramIInv
      <3>2. attempt[b].phase \in {"clips", "info"} => PageKey(attempt[b]) \in Keys
        BY <1>1, <3>1 DEF AttemptWell, Underway, PageKey, Keys, OfAttempt
      <3>3. attempt[b].phase = "clips" => PageKnown(attempt[b], runCache'[PageKey(attempt[b])])
        <4> SUFFICES ASSUME attempt[b].phase = "clips"
                     PROVE  PageKnown(attempt[b], runCache'[PageKey(attempt[b])])
          OBVIOUS
        <4>1. PageKnown(attempt[b], runCache[PageKey(attempt[b])])
          BY DEF InstagramIInv
        <4>2. CASE runCache[PageKey(attempt[b])] # Null
          BY <1>8, <3>2, <4>1, <4>2
        <4>3. CASE runCache[PageKey(attempt[b])] = Null
          BY <4>1, <4>3 DEF PageKnown
        <4> QED BY <4>2, <4>3
      <3>4. attempt[b].phase = "info" => LastResort(attempt[b], runCache'[PageKey(attempt[b])])
        <4> SUFFICES ASSUME attempt[b].phase = "info"
                     PROVE  LastResort(attempt[b], runCache'[PageKey(attempt[b])])
          OBVIOUS
        <4>1. LastResort(attempt[b], runCache[PageKey(attempt[b])])
          BY DEF InstagramIInv
        <4>2. CASE runCache[PageKey(attempt[b])] # Null
          BY <1>8, <3>2, <4>1, <4>2
        <4>3. CASE runCache[PageKey(attempt[b])] = Null
          BY <4>1, <4>3 DEF LastResort
        <4> QED BY <4>2, <4>3
      <3> QED BY <3>1, <3>3, <3>4
    <2> QED BY <2>1, <2>2
  <1>10. \A x \in Exits : SharedWell(anonymousStates', x, {b \in Attempts : AsksBootstrap(attempt'[b], x)})
    <2> TAKE x \in Exits
    <2>1. \A b \in Attempts : AsksBootstrap(attempt'[b], x) = AsksBootstrap(attempt[b], x)
      BY <1>2, <1>7 DEF AsksBootstrap
    <2>2. {b \in Attempts : AsksBootstrap(attempt'[b], x)} = {b \in Attempts : AsksBootstrap(attempt[b], x)}
      BY <2>1
    <2> QED BY <1>6, <2>2 DEF InstagramIInv
  <1>11. \A j \in Keys : SharedWell(runCache', j, {b \in Attempts : AsksPage(attempt'[b], j)})
    <2> TAKE j \in Keys
    <2> DEFINE asking == {b \in Attempts : AsksPage(attempt'[b], j)}
    <2>1. \A b \in Attempts : b # a => AsksPage(attempt'[b], j) = AsksPage(attempt[b], j)
      BY <1>7
    <2>2. ~AsksPage(attempt[a], j)
      BY DEF AsksPage
    <2>3. AsksPage(attempt'[a], j) <=> j = k /\ runCache[k] = Null
      BY <1>2, <1>3, <1>7 DEF AsksPage
    <2>4. CASE j = k
      <3>1. CASE runCache[k] = Null
        <4>1. old(k) = {}
          BY <1>1, <1>4, <3>1 DEF SharedWell
        <4>2. asking = {a}
          BY <2>1, <2>3, <2>4, <3>1, <4>1
        <4> QED BY <1>5, <2>4, <3>1, <4>2
      <3>2. CASE runCache[k] # Null
        <4>1. asking = old(k)
          BY <2>1, <2>2, <2>3, <2>4, <3>2
        <4> QED BY <1>5, <2>4, <3>2, <4>1
      <3> QED BY <3>1, <3>2
    <2>5. CASE j # k
      <3>1. asking = old(j)
        BY <2>1, <2>2, <2>3, <2>5
      <3>2. SharedWell(runCache, j, old(j)) /\ runCache'[j] = runCache[j]
        BY <1>4, <1>5, <2>5
      <3>3. SharedWell(runCache', j, old(j))
        <4> HIDE DEF old
        <4> QED BY <3>2 DEF SharedWell
      <3> QED BY <3>1, <3>3
    <2> QED BY <2>4, <2>5
  <1> QED BY <1>5, <1>6, <1>7, <1>9, <1>10, <1>11 DEF InstagramIInv

(* A scrape begins: it asks for the bootstrap of its exit.                  *)
\* Starting a scrape, and asking for the anonymous state, keeps the invariant.
LEMMA BootstrapAsked ==
  ASSUME InstagramAssumption, InstagramIInv, NEW a \in Attempts, NEW x \in Exits,
         NEW session \in Bindings \cup {Null}, ScrapePost(a, x, session)
  PROVE  InstagramIInv'
  <1> DEFINE e == [New EXCEPT !.exit = x, !.session = session]
             f == Shares(e, a, "bootstrap", anonymousStates[x])
             old == {b \in Attempts : AsksBootstrap(attempt[b], x)}
  <1>1. /\ attempt \in [Attempts -> OfAttempt] /\ PromiseMap(anonymousStates, Exits)
        /\ "bootstrap" \in ScrapePhases /\ attempt[a].phase = "new" /\ attempt[a].wire = FALSE
    <2>1. attempt \in [Attempts -> OfAttempt] /\ AttemptWell(attempt[a], a)
      BY DEF InstagramIInv
    <2>2. attempt[a].wire \in BOOLEAN
      BY <2>1 DEF OfAttempt
    <2> QED BY <2>1, <2>2 DEF InstagramIInv, ScrapePhases, ScrapePost, AttemptWell, Underway
  <1>2. /\ f \in OfAttempt /\ f.phase = "bootstrap" /\ f.exit = x
        /\ anonymousStates[x] = Null => f.wire /\ f.on = a /\ f.got = Null
        /\ anonymousStates[x] # Null => f.wire = FALSE
    <2>1. e \in OfAttempt /\ e.wire = FALSE /\ e.exit = x
      BY Fresh
    <2>2. anonymousStates[x] \in Promises \cup {Null}
      BY <1>1 DEF PromiseMap
    <2> DEFINE p == anonymousStates[x]
    <2> HIDE DEF e, p
    <2>3. e \in OfAttempt /\ p \in Promises \cup {Null} /\ e.wire = FALSE
      BY <2>1, <2>2 DEF p
    <2>4. SharesAs(Shares(e, a, "bootstrap", p), e, a, "bootstrap", p)
      BY <1>1, <2>3, Sharing
    <2> QED BY <2>1, <2>4 DEF p, SharesAs
  <1>3. SharedWell(anonymousStates, x, old)
    BY DEF InstagramIInv
  <1>4. attempt' = [attempt EXCEPT ![a] = f]
    BY DEF ScrapePost
  <1> HIDE DEF f, old
  <1>5. /\ PromiseMap(anonymousStates', Exits)
        /\ \A y \in Exits : y # x => anonymousStates'[y] = anonymousStates[y]
        /\ SharedWell(anonymousStates', x, IF anonymousStates[x] = Null THEN {a} ELSE old)
        /\ runCache' = runCache
    <2>1. anonymousStates' = WithPromise(anonymousStates, x, a) /\ runCache' = runCache
      BY DEF ScrapePost
    <2>2. PromiseMap(anonymousStates, Exits)
      BY <1>1
    <2>3. AfterAsking(WithPromise(anonymousStates, x, a), anonymousStates, Exits, x, a, old)
      BY <1>3, <2>2, Asked
    <2> QED BY <2>1, <2>3 DEF AfterAsking
  <1>6. /\ attempt' \in [Attempts -> OfAttempt] /\ attempt'[a] = f
        /\ \A b \in Attempts \ {a} : attempt'[b] = attempt[b]
    BY <1>1, <1>2, <1>4
  <1>7. ASSUME NEW b \in Attempts
        PROVE  /\ AttemptWell(attempt'[b], b)
               /\ attempt'[b].phase = "clips" => PageKnown(attempt'[b], runCache'[PageKey(attempt'[b])])
               /\ attempt'[b].phase = "info" => LastResort(attempt'[b], runCache'[PageKey(attempt'[b])])
    <2>1. CASE b = a
      BY <1>2, <1>6, <2>1 DEF AttemptWell, Underway
    <2>2. CASE b # a
      BY <1>5, <1>6, <2>2 DEF InstagramIInv
    <2> QED BY <2>1, <2>2
  <1>8. \A y \in Exits : SharedWell(anonymousStates', y, {b \in Attempts : AsksBootstrap(attempt'[b], y)})
    <2> TAKE y \in Exits
    <2> DEFINE asking == {b \in Attempts : AsksBootstrap(attempt'[b], y)}
    <2>1. \A b \in Attempts : b # a => AsksBootstrap(attempt'[b], y) = AsksBootstrap(attempt[b], y)
      BY <1>6
    <2>2. ~AsksBootstrap(attempt[a], y)
      BY <1>1 DEF AsksBootstrap
    <2>3. AsksBootstrap(attempt'[a], y) <=> y = x /\ anonymousStates[x] = Null
      BY <1>2, <1>6 DEF AsksBootstrap
    <2>4. CASE y = x
      <3>1. CASE anonymousStates[x] = Null
        <4>1. old = {}
          BY <1>3, <3>1 DEF SharedWell
        <4>2. asking = {a}
          BY <2>1, <2>3, <2>4, <3>1, <4>1 DEF old
        <4> QED BY <1>5, <2>4, <3>1, <4>2
      <3>2. CASE anonymousStates[x] # Null
        <4>1. asking = old
          BY <2>1, <2>2, <2>3, <2>4, <3>2 DEF old
        <4> QED BY <1>5, <2>4, <3>2, <4>1
      <3> QED BY <3>1, <3>2
    <2>5. CASE y # x
      <3> DEFINE was == {b \in Attempts : AsksBootstrap(attempt[b], y)}
      <3>1. asking = was
        BY <2>1, <2>2, <2>3, <2>5
      <3>2. SharedWell(anonymousStates, y, was) /\ anonymousStates'[y] = anonymousStates[y]
        BY <1>5, <2>5 DEF InstagramIInv
      <3>3. SharedWell(anonymousStates', y, was)
        <4> HIDE DEF was
        <4> QED BY <3>2 DEF SharedWell
      <3> QED BY <3>1, <3>3
    <2> QED BY <2>4, <2>5
  <1>9. \A k \in Keys : SharedWell(runCache', k, {b \in Attempts : AsksPage(attempt'[b], k)})
    <2> TAKE k \in Keys
    <2>1. \A b \in Attempts : AsksPage(attempt'[b], k) = AsksPage(attempt[b], k)
      BY <1>1, <1>2, <1>6 DEF AsksPage
    <2>2. {b \in Attempts : AsksPage(attempt'[b], k)} = {b \in Attempts : AsksPage(attempt[b], k)}
      BY <2>1
    <2> QED BY <1>5, <2>2 DEF InstagramIInv
  <1> QED BY <1>5, <1>6, <1>7, <1>8, <1>9 DEF InstagramIInv

(* What each attempt is when the answer v of a has come.                    *)
\* What an answer to attempt a leaves of the attempt of b.
Heard(e, b, a, v) ==
  LET f == IF b = a THEN [e EXCEPT !.wire = FALSE] ELSE e
  IN IF f.on = a /\ f.got = Null THEN [f EXCEPT !.got = v] ELSE f

\* The same, field by field.
HearsAs(h, e, b, a, v) ==
  /\ h \in OfAttempt /\ h.phase = e.phase /\ h.exit = e.exit /\ h.page = e.page
  /\ h.session = e.session /\ h.failure = e.failure /\ h.on = e.on
  /\ b = a => h.wire = FALSE
  /\ b # a => h.wire = e.wire
  /\ e.got # Null => h.got = e.got
  /\ e.got = Null => h.got = IF e.on = a THEN v ELSE Null

\* An answer reaches whoever waits for it.
LEMMA Hearing ==
  ASSUME NEW e \in OfAttempt, NEW a, NEW b, NEW v \in AllAnswers
  PROVE  HearsAs(Heard(e, b, a, v), e, b, a, v)
  <1>1. CASE b = a
    <2> DEFINE f == [e EXCEPT !.wire = FALSE]
    <2>1. /\ f \in OfAttempt /\ f.phase = e.phase /\ f.exit = e.exit /\ f.page = e.page
          /\ f.session = e.session /\ f.failure = e.failure /\ f.on = e.on /\ f.got = e.got
          /\ f.wire = FALSE
      BY DEF OfAttempt
    <2>2. Heard(e, b, a, v) = IF f.on = a /\ f.got = Null THEN [f EXCEPT !.got = v] ELSE f
      BY <1>1 DEF Heard
    <2> HIDE DEF f
    <2>3. CASE f.on = a /\ f.got = Null
      BY <1>1, <2>1, <2>2, <2>3 DEF OfAttempt, HearsAs
    <2>4. CASE ~(f.on = a /\ f.got = Null)
      BY <1>1, <2>1, <2>2, <2>4 DEF HearsAs
    <2> QED BY <2>3, <2>4
  <1>2. CASE b # a
    <2>1. Heard(e, b, a, v) = IF e.on = a /\ e.got = Null THEN [e EXCEPT !.got = v] ELSE e
      BY <1>2 DEF Heard
    <2>2. CASE e.on = a /\ e.got = Null
      BY <1>2, <2>1, <2>2 DEF OfAttempt, HearsAs
    <2>3. CASE ~(e.on = a /\ e.got = Null)
      BY <1>2, <2>1, <2>3 DEF HearsAs
    <2> QED BY <2>2, <2>3
  <1> QED BY <1>1, <1>2

\* The page that follows depends on the page and the answer alone.
LEMMA SameNextPage ==
  ASSUME NEW e \in OfAttempt, NEW h \in OfAttempt, h.page = e.page, NEW g \in AllAnswers \cup {Null}
  PROVE  NextPage([h EXCEPT !.got = g]) = NextPage([e EXCEPT !.got = g])
  <1>1. /\ [h EXCEPT !.got = g].page = e.page /\ [e EXCEPT !.got = g].page = e.page
        /\ [h EXCEPT !.got = g].got = g /\ [e EXCEPT !.got = g].got = g
    BY DEF OfAttempt
  <1> QED BY <1>1 DEF NextPage

\* An answer keeps the invariant.
LEMMA AnswerHeard ==
  ASSUME InstagramAssumption, InstagramIInv, NEW a \in Attempts, NEW v \in Answers(attempt[a].phase),
         Answer(a, v)
  PROVE  InstagramIInv'
  <1> DEFINE e == attempt[a]
             k == PageKey(e)
             x == e.exit
  <1>1. /\ attempt \in [Attempts -> OfAttempt] /\ PromiseMap(anonymousStates, Exits)
        /\ PromiseMap(runCache, Keys)
        /\ e \in OfAttempt /\ e.wire /\ e.on = a /\ e.got = Null /\ e.phase \in Underway
        /\ x \in Exits /\ k \in Keys
    <2>1. attempt \in [Attempts -> OfAttempt] /\ AttemptWell(e, a) /\ e.wire
      BY DEF InstagramIInv, Answer
    <2>2. e \in OfAttempt /\ e.phase \in Underway /\ x \in Exits
      BY <2>1 DEF AttemptWell
    <2>3. k \in Keys
      BY <2>2 DEF OfAttempt, PageKey, Keys
    <2> QED BY <2>1, <2>2, <2>3 DEF AttemptWell, InstagramIInv
  <1>2. v \in AllAnswers
    BY <1>1 DEF AllAnswers, Underway, ScrapePhases
  <1>3. /\ attempt' = [b \in Attempts |-> Heard(attempt[b], b, a, v)]
        /\ anonymousStates' = IF e.phase # "bootstrap" THEN anonymousStates
                              ELSE PromiseSettled(anonymousStates, x, a, v)
        /\ runCache' = IF e.phase # "clips" THEN runCache
                       ELSE PromiseSettled(runCache, k, a, v)
    <2>1. \A b \in Attempts : attempt'[b] = Heard(attempt[b], b, a, v)
      BY DEF Answer, Heard
    <2>2. attempt' = [b \in Attempts |-> attempt'[b]]
      BY DEF Answer
    <2> QED BY <2>1, <2>2 DEF Answer
  <1>4. ASSUME NEW b \in Attempts
        PROVE  HearsAs(attempt'[b], attempt[b], b, a, v)
    <2>1. attempt[b] \in OfAttempt /\ attempt'[b] = Heard(attempt[b], b, a, v)
      BY <1>1, <1>3
    <2> QED BY <1>2, <2>1, Hearing
  <1>5. attempt' \in [Attempts -> OfAttempt]
    BY <1>3, <1>4 DEF HearsAs
  <1> DEFINE askers == {b \in Attempts : AsksBootstrap(attempt[b], x)}
             readers == {b \in Attempts : AsksPage(attempt[b], k)}
  <1>6. IF e.phase = "bootstrap"
        THEN AfterSettling(anonymousStates', anonymousStates, Exits, x, a, askers, v)
        ELSE anonymousStates' = anonymousStates
    <2>1. CASE e.phase = "bootstrap"
      <3>1. a \in askers /\ SharedWell(anonymousStates, x, askers)
        BY <1>1, <2>1 DEF AsksBootstrap, InstagramIInv
      <3>2. anonymousStates' = PromiseSettled(anonymousStates, x, a, v)
        BY <1>3, <2>1
      <3> HIDE DEF askers, x, e
      <3>3. AfterSettling(PromiseSettled(anonymousStates, x, a, v), anonymousStates, Exits, x, a, askers, v)
        BY <1>1, <1>2, <3>1, Settled
      <3> QED BY <2>1, <3>2, <3>3
    <2> QED BY <1>3, <2>1
  <1>7. IF e.phase = "clips"
        THEN AfterSettling(runCache', runCache, Keys, k, a, readers, v) /\ v.kind # "no_token"
        ELSE runCache' = runCache
    <2>1. CASE e.phase = "clips"
      <3>1. a \in readers /\ SharedWell(runCache, k, readers)
        BY <1>1, <2>1 DEF AsksPage, InstagramIInv
      <3>2. runCache' = PromiseSettled(runCache, k, a, v)
        BY <1>3, <2>1
      <3>3. v.kind # "no_token"
        BY <2>1 DEF Answers, Bodies, Body
      <3> HIDE DEF readers, k, e
      <3>4. AfterSettling(PromiseSettled(runCache, k, a, v), runCache, Keys, k, a, readers, v)
        BY <1>1, <1>2, <3>1, Settled
      <3> QED BY <2>1, <3>2, <3>3, <3>4
    <2> QED BY <1>3, <2>1
  <1> HIDE DEF e, k, x, askers, readers
  <1>8. v # Null
    BY <1>2, NoPromise
  <1>9. ASSUME NEW b \in Attempts
        PROVE  AttemptWell(attempt'[b], b)
    <2>1. AttemptWell(attempt[b], b)
      BY DEF InstagramIInv
    <2>2. CASE b = a
      BY <1>4, <2>1, <2>2 DEF AttemptWell, HearsAs
    <2>3. CASE b # a
      <3>1. attempt[b].wire => attempt[b].on # a
        BY <2>1, <2>3 DEF AttemptWell
      <3> QED BY <1>4, <2>1, <2>3, <3>1 DEF AttemptWell, HearsAs
    <2> QED BY <2>2, <2>3
  <1>10. ASSUME NEW b \in Attempts, attempt[b].phase = "clips"
         PROVE  PageKnown(attempt'[b], runCache'[PageKey(attempt'[b])])
    <2> DEFINE j == PageKey(attempt[b])
    <2>1. PageKey(attempt'[b]) = j
      BY <1>4 DEF PageKey, HearsAs
    <2>2. j \in Keys
      BY <1>1, <1>10 DEF InstagramIInv, AttemptWell, Underway, OfAttempt, PageKey, Keys
    <2>3. PageKnown(attempt[b], runCache[j])
      BY <1>10 DEF InstagramIInv
    <2>4. CASE attempt[b].got # Null
      <3>1. attempt'[b].got = attempt[b].got
        BY <1>4, <2>4 DEF HearsAs
      <3>2. SUFFICES ASSUME Ok(attempt[b].got)
                     PROVE  runCache'[j] = runCache[j]
        BY <2>1, <2>3, <2>4, <3>1 DEF PageKnown
      <3>3. runCache[j] # Null /\ runCache[j].value # Null
        BY <2>3, <2>4, <3>2 DEF PageKnown
      <3>4. CASE e.phase = "clips"
        <4>1. j # k
          BY <1>7, <3>3, <3>4 DEF AfterSettling
        <4> QED BY <1>7, <2>2, <3>4, <4>1 DEF AfterSettling
      <3> QED BY <1>7, <3>4
    <2>5. CASE attempt[b].got = Null
      <3>1. runCache[j] # Null /\ runCache[j].value = Null /\ runCache[j].by = attempt[b].on
        BY <2>3, <2>5 DEF PageKnown
      <3>2. SharedWell(runCache, j, {c \in Attempts : AsksPage(attempt[c], j)})
        BY <2>2 DEF InstagramIInv
      <3>3. AsksPage(attempt[attempt[b].on], j) /\ attempt[b].on \in Attempts
        BY <3>1, <3>2 DEF SharedWell
      <3>4. CASE attempt[b].on = a
        <4>1. e.phase = "clips" /\ k = j
          BY <3>3, <3>4 DEF AsksPage, e, k
        <4>2. attempt'[b].got = v
          BY <1>4, <2>5, <3>4 DEF HearsAs
        <4>3. Ok(v) => runCache'[j] = Promise(a, v)
          BY <1>7, <4>1 DEF AfterSettling
        <4>4. Promise(a, v) # Null /\ Promise(a, v).value = v
          BY <1>2, MadePromise, NoPromise
        <4> QED BY <1>8, <2>1, <4>2, <4>3, <4>4 DEF PageKnown
      <3>5. CASE attempt[b].on # a
        <4>1. attempt'[b].got = Null /\ attempt'[b].on = attempt[b].on
          BY <1>4, <2>5, <3>5 DEF HearsAs
        <4>2. runCache'[j] = runCache[j]
          <5>1. CASE e.phase = "clips"
            <6>1. j # k
              BY <1>7, <3>1, <3>5, <5>1 DEF AfterSettling
            <6> QED BY <1>7, <2>2, <5>1, <6>1 DEF AfterSettling
          <5> QED BY <1>7, <5>1
        <4> QED BY <2>1, <3>1, <4>1, <4>2 DEF PageKnown
      <3> QED BY <3>4, <3>5
    <2> QED BY <2>4, <2>5
  <1>11. ASSUME NEW b \in Attempts, attempt[b].phase = "info"
         PROVE  LastResort(attempt'[b], runCache'[PageKey(attempt'[b])])
    <2> DEFINE j == PageKey(attempt[b])
               p == runCache[j]
    <2>1. PageKey(attempt'[b]) = j
      BY <1>4 DEF PageKey, HearsAs
    <2>2. j \in Keys
      BY <1>1, <1>11 DEF InstagramIInv, AttemptWell, Underway, OfAttempt, PageKey, Keys
    <2>3. LastResort(attempt[b], p)
      BY <1>11 DEF InstagramIInv
    <2>4. attempt[b] \in OfAttempt /\ attempt'[b] \in OfAttempt /\ attempt'[b].page = attempt[b].page
      BY <1>1, <1>4 DEF HearsAs
    <2>5. attempt'[b].session = attempt'[b].exit /\ attempt'[b].failure # Null
      BY <1>4, <2>3 DEF HearsAs, LastResort
    <2>6. SUFFICES ASSUME attempt[b].failure.code = "session_error"
                   PROVE  /\ runCache'[j] # Null /\ runCache'[j].value # Null
                          /\ NextPage([attempt'[b] EXCEPT !.got = runCache'[j].value]) = Null
      BY <1>4, <2>1, <2>5 DEF HearsAs, LastResort
    <2>7. p # Null /\ p.value # Null /\ NextPage([attempt[b] EXCEPT !.got = p.value]) = Null
      BY <2>3, <2>6 DEF LastResort
    <2>8. runCache'[j] = p
      <3>1. CASE e.phase = "clips"
        <4>1. j # k
          BY <1>7, <2>7, <3>1 DEF AfterSettling
        <4> QED BY <1>7, <2>2, <3>1, <4>1 DEF AfterSettling
      <3> QED BY <1>7, <3>1
    <2>9. p.value \in AllAnswers \cup {Null}
      BY <1>1, <2>2, <2>7 DEF PromiseMap, Promises
    <2> HIDE DEF p
    <2>10. NextPage([attempt'[b] EXCEPT !.got = p.value]) = NextPage([attempt[b] EXCEPT !.got = p.value])
      BY <2>4, <2>9, SameNextPage
    <2> QED BY <2>7, <2>8, <2>10
  <1>12. ASSUME NEW y \in Exits
         PROVE  SharedWell(anonymousStates', y, {b \in Attempts : AsksBootstrap(attempt'[b], y)})
    <2> DEFINE asking == {b \in Attempts : AsksBootstrap(attempt'[b], y)}
               was == {b \in Attempts : AsksBootstrap(attempt[b], y)}
    <2>1. \A b \in Attempts : b # a => AsksBootstrap(attempt'[b], y) = AsksBootstrap(attempt[b], y)
      BY <1>4 DEF AsksBootstrap, HearsAs
    <2>2. ~AsksBootstrap(attempt'[a], y)
      BY <1>4 DEF AsksBootstrap, HearsAs
    <2>3. SharedWell(anonymousStates, y, was)
      BY DEF InstagramIInv
    <2>4. CASE e.phase = "bootstrap" /\ y = x
      <3>1. was = {a}
        BY <1>6, <2>4 DEF AfterSettling, askers
      <3>2. asking = {}
        BY <2>1, <2>2, <3>1
      <3> QED BY <1>6, <2>4, <3>2 DEF AfterSettling
    <2>5. CASE ~(e.phase = "bootstrap" /\ y = x)
      <3>1. ~AsksBootstrap(attempt[a], y)
        BY <2>5 DEF AsksBootstrap, e, x
      <3>2. asking = was
        BY <2>1, <2>2, <3>1
      <3>3. anonymousStates'[y] = anonymousStates[y]
        BY <1>6, <2>5 DEF AfterSettling
      <3>4. SharedWell(anonymousStates', y, was)
        <4> HIDE DEF was
        <4> QED BY <2>3, <3>3 DEF SharedWell
      <3> QED BY <3>2, <3>4
    <2> QED BY <2>4, <2>5
  <1>13. ASSUME NEW j \in Keys
         PROVE  SharedWell(runCache', j, {b \in Attempts : AsksPage(attempt'[b], j)})
    <2> DEFINE asking == {b \in Attempts : AsksPage(attempt'[b], j)}
               was == {b \in Attempts : AsksPage(attempt[b], j)}
    <2>1. \A b \in Attempts : b # a => AsksPage(attempt'[b], j) = AsksPage(attempt[b], j)
      BY <1>4 DEF AsksPage, HearsAs, PageKey
    <2>2. ~AsksPage(attempt'[a], j)
      BY <1>4 DEF AsksPage, HearsAs
    <2>3. SharedWell(runCache, j, was)
      BY DEF InstagramIInv
    <2>4. CASE e.phase = "clips" /\ j = k
      <3>1. was = {a}
        BY <1>7, <2>4 DEF AfterSettling, readers
      <3>2. asking = {}
        BY <2>1, <2>2, <3>1
      <3> QED BY <1>7, <2>4, <3>2 DEF AfterSettling
    <2>5. CASE ~(e.phase = "clips" /\ j = k)
      <3>1. ~AsksPage(attempt[a], j)
        BY <2>5 DEF AsksPage, e, k
      <3>2. asking = was
        BY <2>1, <2>2, <3>1
      <3>3. runCache'[j] = runCache[j]
        BY <1>7, <2>5 DEF AfterSettling
      <3>4. SharedWell(runCache', j, was)
        <4> HIDE DEF was
        <4> QED BY <2>3, <3>3 DEF SharedWell
      <3> QED BY <3>2, <3>4
    <2> QED BY <2>4, <2>5
  <1>14. PromiseMap(anonymousStates', Exits) /\ PromiseMap(runCache', Keys)
    BY <1>1, <1>6, <1>7 DEF AfterSettling
  <1>15. \A b \in Attempts : attempt'[b].phase = attempt[b].phase
    BY <1>4 DEF HearsAs
  <1> QED BY <1>5, <1>9, <1>10, <1>11, <1>12, <1>13, <1>14, <1>15 DEF InstagramIInv

-----------------------------------------------------------------------------
\* An attempt that has heard, or is not under way, has nothing on the wire.
LEMMA AtRest ==
  ASSUME InstagramIInv, NEW a \in Attempts, attempt[a].got # Null \/ attempt[a].phase \notin Underway
  PROVE  attempt[a] \in OfAttempt /\ attempt[a].wire = FALSE
  <1>1. attempt[a] \in OfAttempt /\ AttemptWell(attempt[a], a)
    BY DEF InstagramIInv
  <1>2. attempt[a].wire \in BOOLEAN
    BY <1>1 DEF OfAttempt
  <1> QED BY <1>1, <1>2 DEF AttemptWell

(* An attempt that gives up the public way.                                 *)
\* Falling back to the session, or failing, keeps the invariant.
LEMMA FallsBack ==
  ASSUME InstagramAssumption, InstagramIInv, NEW a \in Attempts, attempt[a].got # Null,
         attempt[a].phase \in Underway, NEW failure \in FailureRecords,
         Becomes(a, FallbackOrFailure(attempt[a], a, failure)),
         failure.code = "session_error" =>
           LET p == runCache[PageKey(attempt[a])] IN
           p # Null /\ p.value = attempt[a].got /\ NextPage(attempt[a]) = Null
  PROVE  InstagramIInv'
  <1>1. attempt[a] \in OfAttempt /\ attempt[a].wire = FALSE /\ attempt[a].exit \in Exits
    BY AtRest DEF InstagramIInv, AttemptWell
  <1>2. failure # Null
    BY DEF InstagramAssumption
  <1>3. CASE CanUseSession(attempt[a])
    <2> DEFINE e == [attempt[a] EXCEPT !.failure = failure]
               f == Sends(e, a, "info")
    <2>1. /\ e \in OfAttempt /\ e.page = attempt[a].page /\ e.exit = attempt[a].exit
          /\ e.session = attempt[a].session /\ e.failure = failure
      BY <1>1 DEF OfAttempt
    <2>2. /\ f \in OfAttempt /\ f.phase = "info" /\ f.wire /\ f.on = a /\ f.got = Null
          /\ f.exit = attempt[a].exit /\ f.page = attempt[a].page /\ f.session = attempt[a].session
          /\ f.failure = failure
      <3> HIDE DEF e
      <3>1. "info" \in ScrapePhases
        BY DEF ScrapePhases
      <3> QED BY <2>1, <3>1, Sending
    <2>3. Becomes(a, f)
      BY <1>3 DEF FallbackOrFailure
    <2> HIDE DEF f, e
    <2>4. AttemptWell(f, a)
      BY <1>1, <2>2 DEF AttemptWell, Underway
    <2>5. LastResort(f, runCache[PageKey(f)])
      <3>1. PageKey(f) = PageKey(attempt[a])
        BY <2>2 DEF PageKey
      <3>2. f.session = f.exit /\ f.failure # Null
        BY <1>2, <1>3, <2>2 DEF CanUseSession
      <3>3. ASSUME failure.code = "session_error"
            PROVE  NextPage([f EXCEPT !.got = runCache[PageKey(attempt[a])].value]) = Null
        <4> DEFINE g == attempt[a].got
        <4>1. g \in AllAnswers \cup {Null} /\ [attempt[a] EXCEPT !.got = g] = attempt[a]
          BY <1>1 DEF OfAttempt
        <4>2. NextPage([f EXCEPT !.got = g]) = NextPage([attempt[a] EXCEPT !.got = g])
          <5> HIDE DEF g
          <5> QED BY <1>1, <2>2, <4>1, SameNextPage
        <4> QED BY <3>3, <4>1, <4>2
      <3> QED BY <2>2, <3>1, <3>2, <3>3 DEF LastResort
    <2> QED BY <1>1, <2>2, <2>3, <2>4, <2>5, Alone
  <1>4. CASE ~CanUseSession(attempt[a])
    <2> DEFINE f == ScrapeReturns(failure)
    <2>1. f \in OfAttempt /\ f.wire = FALSE /\ f.phase = "done"
      BY Fresh
    <2>2. Becomes(a, f)
      BY <1>4 DEF FallbackOrFailure
    <2> HIDE DEF f
    <2>3. AttemptWell(f, a)
      BY <2>1 DEF AttemptWell, Underway
    <2> QED BY <1>1, <2>1, <2>2, <2>3, Alone
  <1> QED BY <1>3, <1>4

\* Returning keeps the invariant.
LEMMA Returns ==
  ASSUME InstagramAssumption, InstagramIInv, NEW a \in Attempts, attempt[a].wire = FALSE,
         NEW result \in FailureRecords \cup {"ok", Null}, Becomes(a, ScrapeReturns(result))
  PROVE  InstagramIInv'
  <1> DEFINE f == ScrapeReturns(result)
  <1>1. f \in OfAttempt /\ f.wire = FALSE /\ f.phase = "done"
    BY Fresh
  <1> HIDE DEF f
  <1>2. AttemptWell(f, a)
    BY <1>1 DEF AttemptWell, Underway
  <1> QED BY <1>1, <1>2, Alone DEF f

\* An attempt that goes on with what it heard keeps the invariant.
LEMMA Resumed ==
  ASSUME InstagramAssumption, InstagramIInv, NEW a \in Attempts, Resume(a)
  PROVE  InstagramIInv'
  <1> DEFINE e == attempt[a]
  <1>1. e.got # Null /\ e.phase \in Underway /\ e \in OfAttempt /\ e.wire = FALSE /\ e.exit \in Exits
    <2>1. e.got # Null /\ e.phase \in Underway
      BY DEF Resume, AfterBootstrap, AfterPost, AfterClips, AfterInfo, Resumes, Underway
    <2> QED BY <2>1, AtRest DEF InstagramIInv, AttemptWell
  <1>2. e.got \in AllAnswers
    BY <1>1 DEF OfAttempt
  <1>3. /\ FailureOf(a) # Null => FailureOf(a) \in FailureRecords /\ FailureOf(a).code # "session_error"
        /\ FailureOf(a) = Null => Ok(e.got)
    BY <1>2, PublicFailure DEF FailureOf
  <1>4. CASE FailureOf(a) # Null /\ Becomes(a, FallbackOrFailure(e, a, FailureOf(a)))
    BY <1>1, <1>3, <1>4, FallsBack
  <1>5. \A r \in FailureRecords \cup {"ok"} : Becomes(a, ScrapeReturns(r)) => InstagramIInv'
    BY <1>1, Returns
  <1>6. InvalidUrl \in FailureRecords
    BY DEF InvalidUrl, Failure, FailureRecords, FailureCodes
  <1>7. CASE FailureOf(a) = Null /\ AfterBootstrap(a)
    <2> DEFINE f == Sends(e, a, "post")
    <2>1. f \in OfAttempt /\ f.phase = "post" /\ f.wire /\ f.on = a /\ f.got = Null /\ f.exit = e.exit
      <3> HIDE DEF e
      <3>1. "post" \in ScrapePhases
        BY DEF ScrapePhases
      <3> QED BY <1>1, <3>1, Sending
    <2>2. Becomes(a, f)
      BY <1>7 DEF AfterBootstrap
    <2> HIDE DEF f
    <2>3. AttemptWell(f, a)
      BY <1>1, <2>1 DEF AttemptWell, Underway
    <2> QED BY <1>1, <2>1, <2>2, <2>3, Alone
  <1>8. CASE AsksForPage(e, a)
    BY <1>1, <1>8, PageAsked
  <1>9. CASE FailureOf(a) = Null /\ AfterClips(a)
    <2>1. PageKnown(e, runCache[PageKey(e)]) /\ Ok(e.got)
      BY <1>3, <1>9 DEF AfterClips, Resumes, InstagramIInv
    <2>2. CASE NextPage(e) # Null /\ AsksForPage([e EXCEPT !.page = NextPage(e)], a)
      <3> DEFINE f == [e EXCEPT !.page = NextPage(e)]
      <3>1. NextPage(e) \in Pages
        BY <1>1, <2>2, NextIsPage DEF OfAttempt
      <3>2. f \in OfAttempt /\ f.wire = FALSE /\ f.exit = e.exit
        BY <1>1, <3>1 DEF OfAttempt
      <3> HIDE DEF f
      <3> QED BY <1>1, <2>2, <3>2, PageAsked DEF f
    <2>3. CASE NextPage(e) = Null /\ Becomes(a, FallbackOrFailure(e, a, Failure("error", "session_error", FALSE)))
      <3>1. Failure("error", "session_error", FALSE) \in FailureRecords
        BY DEF Failure, FailureRecords, FailureCodes
      <3>2. runCache[PageKey(e)] # Null /\ runCache[PageKey(e)].value = e.got
        BY <1>1, <2>1 DEF PageKnown
      <3> HIDE DEF Failure
      <3> QED BY <1>1, <2>3, <3>1, <3>2, FallsBack
    <2> QED BY <1>5, <1>9, <2>2, <2>3 DEF AfterClips
  <1>10. CASE AfterInfo(a)
    BY <1>3, <1>5, <1>10 DEF AfterInfo
  <1>11. CASE AfterBootstrap(a)
    BY <1>4, <1>7, <1>11 DEF AfterBootstrap
  <1>12. CASE AfterPost(a)
    BY <1>4, <1>5, <1>6, <1>8, <1>12 DEF AfterPost
  <1>13. CASE AfterClips(a)
    BY <1>4, <1>9, <1>13 DEF AfterClips
  <1> QED BY <1>10, <1>11, <1>12, <1>13 DEF Resume

\* Both caches start empty.
LEMMA InstagramInitIInv == ASSUME InstagramAssumption, InstagramInit PROVE InstagramIInv
  <1>1. New \in OfAttempt /\ New.wire = FALSE /\ New.phase = "new"
    BY Fresh
  <1>2. \A a \in Attempts : attempt[a] = New
    BY DEF InstagramInit
  <1>3. /\ attempt \in [Attempts -> OfAttempt] /\ PromiseMap(anonymousStates, Exits)
        /\ PromiseMap(runCache, Keys)
    BY <1>1 DEF InstagramInit, PromiseMap
  <1>4. \A x, k : \A a \in Attempts : ~AsksBootstrap(attempt[a], x) /\ ~AsksPage(attempt[a], k)
    BY <1>1, <1>2 DEF AsksBootstrap, AsksPage
  <1>5. \A x \in Exits : SharedWell(anonymousStates, x, {a \in Attempts : AsksBootstrap(attempt[a], x)})
    BY <1>4 DEF SharedWell, InstagramInit
  <1>6. \A k \in Keys : SharedWell(runCache, k, {a \in Attempts : AsksPage(attempt[a], k)})
    BY <1>4 DEF SharedWell, InstagramInit
  <1> QED BY <1>1, <1>2, <1>3, <1>5, <1>6 DEF InstagramIInv, AttemptWell, Underway

\* A stuttering step keeps the invariant.
LEMMA InstagramStill ==
  ASSUME InstagramIInv, UNCHANGED instagramVars
  PROVE  InstagramIInv'
  <1>1. attempt' = attempt /\ runCache' = runCache /\ anonymousStates' = anonymousStates
    BY DEF instagramVars
  <1> QED BY <1>1 DEF InstagramIInv

\* Every step keeps the invariant.
LEMMA InstagramStep ==
  ASSUME InstagramAssumption, InstagramIInv, [InstagramNext]_instagramVars
  PROVE  InstagramIInv'
  <1>1. ASSUME NEW a \in Attempts, NotCanonical(a)
        PROVE  InstagramIInv'
    <2>1. attempt[a].phase \notin Underway
      BY <1>1 DEF NotCanonical, Underway
    <2>2. InvalidUrl \in FailureRecords
      BY DEF InvalidUrl, Failure, FailureRecords, FailureCodes
    <2> QED BY <1>1, <2>1, <2>2, AtRest, Returns DEF NotCanonical
  <1> QED BY <1>1, BootstrapAsked, AnswerHeard, Resumed, InstagramStill DEF InstagramNext

\* The invariant implies the two properties.
LEMMA InstagramIInvHolds == InstagramIInv => RequestsShared /\ SessionIsLastResort
  <1> SUFFICES ASSUME InstagramIInv PROVE RequestsShared /\ SessionIsLastResort
    OBVIOUS
  <1>1. InstagramTypeOK
    BY DEF InstagramIInv, InstagramTypeOK, PromiseMap, Promises, OfAttempt, AttemptWell
  <1>2. RequestsShared
    BY <1>1 DEF InstagramIInv, RequestsShared, AsksBootstrap, AsksPage
  <1>3. SessionIsLastResort
    BY DEF InstagramIInv, SessionIsLastResort, LastResort
  <1> QED BY <1>2, <1>3

\* The invariant holds in every reachable state.
LEMMA InstagramHolds == ASSUME InstagramAssumption PROVE InstagramSpec => []InstagramIInv
  <1>1. InstagramInit => InstagramIInv
    BY InstagramInitIInv
  <1>2. InstagramIInv /\ [InstagramNext]_instagramVars => InstagramIInv'
    BY InstagramStep
  <1> QED BY <1>1, <1>2, PTL DEF InstagramSpec

\* A bootstrap and a page of clips are asked once at a time, whoever waits for them,
\* and a failed one is forgotten: for every set of attempts, exits, keys and answers.
THEOREM SharedRequests == ASSUME InstagramAssumption PROVE InstagramSpec => []RequestsShared
  <1>1. InstagramIInv => RequestsShared
    BY InstagramIInvHolds
  <1> QED BY <1>1, InstagramHolds, PTL

\* The session of an exit is used only when the public requests gave no verdict:
\* for every set of attempts, exits, bindings and answers.
THEOREM SessionHeldBack == ASSUME InstagramAssumption PROVE InstagramSpec => []SessionIsLastResort
  <1>1. InstagramIInv => SessionIsLastResort
    BY InstagramIInvHolds
  <1> QED BY <1>1, InstagramHolds, PTL
=============================================================================
