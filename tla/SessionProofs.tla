----------------------------- MODULE SessionProofs -----------------------------
(* The invariants of Session and its refinement of RunLifecycle, for every  *)
(* schedule, batch, concurrency and stall threshold.                        *)
EXTENDS Session, SequenceTheorems, TLAPS

-----------------------------------------------------------------------------
(* The watchdog.                                                            *)

\* Closing the open stall, if there is one, changes nothing else.
LEMMA RecoveredFacts ==
  ASSUME NEW w \in Watch, now \in Nat
  PROVE  LET r == Recovered(w) IN
         /\ r \in Watch /\ r.seen = w.seen /\ r.progressAt = w.progressAt
         /\ Len(r.episodes) = Len(w.episodes)
         /\ \A i \in 1 .. Len(w.episodes) :
              /\ r.episodes[i].cycle = w.episodes[i].cycle
              /\ r.episodes[i].startedAt = w.episodes[i].startedAt
              /\ r.episodes[i].recoveredAt =
                   IF i = Len(w.episodes) /\ w.episodes[i].recoveredAt = Null
                   THEN now ELSE w.episodes[i].recoveredAt
         /\ ~StallOpen(r)
  <1> DEFINE e == w.episodes
             k == Len(e)
  <1>1. e \in Seq(Episode) /\ k \in Nat /\ now # Null
    BY SessionAssumption, LenProperties DEF Watch
  <1>2. CASE ~StallOpen(w)
    BY <1>2, <1>1 DEF Recovered, StallOpen, Watch
  <1>3. CASE StallOpen(w)
    <2>1. k \in 1 .. k /\ e[k] \in Episode /\ e[k].recoveredAt = Null
      BY <1>1, <1>3, EmptySeq, LenProperties DEF StallOpen
    <2> DEFINE closed == [e[k] EXCEPT !.recoveredAt = now]
    <2>2. /\ closed \in Episode
          /\ closed.cycle = e[k].cycle /\ closed.startedAt = e[k].startedAt
          /\ closed.recoveredAt = now
      BY <2>1 DEF Episode
    <2>3. /\ [e EXCEPT ![k] = closed] \in Seq(Episode)
          /\ Len([e EXCEPT ![k] = closed]) = k
          /\ \A i \in 1 .. k : [e EXCEPT ![k] = closed][i] = IF i = k THEN closed ELSE e[i]
      BY <1>1, <2>1, <2>2, ExceptSeq
    <2>4. Recovered(w) = [w EXCEPT !.episodes = [e EXCEPT ![k] = closed]]
      BY <1>3 DEF Recovered, Watch
    <2> HIDE DEF closed
    <2>5. /\ Recovered(w) \in Watch /\ Recovered(w).episodes = [e EXCEPT ![k] = closed]
          /\ Recovered(w).seen = w.seen /\ Recovered(w).progressAt = w.progressAt
      BY <2>3, <2>4 DEF Watch
    <2> QED BY <1>1, <2>1, <2>2, <2>3, <2>5 DEF StallOpen
  <1> QED BY <1>2, <1>3

\* A look of the watchdog keeps its state one.
LEMMA ObservedType ==
  ASSUME NEW w \in Watch, now \in Nat, NEW done \in Nat, NEW reported \in Nat,
         cycle.number \in Nat, reported # 0 => cycle.number # 0
  PROVE  Observed(w, done, reported) \in Watch
  <1>1. Recovered(w) \in Watch
    BY RecoveredFacts
  <1>2. CASE done # w.seen
    BY <1>1, <1>2 DEF Observed, Watch
  <1>3. CASE done = w.seen /\ reported = 0
    BY <1>1, <1>3 DEF Observed
  <1>4. CASE done = w.seen /\ reported # 0
    <2> DEFINE new == [cycle |-> cycle.number, startedAt |-> w.progressAt,
                       recoveredAt |-> Null]
    <2>1. new \in Episode
      BY <1>4 DEF Episode, Watch
    <2> HIDE DEF new
    <2>2. Append(w.episodes, new) \in Seq(Episode)
      BY <2>1, AppendProperties DEF Watch
    <2>3. [w EXCEPT !.episodes = Append(@, new)] \in Watch
      BY <2>2 DEF Watch
    <2> QED BY <1>4, <2>3 DEF Observed, new
  <1> QED BY <1>2, <1>3, <1>4

\* What a look that is told of no work in flight leaves: no open stall.
LEMMA ObservedIdle ==
  ASSUME NEW w \in Watch, now \in Nat, NEW done \in Nat
  PROVE  LET o == Observed(w, done, 0)  r == Recovered(w) IN
         /\ o.episodes = r.episodes
         /\ o.progressAt \in {w.progressAt, now}
  BY RecoveredFacts DEF Observed, Watch

-----------------------------------------------------------------------------
(* The scheduler's turn after n cycles of a session begun at o.             *)

\* It ends the session, and says why.
Quits(o, n) ==
  /\ at' = "closing" /\ UNCHANGED <<cycle, left>>
  /\ \/ stopReason' = "cancelled" /\ aborted
     \/ stopReason' = "max_cycles" /\ schedule.maxCycles # Null /\ n >= schedule.maxCycles
     \/ stopReason' = "duration" /\ (PastDeadline(Due(o, n) - o) \/ PastDeadline(now - o))

\* It sleeps until the next cycle is due.
Waits(o, n) ==
  /\ at' = "sleeping" /\ UNCHANGED <<cycle, left, stopReason>>
  /\ schedule.maxCycles # Null => n < schedule.maxCycles

\* It begins the next cycle.
Begins(o, n) ==
  /\ at' = "building" /\ UNCHANGED stopReason /\ left' = Requests
  /\ cycle' = [number |-> n + 1, scheduledAt |-> Due(o, n), startedAt |-> now]
  /\ ~aborted /\ Due(o, n) <= now /\ ~PastDeadline(now - o)
  /\ schedule.maxCycles # Null => n < schedule.maxCycles

Turned(o, n, w) ==
  \/ (Quits(o, n) \/ Waits(o, n)) /\ watch' = w
  \/ Begins(o, n) /\ watch' = [w EXCEPT !.progressAt = now]

LEMMA BeginTurned ==
  ASSUME NEW o, NEW n, NEW w, BeginCycle(o, n, w), ~aborted, Due(o, n) <= now,
         schedule.maxCycles # Null => n < schedule.maxCycles
  PROVE  Turned(o, n, w)
  BY DEF BeginCycle, Stop, Turned, Quits, Begins

LEMMA ScheduleTurned ==
  ASSUME NEW o, NEW n \in Nat, NEW w, Schedule(o, n, w),
         now \in Nat, Due(o, n) \in Nat, schedule \in Schedules
  PROVE  Turned(o, n, w)
  <1>1. CASE EndsFor(o, n) # Null /\ Stop(EndsFor(o, n)) /\ watch' = w
    BY <1>1 DEF EndsFor, Stop, Turned, Quits
  <1>2. CASE EndsFor(o, n) = Null
    <2>1. ~aborted /\ (schedule.maxCycles # Null => ~(n >= schedule.maxCycles))
      BY <1>2, SessionAssumption DEF EndsFor, StopReasons
    <2>2. schedule.maxCycles # Null => n < schedule.maxCycles
      BY <2>1, SessionAssumption
    <2>3. CASE Due(o, n) > now
      BY <1>2, <2>2, <2>3 DEF Schedule, Turned, Waits
    <2>4. CASE Due(o, n) <= now
      BY <1>2, <2>1, <2>2, <2>4, BeginTurned DEF Schedule
    <2> QED BY <2>3, <2>4
  <1> QED BY <1>1, <1>2 DEF Schedule

-----------------------------------------------------------------------------
(* The invariant.                                                           *)

\* Where the session is, and what goes with it.
Phases ==
  /\ cycle.number = IF InCycle THEN Len(cycles) + 1 ELSE Len(cycles)
  /\ Len(books) = Len(cycles)
  /\ InCycle \/ at = "sleeping" => stopReason = Null
  /\ at = "starting" => cycles = <<>> /\ stopReason = Null
  /\ origin = Null => cycles = <<>> /\ stopReason = Null /\ at \in {"starting", "ended"}
  /\ status \in {"completed", "failed"} <=> at = "ended"

\* What the run last reported in flight: something while it runs, nothing after.
Reports ==
  /\ at = "running" => live # 0
  /\ at = "writing" => live = 0
  /\ at \notin {"running", "writing"} => live = Null

\* No cycle goes beyond the number asked for.
Limits ==
  schedule.maxCycles # Null =>
    /\ cycle.number <= schedule.maxCycles
    /\ at = "sleeping" => cycle.number < schedule.maxCycles

\* The finished cycles followed each other in time, and each began when it might.
PastCycles ==
  \A c \in Cycles :
    /\ cycles[c].startedAt <= cycles[c].finishedAt /\ cycles[c].finishedAt <= now
    /\ origin + (c - 1) * schedule.intervalMs <= cycles[c].startedAt
    /\ ~PastDeadline(cycles[c].startedAt - origin)
    /\ c > 1 => cycles[c - 1].finishedAt <= cycles[c].startedAt

\* And so did the one under way.
ThisCycle ==
  InCycle =>
    /\ cycle.scheduledAt = Due(origin, Len(cycles)) /\ cycle.scheduledAt <= cycle.startedAt
    /\ ~PastDeadline(cycle.startedAt - origin)
    /\ cycle.startedAt <= now
    /\ cycles # <<>> => cycles[Len(cycles)].finishedAt <= cycle.startedAt

Timing == (origin # Null => origin <= now) /\ PastCycles /\ ThisCycle

-----------------------------------------------------------------------------
(* Types.                                                                   *)

LEMMA InitFacts == Init => TypeOK /\ Phases /\ Reports /\ Limits /\ Timing
  <1> SUFFICES ASSUME Init PROVE TypeOK /\ Phases /\ Reports /\ Limits /\ Timing
    OBVIOUS
  <1>1. TypeOK
    <2>1. watch \in Watch
      BY DEF Init, Watch
    <2>2. cycle \in [number : Nat, scheduledAt : Nat, startedAt : Nat]
      BY DEF Init
    <2>3. 0 \in 0 .. Requests /\ 0 \in 0 .. Concurrency
      BY SessionAssumption
    <2>4. /\ cycles \in Seq(CycleSummary) /\ history \in Seq(Nat \ {0})
          /\ books \in Seq({"queued", "appending", "reading", "done"})
      BY EmptySeq DEF Init
    <2> QED BY <2>1, <2>2, <2>3, <2>4 DEF Init, TypeOK
  <1>2. Phases /\ Reports /\ Timing
    BY SessionAssumption
       DEF Init, Phases, Reports, Timing, PastCycles, ThisCycle, InCycle, Cycles
  <1>3. Limits
    BY SessionAssumption DEF Init, Limits
  <1> QED BY <1>1, <1>2, <1>3

\* The due time of a cycle is a time.
LEMMA DueType ==
  ASSUME TypeOK, NEW o \in Nat, NEW n \in Nat
  PROVE  Due(o, n) \in Nat
  <1>1. schedule.intervalMs \in Nat
    BY SessionAssumption DEF TypeOK
  <1>2. n * schedule.intervalMs \in Nat
    BY <1>1
  <1> QED BY <1>2 DEF Due

\* The turn after the n-th cycle, whichever action takes it.
LEMMA StartedTurned ==
  ASSUME TypeOK, Started
  PROVE  Turned(now, 0, watch)
  <1>1. now \in Nat /\ schedule \in Schedules /\ Due(now, 0) \in Nat
    BY DueType DEF TypeOK
  <1> QED BY <1>1, ScheduleTurned DEF Started

LEMMA WakesTurned ==
  ASSUME TypeOK, Phases, Limits, Wakes
  PROVE  Turned(origin, cycle.number, watch)
  <1>1. Due(origin, cycle.number) \in Nat
    BY DueType DEF TypeOK, Phases, Wakes
  <1>2. schedule.maxCycles # Null => cycle.number < schedule.maxCycles
    BY DEF Limits, Wakes
  <1>3. Due(origin, cycle.number) <= now
    BY <1>1 DEF Wakes, TypeOK
  <1> QED BY <1>2, <1>3, BeginTurned DEF Wakes

LEMMA SleepAbortedTurned ==
  ASSUME SleepAborted
  PROVE  Turned(origin, cycle.number, watch)
  BY DEF SleepAborted, Stop, Turned, Quits

\* The end of a cycle: the session goes on, or ends for an unwritable output.
LEMMA FinishTurned ==
  ASSUME TypeOK, Phases, InCycle, NEW hasSummary, NEW error, FinishCycle(hasSummary, error)
  PROVE  LET w == Observed(watch, completed, 0) IN
         IF IsFatal(error)
         THEN /\ at' = "closing" /\ UNCHANGED <<cycle, left>>
              /\ stopReason' = "fatal" /\ watch' = w
         ELSE Turned(origin, cycle.number, w)
  <1>1. Due(origin, cycle.number) \in Nat
    BY DueType DEF TypeOK, Phases, InCycle
  <1> QED BY <1>1, ScheduleTurned DEF TypeOK, FinishCycle, Stop

\* The types of what a turn of the scheduler sets.
TurnTypes ==
  /\ at' \in {"sleeping", "building", "closing"}
  /\ cycle' \in [number : Nat, scheduledAt : Nat, startedAt : Nat]
  /\ stopReason' \in StopReasons \cup {Null}
  /\ left' \in 0 .. Requests
  /\ watch' \in Watch

LEMMA TurnedTypes ==
  ASSUME TypeOK, NEW o \in Nat, NEW n \in Nat, NEW w \in Watch, Turned(o, n, w)
  PROVE  TurnTypes
  <1>1. Due(o, n) \in Nat /\ now \in Nat
    BY DueType DEF TypeOK
  <1>2. [w EXCEPT !.progressAt = now] \in Watch
    BY DEF TypeOK, Watch
  <1>3. CASE (Quits(o, n) \/ Waits(o, n)) /\ watch' = w
    BY <1>3 DEF TypeOK, TurnTypes, Quits, Waits, StopReasons
  <1>4. CASE Begins(o, n) /\ watch' = [w EXCEPT !.progressAt = now]
    <2>1. cycle' \in [number : Nat, scheduledAt : Nat, startedAt : Nat]
      BY <1>1, <1>4 DEF Begins
    <2>2. left' \in 0 .. Requests
      BY <1>4, SessionAssumption DEF Begins
    <2> QED BY <1>2, <1>4, <2>1, <2>2 DEF TypeOK, TurnTypes, Begins
  <1> QED BY <1>3, <1>4 DEF Turned

\* A cycle ends in one of two ways.
LEMMA CycleFinishes ==
  ASSUME TypeOK, CycleEnds \/ BuildFails
  PROVE  /\ InCycle
         /\ \E hasSummary \in BOOLEAN, error \in CycleErrors \cup {Null} :
              FinishCycle(hasSummary, error)
  <1>1. runError \in CycleErrors \cup {Null} /\ "unknown" \in CycleErrors \cup {Null}
    BY DEF TypeOK, CycleErrors
  <1> QED BY <1>1 DEF CycleEnds, BuildFails, InCycle

LEMMA FinishTypes ==
  ASSUME TypeOK, Phases, InCycle, NEW hasSummary \in BOOLEAN,
         NEW error \in CycleErrors \cup {Null}, FinishCycle(hasSummary, error)
  PROVE  TypeOK'
  <1>1. Observed(watch, completed, 0) \in Watch
    BY ObservedType DEF TypeOK
  <1>2. origin \in Nat /\ cycle.number \in Nat
    BY DEF TypeOK, Phases, InCycle
  <1>3. TurnTypes
    <2>1. CASE IsFatal(error)
      BY <1>1, <2>1, FinishTurned DEF TypeOK, TurnTypes, StopReasons
    <2>2. CASE ~IsFatal(error)
      BY <1>1, <1>2, <2>2, FinishTurned, TurnedTypes
    <2> QED BY <2>1, <2>2
  <1>4. cycles' \in Seq(CycleSummary)
    <2> DEFINE new == [hasSummary |-> hasSummary, error |-> error,
                       startedAt |-> cycle.startedAt, finishedAt |-> now]
    <2>1. new \in CycleSummary
      BY DEF TypeOK, CycleSummary
    <2>2. cycles' = Append(cycles, new)
      BY DEF FinishCycle
    <2> QED BY <2>1, <2>2, AppendProperties DEF TypeOK
  <1>5. books' \in Seq({"queued", "appending", "reading", "done"})
    BY AppendProperties DEF FinishCycle, TypeOK
  <1>6. 0 \in 0 .. Concurrency
    BY SessionAssumption
  <1> QED BY <1>3, <1>4, <1>5, <1>6 DEF TypeOK, TurnTypes, FinishCycle, timeVars
\* The actions that the session's own steps consist of.
LEMMA SessionTypes ==
  ASSUME TypeOK, Phases, Limits, SessionStep \/ StartFails \/ BuildFails
  PROVE  TypeOK'
  <1>1. now \in Nat /\ watch \in Watch /\ cycle.number \in Nat
    BY DEF TypeOK
  <1>2. CASE Started
    <2>1. TurnTypes
      BY <1>1, <1>2, StartedTurned, TurnedTypes
    <2> QED BY <1>2, <2>1 DEF TypeOK, Started, TurnTypes, bookVars
  <1>3. CASE Wakes \/ SleepAborted
    <2>1. Turned(origin, cycle.number, watch) /\ origin \in Nat
      BY <1>3, WakesTurned, SleepAbortedTurned DEF TypeOK, Phases, Wakes, SleepAborted
    <2>2. TurnTypes
      BY <1>1, <2>1, TurnedTypes
    <2> QED BY <1>3, <2>2
            DEF TypeOK, Wakes, SleepAborted, TurnTypes, bookVars, timeVars
  <1>4. CASE CycleEnds \/ BuildFails
    BY <1>4, CycleFinishes, FinishTypes
  <1>5. CASE StartFails \/ Built \/ Closed \/ Ends
    BY <1>5 DEF TypeOK, StartFails, Built, Closed, Ends, timeVars, cycleVars, runVars, bookVars
  <1> QED BY <1>2, <1>3, <1>4, <1>5 DEF SessionStep

\* The run of a cycle, and those who look on.
LEMMA RunTypes ==
  ASSUME TypeOK, Phases, Reports, RunProgress \/ RowLost \/ Sample \/ Cancel \/ Tick
  PROVE  TypeOK'
  <1>1. /\ cycle.number \in Nat /\ Reported \in Nat
        /\ Requests \in Nat /\ Concurrency \in Nat
        /\ left \in 0 .. Requests /\ inFlight \in 0 .. Concurrency
        /\ live \in 0 .. Concurrency \cup {Null}
    BY SessionAssumption DEF TypeOK, Reported
  <1>2. CASE RequestStarts
    <2>1. left' \in 0 .. Requests /\ inFlight' \in 0 .. Concurrency
      BY <1>1, <1>2 DEF RequestStarts, HasSlot
    <2>2. live' \in 0 .. Concurrency \cup {Null}
      BY <1>1, <1>2 DEF RequestStarts, HasSlot
    <2> QED BY <1>2, <2>1, <2>2 DEF TypeOK, RequestStarts, timeVars, cycleVars, bookVars
  <1>3. CASE RequestEnds
    <2>1. inFlight' \in 0 .. Concurrency /\ live' \in 0 .. Concurrency \cup {Null}
      BY <1>1, <1>3 DEF RequestEnds
    <2>2. completed' \in Nat
      BY <1>3 DEF TypeOK, RequestEnds
    <2>3. cycle.number # 0
      BY <1>3, LenProperties DEF TypeOK, Phases, RequestEnds, InCycle
    <2>4. watch' \in Watch
      BY <1>1, <1>3, <2>2, <2>3, ObservedType DEF TypeOK, RequestEnds
    <2> QED BY <1>3, <2>1, <2>2, <2>4 DEF TypeOK, RequestEnds, timeVars, cycleVars, bookVars
  <1>4. CASE RowLost \/ RunEnds
    <2>1. inFlight' \in 0 .. Concurrency /\ live' \in 0 .. Concurrency \cup {Null}
      BY <1>1, <1>4 DEF RowLost, RunEnds
    <2> QED BY <1>4, <2>1
            DEF TypeOK, RowLost, RunEnds, timeVars, cycleVars, bookVars
  <1>5. CASE Sample
    <2>1. Reported # 0 => cycle.number # 0
      BY <1>5, LenProperties DEF TypeOK, Phases, Reports, Reported, InCycle
    <2>2. watch' \in Watch
      BY <1>1, <1>5, <2>1, ObservedType DEF TypeOK, Sample
    <2> QED BY <1>5, <2>2 DEF TypeOK, Sample, timeVars, cycleVars, runVars, bookVars
  <1>6. CASE Cancel
    BY <1>6, Zenon DEF TypeOK, Cancel, timeVars, cycleVars, runVars, bookVars
  <1>7. CASE Tick
    BY <1>7 DEF TypeOK, Tick, timeVars, cycleVars, runVars, bookVars
  <1> QED BY <1>2, <1>3, <1>4, <1>5, <1>6, <1>7 DEF RunProgress

\* The bookkeeping.
BookStates == {"queued", "appending", "reading", "done"}

LEMMA BookTypes ==
  ASSUME TypeOK, Phases, NEW c \in Cycles, KeepBooks(c)
  PROVE  TypeOK'
  <1>1. c \in 1 .. Len(books) /\ c \in Nat \ {0} /\ books \in Seq(BookStates)
    BY LenProperties DEF TypeOK, Phases, Cycles, BookStates
  <1>2. \E s \in BookStates : books' = [books EXCEPT ![c] = s]
    BY DEF KeepBooks, BookBegins, Appended, ReadBack, Refresh, BookStates
  <1>3. books' \in Seq(BookStates)
    BY <1>1, <1>2, ExceptSeq
  <1>4. history' \in {history, Append(history, c)}
    BY DEF KeepBooks, BookBegins, Appended, ReadBack
  <1>5. history' \in Seq(Nat \ {0})
    <2>1. history \in Seq(Nat \ {0})
      BY DEF TypeOK
    <2>2. Append(history, c) \in Seq(Nat \ {0})
      BY <1>1, <2>1, AppendProperties
    <2> QED BY <1>4, <2>1, <2>2
  <1> QED BY <1>3, <1>5 DEF TypeOK, KeepBooks, BookStates, timeVars, cycleVars, runVars

LEMMA TypesKept ==
  ASSUME TypeOK, Phases, Reports, Limits, [Next]_vars
  PROVE  TypeOK'
  <1>1. CASE vars' = vars
    BY <1>1 DEF TypeOK, vars, timeVars, cycleVars, runVars, bookVars
  <1> QED BY <1>1, SessionTypes, RunTypes, BookTypes DEF Next, Finished
-----------------------------------------------------------------------------
(* Phases, reports and limits.                                              *)

\* A finished cycle joins the others, and its bookkeeping is queued.
LEMMA FinishFacts ==
  ASSUME TypeOK, NEW hasSummary \in BOOLEAN, NEW error \in CycleErrors \cup {Null},
         FinishCycle(hasSummary, error)
  PROVE  LET k == Len(cycles) + 1 IN
         /\ Len(cycles') = k /\ Cycles' = Cycles \cup {k}
         /\ \A c \in Cycles : cycles'[c] = cycles[c]
         /\ cycles'[k] = [hasSummary |-> hasSummary, error |-> error,
                          startedAt |-> cycle.startedAt, finishedAt |-> now]
         /\ Len(books') = Len(books) + 1
         /\ \A c \in 1 .. Len(books) : books'[c] = books[c]
         /\ books'[Len(books) + 1] = "queued"
  <1> DEFINE new == [hasSummary |-> hasSummary, error |-> error,
                     startedAt |-> cycle.startedAt, finishedAt |-> now]
  <1>1. new \in CycleSummary
    BY DEF TypeOK, CycleSummary
  <1>2. cycles \in Seq(CycleSummary) /\ cycles' = Append(cycles, new)
    BY DEF TypeOK, FinishCycle
  <1>3. books \in Seq(BookStates) /\ books' = Append(books, "queued") /\ "queued" \in BookStates
    BY DEF TypeOK, FinishCycle, BookStates
  <1> HIDE DEF new
  <1>4. /\ Len(cycles) \in Nat /\ Len(cycles') = Len(cycles) + 1
        /\ \A c \in 1 .. Len(cycles) : cycles'[c] = cycles[c]
        /\ cycles'[Len(cycles) + 1] = new
    BY <1>1, <1>2, AppendProperties, LenProperties
  <1>5. /\ Len(books') = Len(books) + 1
        /\ \A c \in 1 .. Len(books) : books'[c] = books[c]
        /\ books'[Len(books) + 1] = "queued"
    BY <1>3, AppendProperties, LenProperties
  <1> QED BY <1>4, <1>5 DEF Cycles, new

Stages == Phases /\ Reports /\ Limits

\* A turn of the scheduler after as many cycles as have been kept.
LEMMA TurnedStages ==
  ASSUME TypeOK, NEW n \in Nat, NEW w, Turned(origin', n, w), origin' \in Nat,
         schedule' = schedule, status' = status, status \notin {"completed", "failed"},
         cycle.number = n, Len(cycles') = n, Len(books') = n, live' = Null,
         stopReason = Null, Limits
  PROVE  Stages'
  <1>1. origin' # Null /\ cycle'.number \in {n, n + 1}
    BY SessionAssumption DEF Turned, Quits, Waits, Begins
  <1>2. CASE Quits(origin', n) \/ Waits(origin', n)
    BY <1>1, <1>2 DEF Stages, Phases, Reports, Limits, InCycle, Quits, Waits
  <1>3. CASE Begins(origin', n)
    <2>1. cycle'.number = n + 1 /\ at' = "building" /\ stopReason' = Null
      BY <1>3 DEF Begins
    <2>2. schedule.maxCycles # Null => n + 1 <= schedule.maxCycles
      BY <1>3, SessionAssumption DEF Begins, TypeOK
    <2> QED BY <1>1, <2>1, <2>2 DEF Stages, Phases, Reports, Limits, InCycle
  <1> QED BY <1>2, <1>3 DEF Turned

LEMMA FinishStages ==
  ASSUME TypeOK, Stages, InCycle, NEW hasSummary \in BOOLEAN,
         NEW error \in CycleErrors \cup {Null}, FinishCycle(hasSummary, error)
  PROVE  Stages'
  <1> DEFINE n == cycle.number
             w == Observed(watch, completed, 0)
  <1>1. /\ n \in Nat /\ n = Len(cycles) + 1 /\ Len(books) = Len(cycles)
        /\ origin \in Nat /\ stopReason = Null /\ status \notin {"completed", "failed"}
    BY DEF TypeOK, Stages, Phases, InCycle
  <1>2. Len(cycles') = n /\ Len(books') = n
    BY <1>1, FinishFacts
  <1>3. live' = Null /\ origin' = origin /\ schedule' = schedule /\ status' = status
    BY DEF FinishCycle, timeVars
  <1>4. CASE IsFatal(error)
    <2>1. at' = "closing" /\ cycle' = cycle
      BY <1>4, FinishTurned DEF Stages
    <2>2. cycles' # <<>>
      BY <1>1, <1>2, EmptySeq
    <2> QED BY <1>1, <1>2, <1>3, <2>1, <2>2, SessionAssumption
            DEF Stages, Phases, Reports, Limits, InCycle
  <1>5. CASE ~IsFatal(error)
    <2>1. Turned(origin, n, w)
      BY <1>5, FinishTurned DEF Stages
    <2> QED BY <1>1, <1>2, <1>3, <2>1, TurnedStages DEF Stages
  <1> QED BY <1>4, <1>5

LEMMA StagesKept ==
  ASSUME TypeOK, Stages, [Next]_vars
  PROVE  Stages'
  <1> USE DEF Stages
  <1>1. CASE vars' = vars
    BY <1>1 DEF Phases, Reports, Limits, InCycle, vars, timeVars, cycleVars, runVars, bookVars
  <1>2. CASE Started
    <2>1. /\ cycle.number = 0 /\ Len(cycles) = 0 /\ Len(books) = 0 /\ live = Null
          /\ stopReason = Null /\ status \notin {"completed", "failed"}
      BY <1>2, EmptySeq DEF Started, Phases, Reports, InCycle
    <2>2. Turned(origin', 0, watch) /\ origin' \in Nat
      BY <1>2, StartedTurned DEF Started, TypeOK
    <2> QED BY <1>2, <2>1, <2>2, TurnedStages DEF Started, bookVars
  <1>3. CASE Wakes \/ SleepAborted
    <2>1. /\ cycle.number \in Nat /\ cycle.number = Len(cycles) /\ Len(books) = Len(cycles)
          /\ live = Null /\ origin \in Nat
          /\ stopReason = Null /\ status \notin {"completed", "failed"}
      BY <1>3 DEF Wakes, SleepAborted, Phases, Reports, InCycle, TypeOK
    <2>2. Turned(origin, cycle.number, watch)
      BY <1>3, WakesTurned, SleepAbortedTurned
    <2> QED BY <1>3, <2>1, <2>2, TurnedStages DEF Wakes, SleepAborted, timeVars, bookVars
  <1>4. CASE CycleEnds \/ BuildFails
    BY <1>4, CycleFinishes, FinishStages
  <1>5. CASE StartFails
    BY <1>5 DEF Phases, Reports, Limits, InCycle, StartFails, timeVars, cycleVars, runVars, bookVars
  <1>6. CASE Built \/ Closed \/ Ends
    <2>1. UNCHANGED <<timeVars, cycleVars, runVars, books>>
      BY <1>6 DEF Built, Closed, Ends, bookVars
    <2>2. Phases'
      BY <1>6, <2>1 DEF Phases, InCycle, Built, Closed, Ends, TypeOK, timeVars, cycleVars
    <2>3. Reports' /\ Limits'
      BY <1>6, <2>1, SessionAssumption
         DEF Reports, Limits, Built, Closed, Ends, timeVars, cycleVars, runVars
    <2> QED BY <2>2, <2>3
  <1>7. CASE RequestStarts \/ RequestEnds \/ RowLost \/ RunEnds
    <2>1. UNCHANGED <<timeVars, cycleVars, status, books>>
      BY <1>7 DEF RequestStarts, RequestEnds, RowLost, RunEnds, bookVars
    <2>2. at = "running" /\ at' \in {"running", "writing"}
      BY <1>7 DEF RequestStarts, RequestEnds, RowLost, RunEnds
    <2>3. Phases' /\ Limits'
      BY <2>1, <2>2 DEF Phases, Limits, InCycle, timeVars, cycleVars
    <2>4. Reports'
      BY <1>7, SessionAssumption
         DEF Reports, TypeOK, RequestStarts, RequestEnds, RowLost, RunEnds
    <2> QED BY <2>3, <2>4
  <1>8. CASE Sample \/ Cancel \/ Tick
    BY <1>8 DEF Phases, Reports, Limits, InCycle, Sample, MaySample, Sampling, Cancel, Tick,
       TypeOK, timeVars, cycleVars, runVars, bookVars
  <1>9. ASSUME NEW c \in Cycles, KeepBooks(c) PROVE Stages'
    <2>1. /\ UNCHANGED <<at, timeVars, cycleVars, runVars, status>>
          /\ \E s : books' = [books EXCEPT ![c] = s]
      BY <1>9 DEF KeepBooks, BookBegins, Appended, ReadBack, Refresh
    <2>2. Len(books') = Len(books)
      <3>1. c \in 1 .. Len(books) /\ books \in Seq(BookStates) /\ books' \in Seq(BookStates)
        BY <1>9, BookTypes DEF TypeOK, Phases, Cycles, BookStates
      <3>2. DOMAIN books' = DOMAIN books
        BY <2>1
      <3> QED BY <3>1, <3>2, LenProperties
    <2> QED BY <2>1, <2>2 DEF Phases, Reports, Limits, InCycle, timeVars, cycleVars, runVars
  <1> QED BY <1>1, <1>2, <1>3, <1>4, <1>5, <1>6, <1>7, <1>8, <1>9
          DEF Next, SessionStep, RunProgress, Finished
-----------------------------------------------------------------------------
(* Reasons to stop, and the schedule.                                       *)

\* Time only makes a deadline more past.
LEMMA DeadlineStaysPast ==
  ASSUME TypeOK, NEW d \in Int, NEW e \in Int, PastDeadline(d), d <= e
  PROVE  PastDeadline(e)
  BY SessionAssumption DEF TypeOK, PastDeadline

\* The reason given by a turn after n cycles is the true one.
LEMMA TurnedReason ==
  ASSUME TypeOK, NEW n \in Nat, NEW w, Turned(origin', n, w), origin' \in Nat,
         stopReason = Null, now' = now, schedule' = schedule, aborted' = aborted,
         Len(cycles') = n, schedule.maxCycles # Null => n <= schedule.maxCycles
  PROVE  /\ stopReason' # "fatal"
         /\ stopReason' = "cancelled" => aborted'
         /\ stopReason' = "max_cycles" => Len(cycles') = schedule'.maxCycles
         /\ stopReason' = "duration" =>
              \/ PastDeadline(now - origin)'
              \/ PastDeadline(Len(cycles) * schedule.intervalMs)'
  <1>1. CASE Quits(origin', n)
    <2>1. CASE stopReason' = "cancelled" /\ aborted
      BY <2>1
    <2>2. CASE stopReason' = "max_cycles" /\ schedule.maxCycles # Null /\ n >= schedule.maxCycles
      BY <2>2, SessionAssumption DEF TypeOK
    <2>3. CASE stopReason' = "duration" /\ PastDeadline(Due(origin', n) - origin')
      <3>1. schedule.intervalMs \in Nat
        BY SessionAssumption DEF TypeOK
      <3>2. n * schedule.intervalMs \in Nat
        BY <3>1
      <3>3. Due(origin', n) - origin' = n * schedule.intervalMs
        BY <3>2 DEF Due
      <3> QED BY <2>3, <3>3 DEF PastDeadline
    <2>4. CASE stopReason' = "duration" /\ PastDeadline(now - origin')
      BY <2>4 DEF PastDeadline
    <2> QED BY <1>1, <2>1, <2>2, <2>3, <2>4 DEF Quits
  <1>2. CASE Waits(origin', n) \/ Begins(origin', n)
    BY <1>2, SessionAssumption DEF Waits, Begins, StopReasons
  <1> QED BY <1>1, <1>2 DEF Turned
\* Under an action that leaves the cycles and the reason alone.
LEMMA ReasonStands ==
  ASSUME TypeOK, Stages, StoppedForItsReason, UNCHANGED <<timeVars, cycleVars>>,
         aborted => aborted', now' \in Nat, now <= now'
  PROVE  StoppedForItsReason'
  <1>1. stopReason = "duration" /\ PastDeadline(now - origin) => PastDeadline(now' - origin)
    <2> HAVE stopReason = "duration" /\ PastDeadline(now - origin)
    <2>1. origin \in Nat
      BY SessionAssumption DEF Stages, Phases, TypeOK, StopReasons
    <2> QED BY <2>1, DeadlineStaysPast DEF TypeOK
  <1> QED BY <1>1 DEF StoppedForItsReason, PastDeadline, Cycles, timeVars, cycleVars

\* While there is no reason yet, no cycle has been lost to the output.
LEMMA NothingLost ==
  ASSUME StoppedForItsReason, stopReason = Null, NEW c \in Cycles
  PROVE  cycles[c].error # "output_error"
  <1>1. stopReason # "fatal"
    BY SessionAssumption DEF StopReasons
  <1> QED BY <1>1 DEF StoppedForItsReason

LEMMA FinishReason ==
  ASSUME TypeOK, Stages, StoppedForItsReason, InCycle, NEW hasSummary \in BOOLEAN,
         NEW error \in CycleErrors \cup {Null}, FinishCycle(hasSummary, error)
  PROVE  StoppedForItsReason'
  <1> DEFINE n == cycle.number
             w == Observed(watch, completed, 0)
             lost == {c \in Cycles : cycles[c].error = "output_error"}
  <1>1. /\ n \in Nat /\ n = Len(cycles) + 1 /\ origin \in Nat /\ stopReason = Null
        /\ schedule.maxCycles # Null => n <= schedule.maxCycles
    BY DEF TypeOK, Stages, Phases, Limits, InCycle
  <1>2. Len(cycles') = n /\ Cycles' = Cycles \cup {n} /\ cycles'[n].error = error
    <2>1. cycles'[Len(cycles) + 1]
            = [hasSummary |-> hasSummary, error |-> error,
               startedAt |-> cycle.startedAt, finishedAt |-> now]
      BY FinishFacts
    <2> QED BY <1>1, <2>1, FinishFacts
  <1>3. \A c \in Cycles' : cycles'[c].error = "output_error" <=> c = n /\ IsFatal(error)
    <2>1. \A c \in Cycles : cycles[c].error # "output_error"
      BY <1>1, NothingLost
    <2>2. \A c \in Cycles : cycles'[c] = cycles[c]
      BY FinishFacts
    <2>3. n \notin Cycles
      BY <1>1 DEF Cycles
    <2> QED BY <1>2, <2>1, <2>2, <2>3 DEF IsFatal
  <1>4. lost' = IF IsFatal(error) THEN {n} ELSE {}
    BY <1>2, <1>3
  <1>5. UNCHANGED <<now, aborted, schedule, origin>>
    BY DEF FinishCycle, timeVars
  <1> HIDE DEF lost
  <1>6. CASE IsFatal(error)
    <2>1. stopReason' = "fatal"
      BY <1>6, FinishTurned DEF Stages
    <2> QED BY <1>2, <1>4, <1>6, <2>1 DEF StoppedForItsReason, lost
  <1>7. CASE ~IsFatal(error)
    <2>1. Turned(origin, n, w)
      BY <1>7, FinishTurned DEF Stages
    <2>2. /\ stopReason' # "fatal"
          /\ stopReason' = "cancelled" => aborted'
          /\ stopReason' = "max_cycles" => Len(cycles') = schedule'.maxCycles
          /\ stopReason' = "duration" =>
               \/ PastDeadline(now - origin)'
               \/ PastDeadline(Len(cycles) * schedule.intervalMs)'
      BY <1>1, <1>2, <1>5, <2>1, TurnedReason
    <2> QED BY <1>4, <1>7, <2>2 DEF StoppedForItsReason, lost
  <1> QED BY <1>6, <1>7

LEMMA ReasonKept ==
  ASSUME TypeOK, TypeOK', Stages, StoppedForItsReason, [Next]_vars
  PROVE  StoppedForItsReason'
  <1>1. CASE vars' = vars
    BY <1>1, ReasonStands DEF vars, TypeOK
  <1>2. CASE Started \/ Wakes \/ SleepAborted
    <2> DEFINE n == Len(cycles)
    <2>1. n \in Nat /\ n = cycle.number /\ stopReason = Null
      BY <1>2, LenProperties
         DEF TypeOK, Stages, Phases, InCycle, Started, Wakes, SleepAborted
    <2>2. UNCHANGED <<cycles, now, schedule, aborted>> /\ origin' \in Nat
      BY <1>2 DEF TypeOK, Stages, Phases, Started, Wakes, SleepAborted, timeVars
    <2>3. Turned(origin', n, watch)
      <3>1. CASE Started
        BY <3>1, StartedTurned, EmptySeq DEF Started, Stages, Phases
      <3>2. CASE Wakes \/ SleepAborted
        BY <3>2, <2>1, WakesTurned, SleepAbortedTurned
           DEF Stages, Wakes, SleepAborted, timeVars
      <3> QED BY <1>2, <3>1, <3>2
    <2>4. schedule.maxCycles # Null => n <= schedule.maxCycles
      BY <2>1 DEF Stages, Limits
    <2>5. /\ stopReason' # "fatal"
          /\ stopReason' = "cancelled" => aborted'
          /\ stopReason' = "max_cycles" => Len(cycles') = schedule'.maxCycles
          /\ stopReason' = "duration" =>
               \/ PastDeadline(now - origin)'
               \/ PastDeadline(Len(cycles) * schedule.intervalMs)'
      BY <2>1, <2>2, <2>3, <2>4, TurnedReason
    <2>6. \A c \in Cycles' : cycles'[c].error # "output_error"
      BY <2>1, <2>2, NothingLost DEF Cycles
    <2> QED BY <2>5, <2>6 DEF StoppedForItsReason
  <1>3. CASE CycleEnds \/ BuildFails
    BY <1>3, CycleFinishes, FinishReason
  <1>4. CASE StartFails \/ Built \/ Closed \/ Ends \/ RunProgress \/ RowLost \/ Sample
    <2>1. UNCHANGED <<now, aborted, timeVars, cycleVars>>
      BY <1>4 DEF StartFails, Built, Closed, Ends, RunProgress, RequestStarts, RequestEnds,
         RunEnds, RowLost, Sample
    <2> QED BY <2>1, ReasonStands DEF TypeOK
  <1>5. CASE Cancel \/ Tick
    <2>1. now \in Nat
      BY DEF TypeOK
    <2>2. UNCHANGED <<timeVars, cycleVars>> /\ (aborted => aborted') /\ now' \in {now, now + 1}
      BY <1>5 DEF Cancel, Tick
    <2>3. now' \in Nat /\ now <= now'
      BY <2>1, <2>2
    <2> QED BY <2>2, <2>3, ReasonStands
  <1>6. ASSUME NEW c \in Cycles, KeepBooks(c) PROVE StoppedForItsReason'
    <2>1. UNCHANGED <<now, aborted, timeVars, cycleVars>>
      BY <1>6 DEF KeepBooks
    <2>2. now' \in Nat /\ now <= now'
      BY <2>1 DEF TypeOK
    <2> QED BY <2>1, <2>2, ReasonStands
  <1> QED BY <1>1, <1>2, <1>3, <1>4, <1>5, <1>6 DEF Next, SessionStep, Finished

LEMMA CycleTypes ==
  ASSUME TypeOK, NEW c \in Cycles
  PROVE  cycles[c] \in CycleSummary /\ cycles[c].startedAt \in Nat /\ cycles[c].finishedAt \in Nat
  <1>1. cycles[c] \in CycleSummary
    BY ElementOfSeq DEF TypeOK, Cycles
  <1> QED BY <1>1 DEF CycleSummary

\* Between states that agree on the cycles, time may pass.
LEMMA TimingStands ==
  ASSUME TypeOK, Timing, UNCHANGED <<timeVars, cycleVars>>, InCycle' => InCycle,
         now' \in Nat, now <= now'
  PROVE  Timing'
  <1>1. \A c \in Cycles : cycles[c].finishedAt \in Nat
    BY CycleTypes
  <1>2. PastCycles'
    <2>1. now \in Nat /\ \A c \in Cycles : cycles[c].finishedAt <= now
      BY DEF Timing, PastCycles, TypeOK
    <2>2. \A c \in Cycles : cycles[c].finishedAt <= now'
      BY <1>1, <2>1
    <2> QED BY <2>2 DEF Timing, PastCycles, PastDeadline, Cycles, timeVars, cycleVars
  <1>3. ThisCycle'
    BY DEF Timing, ThisCycle, PastDeadline, Due, TypeOK, timeVars, cycleVars
  <1>4. (origin # Null => origin <= now)'
    BY SessionAssumption DEF Timing, TypeOK, timeVars
  <1> QED BY <1>2, <1>3, <1>4 DEF Timing

\* A turn begins a cycle only when it is due, and after the last one kept.
LEMMA TurnedTiming ==
  ASSUME TypeOK, NEW n \in Nat, NEW w, Turned(origin', n, w), origin' \in Nat, origin' <= now,
         UNCHANGED <<now, schedule>>, Len(cycles') = n, cycles' \in Seq(CycleSummary),
         PastCycles'
  PROVE  Timing'
  <1>1. CASE Quits(origin', n) \/ Waits(origin', n)
    BY <1>1 DEF Quits, Waits, Timing, ThisCycle, InCycle
  <1>2. CASE Begins(origin', n)
    <2>1. /\ cycle'.scheduledAt = Due(origin', n) /\ cycle'.startedAt = now
          /\ Due(origin', n) <= now /\ ~PastDeadline(now - origin')
      BY <1>2 DEF Begins
    <2>2. Due(origin', n) = Due(origin, Len(cycles))'
      BY DEF Due
    <2>3. cycles' # <<>> => cycles'[Len(cycles')].finishedAt <= now'
      BY EmptySeq DEF PastCycles, Cycles
    <2>4. ~PastDeadline(cycle.startedAt - origin)'
      BY <2>1 DEF PastDeadline
    <2>5. ThisCycle'
      BY <2>1, <2>2, <2>3, <2>4 DEF ThisCycle, TypeOK
    <2> QED BY <2>5 DEF Timing
  <1> QED BY <1>1, <1>2 DEF Turned

LEMMA FinishTiming ==
  ASSUME TypeOK, Stages, Timing, InCycle, NEW hasSummary \in BOOLEAN,
         NEW error \in CycleErrors \cup {Null}, FinishCycle(hasSummary, error)
  PROVE  Timing'
  <1> DEFINE n == cycle.number
             w == Observed(watch, completed, 0)
  <1>1. /\ n \in Nat /\ n = Len(cycles) + 1 /\ origin \in Nat /\ origin <= now
        /\ Len(cycles) \in Nat
    BY LenProperties, SessionAssumption DEF TypeOK, Stages, Phases, Timing, InCycle
  <1>2. UNCHANGED <<now, schedule, origin>> /\ now \in Nat
    BY DEF FinishCycle, timeVars, TypeOK
  <1>3. Len(cycles') = n /\ Cycles' = Cycles \cup {n} /\ \A c \in Cycles : cycles'[c] = cycles[c]
    BY <1>1, FinishFacts
  <1>4. cycles'[n].startedAt = cycle.startedAt /\ cycles'[n].finishedAt = now
    <2>1. cycles'[Len(cycles) + 1]
            = [hasSummary |-> hasSummary, error |-> error,
               startedAt |-> cycle.startedAt, finishedAt |-> now]
      BY FinishFacts
    <2> QED BY <1>1, <2>1
  <1>5. PastCycles'
    <2> SUFFICES ASSUME NEW c \in Cycles'
                 PROVE  /\ cycles'[c].startedAt <= cycles'[c].finishedAt
                        /\ cycles'[c].finishedAt <= now
                        /\ origin + (c - 1) * schedule.intervalMs <= cycles'[c].startedAt
                        /\ ~PastDeadline(cycles'[c].startedAt - origin)
                        /\ c > 1 => cycles'[c - 1].finishedAt <= cycles'[c].startedAt
      BY <1>2 DEF PastCycles, PastDeadline
    <2>1. CASE c \in Cycles
      <3>1. c > 1 => c - 1 \in Cycles
        BY <2>1, <1>1 DEF Cycles
      <3> QED BY <1>3, <2>1, <3>1 DEF Timing, PastCycles
    <2>2. CASE c = n
      <3>1. origin + (n - 1) * schedule.intervalMs <= cycle.startedAt
        <4>1. n - 1 = Len(cycles)
          BY <1>1
        <4>2. Due(origin, Len(cycles)) <= cycle.startedAt
          BY DEF Timing, ThisCycle
        <4> QED BY <4>1, <4>2 DEF Due
      <3>2. n > 1 => cycles'[n - 1].finishedAt <= cycle.startedAt
        <4> HAVE n > 1
        <4>1. n - 1 = Len(cycles) /\ Len(cycles) \in Cycles /\ cycles # <<>>
          BY <1>1, EmptySeq DEF Cycles
        <4> QED BY <4>1, <1>3 DEF Timing, ThisCycle
      <3>3. cycle.startedAt <= now /\ now <= now /\ ~PastDeadline(cycle.startedAt - origin)
        BY <1>2 DEF Timing, ThisCycle
      <3> QED BY <1>4, <2>2, <3>1, <3>2, <3>3
    <2> QED BY <1>3, <2>1, <2>2
  <1>6. TypeOK'
    BY FinishTypes DEF Stages
  <1>7. CASE IsFatal(error)
    <2>1. at' = "closing"
      BY <1>7, FinishTurned DEF Stages
    <2> QED BY <1>1, <1>2, <1>5, <2>1 DEF Timing, ThisCycle, InCycle
  <1>8. CASE ~IsFatal(error)
    <2>1. Turned(origin, n, w)
      BY <1>8, FinishTurned DEF Stages
    <2> QED BY <1>1, <1>2, <1>3, <1>5, <1>6, <2>1, TurnedTiming DEF TypeOK
  <1> QED BY <1>7, <1>8
LEMMA TimingKept ==
  ASSUME TypeOK, TypeOK', Stages, Timing, [Next]_vars
  PROVE  Timing'
  <1>1. CASE vars' = vars
    BY <1>1, TimingStands DEF vars, TypeOK, InCycle
  <1>2. CASE Started
    <2>1. Cycles' = {} /\ Len(cycles') = 0
      BY <1>2, EmptySeq DEF Stages, Phases, Started, Cycles
    <2>2. PastCycles'
      BY <2>1 DEF PastCycles
    <2>3. UNCHANGED <<now, schedule>> /\ origin' = now /\ now \in Nat
      BY <1>2 DEF Started, TypeOK
    <2> QED BY <1>2, <2>1, <2>2, <2>3, StartedTurned, TurnedTiming DEF TypeOK
  <1>3. CASE Wakes \/ SleepAborted
    <2> DEFINE n == cycle.number
    <2>1. /\ n \in Nat /\ n = Len(cycles) /\ origin \in Nat /\ origin <= now
      BY <1>3, SessionAssumption
         DEF TypeOK, Stages, Phases, Timing, InCycle, Wakes, SleepAborted
    <2>2. UNCHANGED <<now, schedule, origin, cycles>>
      BY <1>3 DEF Wakes, SleepAborted, timeVars
    <2>3. PastCycles'
      BY <2>2 DEF Timing, PastCycles, PastDeadline, Cycles
    <2>4. Turned(origin, n, watch)
      BY <1>3, WakesTurned, SleepAbortedTurned DEF Stages
    <2> QED BY <2>1, <2>2, <2>3, <2>4, TurnedTiming DEF TypeOK
  <1>4. CASE CycleEnds \/ BuildFails
    BY <1>4, CycleFinishes, FinishTiming
  <1>5. CASE StartFails \/ Built \/ Closed \/ Ends \/ RunProgress \/ RowLost \/ Sample
    <2>1. UNCHANGED <<now, timeVars, cycleVars>> /\ (InCycle' => InCycle)
      BY <1>5 DEF InCycle, StartFails, Built, Closed, Ends, RunProgress, RequestStarts,
         RequestEnds, RunEnds, RowLost, Sample
    <2> QED BY <2>1, TimingStands DEF TypeOK
  <1>6. CASE Cancel \/ Tick
    <2>1. UNCHANGED <<at, timeVars, cycleVars>> /\ now' \in {now, now + 1}
      BY <1>6 DEF Cancel, Tick
    <2>2. now \in Nat
      BY DEF TypeOK
    <2>3. now' \in Nat /\ now <= now'
      BY <2>1, <2>2
    <2> QED BY <2>1, <2>3, TimingStands DEF InCycle
  <1>7. ASSUME NEW c \in Cycles, KeepBooks(c) PROVE Timing'
    BY <1>7, TimingStands DEF KeepBooks, TypeOK, InCycle
  <1> QED BY <1>1, <1>2, <1>3, <1>4, <1>5, <1>6, <1>7 DEF Next, SessionStep, Finished

LEMMA TimingImplies ==
  ASSUME TypeOK, Stages, Timing
  PROVE  ScheduleKept
  <1>1. InCycle => cycle.scheduledAt = origin + (cycle.number - 1) * schedule.intervalMs
    <2> HAVE InCycle
    <2>1. cycle.number - 1 = Len(cycles)
      BY LenProperties DEF TypeOK, Stages, Phases
    <2> QED BY <2>1 DEF Timing, ThisCycle, Due
  <1>2. \A c \in Cycles : cycles[c].startedAt \in Nat /\ (c > 1 => cycles[c - 1].finishedAt \in Nat)
    <2> TAKE c \in Cycles
    <2>1. c > 1 => c - 1 \in Cycles
      BY LenProperties DEF TypeOK, Cycles
    <2> QED BY <2>1, CycleTypes
  <1>3. \A c \in Cycles :
          /\ cycles[c].startedAt >= origin + (c - 1) * schedule.intervalMs
          /\ ~PastDeadline(cycles[c].startedAt - origin)
          /\ c > 1 => cycles[c].startedAt >= cycles[c - 1].finishedAt
    BY <1>2 DEF Timing, PastCycles
  <1> QED BY <1>1, <1>3 DEF ScheduleKept
-----------------------------------------------------------------------------
(* Stalls.                                                                  *)

\* What holds of each stall episode x.
EpisodeOK(x) ==
  /\ x.startedAt <= now /\ x.cycle <= cycle.number
  /\ x.recoveredAt # Null => x.startedAt <= x.recoveredAt /\ x.recoveredAt <= now
  /\ x.recoveredAt = Null => InCycle /\ x.cycle = cycle.number
  /\ InCycle /\ x.cycle = cycle.number => cycle.startedAt <= x.startedAt
  /\ x.cycle \in Cycles =>
       /\ cycles[x.cycle].startedAt <= x.startedAt
       /\ x.recoveredAt <= cycles[x.cycle].finishedAt

\* They follow each other, and only the last may be open.
Chained(e) ==
  \A i \in 1 .. Len(e) - 1 :
    e[i].recoveredAt # Null /\ e[i].recoveredAt <= e[i + 1].startedAt

Stalls ==
  LET e == watch.episodes IN
  /\ watch.progressAt <= now /\ (InCycle => cycle.startedAt <= watch.progressAt)
  /\ StallOpen(watch) => at \in {"running", "writing"} /\ live # Null
  /\ \A i \in 1 .. Len(e) : EpisodeOK(e[i])
  /\ Chained(e)
  /\ at \in {"building", "running"} =>
       \A i \in 1 .. Len(e) : e[i].recoveredAt # Null => e[i].recoveredAt <= watch.progressAt

LEMMA EpisodeTypes ==
  ASSUME NEW w \in Watch, NEW i \in 1 .. Len(w.episodes)
  PROVE  /\ w.episodes[i] \in Episode
         /\ w.episodes[i].startedAt \in Nat /\ w.episodes[i].cycle \in Nat \ {0}
         /\ w.episodes[i].recoveredAt \in Nat \cup {Null}
  <1>1. w.episodes \in Seq(Episode)
    BY DEF Watch
  <1>2. w.episodes[i] \in Episode
    BY <1>1, ElementOfSeq
  <1> QED BY <1>2 DEF Episode

\* The property follows.
LEMMA StallsImply ==
  ASSUME TypeOK, Stages, Stalls
  PROVE  StallsSettled
  <1> DEFINE e == watch.episodes
  <1>1. e \in Seq(Episode) /\ Len(e) \in Nat /\ DOMAIN e = 1 .. Len(e)
    BY LenProperties DEF TypeOK, Watch
  <1>2. StallOpen(watch) => InCycle /\ e[Len(e)].cycle = cycle.number
    <2> HAVE StallOpen(watch)
    <2>1. Len(e) \in 1 .. Len(e)
      BY <1>1, EmptySeq DEF StallOpen
    <2> QED BY <2>1 DEF Stalls, EpisodeOK, StallOpen
  <1>3. \A i \in 1 .. Len(e) - 1 :
          e[i].recoveredAt # Null /\ e[i].recoveredAt <= e[i + 1].startedAt
    BY DEF Stalls, Chained
  <1>4. \A i \in DOMAIN e : e[i].cycle \in Cycles =>
          /\ cycles[e[i].cycle].startedAt <= e[i].startedAt
          /\ e[i].recoveredAt <= cycles[e[i].cycle].finishedAt
    BY <1>1 DEF Stalls, EpisodeOK
  <1> QED BY <1>2, <1>3, <1>4 DEF StallsSettled

\* An episode stays right while the same cycle, or none, is under way.
LEMMA EpisodeStands ==
  ASSUME TypeOK, NEW x \in Episode, EpisodeOK(x), UNCHANGED <<cycle, cycles>>,
         x.recoveredAt = Null => InCycle', InCycle' => InCycle, now' \in Nat, now <= now'
  PROVE  EpisodeOK(x)'
  <1>1. x.startedAt \in Nat /\ (x.recoveredAt # Null => x.recoveredAt \in Nat)
    BY DEF Episode
  <1> QED BY <1>1 DEF EpisodeOK, TypeOK, Cycles

\* Closing the open one, which belongs to the cycle under way, keeps it right.
LEMMA EpisodeCloses ==
  ASSUME TypeOK, Stages, NEW x \in Episode, EpisodeOK(x), x.recoveredAt = Null,
         NEW y \in Episode, y.cycle = x.cycle, y.startedAt = x.startedAt, y.recoveredAt = now
  PROVE  EpisodeOK(y)
  <1>1. InCycle /\ x.cycle \notin Cycles /\ now # Null /\ now <= now
    BY LenProperties, SessionAssumption DEF EpisodeOK, Stages, Phases, Cycles, TypeOK
  <1> QED BY <1>1 DEF EpisodeOK

\* A watchdog that has closed its stall, if it had one, in the same state.
LEMMA RecoveredStalls ==
  ASSUME TypeOK, Stages, Stalls
  PROVE  LET r == Recovered(watch) IN
         /\ r \in Watch /\ ~StallOpen(r) /\ Chained(r.episodes)
         /\ \A i \in 1 .. Len(r.episodes) :
              EpisodeOK(r.episodes[i]) /\ r.episodes[i].recoveredAt # Null
  <1> DEFINE r == Recovered(watch)
             e == watch.episodes
  <1>1. watch \in Watch /\ now \in Nat /\ Len(e) \in Nat
    BY LenProperties DEF TypeOK, Watch
  <1>2. /\ r \in Watch /\ ~StallOpen(r) /\ Len(r.episodes) = Len(e)
        /\ \A i \in 1 .. Len(e) :
             /\ r.episodes[i].cycle = e[i].cycle
             /\ r.episodes[i].startedAt = e[i].startedAt
             /\ r.episodes[i].recoveredAt =
                  IF i = Len(e) /\ e[i].recoveredAt = Null THEN now ELSE e[i].recoveredAt
    BY <1>1, RecoveredFacts
  <1>3. \A i \in 1 .. Len(e) : e[i].recoveredAt = Null => i = Len(e)
    BY <1>1 DEF Stalls, Chained
  <1>4. now # Null
    BY <1>1, SessionAssumption
  <1> HIDE DEF r
  <1>5. Chained(r.episodes)
    <2> SUFFICES ASSUME NEW i \in 1 .. Len(e) - 1
                 PROVE  /\ r.episodes[i].recoveredAt # Null
                        /\ r.episodes[i].recoveredAt <= r.episodes[i + 1].startedAt
      BY <1>2 DEF Chained
    <2>1. i \in 1 .. Len(e) /\ i + 1 \in 1 .. Len(e) /\ i # Len(e)
      BY <1>1
    <2> QED BY <1>2, <2>1 DEF Stalls, Chained
  <1>6. ASSUME NEW i \in 1 .. Len(r.episodes)
        PROVE  EpisodeOK(r.episodes[i]) /\ r.episodes[i].recoveredAt # Null
    <2>1. i \in 1 .. Len(e) /\ r.episodes[i] \in Episode /\ e[i] \in Episode /\ EpisodeOK(e[i])
      BY <1>1, <1>2, EpisodeTypes DEF Stalls
    <2>2. CASE e[i].recoveredAt = Null
      BY <1>2, <1>3, <1>4, <2>1, <2>2, EpisodeCloses
    <2>3. CASE e[i].recoveredAt # Null
      BY <1>2, <2>1, <2>3 DEF EpisodeOK
    <2> QED BY <2>2, <2>3
  <1> QED BY <1>2, <1>5, <1>6 DEF r
\* In the same cycle and phase, the watchdog's state being the same.
LEMMA StallsStand ==
  ASSUME TypeOK, Stalls, UNCHANGED <<watch, cycle, cycles>>, now' \in Nat, now <= now',
         InCycle' => InCycle, StallOpen(watch) => at' \in {"running", "writing"} /\ live' # Null,
         at' \in {"building", "running"} => at \in {"building", "running"}
  PROVE  Stalls'
  <1> DEFINE e == watch.episodes
  <1>1. watch \in Watch /\ now \in Nat /\ watch.progressAt \in Nat /\ Len(e) \in Nat
    BY LenProperties DEF TypeOK, Watch
  <1>2. ASSUME NEW i \in 1 .. Len(e), e[i].recoveredAt = Null PROVE InCycle'
    <2>1. i = Len(e)
      BY <1>1, <1>2 DEF Stalls, Chained
    <2>2. StallOpen(watch)
      BY <1>1, <1>2, <2>1 DEF StallOpen
    <2> QED BY <2>2 DEF InCycle
  <1>3. \A i \in 1 .. Len(e) : EpisodeOK(e[i])'
    <2> TAKE i \in 1 .. Len(e)
    <2>1. e[i] \in Episode /\ EpisodeOK(e[i])
      BY <1>1, EpisodeTypes DEF Stalls
    <2>2. PICK x \in Episode : x = e[i]
      BY <2>1
    <2>3. EpisodeOK(x)'
      BY <1>2, <2>1, <2>2, EpisodeStands
    <2> QED BY <2>2, <2>3 DEF EpisodeOK
  <1>4. watch.progressAt <= now'
    BY <1>1 DEF Stalls
  <1> QED BY <1>3, <1>4 DEF Stalls, StallOpen, Chained

\* A look of the watchdog at a moment of the cycle.
LEMMA LookStalls ==
  ASSUME TypeOK, Stages, Timing, Stalls, NEW done \in Nat, watch' = Observed(watch, done, Reported),
         UNCHANGED <<now, at, cycle, cycles>>,
         live # Null => live' # Null
  PROVE  Stalls'
  <1> DEFINE r == Recovered(watch)
             e == watch.episodes
  <1>1. /\ watch \in Watch /\ now \in Nat /\ now <= now /\ Len(e) \in Nat /\ e \in Seq(Episode)
        /\ watch.progressAt \in Nat /\ r.progressAt = watch.progressAt
    BY LenProperties, RecoveredFacts DEF TypeOK, Watch
  <1>2. /\ r \in Watch /\ ~StallOpen(r) /\ Chained(r.episodes)
        /\ \A i \in 1 .. Len(r.episodes) :
             EpisodeOK(r.episodes[i]) /\ r.episodes[i].recoveredAt # Null
    BY RecoveredStalls
  <1>3. ASSUME NEW x PROVE EpisodeOK(x)' <=> EpisodeOK(x)
    BY DEF EpisodeOK, InCycle, Cycles
  <1>4. InCycle => cycle.startedAt <= now
    BY DEF Timing, ThisCycle
  <1> HIDE DEF r
  <1>5. CASE done # watch.seen
    <2>1. watch' = [r EXCEPT !.seen = done, !.progressAt = now]
      BY <1>5 DEF Observed, r
    <2>2. watch'.episodes = r.episodes /\ watch'.progressAt = now
      BY <1>2, <2>1 DEF Watch
    <2>3. \A i \in 1 .. Len(r.episodes) : r.episodes[i].recoveredAt <= now
      BY <1>2 DEF EpisodeOK
    <2> QED BY <1>1, <1>2, <1>3, <1>4, <2>2, <2>3 DEF Stalls, StallOpen, Chained, InCycle
  <1>6. CASE done = watch.seen /\ Reported = 0
    <2>1. watch' = r
      BY <1>6 DEF Observed, r
    <2>2. CASE at \in {"building", "running"}
      <3>1. live = Null
        BY <1>6, <2>2, SessionAssumption DEF Reported, Stages, Reports, TypeOK
      <3>2. r = watch
        BY <3>1 DEF Stalls, Recovered, r
      <3> QED BY <1>2, <1>3, <2>1, <3>2 DEF Stalls, StallOpen, Chained, InCycle
    <2>3. CASE at \notin {"building", "running"}
      BY <1>1, <1>2, <1>3, <2>1, <2>3 DEF Stalls, StallOpen, Chained, InCycle
    <2> QED BY <2>2, <2>3
  <1>7. CASE done = watch.seen /\ Reported # 0 /\ ~StallOpen(watch) /\ now - watch.progressAt >= StallMs
    <2> DEFINE new == [cycle |-> cycle.number, startedAt |-> watch.progressAt, recoveredAt |-> Null]
               f == Append(e, new)
    <2>1. at = "running" /\ InCycle /\ live # Null /\ cycle.number = Len(cycles) + 1
      BY <1>7, SessionAssumption DEF Reported, Stages, Phases, Reports, InCycle, TypeOK
    <2>2. new \in Episode /\ EpisodeOK(new)
      <3>1. cycle.number \in Nat /\ cycle.number # 0 /\ cycle.number \notin Cycles
        BY <2>1, LenProperties DEF TypeOK, Cycles
      <3> QED BY <1>1, <2>1, <3>1 DEF Episode, EpisodeOK, Stalls
    <2>3. watch' = [watch EXCEPT !.episodes = f]
      BY <1>7 DEF Observed
    <2> HIDE DEF new
    <2>4. /\ Len(f) = Len(e) + 1 /\ f[Len(e) + 1] = new
          /\ \A i \in 1 .. Len(e) : f[i] = e[i]
      BY <1>1, <2>2, AppendProperties
    <2>5. watch'.episodes = f /\ watch'.progressAt = watch.progressAt
      BY <1>1, <2>3 DEF Watch
    <2> HIDE DEF f
    <2>6. \A i \in 1 .. Len(f) : i \in 1 .. Len(e) \/ i = Len(e) + 1
      BY <1>1, <2>4
    <2>7. \A i \in 1 .. Len(f) : EpisodeOK(f[i])
      <3>1. \A i \in 1 .. Len(e) : EpisodeOK(e[i])
        BY DEF Stalls
      <3> QED BY <2>2, <2>4, <2>6, <3>1
    <2>8. r = watch
      BY <1>7 DEF Recovered, r
    <2>9. Chained(f)
      <3> SUFFICES ASSUME NEW i \in 1 .. Len(f) - 1
                   PROVE  f[i].recoveredAt # Null /\ f[i].recoveredAt <= f[i + 1].startedAt
        BY DEF Chained
      <3>1. i \in 1 .. Len(e) /\ f[i] = e[i] /\ e[i].recoveredAt # Null
        BY <1>1, <1>2, <2>4, <2>8
      <3>2. CASE i = Len(e)
        <4>1. e[i].recoveredAt <= watch.progressAt
          BY <2>1, <3>1 DEF Stalls
        <4>2. f[i + 1].startedAt = watch.progressAt
          BY <2>4, <3>2 DEF new
        <4> QED BY <3>1, <4>1, <4>2
      <3>3. CASE i # Len(e)
        <4>1. i \in 1 .. Len(e) - 1 /\ f[i + 1] = e[i + 1]
          BY <1>1, <2>4, <3>1, <3>3
        <4> QED BY <3>1, <4>1 DEF Stalls, Chained
      <3> QED BY <3>2, <3>3
    <2>10. \A i \in 1 .. Len(f) : f[i].recoveredAt # Null => f[i].recoveredAt <= watch.progressAt
      <3>1. \A i \in 1 .. Len(e) : e[i].recoveredAt # Null => e[i].recoveredAt <= watch.progressAt
        BY <2>1 DEF Stalls
      <3>2. new.recoveredAt = Null
        BY DEF new
      <3> QED BY <2>4, <2>6, <3>1, <3>2
    <2> QED BY <1>1, <1>3, <2>1, <2>5, <2>7, <2>9, <2>10 DEF Stalls, StallOpen, InCycle, Chained
  <1>8. CASE /\ done = watch.seen /\ Reported # 0
             /\ ~(~StallOpen(watch) /\ now - watch.progressAt >= StallMs)
    <2>1. watch' = watch
      BY <1>8 DEF Observed
    <2> QED BY <1>1, <2>1, StallsStand DEF InCycle, Stalls
  <1> QED BY <1>5, <1>6, <1>7, <1>8
\* A turn of the scheduler, or the end, with every stall closed.
LEMMA TurnedStalls ==
  ASSUME TypeOK, NEW o, NEW n \in Nat, NEW w \in Watch, now' = now,
         Turned(o, n, w) \/ (at' = "closing" /\ cycle' = cycle /\ watch' = w),
         Len(cycles') = n, cycle.number = n, w.progressAt <= now, ~StallOpen(w),
         Chained(w.episodes),
         \A i \in 1 .. Len(w.episodes) :
           LET x == w.episodes[i] IN
           /\ x.recoveredAt # Null /\ x.startedAt <= x.recoveredAt /\ x.recoveredAt <= now
           /\ x.startedAt <= now /\ x.cycle \in Cycles'
           /\ cycles'[x.cycle].startedAt <= x.startedAt
           /\ x.recoveredAt <= cycles'[x.cycle].finishedAt
  PROVE  Stalls'
  <1>1. watch'.episodes = w.episodes /\ watch'.progressAt \in {w.progressAt, now} /\ now <= now
    <2>1. now \in Nat
      BY DEF TypeOK
    <2>2. watch' = w \/ watch' = [w EXCEPT !.progressAt = now]
      BY DEF Turned
    <2> QED BY <2>1, <2>2 DEF Watch
  <1>2. /\ cycle'.number \in {n, n + 1} /\ (InCycle' => cycle'.number = n + 1)
        /\ InCycle' => cycle'.startedAt = now /\ watch'.progressAt = now
    BY DEF Turned, Quits, Waits, Begins, InCycle, Watch
  <1>3. at' \in {"building", "running"} => InCycle'
    BY DEF InCycle
  <1>4. \A i \in 1 .. Len(w.episodes) : EpisodeOK(w.episodes[i])'
    <2> TAKE i \in 1 .. Len(w.episodes)
    <2> DEFINE x == w.episodes[i]
    <2>1. x.cycle \in 1 .. n /\ x.cycle <= cycle'.number /\ (InCycle' => x.cycle # cycle'.number)
      BY <1>2 DEF Cycles
    <2> QED BY <2>1 DEF EpisodeOK
  <1> QED BY <1>1, <1>2, <1>3, <1>4 DEF Stalls, StallOpen, Chained

LEMMA FinishStalls ==
  ASSUME TypeOK, Stages, Timing, Stalls, InCycle, NEW hasSummary \in BOOLEAN,
         NEW error \in CycleErrors \cup {Null}, FinishCycle(hasSummary, error)
  PROVE  Stalls'
  <1> DEFINE n == cycle.number
             r == Recovered(watch)
             w == Observed(watch, completed, 0)
  <1>1. /\ n \in Nat /\ n = Len(cycles) + 1 /\ n \notin Cycles
        /\ watch \in Watch /\ now \in Nat /\ completed \in Nat /\ now' = now /\ now <= now
        /\ \A c \in 1 .. n : c \in Cycles \/ c = n
    BY LenProperties DEF TypeOK, Stages, Phases, InCycle, Cycles, FinishCycle
  <1>2. /\ Len(cycles') = n /\ Cycles' = 1 .. n /\ \A c \in Cycles : cycles'[c] = cycles[c]
    BY <1>1, FinishFacts DEF Cycles
  <1>3. cycles'[n].startedAt = cycle.startedAt /\ cycles'[n].finishedAt = now
    <2>1. cycles'[Len(cycles) + 1]
            = [hasSummary |-> hasSummary, error |-> error,
               startedAt |-> cycle.startedAt, finishedAt |-> now]
      BY FinishFacts
    <2> QED BY <1>1, <2>1
  <1>4. /\ r \in Watch /\ ~StallOpen(r) /\ Chained(r.episodes)
        /\ \A i \in 1 .. Len(r.episodes) :
             EpisodeOK(r.episodes[i]) /\ r.episodes[i].recoveredAt # Null
    BY RecoveredStalls
  <1>5. w \in Watch /\ w.episodes = r.episodes /\ w.progressAt \in {watch.progressAt, now}
    BY <1>1, ObservedIdle, ObservedType DEF TypeOK
  <1> HIDE DEF r, w
  <1>6. ~StallOpen(w) /\ Chained(w.episodes) /\ w.progressAt <= now
    BY <1>1, <1>4, <1>5 DEF StallOpen, Stalls
  <1>7. \A i \in 1 .. Len(w.episodes) :
          LET x == w.episodes[i] IN
          /\ x.recoveredAt # Null /\ x.startedAt <= x.recoveredAt /\ x.recoveredAt <= now
          /\ x.startedAt <= now /\ x.cycle \in Cycles'
          /\ cycles'[x.cycle].startedAt <= x.startedAt
          /\ x.recoveredAt <= cycles'[x.cycle].finishedAt
    <2> SUFFICES ASSUME NEW i \in 1 .. Len(w.episodes), NEW x \in Episode, x = w.episodes[i]
                 PROVE  /\ x.recoveredAt # Null /\ x.startedAt <= x.recoveredAt
                        /\ x.recoveredAt <= now /\ x.startedAt <= now /\ x.cycle \in Cycles'
                        /\ cycles'[x.cycle].startedAt <= x.startedAt
                        /\ x.recoveredAt <= cycles'[x.cycle].finishedAt
      BY <1>5, EpisodeTypes
    <2>1. EpisodeOK(x) /\ x.recoveredAt # Null /\ x.cycle \in Nat \ {0}
      BY <1>4, <1>5 DEF Episode
    <2>2. x.cycle \in 1 .. n
      BY <1>1, <2>1 DEF EpisodeOK
    <2>3. CASE x.cycle = n
      BY <1>2, <1>3, <2>1, <2>2, <2>3 DEF EpisodeOK
    <2>4. CASE x.cycle \in Cycles
      BY <1>2, <2>1, <2>2, <2>4 DEF EpisodeOK
    <2> QED BY <1>1, <2>2, <2>3, <2>4
  <1>8. Turned(origin, n, w) \/ (at' = "closing" /\ cycle' = cycle /\ watch' = w)
    BY FinishTurned DEF Stages, w
  <1> QED BY <1>1, <1>2, <1>5, <1>6, <1>7, <1>8, TurnedStalls
\* Between cycles every stall is closed and belongs to a cycle that is kept.
LEMMA IdleStalls ==
  ASSUME TypeOK, Stages, Stalls, ~InCycle
  PROVE  /\ ~StallOpen(watch)
         /\ \A i \in 1 .. Len(watch.episodes) :
              LET x == watch.episodes[i] IN
              /\ x.recoveredAt # Null /\ x.startedAt <= x.recoveredAt /\ x.recoveredAt <= now
              /\ x.startedAt <= now /\ x.cycle \in Cycles
              /\ cycles[x.cycle].startedAt <= x.startedAt
              /\ x.recoveredAt <= cycles[x.cycle].finishedAt
  <1>1. ~StallOpen(watch)
    BY DEF Stalls, InCycle
  <1>2. cycle.number = Len(cycles) /\ Len(cycles) \in Nat /\ watch \in Watch
    BY LenProperties DEF TypeOK, Stages, Phases
  <1>3. ASSUME NEW i \in 1 .. Len(watch.episodes), NEW x \in Episode, x = watch.episodes[i]
        PROVE  /\ x.recoveredAt # Null /\ x.startedAt <= x.recoveredAt /\ x.recoveredAt <= now
               /\ x.startedAt <= now /\ x.cycle \in Cycles
               /\ cycles[x.cycle].startedAt <= x.startedAt
               /\ x.recoveredAt <= cycles[x.cycle].finishedAt
    <2>1. EpisodeOK(x) /\ x.cycle \in Nat \ {0}
      BY <1>3 DEF Stalls, Episode
    <2>2. x.cycle \in Cycles
      BY <1>2, <2>1 DEF EpisodeOK, Cycles
    <2> QED BY <2>1, <2>2 DEF EpisodeOK
  <1> QED BY <1>1, <1>2, <1>3, EpisodeTypes

LEMMA StallsKept ==
  ASSUME TypeOK, TypeOK', Stages, Timing, Stalls, [Next]_vars
  PROVE  Stalls'
  <1>1. /\ watch \in Watch /\ now \in Nat /\ now <= now /\ cycle.number \in Nat
        /\ 0 # Null /\ inFlight + 1 # Null
    <2>1. 0 # Null /\ \A k \in Nat : k + 1 # Null
      BY SessionAssumption
    <2> QED BY <2>1 DEF TypeOK
  <1>2. CASE vars' = vars
    BY <1>1, <1>2, StallsStand
       DEF vars, InCycle, Stalls, timeVars, cycleVars, runVars
  <1>3. CASE Started \/ Wakes \/ SleepAborted
    <2> DEFINE n == cycle.number
    <2>1. ~InCycle /\ n = Len(cycles)
      BY <1>3 DEF Started, Wakes, SleepAborted, InCycle, Stages, Phases
    <2>2. UNCHANGED <<now, cycles>> /\ Cycles' = Cycles
      BY <1>3 DEF Started, Wakes, SleepAborted, Cycles
    <2>3. \E o : Turned(o, n, watch)
      <3>1. CASE Started
        BY <3>1, <2>1, StartedTurned, EmptySeq DEF Started, Stages, Phases
      <3>2. CASE Wakes \/ SleepAborted
        BY <3>2, WakesTurned, SleepAbortedTurned DEF Stages
      <3> QED BY <1>3, <3>1, <3>2
    <2>4. watch.progressAt <= now /\ Chained(watch.episodes)
      BY DEF Stalls
    <2> QED BY <1>1, <2>1, <2>2, <2>3, <2>4, IdleStalls, TurnedStalls
  <1>4. CASE CycleEnds \/ BuildFails
    BY <1>4, CycleFinishes, FinishStalls
  <1>5. CASE StartFails \/ Built \/ Closed \/ Ends
    <2>1. UNCHANGED <<now, watch, cycle, cycles>> /\ (InCycle' => InCycle)
      BY <1>5 DEF StartFails, Built, Closed, Ends, InCycle, cycleVars
    <2>2. ~StallOpen(watch)
      BY <1>5 DEF Stalls, StartFails, Built, Closed, Ends
    <2> QED BY <1>1, <1>5, <2>1, <2>2, StallsStand DEF StartFails, Built, Closed, Ends
  <1>6. CASE RequestStarts \/ RowLost \/ RunEnds
    <2>1. UNCHANGED <<now, watch, cycle, cycles>> /\ (InCycle' => InCycle)
      BY <1>6 DEF RequestStarts, RowLost, RunEnds, InCycle, cycleVars
    <2>2. live # Null => live' # Null
      BY <1>1, <1>6 DEF RequestStarts, RowLost, RunEnds
    <2>3. at = "running" /\ at' \in {"running", "writing"}
      BY <1>6 DEF RequestStarts, RowLost, RunEnds
    <2> QED BY <1>1, <2>1, <2>2, <2>3, StallsStand DEF Stalls
  <1>7. CASE RequestEnds
    <2>1. PICK done \in Nat : watch' = Observed(watch, done, Reported)
      BY <1>7 DEF RequestEnds, TypeOK
    <2>2. UNCHANGED <<now, at, cycle, cycles>> /\ live' # Null
      BY <1>7, SessionAssumption DEF RequestEnds, cycleVars, TypeOK
    <2> QED BY <2>1, <2>2, LookStalls
  <1>8. CASE Sample
    <2>1. watch' = Observed(watch, completed, Reported) /\ completed \in Nat
      BY <1>8 DEF Sample, TypeOK
    <2>2. UNCHANGED <<now, at, cycle, cycles, live>>
      BY <1>8 DEF Sample, cycleVars, runVars
    <2> QED BY <2>1, <2>2, LookStalls
  <1>9. CASE Cancel \/ Tick
    <2>1. /\ UNCHANGED <<at, live, watch, cycle, cycles>> /\ now' \in Nat /\ now <= now'
      BY <1>9 DEF Cancel, Tick, TypeOK, cycleVars, runVars
    <2> QED BY <2>1, StallsStand DEF InCycle, Stalls
  <1>10. ASSUME NEW c \in Cycles, KeepBooks(c) PROVE Stalls'
    BY <1>1, <1>10, StallsStand DEF KeepBooks, InCycle, Stalls, cycleVars, runVars
  <1> QED BY <1>2, <1>3, <1>4, <1>5, <1>6, <1>7, <1>8, <1>9, <1>10
          DEF Next, SessionStep, RunProgress, Finished
-----------------------------------------------------------------------------
(* The bandwidth bookkeeping.                                               *)

\* A cycle's turn comes when all before it are done; the file and the view are
\* then as they left them.
Books ==
  /\ \A c, d \in Cycles : c < d /\ books[d] # "queued" => books[c] = "done"
  /\ \A i \in 1 .. Len(history) :
       /\ history[i] \in Cycles /\ books[history[i]] \in {"reading", "done"}
       /\ i > 1 => history[i - 1] < history[i]
  /\ bandwidth # Null =>
       /\ bandwidth.cycle \in Cycles /\ books[bandwidth.cycle] = "done"
       /\ bandwidth.current = {c \in 1 .. bandwidth.cycle : cycles[c].hasSummary}
       /\ \A c \in bandwidth.baseline : c < bandwidth.cycle
       /\ cycles # <<>> /\ books[Len(cycles)] = "done" => bandwidth.cycle = Len(cycles)

LEMMA BooksImply ==
  ASSUME TypeOK, Books
  PROVE  LatestBandwidthWins
  <1>1. Len(cycles) \in Nat /\ Len(history) \in Nat
    BY LenProperties DEF TypeOK
  <1>2. \A i \in 1 .. Len(history) - 1 : history[i] < history[i + 1]
    <2> TAKE i \in 1 .. Len(history) - 1
    <2>1. i + 1 \in 1 .. Len(history) /\ i + 1 > 1 /\ (i + 1) - 1 = i
      BY <1>1
    <2> QED BY <2>1 DEF Books
  <1>3. ASSUME bandwidth # Null, \A c \in Cycles : books[c] = "done"
        PROVE  bandwidth.cycle = Len(cycles)
    <2>1. Len(cycles) \in Cycles /\ cycles # <<>>
      BY <1>1, <1>3, EmptySeq DEF Books, Cycles
    <2> QED BY <1>3, <2>1 DEF Books
  <1> QED BY <1>2, <1>3 DEF Books, LatestBandwidthWins

LEMMA FinishBooks ==
  ASSUME TypeOK, Stages, Books, NEW hasSummary \in BOOLEAN,
         NEW error \in CycleErrors \cup {Null}, FinishCycle(hasSummary, error)
  PROVE  Books'
  <1> DEFINE k == Len(cycles) + 1
  <1>1. /\ Len(cycles) \in Nat /\ Len(books) = Len(cycles) /\ k \notin Cycles
        /\ Cycles = 1 .. Len(cycles)
    BY LenProperties DEF TypeOK, Stages, Phases, Cycles
  <1>2. /\ Len(cycles') = k /\ Cycles' = Cycles \cup {k} /\ books'[k] = "queued"
        /\ \A c \in Cycles : cycles'[c] = cycles[c] /\ books'[c] = books[c]
        /\ \A c \in Cycles : c < k
    <2>1. /\ Len(cycles') = k /\ Cycles' = Cycles \cup {k}
          /\ \A c \in Cycles : cycles'[c] = cycles[c]
          /\ \A c \in 1 .. Len(books) : books'[c] = books[c]
          /\ books'[Len(books) + 1] = "queued"
      BY FinishFacts
    <2>2. books'[k] = "queued" /\ \A c \in Cycles : books'[c] = books[c]
      BY <1>1, <2>1
    <2>3. \A c \in Cycles : c < k
      BY <1>1
    <2> QED BY <2>1, <2>2, <2>3
  <1>3. history' = history /\ bandwidth' = bandwidth
    BY DEF FinishCycle
  <1> HIDE DEF k
  <1>4. (\A c, d \in Cycles : c < d /\ books[d] # "queued" => books[c] = "done")'
    BY <1>1, <1>2 DEF Books
  <1>5. \A i \in 1 .. Len(history) :
          /\ history[i] \in Cycles' /\ books'[history[i]] \in {"reading", "done"}
          /\ i > 1 => history[i - 1] < history[i]
    BY <1>2 DEF Books
  <1>6. ASSUME bandwidth # Null
        PROVE  /\ bandwidth.cycle \in Cycles' /\ books'[bandwidth.cycle] = "done"
               /\ bandwidth.current = {c \in 1 .. bandwidth.cycle : cycles'[c].hasSummary}
               /\ \A c \in bandwidth.baseline : c < bandwidth.cycle
               /\ books'[Len(cycles')] # "done"
    <2>1. 1 .. bandwidth.cycle \subseteq Cycles /\ bandwidth.cycle \in Cycles
      BY <1>1, <1>6 DEF Books
    <2> QED BY <1>2, <1>6, <2>1 DEF Books
  <1> QED BY <1>3, <1>4, <1>5, <1>6 DEF Books

\* The bookkeeping of cycle c moves on: no earlier one is behind it, and no
\* later one has begun.
LEMMA BookMoves ==
  ASSUME TypeOK, Stages, Books, NEW c \in Cycles, NEW s \in BookStates,
         books' = [books EXCEPT ![c] = s], UNCHANGED cycles, s # "queued", books[c] # "done",
         Turn(c) \/ books[c] # "queued"
  PROVE  /\ Cycles' = Cycles /\ Cycles = 1 .. Len(cycles) /\ Len(cycles) \in Nat
         /\ \A d \in Cycles : books'[d] = IF d = c THEN s ELSE books[d]
         /\ (\A b, d \in Cycles : b < d /\ books[d] # "queued" => books[b] = "done")'
         /\ \A i \in 1 .. Len(history) : history[i] = c \/ history[i] < c
  <1>1. /\ books \in Seq(BookStates) /\ Len(books) = Len(cycles) /\ Len(cycles) \in Nat
        /\ c \in 1 .. Len(books) /\ Cycles = 1 .. Len(cycles) /\ Cycles' = Cycles
    BY LenProperties DEF TypeOK, BookStates, Stages, Phases, Cycles
  <1>2. \A d \in Cycles : books'[d] = IF d = c THEN s ELSE books[d]
    BY <1>1, ExceptSeq
  <1>3. \A d \in Cycles : d < c => books[d] = "done"
    BY <1>1 DEF Turn, Books
  <1>4. \A d \in Cycles : c < d => books[d] = "queued"
    <2> SUFFICES ASSUME NEW d \in Cycles, c < d, books[d] # "queued" PROVE FALSE
      OBVIOUS
    <2>1. books[c] = "done"
      BY DEF Books
    <2> QED BY <2>1
  <1>5. (\A b, d \in Cycles : b < d /\ books[d] # "queued" => books[b] = "done")'
    BY <1>1, <1>2, <1>3, <1>4 DEF Books
  <1>6. \A i \in 1 .. Len(history) : history[i] = c \/ history[i] < c
    BY <1>1, <1>4 DEF Books
  <1> QED BY <1>1, <1>2, <1>5, <1>6

\* What is shown stays, is withdrawn, or is the latest cycle's.
LEMMA BookShows ==
  ASSUME TypeOK, Stages, Books, NEW c \in Cycles, NEW s \in BookStates,
         books' = [books EXCEPT ![c] = s], UNCHANGED cycles, s # "queued", books[c] # "done",
         Turn(c) \/ books[c] # "queued",
         \/ UNCHANGED history /\ (books[c] = "reading" => s = "done")
         \/ /\ books[c] = "appending" /\ s \in {"reading", "done"}
            /\ history' \in {history, Append(history, c)},
         \/ bandwidth' = Null
         \/ bandwidth' = bandwidth /\ (s = "done" => ~IsLatest(c))
         \/ /\ s = "done" /\ IsLatest(c) /\ UNCHANGED history
            /\ bandwidth' = [cycle |-> c, current |-> Measured,
                             baseline |-> {history[i] : i \in DOMAIN history} \ {c}]
  PROVE  Books'
  <1>1. /\ Cycles' = Cycles /\ Cycles = 1 .. Len(cycles) /\ Len(cycles) \in Nat
        /\ \A d \in Cycles : books'[d] = IF d = c THEN s ELSE books[d]
        /\ (\A b, d \in Cycles : b < d /\ books[d] # "queued" => books[b] = "done")'
        /\ \A i \in 1 .. Len(history) : history[i] = c \/ history[i] < c
    BY BookMoves
  <1>2. /\ history \in Seq(Nat \ {0}) /\ c \in Nat \ {0} /\ Len(history) \in Nat
        /\ DOMAIN history = 1 .. Len(history)
    BY <1>1, LenProperties DEF TypeOK
  <1>3. \A i \in 1 .. Len(history) :
          /\ history[i] \in Cycles /\ books[history[i]] \in {"reading", "done"}
          /\ i > 1 => history[i - 1] < history[i]
    BY DEF Books
  <1>4. (\A i \in 1 .. Len(history) :
           /\ history[i] \in Cycles /\ books[history[i]] \in {"reading", "done"}
           /\ i > 1 => history[i - 1] < history[i])'
    <2>1. CASE UNCHANGED history
      <3>1. \A i \in 1 .. Len(history) : books'[history[i]] \in {"reading", "done"}
        BY <1>1, <1>3, <2>1
      <3> QED BY <1>1, <1>3, <2>1, <3>1
    <2>2. CASE /\ books[c] = "appending" /\ s \in {"reading", "done"}
               /\ history' = Append(history, c)
      <3>1. /\ Len(history') = Len(history) + 1 /\ history'[Len(history) + 1] = c
            /\ \A i \in 1 .. Len(history) : history'[i] = history[i]
        <4> DEFINE h == Append(history, c)
        <4>1. /\ Len(h) = Len(history) + 1 /\ h[Len(history) + 1] = c
              /\ \A i \in 1 .. Len(history) : h[i] = history[i]
          BY <1>2, AppendProperties
        <4>2. history' = h
          BY <2>2
        <4> HIDE DEF h
        <4> QED BY <4>1, <4>2
      <3>2. \A i \in 1 .. Len(history) :
              history[i] < c /\ books'[history[i]] \in {"reading", "done"}
        <4> SUFFICES ASSUME NEW i \in 1 .. Len(history)
                     PROVE  history[i] < c /\ books'[history[i]] \in {"reading", "done"}
          OBVIOUS
        <4>1. history[i] # c
          BY <1>3, <2>2
        <4> QED BY <1>1, <1>3, <4>1
      <3>3. books'[c] \in {"reading", "done"} /\ c \in Cycles'
        BY <1>1, <2>2
      <3> SUFFICES ASSUME NEW i \in 1 .. Len(history) + 1
                   PROVE  /\ history'[i] \in Cycles' /\ books'[history'[i]] \in {"reading", "done"}
                          /\ i > 1 => history'[i - 1] < history'[i]
        BY <3>1
      <3>4. CASE i \in 1 .. Len(history)
        <4>1. i > 1 => i - 1 \in 1 .. Len(history)
          BY <1>2, <3>4
        <4> QED BY <1>1, <1>3, <3>1, <3>2, <3>4, <4>1
      <3>5. CASE i = Len(history) + 1
        <4>1. i > 1 => i - 1 \in 1 .. Len(history)
          BY <1>2, <3>5
        <4> QED BY <3>1, <3>2, <3>3, <3>5, <4>1
      <3> QED BY <1>2, <3>4, <3>5
    <2> QED BY <2>1, <2>2
  <1>5. ASSUME bandwidth' # Null
        PROVE  (/\ bandwidth.cycle \in Cycles /\ books[bandwidth.cycle] = "done"
                /\ bandwidth.current = {d \in 1 .. bandwidth.cycle : cycles[d].hasSummary}
                /\ \A d \in bandwidth.baseline : d < bandwidth.cycle
                /\ cycles # <<>> /\ books[Len(cycles)] = "done"
                     => bandwidth.cycle = Len(cycles))'
    <2>1. CASE bandwidth' = bandwidth /\ (s = "done" => ~IsLatest(c))
      <3>1. /\ bandwidth.cycle \in Cycles /\ books[bandwidth.cycle] = "done"
            /\ bandwidth.current = {d \in 1 .. bandwidth.cycle : cycles[d].hasSummary}
            /\ \A d \in bandwidth.baseline : d < bandwidth.cycle
            /\ cycles # <<>> /\ books[Len(cycles)] = "done" => bandwidth.cycle = Len(cycles)
        BY <1>5, <2>1 DEF Books
      <3>2. books'[bandwidth.cycle] = "done"
        BY <1>1, <3>1
      <3>3. cycles # <<>> /\ books'[Len(cycles)] = "done" => bandwidth.cycle = Len(cycles)
        BY <1>1, <2>1, <3>1 DEF IsLatest
      <3> QED BY <1>1, <2>1, <3>1, <3>2, <3>3
    <2>2. CASE /\ s = "done" /\ IsLatest(c)
               /\ bandwidth' = [cycle |-> c, current |-> Measured,
                                baseline |-> {history[i] : i \in DOMAIN history} \ {c}]
      <3>1. /\ bandwidth'.cycle = c /\ bandwidth'.current = Measured
            /\ bandwidth'.baseline = {history[i] : i \in DOMAIN history} \ {c}
        BY <2>2
      <3>2. Measured = {d \in 1 .. c : cycles'[d].hasSummary} /\ c = Len(cycles')
        BY <1>1, <2>2 DEF Measured, IsLatest
      <3>3. \A d \in bandwidth'.baseline : d < c
        BY <1>1, <1>2, <3>1
      <3> QED BY <1>1, <2>2, <3>1, <3>2, <3>3
    <2> QED BY <1>5, <2>1, <2>2
  <1> QED BY <1>1, <1>4, <1>5 DEF Books

LEMMA BooksKept ==
  ASSUME TypeOK, Stages, Books, [Next]_vars
  PROVE  Books'
  <1>1. CASE UNCHANGED <<cycles, bookVars>>
    BY <1>1 DEF Books, Cycles, bookVars
  <1>2. CASE Started \/ Wakes \/ SleepAborted \/ Built \/ Closed \/ Ends
    BY <1>1, <1>2 DEF Started, Wakes, SleepAborted, Built, Closed, Ends, cycleVars
  <1>3. CASE CycleEnds \/ BuildFails
    BY <1>3, CycleFinishes, FinishBooks
  <1>4. CASE RunProgress \/ StartFails \/ RowLost \/ Sample \/ Cancel \/ Tick \/ vars' = vars
    BY <1>1, <1>4 DEF RunProgress, RequestStarts, RequestEnds, RunEnds, StartFails, RowLost,
       Sample, Cancel, Tick, vars, cycleVars
  <1>5. ASSUME NEW c \in Cycles, KeepBooks(c) PROVE Books'
    <2>1. UNCHANGED cycles
      BY <1>5 DEF KeepBooks, cycleVars
    <2>2. CASE Refresh(c) /\ books[c] \in {"queued", "appending"}
               /\ (Turn(c) \/ books[c] # "queued")
               /\ (UNCHANGED history \/ /\ books[c] = "appending"
                                        /\ history' \in {history, Append(history, c)})
      <3>1. PICK s \in {"reading", "done"} :
              /\ books' = [books EXCEPT ![c] = s]
              /\ bandwidth' = Null \/ (bandwidth' = bandwidth /\ (s = "done" => ~IsLatest(c)))
        BY <2>2 DEF Refresh
      <3>2. s \in BookStates /\ s # "queued"
        BY DEF BookStates
      <3> QED BY <1>5, <2>1, <2>2, <3>1, <3>2, BookShows
    <2>3. CASE /\ books[c] = "queued" /\ Turn(c)
               /\ books' = [books EXCEPT ![c] = "appending"] /\ UNCHANGED <<history, bandwidth>>
      <3>1. "appending" \in BookStates
        BY DEF BookStates
      <3> QED BY <1>5, <2>1, <2>3, <3>1, BookShows
    <2>4. CASE ReadBack(c)
      <3>1. "done" \in BookStates
        BY DEF BookStates
      <3> QED BY <1>5, <2>1, <2>4, <3>1, BookShows DEF ReadBack
    <2> QED BY <1>5, <2>2, <2>3, <2>4 DEF KeepBooks, BookBegins, Appended
  <1> QED BY <1>2, <1>3, <1>4, <1>5 DEF Next, SessionStep, RunProgress, Finished

-----------------------------------------------------------------------------
(* The invariant, whole.                                                    *)

IInv == TypeOK /\ Stages /\ Timing /\ Stalls /\ Books /\ StoppedForItsReason

LEMMA InitIInv == Init => IInv
  <1> SUFFICES ASSUME Init PROVE IInv
    OBVIOUS
  <1>1. TypeOK /\ Stages /\ Timing
    BY InitFacts DEF Stages
  <1>2. /\ cycles = <<>> /\ history = <<>> /\ books = <<>> /\ bandwidth = Null
        /\ now = 0 /\ at = "starting" /\ stopReason = Null
        /\ Len(cycles) = 0 /\ Cycles = {} /\ Len(history) = 0
    BY EmptySeq DEF Init, Cycles
  <1>3. watch.episodes = <<>> /\ watch.progressAt = 0 /\ Len(watch.episodes) = 0
    BY EmptySeq DEF Init
  <1>4. Stalls
    BY <1>2, <1>3 DEF Stalls, StallOpen, Chained, InCycle
  <1>5. Books
    BY <1>2 DEF Books
  <1>6. StoppedForItsReason
    BY <1>2, SessionAssumption DEF StoppedForItsReason, StopReasons
  <1> QED BY <1>1, <1>4, <1>5, <1>6 DEF IInv

LEMMA NextIInv == IInv /\ [Next]_vars => IInv'
  <1> SUFFICES ASSUME IInv, [Next]_vars PROVE IInv'
    OBVIOUS
  <1>1. TypeOK'
    BY TypesKept DEF IInv, Stages
  <1>2. Stages'
    BY StagesKept DEF IInv
  <1>3. Timing'
    BY <1>1, TimingKept DEF IInv
  <1>4. Stalls'
    BY <1>1, StallsKept DEF IInv
  <1>5. Books'
    BY BooksKept DEF IInv
  <1>6. StoppedForItsReason'
    BY <1>1, ReasonKept DEF IInv
  <1> QED BY <1>1, <1>2, <1>3, <1>4, <1>5, <1>6 DEF IInv

LEMMA Invariance == Spec => []IInv
  BY InitIInv, NextIInv, PTL DEF Spec

\* Every variable of a session keeps its type: the numbers in flight and
\* reported stay within the concurrency, and a lost cycle has one of two errors.
THEOREM SessionTypeCorrect == Spec => []TypeOK
  <1>1. IInv => TypeOK
    BY DEF IInv
  <1> QED BY <1>1, Invariance, PTL

\* The stall episodes a session reports (observeStall, closeActiveStall) lie
\* within their cycles and follow each other; none is open between cycles.
THEOREM StallsAreSettled == Spec => []StallsSettled
  <1>1. IInv => StallsSettled
    BY StallsImply DEF IInv
  <1> QED BY <1>1, Invariance, PTL

\* No cycle of scheduleCycles begins before it is due on the fixed rate, before
\* the previous one is over, or after the session's time is up.
THEOREM FixedRateKept == Spec => []ScheduleKept
  <1>1. IInv => ScheduleKept
    BY TimingImplies DEF IInv
  <1> QED BY <1>1, Invariance, PTL

\* The stop reason a session reports is the true one, and only an unwritable
\* output ends a session early.
THEOREM ReasonIsTrue == Spec => []StoppedForItsReason
  <1>1. IInv => StoppedForItsReason
    BY DEF IInv
  <1> QED BY <1>1, Invariance, PTL

\* The bandwidth shown is that of the latest cycle once its bookkeeping is done
\* (LatestWins), and never compares a cycle with itself or a later one.
THEOREM BandwidthIsLatest == Spec => []LatestBandwidthWins
  <1>1. IInv => LatestBandwidthWins
    BY BooksImply DEF IInv
  <1> QED BY <1>1, Invariance, PTL

-----------------------------------------------------------------------------
(* A session implements the lifecycle of a run.                             *)

LEMMA TurnRefines ==
  ASSUME TypeOK, Stages, Started \/ Wakes \/ SleepAborted
  PROVE  Lifecycle!BeginCycle \/ UNCHANGED Lifecycle!vars
  <1>1. /\ cycle.number = Len(cycles) /\ cycle.number \in Nat
        /\ status \in {"running", "waiting"}
    BY DEF TypeOK, Stages, Phases, InCycle, Started, Wakes, SleepAborted
  <1>2. UNCHANGED <<status, aborted, cycles>>
    BY DEF Started, Wakes, SleepAborted
  <1>3. \E o : Turned(o, cycle.number, watch)
    <2>1. Started => cycle.number = 0
      BY EmptySeq DEF Started, Stages, Phases, InCycle
    <2> QED BY <2>1, StartedTurned, WakesTurned, SleepAbortedTurned DEF Stages
  <1>4. cycle' = cycle \/ (~aborted /\ cycle'.number = cycle.number + 1)
    BY <1>3 DEF Turned, Quits, Waits, Begins
  <1> QED BY <1>1, <1>2, <1>4 DEF Lifecycle!BeginCycle, Lifecycle!vars, Lifecycle!Active

LEMMA FinishRefines ==
  ASSUME TypeOK, Stages, CycleEnds \/ BuildFails
  PROVE  Lifecycle!EndCycle
  <1>1. PICK hasSummary \in BOOLEAN, error \in CycleErrors \cup {Null} :
          FinishCycle(hasSummary, error)
    BY CycleFinishes
  <1>2. /\ InCycle /\ cycle.number = Len(cycles) + 1
        /\ status \in {"running", "waiting"}
    BY CycleFinishes DEF TypeOK, Stages, Phases, InCycle
  <1>3. Len(cycles') = Len(cycles) + 1
    BY <1>1, FinishFacts
  <1>4. UNCHANGED <<status, aborted>>
    BY <1>1 DEF FinishCycle
  <1>5. cycle' = cycle \/ (~aborted /\ cycle'.number = cycle.number + 1)
    BY <1>1, <1>2, FinishTurned DEF Stages, Turned, Quits, Waits, Begins
  <1> QED BY <1>2, <1>3, <1>4, <1>5 DEF Lifecycle!EndCycle, Lifecycle!Active

LEMMA StepRefines ==
  ASSUME IInv, [Next]_vars
  PROVE  [Lifecycle!Next]_(Lifecycle!vars)
  <1>1. TypeOK /\ Stages
    BY DEF IInv
  <1>2. CASE Started \/ Wakes \/ SleepAborted
    BY <1>1, <1>2, TurnRefines DEF Lifecycle!Next
  <1>3. CASE CycleEnds \/ BuildFails
    BY <1>1, <1>3, FinishRefines DEF Lifecycle!Next
  <1>4. CASE StartFails \/ Ends
    <2>1. cycle.number = Len(cycles) /\ status \in {"running", "waiting"}
      BY <1>1, <1>4 DEF TypeOK, Stages, Phases, InCycle, StartFails, Ends
    <2>2. status' \in {"completed", "failed"} /\ UNCHANGED <<aborted, cycle, cycles>>
      BY <1>4 DEF StartFails, Ends, cycleVars
    <2>3. Lifecycle!End
      BY <2>1, <2>2 DEF Lifecycle!End, Lifecycle!Active, Lifecycle!Final
    <2> QED BY <2>3 DEF Lifecycle!Next
  <1>5. CASE Sample
    <2>1. status \in {"running", "waiting"} /\ status' \in {"running", "waiting"}
      BY <1>1, <1>5 DEF TypeOK, Stages, Phases, InCycle, Sample, MaySample, Sampling
    <2>2. Lifecycle!Show
      BY <1>5, <2>1 DEF Lifecycle!Show, Lifecycle!Active, Sample, cycleVars
    <2> QED BY <2>2 DEF Lifecycle!Next
  <1>6. CASE Cancel
    <2>1. Lifecycle!Cancel
      BY <1>6, Zenon DEF Lifecycle!Cancel, Lifecycle!Active, Cancel, cycleVars
    <2> QED BY <2>1 DEF Lifecycle!Next
  <1>7. CASE Built \/ Closed \/ RunProgress \/ RowLost \/ Tick
    BY <1>7 DEF Lifecycle!vars, Built, Closed, RunProgress, RequestStarts, RequestEnds,
       RunEnds, RowLost, Tick, cycleVars
  <1>8. ASSUME NEW c \in Cycles, KeepBooks(c) PROVE UNCHANGED Lifecycle!vars
    BY <1>8 DEF KeepBooks, Lifecycle!vars, cycleVars
  <1>9. CASE vars' = vars
    BY <1>9 DEF vars, Lifecycle!vars, cycleVars
  <1> QED BY <1>2, <1>3, <1>4, <1>5, <1>6, <1>7, <1>8, <1>9
          DEF Next, SessionStep, Finished

LEMMA InitRefines == Init => Lifecycle!Init
  BY EmptySeq DEF Init, Lifecycle!Init, Lifecycle!Active

\* What the dashboard may rely on holds of every session: cycles begin and end
\* one at a time, none begins once it is cancelled, and it ends for good.
THEOREM SessionKeepsLifecycle == Spec => ImplementsLifecycle
  <1>1. IInv /\ [Next]_vars => [Lifecycle!Next]_(Lifecycle!vars)
    BY StepRefines
  <1> QED BY <1>1, InitRefines, Invariance, PTL DEF Spec, ImplementsLifecycle, Lifecycle!Spec
=============================================================================
