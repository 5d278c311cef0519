-------------------------------- MODULE Session --------------------------------
(***************************************************************************)
(* A continuous session: runSession (app/scrape-session.ts) over           *)
(* scheduleCycles (core/schedule/interval-scheduler.ts), with what         *)
(* RunService.executeSession shows of it and the bandwidth bookkeeping     *)
(* that each cycle leaves behind (app/bandwidth-refresh.ts).               *)
(*                                                                         *)
(* One action is what runs between two suspension points.  The batch of a  *)
(* cycle is a number of requests; Runner models how they are carried out.  *)
(* Here matters what its callbacks tell the session: the number in flight  *)
(* as last reported, which lags behind the true one.  Counters, byte       *)
(* totals, the timeline's samples and the text of the summaries are left   *)
(* out.  The clock counts ticks; a timer may be late.                      *)
(***************************************************************************)
EXTENDS Integers, Sequences, FiniteSets

CONSTANTS
  Schedules,    \* schedules an operator may ask for
  Requests,     \* requests of one cycle
  Concurrency,  \* requests in flight at once
  StallMs,      \* silence that counts as a stall
  Null,
  MaxTime       \* BOUND: the clock passes it only while a session sleeps

StopReasons == {"cancelled", "max_cycles", "duration", "fatal"}
CycleErrors == {"output_error", "unknown"}

ASSUME SessionAssumption ==
  /\ Schedules \subseteq [intervalMs : Nat, durationMs : Nat \cup {Null},
                          maxCycles : Nat \cup {Null}]
  /\ Requests \in Nat \ {0} /\ Concurrency \in Nat \ {0}
  /\ StallMs \in Nat \ {0}
  /\ MaxTime \in Nat
  /\ Null \notin Nat \cup StopReasons \cup CycleErrors

VARIABLES
  now,
  schedule,    \* the schedule of this session
  aborted,     \* whether the operator has cancelled it
  at,          \* where runSession is
  origin,      \* the scheduler's sessionStartedAt
  cycle,       \* the cycle under way or last begun: number, due and start
  cycles,      \* what is kept of each finished cycle
  stopReason,  \* why the schedule ended, or Null
  left,        \* requests of the cycle that have not been given a slot
  inFlight,    \* requests really in flight
  runError,    \* the fatal error of the cycle's run, or Null
  live,        \* liveProgress: the number in flight last reported, or Null
  completed,   \* requests completed in the whole session
  watch,       \* the watchdog's state, and the stall episodes
  status,      \* the state the dashboard shows
  books,       \* for each cycle, how far its bandwidth bookkeeping is
  history,     \* the cycles appended to the baseline file, in file order
  bandwidth    \* the bandwidth the dashboard shows, or Null

timeVars  == <<schedule, origin>>
cycleVars == <<cycle, cycles, stopReason>>
runVars   == <<left, inFlight, runError, live, completed>>
bookVars  == <<books, history, bandwidth>>
vars == <<now, aborted, at, timeVars, cycleVars, runVars, watch, status, bookVars>>

Cycles   == 1 .. Len(cycles)
InCycle  == at \in {"building", "running", "writing"}
Sampling == InCycle \/ at = "sleeping"
Halted   == aborted \/ runError # Null

\* A finished cycle, as the summary keeps it; and the watchdog's state: the
\* completions it has seen, when it last saw progress, the stall episodes so far.
Episode == [cycle : Nat \ {0}, startedAt : Nat, recoveredAt : Nat \cup {Null}]
CycleSummary == [hasSummary : BOOLEAN, error : CycleErrors \cup {Null},
                 startedAt : Nat, finishedAt : Nat]
Watch   == [seen : Nat, progressAt : Nat, episodes : Seq(Episode)]

Init ==
  /\ now = 0 /\ schedule \in Schedules /\ aborted = FALSE
  /\ at = "starting" /\ origin = Null
  /\ cycle = [number |-> 0, scheduledAt |-> 0, startedAt |-> 0]
  /\ cycles = <<>> /\ stopReason = Null
  /\ left = 0 /\ inFlight = 0 /\ runError = Null /\ live = Null /\ completed = 0
  /\ watch = [seen |-> 0, progressAt |-> 0, episodes |-> <<>>]
  /\ status = "running"
  /\ books = <<>> /\ history = <<>> /\ bandwidth = Null

-----------------------------------------------------------------------------
(* The stall watchdog.                                                      *)

StallOpen(w) == w.episodes # <<>> /\ w.episodes[Len(w.episodes)].recoveredAt = Null

\* closeActiveStall()
Recovered(w) ==
  IF StallOpen(w) THEN [w EXCEPT !.episodes[Len(w.episodes)].recoveredAt = now] ELSE w

\* Mutation: a cycle that has nothing in flight any more keeps its stall open.
ObservedCompletionsOnly(w, done, reported) ==
  IF done # w.seen
  THEN [Recovered(w) EXCEPT !.seen = done, !.progressAt = now]
  ELSE IF reported > 0 /\ ~StallOpen(w) /\ now - w.progressAt >= StallMs
  THEN [w EXCEPT !.episodes = Append(@, [cycle |-> cycle.number, startedAt |-> w.progressAt,
                                         recoveredAt |-> Null])]
  ELSE w

\* observeStall(): a completion or an empty cycle ends a stall, silence while
\* work is reported in flight begins one.
Observed(w, done, reported) ==
  IF done # w.seen
  THEN [Recovered(w) EXCEPT !.seen = done, !.progressAt = now]
  ELSE IF reported = 0
  THEN Recovered(w)
  ELSE IF ~StallOpen(w) /\ now - w.progressAt >= StallMs
  THEN [w EXCEPT !.episodes = Append(@, [cycle |-> cycle.number, startedAt |-> w.progressAt,
                                         recoveredAt |-> Null])]
  ELSE w

Reported == IF live = Null THEN 0 ELSE live

-----------------------------------------------------------------------------
(* The scheduler: from the top of its loop to the next suspension.          *)

PastDeadline(elapsed) == schedule.durationMs # Null /\ elapsed >= schedule.durationMs

\* Mutation: the interval runs from the end of the previous cycle.
DueFromNow(o, n) == IF n = 0 THEN o ELSE now + schedule.intervalMs
Due(o, n) == o + n * schedule.intervalMs

\* Why no cycle follows the n-th in a session begun at o, or Null.  The
\* deadline is held against the due time before it is against the clock.
EndsFor(o, n) ==
  IF aborted THEN "cancelled"
  ELSE IF schedule.maxCycles # Null /\ n >= schedule.maxCycles THEN "max_cycles"
  ELSE IF PastDeadline(Due(o, n) - o) THEN "duration" ELSE Null

Stop(reason) ==
  /\ at' = "closing" /\ stopReason' = reason
  /\ UNCHANGED <<cycle, left>>

\* The for-await body takes over, up to its first await.
BeginCycle(o, n, w) ==
  IF PastDeadline(now - o)
  THEN Stop("duration") /\ watch' = w
  ELSE /\ at' = "building"
       /\ cycle' = [number |-> n + 1, scheduledAt |-> Due(o, n), startedAt |-> now]
       /\ left' = Requests
       /\ watch' = [w EXCEPT !.progressAt = now]
       /\ UNCHANGED stopReason

\* The top of the loop after n cycles, the watchdog being at w.
Schedule(o, n, w) ==
  \/ EndsFor(o, n) # Null /\ Stop(EndsFor(o, n)) /\ watch' = w
  \/ /\ EndsFor(o, n) = Null /\ Due(o, n) > now
     /\ at' = "sleeping" /\ watch' = w
     /\ UNCHANGED <<cycle, left, stopReason>>
  \/ EndsFor(o, n) = Null /\ Due(o, n) <= now /\ BeginCycle(o, n, w)

\* The source is stocked and the pools are built; the sampler starts, and the
\* schedule counts from here.
Started ==
  /\ at = "starting"
  /\ origin' = now
  /\ Schedule(now, 0, watch)
  /\ UNCHANGED <<now, aborted, schedule, cycles, inFlight, runError, live, completed,
                 status, bookVars>>

\* One of them fails: runSession rejects before it has begun anything.
StartFails ==
  /\ at = "starting"
  /\ at' = "ended" /\ status' = "failed"
  /\ UNCHANGED <<now, aborted, timeVars, cycleVars, runVars, watch, bookVars>>

Wakes ==
  /\ at = "sleeping" /\ ~aborted /\ now >= Due(origin, cycle.number)
  /\ BeginCycle(origin, cycle.number, watch)
  /\ UNCHANGED <<now, aborted, timeVars, cycles, inFlight, runError, live, completed,
                 status, bookVars>>

\* The abort rejects the sleep, or is seen after it.
SleepAborted ==
  /\ at = "sleeping" /\ aborted
  /\ Stop("cancelled")
  /\ UNCHANGED <<now, aborted, timeVars, cycles, inFlight, runError, live, completed,
                 watch, status, bookVars>>

-----------------------------------------------------------------------------
(* One cycle.                                                               *)

\* Mutation: a cycle that is lost for any reason ends the session.
AnyErrorIsFatal(error) == error # Null
IsFatal(error) == error = "output_error"

\* Everything that follows the cycle's try block, and the scheduler's turn.
FinishCycle(hasSummary, error) ==
  LET w == Observed(watch, completed, 0) IN
  /\ live' = Null /\ runError' = Null /\ inFlight' = 0
  /\ cycles' = Append(cycles, [hasSummary |-> hasSummary, error |-> error,
                               startedAt |-> cycle.startedAt, finishedAt |-> now])
  /\ books' = Append(books, "queued")
  /\ IF IsFatal(error)
     THEN Stop("fatal") /\ watch' = w
     ELSE Schedule(origin, cycle.number, w)
  /\ UNCHANGED <<now, aborted, timeVars, completed, status, history, bandwidth>>

\* The runner cannot be built or the input not prepared; the cycle is lost.
BuildFails == at = "building" /\ FinishCycle(FALSE, "unknown")

\* Short links are resolved and the run begins.
Built ==
  /\ at = "building"
  /\ at' = "running"
  /\ UNCHANGED <<now, aborted, timeVars, cycleVars, runVars, watch, status, bookVars>>

HasSlot == inFlight < Concurrency

\* A request gets a slot.  The producer reports it at once; a request that had
\* been waiting in the queue starts unreported.
RequestStarts ==
  /\ at = "running" /\ left > 0 /\ HasSlot /\ ~Halted
  /\ left' = left - 1 /\ inFlight' = inFlight + 1
  /\ live' \in {inFlight + 1, live} \ {Null}
  /\ UNCHANGED <<now, aborted, at, timeVars, cycleVars, runError, completed, watch,
                 status, bookVars>>

\* onResult and onProgress of one request.  The request still counts among
\* those the run reports in flight; a cancelled one does not count as completed.
RequestEnds ==
  /\ at = "running" /\ inFlight > 0
  /\ \E done \in {completed + 1} \cup IF Halted THEN {completed} ELSE {} :
       /\ completed' = done
       /\ watch' = Observed(watch, done, Reported)
  /\ live' = inFlight /\ inFlight' = inFlight - 1
  /\ UNCHANGED <<now, aborted, at, timeVars, cycleVars, left, runError, status, bookVars>>

\* Its row cannot be written: fatal to the run, and nobody is told.
RowLost ==
  /\ at = "running" /\ inFlight > 0
  /\ inFlight' = inFlight - 1 /\ runError' = "output_error"
  /\ UNCHANGED <<now, aborted, at, timeVars, cycleVars, left, live, completed, watch,
                 status, bookVars>>

\* Mutation: the run waits for requests that an abort has kept from starting.
RunDrainedFully == inFlight = 0 /\ left = 0
RunDrained == inFlight = 0 /\ (left = 0 \/ Halted)

\* The last progress report; the sink is closed, which may fail.
RunEnds ==
  /\ at = "running" /\ RunDrained
  /\ at' = "writing" /\ live' = 0
  /\ runError' \in {runError, "output_error"}
  /\ UNCHANGED <<now, aborted, timeVars, cycleVars, left, inFlight, completed, watch,
                 status, bookVars>>

\* The summary of the cycle is on disk, or could not be written.
CycleEnds == at = "writing" /\ FinishCycle(TRUE, runError)

-----------------------------------------------------------------------------
(* The sampler, the end, and the dashboard.                                 *)

\* Mutation: nobody waits for the sampler to stop.
MaySampleLate == at \notin {"starting"}
MaySample == Sampling

\* One round of the sampler, whatever its period: the watchdog looks, the
\* dashboard is told.
Sample ==
  /\ MaySample
  /\ watch' = Observed(watch, completed, Reported)
  /\ status' = IF live = Null THEN "waiting" ELSE "running"
  /\ UNCHANGED <<now, aborted, at, timeVars, cycleVars, runVars, bookVars>>

\* The sampler has stopped and the transport is closed: the summary is built.
Closed ==
  /\ at = "closing"
  /\ at' = "reporting"
  /\ UNCHANGED <<now, aborted, timeVars, cycleVars, runVars, watch, status, bookVars>>

\* The event log is closed and the summary written; executeSession goes on.
Ends ==
  /\ at = "reporting"
  /\ at' = "ended"
  /\ status' = IF stopReason = "fatal" THEN "failed" ELSE "completed"
  /\ UNCHANGED <<now, aborted, timeVars, cycleVars, runVars, watch, bookVars>>

\* RunService.cancel()
Cancel ==
  /\ status \in {"running", "waiting"} /\ ~aborted
  /\ aborted' = TRUE
  /\ UNCHANGED <<now, at, timeVars, cycleVars, runVars, watch, status, bookVars>>

-----------------------------------------------------------------------------
(* The bandwidth bookkeeping of finished cycles (LatestWins).               *)

\* Mutation: the bookkeeping of a cycle does not wait for the previous one.
TurnAtOnce(c) == TRUE
Turn(c) == \A d \in 1 .. c - 1 : books[d] = "done"

IsLatest(c) == c = Len(cycles)
Measured == {c \in Cycles : cycles[c].hasSummary}

\* refreshBandwidthIfLatest(), up to its read: with nothing measured there is
\* nothing to read.
Refresh(c) ==
  IF Measured = {}
  THEN /\ books' = [books EXCEPT ![c] = "done"]
       /\ bandwidth' = IF IsLatest(c) THEN Null ELSE bandwidth
  ELSE books' = [books EXCEPT ![c] = "reading"] /\ UNCHANGED bandwidth

BookBegins(c) ==
  /\ books[c] = "queued" /\ Turn(c)
  /\ IF cycles[c].hasSummary
     THEN books' = [books EXCEPT ![c] = "appending"] /\ UNCHANGED bandwidth
     ELSE Refresh(c)
  /\ UNCHANGED history

\* The cycle's own line is in the file, or could not be appended.
Appended(c) ==
  /\ books[c] = "appending"
  /\ history' \in {history, Append(history, c)}
  /\ Refresh(c)

\* The file has been read, or could not be.
ReadBack(c) ==
  /\ books[c] = "reading"
  /\ books' = [books EXCEPT ![c] = "done"]
  /\ bandwidth' \in
       IF IsLatest(c)
       THEN {Null, [cycle |-> c, current |-> Measured,
                    baseline |-> {history[i] : i \in DOMAIN history} \ {c}]}
       ELSE {bandwidth}
  /\ UNCHANGED history

KeepBooks(c) == /\ BookBegins(c) \/ Appended(c) \/ ReadBack(c)
                /\ UNCHANGED <<now, aborted, at, timeVars, cycleVars, runVars, watch, status>>

-----------------------------------------------------------------------------
Tick == /\ (now < MaxTime \/ (at = "sleeping" /\ now < Due(origin, cycle.number)))
        /\ at # "ended"
        /\ now' = now + 1
        /\ UNCHANGED <<aborted, at, timeVars, cycleVars, runVars, watch, status, bookVars>>

Finished == /\ at = "ended" /\ \A c \in Cycles : books[c] = "done"
            /\ UNCHANGED vars

RunProgress == RequestStarts \/ RequestEnds \/ RunEnds
SessionStep == Started \/ Wakes \/ SleepAborted \/ Built \/ CycleEnds \/ Closed \/ Ends

Next ==
  \/ SessionStep \/ RunProgress
  \/ StartFails \/ BuildFails \/ RowLost
  \/ Sample \/ Cancel \/ Tick \/ Finished
  \/ \E c \in Cycles : KeepBooks(c)

Spec == Init /\ [][Next]_vars

\* Time passes, every await of the session and of the run it waits for ends
\* (requests have a timeout), and a sleep ends when it is due.
Fairness == WF_vars(SessionStep) /\ WF_vars(RunProgress) /\ WF_vars(Tick)

FairSpec == Spec /\ Fairness

-----------------------------------------------------------------------------
(* Properties.                                                              *)

TypeOK ==
  /\ now \in Nat /\ schedule \in Schedules /\ aborted \in BOOLEAN
  /\ at \in {"starting", "sleeping", "building", "running", "writing",
             "closing", "reporting", "ended"}
  /\ origin \in Nat \cup {Null}
  /\ cycle \in [number : Nat, scheduledAt : Nat, startedAt : Nat]
  /\ cycles \in Seq(CycleSummary)
  /\ stopReason \in StopReasons \cup {Null}
  /\ left \in 0 .. Requests /\ inFlight \in 0 .. Concurrency
  /\ runError \in {Null, "output_error"}
  /\ live \in 0 .. Concurrency \cup {Null} /\ completed \in Nat
  /\ watch \in Watch
  /\ status \in {"running", "waiting", "completed", "failed"}
  /\ books \in Seq({"queued", "appending", "reading", "done"})
  /\ history \in Seq(Nat \ {0})

\* The stall episodes a session reports tell one story: each lies within its
\* cycle, they follow each other without overlap, and only the last one, of the
\* cycle under way, may be open; between cycles and at the end none is.
StallsSettled ==
  LET e == watch.episodes IN
  /\ StallOpen(watch) => InCycle /\ e[Len(e)].cycle = cycle.number
  /\ \A i \in 1 .. Len(e) - 1 :
       /\ e[i].recoveredAt # Null
       /\ e[i].recoveredAt <= e[i + 1].startedAt
  /\ \A i \in DOMAIN e :
       e[i].cycle \in Cycles =>
         /\ cycles[e[i].cycle].startedAt <= e[i].startedAt
         /\ e[i].recoveredAt <= cycles[e[i].cycle].finishedAt

\* However long cycles take, none begins before it is due on the fixed rate, nor
\* before the previous one is over, nor once the session's time is up.
ScheduleKept ==
  /\ \A c \in Cycles :
       /\ cycles[c].startedAt >= origin + (c - 1) * schedule.intervalMs
       /\ ~PastDeadline(cycles[c].startedAt - origin)
       /\ c > 1 => cycles[c].startedAt >= cycles[c - 1].finishedAt
  /\ InCycle => cycle.scheduledAt = origin + (cycle.number - 1) * schedule.intervalMs

\* The reason a session reports is the true one, and nothing but an unwritable
\* output ends it early: a lost cycle does not.
StoppedForItsReason ==
  LET lost == {c \in Cycles : cycles[c].error = "output_error"} IN
  /\ lost \subseteq {Len(cycles)}
  /\ stopReason = "fatal" <=> lost # {}
  /\ stopReason = "cancelled" => aborted
  /\ stopReason = "max_cycles" => Len(cycles) = schedule.maxCycles
  /\ stopReason = "duration" => \/ PastDeadline(now - origin)
                                \/ PastDeadline(Len(cycles) * schedule.intervalMs)

\* However the reads and writes of successive cycles are timed, the baseline
\* file has the cycles in order, what is shown is the cumulative view up to the
\* latest one, and no cycle is compared with itself or with a later one.
LatestBandwidthWins ==
  /\ \A i \in 1 .. Len(history) - 1 : history[i] < history[i + 1]
  /\ bandwidth # Null =>
       /\ bandwidth.current = {c \in 1 .. bandwidth.cycle : cycles[c].hasSummary}
       /\ \A c \in bandwidth.baseline : c < bandwidth.cycle
       /\ (\A c \in Cycles : books[c] = "done") => bandwidth.cycle = Len(cycles)

\* The abstract lifecycle: see RunLifecycle.
Lifecycle == INSTANCE RunLifecycle
               WITH cancelled <- aborted, begun <- cycle.number, ended <- Len(cycles)

ImplementsLifecycle == Lifecycle!Spec

\* A session finishes and reports, cancelled or not, whatever cycles fail.
SessionReports == <>(at = "ended")

\* What the watchdog says it reports: work in flight, and nothing completing.
StallMeansWorkInFlight ==
  [][Len(watch'.episodes) > Len(watch.episodes) => inFlight > 0]_vars
=============================================================================
