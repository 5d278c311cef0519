# metric-scraper in TLA+

A verification project for metric-scraper (TypeScript, one Node.js process): TLA+ modules that
model its components, TLC configurations that check them on small instances, and TLAPS proofs of
what matters most for every instance. Paths below are relative to the repository; `core/`, `app/`,
`infrastructure/`, ... stand for `src/core/` and so on. Every definition that models code is mapped
to its lines in `PROJECT.json`.

## 1. The system

A run takes a list of public video URLs, scrapes the metrics of each through a pool of proxies, and
appends one row per URL to a JSONL file. A continuous session repeats the run on a schedule. All of
it runs on one event loop: code between two `await`s is atomic, and everything across an `await`
interleaves.

| component | state it keeps | operations | interacts with |
|---|---|---|---|
| **Proxy pool** `infrastructure/proxy/in-memory-proxy-pool.ts`, `static-proxy-provider.ts` | per proxy: health counters, bench, retirement, earned slots, leases out, generation; the waiters | `acquire` (waits), `release` with one outcome, `add`, `evict`, `getStats` (sweeps) | leased from by runner and input preparer; roster changed by the source manager; emits health events |
| **Proxy source manager** `proxy-source-manager.ts` | a record per candidate, the untried ones, the batch being probed | `start`, `refreshOnce`, `replenishOnce`, `reap`, `stop`; two timers | reads the pool's capacity, adds to and evicts from its roster, publishes its supply to it |
| **Session pool** `infrastructure/session/in-memory-session-pool.ts` | per identity: streak, bench, in-use flag, last use | `acquire`, three reports, `release` | leased next to a proxy by the runner |
| **Batch runner** `core/runner/scrape-runner.ts`, `core/concurrency/task-queue.ts`, `core/retry/` | the queue, the tasks, the run's abort signal, the fatal error, the counts | `run`: admit, attempt, retry, write, drain, close | both pools, the sink, the scrapers, the observers |
| **Egress ceiling** `core/rate-limit/`, `infrastructure/http/rate-limited-http-client.ts` | tokens and the chain of waiters of each host | `acquire` with a wait budget | the producer; every outbound request |
| **Transport** `infrastructure/http/fetch-http-client.ts`, `counting-dispatcher.ts`, `core/metrics/bandwidth.ts` | connection pools kept from cycle to cycle, bytes per cycle and exit | `get`, the callbacks of a transfer, `close` | the scrapers; the cycle's aggregator |
| **Platforms** `platforms/` | per-run caches of promises in flight | `scrape`: a ladder of requests per URL; `resolve` of a short link | transport, runner, input preparer |
| **Input preparer** `app/input-preparer.ts`, `core/input/` | resolution cache, worker index, items and issues | `prepare`: parses, resolves short links, drops duplicates | the proxy pool; hands its items to the runner |
| **Continuous session** `app/scrape-session.ts`, `core/schedule/interval-scheduler.ts` | cycle, samples, stall windows, accumulated counts | scheduled cycles, watchdog, final summary | one runner per cycle, one shared pool and source |
| **Run service** `app/run-service.ts`, `app/bandwidth-refresh.ts` | up to 20 runs and their states, the latest-wins guard | `start`, `cancel`, `get`, retention | runner or session; the dashboard polls it |
| **Snapshot sink and run files** `infrastructure/output/` | one append stream, its drain promise; the history of bandwidth; the event log's stream | `write`, `close`; `append`, `read`; `record` | runner, successive runs, pool events |
| **Metrics and summaries** `core/metrics/`, `core/runner/build-*.ts`, `core/concurrency/concurrency-diagnostics.ts` | counters per cycle, samples of a session, the low mark of the proxy capacity | one record per event, a view at the end | runner, session, pool |
| **Capacity planning** `core/capacity/`, `web/capacity/state.ts` | the page's inputs and presets | pure arithmetic on every edit | the dashboard |
| CLI, dashboard rendering, stress harness, configuration | UI state | | all of the above |

**What is hard here.** Jobs share a few proxies and wait for each other; outcomes of old leases
arrive after a proxy was benched; benches expire between two looks at them; a source changes the
roster underneath; a failed write or a throwing observer has to stop everything in flight without
losing a row; an abort can land in any wait. `PROJECT.json` lists these hazards line by line with
the properties that cover each.

**What makes each component correct.**

- *Proxy pool*: leases and slots agree; a ceiling holds while capacity moves; a bench is served in
  full and stale outcomes cannot change it; nobody waits for a wakeup that cannot come; nobody goes
  direct by accident; the event stream tells the truth.
- *Source manager*: records and roster agree; validation is bounded by the shortfall; eviction never
  takes a proven or the last recoverable proxy; a rejection is final; a shortfall is answered.
- *Session pool*: streak and bench agree; a session shown in use has a holder.
- *Runner*: each record ends with one row or an accounted reason; leases live only in attempts; no
  write after close; an abort stops admission, blames nobody, and the run always returns.
- *Egress ceiling*: no more than the burst plus the rate in any stretch of time, and no wait beyond
  its budget, with aborts anywhere in the line.
- *Transport*: a cycle reports the bytes its own requests moved, once each, whatever became of them.
- *Platforms*: concurrent attempts share a request without sharing its failure; a cookie leaves only
  through its own exit; a proxy is judged by what it brought back; a short link stays on its platform.
- *Input preparer*: every pasted line becomes one item or one issue, and no post two items.
- *Sink and files*: a row acknowledged is in the file of a clean close; a crash costs the history one
  record; the event log has no gap.
- *Metrics and summaries*: what is reported can be reconciled with what happened.
- *Capacity planning*: the cohorts add up, and the answers to "is it enough" do not contradict each
  other but for a demand that is at capacity.
- *Session*: cycles never overlap, start when due, stop for the reason reported; stalls are opened
  and closed in pairs.
- *Run service*: a terminal state is final and active runs are never evicted; a stale refresh never
  overwrites a newer one.

## 2. The modules

| module | models | composes |
|---|---|---|
| `ProxyPool` | the pool as jobs use it through `StaticProxyProvider` | |
| `LeasedPool` | abstract: who may hold which proxy, when a proxy is in rotation | implemented by `ProxyPool` |
| `ProxySource` | the source manager with the pool it feeds | `INSTANCE ProxyPool` |
| `SessionPool` | the session pool as attempts use it | |
| `Runner` | `ScrapeRunner.run`, the task queue, the attempt loop | |
| `Session` | a continuous session: the schedule, its cycles, the watchdog, the sampler, the bandwidth bookkeeping | |
| `RunService` | the runs of the process, one-shot `execute` in full, and the dashboard page that starts and polls one | |
| `RunLifecycle` | abstract: what the dashboard may rely on about one run | implemented by `Session`, and by each run of `RunService` |
| `RateLimiter` | the egress ceiling: a token bucket per host with its chain of waiters | |
| `Transport` | the dispatchers a session keeps, a transfer's callbacks, the bytes recorded | |
| `Failures` | what a failure is, and what it tells the pool | extended by the next three |
| `Instagram`, `TikTok` | one scrape of either platform | |
| `ShortLinks` | the resolvers of short links and the normalisers | |
| `Preparer` | from pasted text to the items of a run | takes a resolution as its outcome |
| `SnapshotSink` | the JSONL file of rows | |
| `RunFiles` | the bandwidth history across runs and crashes, the proxy event log | |
| `Throughput` | the timeline of a session and its sustained stretch | |
| `Summaries` | collector, run summary, session summary | |
| `Diagnostics` | the concurrency monitor and its diagnosis | |
| `Reports` | what a session reports when it ends, as one property | extends the three before it |
| `Capacity`, `CapacityPage` | the planning arithmetic, and the page that holds its inputs | `CapacityPage` extends `Capacity` |
| `Absent` | the value for `undefined` and `null`, which the others share | |
| `ProxyPoolProofs`, `RunnerProofs`, `SessionProofs`, `RunServiceProofs` | proofs about the component of that name | extend it |
| `SupplyProofs` | proofs about the supply of proxies and its planning: `ProxySource`, `Capacity`, `CapacityPage` | extends them |
| `NetworkProofs` | proofs about what lies between a runner and the network: `SessionPool`, `RateLimiter`, `Transport`, `TikTok`, `ShortLinks`, `Instagram` | extends them |
| `OutputProofs` | proofs about what goes in and what stays behind: `Preparer`, `SnapshotSink`, `RunFiles`, `Reports` | extends them |
| `SumLemmas` | lemmas about sums over finite sets (`SumFunctionOnSet`) and over prefixes, extremes and mediants, the places of a set of numbers in order, steps up to a bound | extended by the proofs |
| `MC...` | instances for TLC; `MCParts` has all components without a run of their own, which share no variable | extend their component |

Definitions whose comment begins with "Mutation:" are deliberately wrong variants of the definition
after them. No specification uses them; they document which mistake each property would catch.

### ProxyPool

One action is one run of code between two suspension points. `Acquire` and `Resume` are passes of the
loop in `acquire` (`Pass`: throw on an abort; otherwise sweep, then go direct, lease, or park, or give
up); `Release` is `StaticProxyProvider.release`: report, give back, wake everybody, as one
synchronous section. `TimerFires`, `Abort` are the two other ways out of a wait. `Add`, `Evict`,
`GetStats`, `SupplyChanges` are the calls a source makes; `Add` and `Evict` include the sweep the
caller's reading of the stats makes. `entry` holds the fields of `ProxyEntry` that decide anything;
`announced` is the last state `onEvent` was told. Streaks stop counting at the limit that benches
(nothing in the code tells higher values apart).

The proxy of a tie is left open (the code takes the first in roster order). Loads are compared by
cross-multiplication instead of division. A retired proxy, whose bench no longer matters, keeps it
as the code does.

### LeasedPool

The promise to callers, with no clock and no counters: a proxy is in rotation, benched, retired or off
the roster; leases are taken on proxies in rotation and below the ceiling; only time ends a bench;
nothing ends a retirement. `ProxyPool` maps `Standing` and `HeldBy` onto it.

### ProxySource

`lifecycle` is start and stop, `candidate` the records, `replenish` the position of the one
`replenishOnce` that may be under way. A replenish is `Replenish` (harvest, up to the first probe),
one `ProbeEnds` per candidate in any order, `Admit`, and `FinishReplenish`, which evicts. Every action
that touches the pool is conjoined with the pool's own action, so the pool's guards and its sweep
apply; `supply`, free in `ProxyPool`, is here what the candidates are. One fetch lists any set of
proxies; a failed one lists none. The number of probes in flight is not limited (the results arrive
in any order either way).

### SessionPool

`Acquire` with the least recently used session bound to the leased route, `Anonymous` when there is
none, `Release` with the report the runner makes first. There are no waits and no generations in this
pool. `MaxStreak` and `MaxTime` bound the instance.

### Runner

`producer` is the position of the admission loop, `phase` the position of each record's task. A task
that has just been given a slot (`starting`) or whose rejection is on its way (`threw`) goes on in the
same turn of the event loop, so nothing else happens first (`Quiet`); the order in which the queue
library hands a slot on before a rejection is caught is the library's. Scrape results are the
kinds that retrying and health reporting tell apart; proxy slots stand for the pool. An exception
out of `onResult` or `onProgress` of a task is `threw`; one out of the producer's own `onProgress` is
not modelled. Backoff and rate-limit delays have no length: they end, or are aborted.

### Session

`at` is the place where `runSession` is suspended: `starting` (the source is stocked), `sleeping` (the
scheduler waits for the next due time), `building` (the runner is built, the input prepared),
`running`, `writing` (the cycle's summary), `closing` (the sampler stops), `reporting`, `ended`.
`Schedule` is the scheduler's loop from its top to the next suspension: `EndsFor` its four ways out in
the order of the code, `BeginCycle` the deadline looked at again and the first statements of the
cycle. `FinishCycle` is everything after a cycle's try block, scheduler's turn included, so a cycle's
end and the next one's beginning are one step, as they are in the code when nothing is awaited.

The batch is a number of requests: `Runner` models how they are carried out. The model keeps what the
run *reports* in flight (`live`) apart from what is (`inFlight`); the first lags behind the second,
because a request reports from inside its own task. `Observed` is `observeStall`; the same function
runs from `onProgress`, from the sampler (`Sample`, at any moment while it lives) and at the end of a
cycle. `status` is what `executeSession` shows; `RunService.cancel` is `Cancel`.

`books` is how far the bookkeeping of each cycle is: `recordCycleBandwidth` is not awaited and chained
by `LatestWins`, so it overlaps the following cycles and outlives the session. `history` is the
baseline file as a list of cycles; a failed append or read is one of the outcomes. Bandwidth metrics
are taken to be on, so a cycle with a summary is a measured one. Counters, the text of summaries and
the timeline's samples are left out; observers are taken not to throw, since `Runner` models those.

### RunService

`at` is the await at which a run is suspended. A one-shot run goes through `starting` (the proxy
source), `building` (the runner), `resolving` (short links), `running`, `persisting` (the summary),
`appending` (the baseline line), `refreshing` (the bandwidth) and `cleaning`, one release at a time;
`held` is its cleanup stack. `Start` is `start` up to the first await of `execute` or
`executeSession`: registration, retention, and either the first state or a failure (unusable input, a
misconfigured supply). A session is one place, `session`, in which it shows what `RunLifecycle` lets it
and takes samples; what happens inside is in `Session`. `fatal` is the runner's fatal error, any of
those that `Runner` allows. The runner returns, since the observers given to it here do not throw;
writing the summary, the baseline and the bandwidth never fails a run, as the code has it.

`retained` is the map of runs. Its insertion order is the order of starting, so runs are numbers and
the order need not be stored. One page is followed, with every call of `beginRun` and `poll` that it
has under way: `loop` says where each is suspended and what answer is on its way to it. A request or an
answer can be lost at any moment (`GivesUp`), and an answer shows the run as it was when the server
wrote it. Other clients start and cancel runs freely. Samples are their own numbers, so
`PageTellsTheRun` can say that none is missing or shown twice. Reports, recent results, the metric
series and the download of the output are left out.

The form is locked while the page shows an active run, so a page would have one call at a time. But two
handlers set the page to "failed" without regard to a call under way (`Interrupted`): the catch of
`loadDefaults` (web/main.ts:67-78) and the listener for a file that cannot be read (126-131). The form is
then unlocked (web/render.ts:95-118) while the call polls on, and can be submitted again (`Submits`): a
second call runs beside the first, whose answers are appended to the timeline of the new run and move its
cursor (main.ts:301-305), and whose failure or end shows as that of the new run. Nothing in the
repository says that this cannot happen, so it is no disagreement; but such a page does not tell its run.
`alone` remembers whether the last submit found any other call under way, and `PageTellsTheRun` is
claimed of a page that is `alone`. So a failure of the form by itself does no harm: the next answer of the
call puts the page right. And the next submit that finds no call under way is one the property is about
again.

### RunLifecycle

What a poller may rely on: a run moves between the active states, its cycles begin and end one at a
time, a cancelled run begins no further cycle, and a final state is final. `Session` maps the cancel
flag, the number of the cycle under way and the number of finished cycles onto it. `RunService` maps
every run onto an instance of its own, without counting cycles.

### RateLimiter

One bucket per host, as `RateLimitedHttpClient` keeps them. A bucket is kept in units (`Cost` units make
a token, `Rate` units arrive per tick), so the `Math.ceil` of a sleep is the ceiling it is in the code.
`chain` is the promise chain: `Arrive` joins it, `Turn` is what a waiter does when those before it have
left (refill, take a token, throw on its budget, or sleep), and `TurnAborted` is an abort, which is only
looked at there. A timer fires at most `Late` ticks after it is due.

### Transport

The library underneath is its callbacks, in the order it may call them: `RequestStart`, `ResponseData`,
`ResponseEnd`, `ResponseError`, and `Abort` for our own timeout or signal. A redirect is a second
transfer through the same exit. `ledger` is what the interceptor recorded per cycle and exit, `moved`
is what really went over the wire, which no code sees; the property compares them.

### Failures, Instagram, TikTok, ShortLinks

`Failures` has the statuses, codes and retryability of a failure, and `classifyProxyOutcome`. The
scrapers and resolvers are sequences of requests; an answer is a status class, a thrown error, or a
body as far as its parser looks into it. `Instagram` keeps the maps of promises: `Answer` settles a
request for everybody who waits for it, `Resume` is the code behind the await. `TikTok` and `ShortLinks`
are followed for one URL, because nothing is shared between two. In `TikTok` both requests follow
redirects themselves; `ShortLinks` follows them by hand, and the servers may send it anywhere.
The instance of `Instagram` searches the pages of one author: the step to a second one is there in the
module, but with two pages of two authors the run is out of TLC's reach.

### Preparer

`call` counts calls of `prepare`, since the cache outlives one. Workers take indices from one counter;
a worker leases (or is refused), resolves, and on a retryable failure pauses and tries again.
`Settle` is the code behind the `Promise.all`, which runs also when one worker has thrown; the other
workers go on after it, as they do in the code.

### SnapshotSink and RunFiles

`opening`, `accepted`, `disk` and `fault` are the Node stream (external): a row handed over waits in
the buffer, `Flush` puts it in the file, `FlushFails` drops the buffer, and `Announced` is the 'error'
event, later. `streamError` is what the sink has been told. `Rejects` and `Accepts` are `write` from its
check on, `Close` and `CloseEnds` the two halves of `close`.

`RunFiles` lets a process die between any two bytes of an append: `tail` is the unterminated last line,
and the next record is glued to it. A run is compared with `Summarize` of what can be read of the others:
the reader's result is the set of places in the text that parse, and its sums are sums over those places.

### Throughput, Summaries, Diagnostics

`Throughput` keeps `history`, every sample ever taken, beside the `buffer` of the code, so that what is
reported can be compared with what was. `Summaries` keeps `recorded`, the results themselves, beside the
counters, for the same reason; a proxy that a cycle did not use shows the pool's counters
(`build-proxy-summary.ts`), as in the code. `Diagnostics` has the monitor's capacity warnings, with a
drop measured from the baseline of the last one, and `diagnoseConcurrency` over a set of figures.

### Capacity and CapacityPage

The arithmetic in fractions: cohorts, reliability, demand, proxies, cost, growth. A figure that
cannot be computed carries the inputs it misses, as `Maybe` does; a constraint whose limit is not set
has no entry among the constraints, as in `calculateCapacityWorkload`. `CapacityPage` is the store:
`OpenPage` is its constructor (before it there are no inputs), `EditPage` an edit, a preset, or a change
to a stage. The properties compare the code's closed forms with direct counts (a day's polls with
the polls of each cohort, the amplification with the sum of the chances to reach an attempt) and the
three answers to whether the configuration is enough with each other. The last is stated for a positive
target: with a target of zero the sustainable rate is zero, while the recommended number of workers
does not look at the target.

*Rounding.* The code computes in doubles, and the answers meet at a boundary where the last bit counts. A
fraction of the model is the number that the doubles stand for. A figure that two answers share, such as
the capacity of one worker or the amplification, is one double in the code and one fraction here. Where an
answer goes on from there by itself its result is `Rounded`, that is, off by its own error: the raw number
of units before `Math.ceil` (calculator.ts:924-944), the scaled capacity the status looks at (946-960), and
the rates that the warnings compare (777-865). `Nudge` is that error, any function of the figure's name and
value, up to `Drift` parts in `Precision`. The status has the code's tolerance (980-981), one part in
`Tolerance`. `CapacityAssumption` asks that the tolerance be larger than two of the errors together
(`Precision >= 2 * (Tolerance + 1) * Drift`); in the code it is 1e-9 and an error a few times 1e-16, so
this holds with much to spare.

With that, `PlanHolds` claims that a demand the status calls over capacity asks for more workers or
proxies than there are and comes with a warning, and that a demand within capacity asks for neither. It
claims nothing of the fleet at capacity, because there the code does disagree with itself by a unit: 83520 jobs
a day, 7 workers with 29 slots each and a latency of 210000 ms are at capacity, and 8
workers are recommended, since 83520 divided by the rounded 83520/7 is 7.000000000000001. Nor need a worker
that is lacking there come with a warning; a pool that is short always does. That follows from the code (a
tolerance on one side, none on the other); no document says otherwise.

The other figures are exact fractions: the cohorts and the attempts add up exactly here, and up to
rounding in the code. The margin on the proxies and the growth factor are products that the same
expression computes wherever two figures are compared. Overflow to infinity and subnormal numbers are left
out.

## 3. What TLC checks

| run | instance | shows |
|---|---|---|
| `pool_static` | 2 jobs x 2 proxies, 2 acquires each, clock 0..3, ceiling 2, probation 1, two strikes, bench of 2 ticks, budget of 1, symmetric | `LeasesInOrder` (types, lease counts, ceilings, generations), nobody stranded or silently direct, `EventsTrackHealth`, `SentenceServed` and the refinement of `LeasedPool` |
| `pool_live` | 2 jobs x 1 proxy, fed by a source, one strike, bench 1 | `AcquireSettles` |
| `pool_budget` | as `pool_static` with one proxy | **violation**: a saturated wait outlives `acquireWaitMs` |
| `runner_batch` | 4 records (two to scrape, one prepared failure, one resolved short link), 2 tasks, queue of 1, 1 proxy slot, 2 attempts | `BoundedWork`, `RowsAccounted`, `AbortIsClean` and `RunReturns` |
| `runner_exhausted` | 3 records, one resolved short link | **violation**: exhausted after one scrape attempt of two |
| `session_bench` | 2 jobs, 3 sessions on 2 routes, 2 strikes, bench 2, clock 1..3 | **violation**: a late success lifts a bench |
| `source_supply` | 2 proxies, any of them configured, 1 job with 2 acquires, target and floor of 1, one bootstrap round, clock 0..2 | `RosterMatchesRecords`, `EvictionIsNarrow` (floor, no proven proxy, a rejection is final), `ShortfallAnswered` |
| `session_cycles` | 2 requests per cycle, 1 at a time, stall after 1 tick, clock 0..2; two plans: 2 cycles back to back, and an interval of 1 with a deadline of 2 | stalls, schedule, stop reason, bandwidth, the refinement of `RunLifecycle`, `SessionReports` |
| `session_stall` | the same | **violation**: a stall begun with nothing in flight |
| `service_runs` | a session and a one-shot run, room for one finished run, 3 samples and a window of 2, one page with up to 2 calls | retention, `CancelHonoured`, cleanup order, `PageTellsTheRun`, each run a `RunLifecycle`, `RunsSettle` |
| `components` | each component of `MCParts` on its own instance, below | `StreakIsBenched`, `InUseHasHolder`; `EgressKept`; `BytesAccounted`; `RequestsShared`, `SessionIsLastResort`; `ProxyJudgedByAnswer`; `ResolutionStaysHome`; `EveryLineAccounted`; `RowsKept`; `FilesHold`; `ReportsReconcile`; `PlanHolds`; `WorkSettles` |
| `timeline_evicted` | 3 samples kept, a clock of 6 | **violation**: a sustained stretch longer than any the session had |

**Why the bounds are enough.** Two jobs and two proxies give every pair the code distinguishes: a
holder and a waiter, a current lease and a straggler of the same proxy, a proven and an unproven
proxy, one benched and one free. Two strikes separate a streak from a bench; two acquires per job
let a lease of the old generation end after a bench has begun or been served; three ticks let a bench
of two begin, be waited for and end. For the runner, two tasks, a queue of one and four records make
the producer wait for room, tasks wait in the queue, and leave records unadmitted when an abort
comes. In `source_supply` two proxies suffice for a replacement to be admitted while the one it
replaces is benched; with a target of one a batch of two would be too large. For a session, two cycles are enough for a
bookkeeping that overlaps the next one and for a stall that would outlive its cycle; the two plans
reach every reason to stop and the two ways into a cycle (at once and after a sleep), and with a clock
of two a cycle can overrun its interval. In `service_runs` the second start finds the map full, with the
first run ended or not; three samples in a window of two let the page fall behind what is retained; two
calls are enough for a first one to answer into the second one's run. The run is the sum of two instances
(`MCRunService`): either the page is not used, and others start and cancel the runs, which end in every
way; or the page alone starts them, nobody cancels, and the session takes no sample while a call from
before the last submit is under way, when the property claims nothing. Type correctness of `RunService` is
proved. Symmetry is used only
in `pool_static`, which checks no liveness.

`components` checks thirteen components that share no variable in one run: `part` is chosen at the start,
only that component moves, and the others stay as they begin, so the states are the sum and not the
product. Its instances:

- session pool: 2 jobs, 3 sessions on 2 routes, 2 strikes: both sessions of a route can be out at once;
  a bench of one tick and a clock from 1 to 2, so that it begins, ends and is seen to have ended;
- egress ceiling: 3 requests, one host with a ceiling and a budget and one without, a token every 1.5
  ticks, burst 1, timers up to 1 late: a line of three with a sleeper in front, fractions of a token to
  round, one that is turned away, and an abort at either place in the line;
- transport: 2 requests, 3 kinds of exit (one that cannot be dialled), one redirect, 2 cycles: transfers
  that overlap, and dispatchers that outlive a cycle;
- Instagram: 2 attempts through one exit, a session bound to it and one bound elsewhere, 2 pages: both
  sides of every shared promise; TikTok and short links: one URL, every class of answer that is told
  apart, two redirects: a loop, a detour and one hop too many;
- preparer: a blank line, a bad one, a post pasted twice, 3 short links of which two lead to one post and
  one to the pasted one; 2 workers on one slot, 2 attempts, 2 calls over one cache: every way in which
  a duplicate shows late;
- sink: 4 rows, a buffer of 2: two writers share a drain while others come; files: 3 runs, 2 events, a
  crash at any byte;
- timeline: 3 samples kept of at most 5, so the buffer drops some; summaries: 2 cycles, 3 steps, one
  proxy; diagnosis: 3 observations of 5 capacities; planning page: 2 edits from three presets, over a
  lifecycle with intervals within and beyond a day and one stage without polls; a tolerance of a quarter, errors of up to a tenth, each figure rounded up or down
  by its name and value (`RoundedOff`): coarse enough for the two to decide in a small instance.

A part may come to its end (a URL is scraped, a sink closed), so this run and `timeline_evicted` do not
check for deadlock; that nothing ends while somebody waits is `WorkSettles`.

**Fairness.** `ProxyPool`: time passes (`Tick`), a woken job and a due timer run (the event loop), and
a lease ends, because the runner bounds every attempt with a timeout. Nobody has to acquire or abort.
`Runner`: whatever is ready runs; a scrape and a write end; with the signal aborted a refused wait
throws. No fairness on failures or on the operator. `ProxySource`: the timers tick and every probe
ends (each has its own timeout). No fairness on the jobs, on the list or on stopping.
`Session`: time passes, every await of the session ends, and the run it waits for proceeds (a request
has a timeout); none on cancelling, on failures, on the sampler or on the bookkeeping.
`RunService`: every await of a run ends, which for the runner and the session is `RunReturns` and
`SessionReports`; none on starting, cancelling or the page. `components` (`PartsFairness`): the clock of
the limiter and the turn of each waiter, every answer and the code behind it for Instagram (each
request has a timeout), every step of a preparer's worker and the settling of its `Promise.all`, the
callbacks of the stream, and the runner's call of `close`. Nobody has to abort, write or call again.
`WorkSettles` has the form `<>[]`: work that stops arriving is done for good, which is what each of
these components can promise when its callers are free.

**Deadlock** is checked in every other run: the end of a run is the explicit `Finished` or `Returned`.

### Disagreements found

1. `pool_budget`: the comment on `acquire` (in-memory-proxy-pool.ts:411) bounds waiting by
   `acquireWaitMs`; the branch for a saturated pool waits without a timer.
2. `runner_exhausted`: `exhausted_requests` (run-summary.ts:261) is said to count requests that used
   every allowed attempt; attempts spent on resolving a short link are counted in.
3. `session_bench`: the session pool claims the proxy pool's cooldown model
   (in-memory-session-pool.ts:30), but has no generations: an attempt from before a block can lift it.
4. `session_stall`: a stall is said to be work in flight without a completion (scrape-session.ts:255).
   The last progress report of a request is made before its task has ended and counts it; while the
   next request waits for its rate-limit token, a gap of the threshold is recorded as a stall.

5. `timeline_evicted`: `sustained_target_ms` is said to be the longest stretch at or above the target
   (README.md:904). Once samples have been dropped, a stretch at the head of what is left is counted
   from the start of the session (throughput-timeline.ts:171), over time that was below the target.

A property that holds in a narrower form than one may expect: `RowsKept` says what a close promises as
long as the stream has not failed. `end()` calls back on a failure before the 'error' event comes, so a
close that was waiting for the last rows resolves with rows missing (jsonl-file-sink.ts:137); the model
has that behaviour too.

A consequence worth knowing of `StallsSettled`, not a disagreement: every cycle ends with a look that
closes an open stall, so a *finished* session never shows one as open.

## 4. What is proved

For all finite sets of proxies and jobs and all values of the limits that `PoolAssumption` allows,
from that assumption alone:

- `TypeCorrect` (`ProxyPoolProofs`): the type invariant. One lemma per field update, one per report,
  one per action.
- `LeasesAreInOrder` (with its parts `LeasesAccounted`, `CeilingKept`, `StragglersPowerless`),
  `NobodyStranded`, `NeverDirect`, `SentencesServed` (`ProxyPoolProofs`), from one inductive invariant `IInv`: types; soundness of
  each entry (a blocked proxy is benched or retired, trust is at least one slot, a proxy without a
  success is on probation); lease accounting, with the generation order (a lease is never newer than
  its entry); the ceilings; that without a source the roster is the configured one; and the facts
  about waiters and direct jobs. The properties are not inductive on their own:
  `CurrentLeaseInRotation` needs that every step that benches or retires moves the generation past
  all outstanding leases; `WithinCeiling` needs that an unproven proxy never earns a slot;
  `NoStrandedWaiter` needs the accounting, because a full proxy must have holders.
- `EventsAreTrue` (`ProxyPoolProofs`): what was last announced of a proxy is its health, up to a bench
  that ran out unseen. Inductive with `IInv` and one fact more, `Tried`: an entry with a lease or a
  success has been requested, so that "untested" is true of no other. The sweep announces whatever it
  changes (`SweptIsTold`), every report begins or ends with one, and only `Tick` lets a bench run out.
- `PoolKeepsPromise` (`ProxyPoolProofs`): the refinement. Initial states map to initial states,
  and each action to a step of `LeasedPool` or a stutter: a lease is a `Take`, a release a `GiveBack`
  that may bench, the clock an `EndBenches`; sweeping changes nothing abstract.
- `SourceDrivesPool`, `RecordsAreKept`, `EvictionsAreNarrow` (`SupplyProofs`), from
  `SourceAssumption` alone: for any candidates, configured proxies, targets and limits. The inductive
  invariant has the types, `Recorded` (the roster against the records), `Shaped` (every entry keeps its
  fields, whichever report changes it), that the roster holds proxies of the instance and the
  batch only admitted ones, and `Bounded`: a batch is no larger than the target. A batch is the sum over
  the protocols of what each is granted, which is where the lemmas about sums come in. With it every step of the source is a step of `ProxyPool` or a stutter, so
  the pool behind a source is the pool the theorems above are about, with `supply` computed from the
  records instead of being left open. `EvictionIsNarrow` needs the records too: that a rejected
  candidate is never put back on the roster follows from what a batch holds, not from the step alone.
- `SuppliedPoolInOrder`, `SuppliedSentencesServed`, `SuppliedPoolKeepsPromise` (`SupplyProofs`), from
  `SourceAssumption` and `PoolLimits` (what `ProxyPool` assumes of its constants): the composition. What is
  proved of a pool whoever uses it holds of the one a source fills and evicts from while jobs run,
  and source and pool together implement `LeasedPool`. The theorems are those of `ProxyPoolProofs`,
  instantiated with the supply that the records publish (`PoolFacts`); the lemmas `Same...` say that its
  operators are those of the pool inside `ProxySource`, and `SourceDrivesPool` does the rest.
- `StreaksBenched`, `InUseHeld` (`NetworkProofs`): the two invariants of the session pool, for any
  number of sessions, jobs and routes. With the types they are inductive: no report touches the flag,
  and the only report that lifts a bench ends the streak.

- `SessionTypeCorrect`, `StallsAreSettled`, `FixedRateKept`, `ReasonIsTrue`, `BandwidthIsLatest`
  (`SessionProofs`), from `SessionAssumption` alone: for any set of schedules, any batch, concurrency
  and threshold, and without a bound on time or on the number of cycles. The inductive invariant
  `IInv` has six parts: types; `Stages` (what goes with each place, what the run last reported, the
  number of cycles); `Timing` (finished cycles in order, the one under way after them); `Stalls`
  (episodes in order, an open one only while the run has reported something, and none that closed
  after the last progress); `Books` (a cycle's bookkeeping starts only when all before it are done, a
  line is in the file only once its cycle was appended); and the stop reason itself. None of the
  properties is inductive alone: `StallsSettled` needs `Timing` to place an episode in its cycle, and
  `Timing` needs `Stages` to know which cycle that is; `LatestBandwidthWins` needs that the latest
  cycle's bookkeeping is the last to be done. The turn of the scheduler is summed up once, in
  `Turned` (it quits, waits or begins), and each part of the invariant is shown to survive that.
- `SessionKeepsLifecycle`: the refinement of `RunLifecycle`, from the same invariant.
- `CancelIsHonoured`, `ResourcesAreNested`, `RunsLive` (`RunServiceProofs`), from `ServiceAssumption`
  alone: for any number of runs, retention and window. The inductive invariant ties `at` to the status
  (final exactly when only the cleanup is left), to the stack (`IsStack`: the first n resources in the
  order of acquisition) and to the outcome. A step changes one run, so `OneRun` reduces each action to
  it, and `Proceeds` and `Concluded` are the two kinds of change there are. `ResourcesNest` is not
  inductive: that the last one released is the last one acquired needs the whole stack.
- `RetentionSafe`, `PageIsTrue`, `TypesAreKept` (`RunServiceProofs`), from the same assumption. Retention
  takes the oldest finished runs: how many go is a cardinality over the order of starts, and what
  stays is at most the limit or active (`Retains`). For the page, `PageInv` follows each answer from
  the moment it is made to the moment it is shown: a page's cursor is never ahead of the run's, and an
  answer on its way carries the samples after the cursor it was asked with (`Pending`). That is so of a
  page that is `alone`, which has at most one call under way (`OneCall`): a failure of the form leaves the
  samples and the call as they are, and a submit with no other call starts anew. It is proved for any number
  of calls.

- `WorkIsBounded`, `RowsAreAccounted`, `AbortsAreClean` (`RunnerProofs`), from `RunnerAssumption` alone:
  for any batch, concurrency, queue bound, number of attempts and proxy mode. The inductive invariant
  adds to the types `Admission` (records are submitted in order, and the sink is closed after the loop),
  `Queueing` (each waiting task is queued once, and only while every slot is taken), and for each
  record `Chain` (how many attempts and retries belong to its place), `Holds` and `Fate` (a task that
  ended without a row did so because of an abort, a lost row because of an output error).
  `RowsAccounted` is not inductive: that every record has its row at the end needs `Admission`, and that
  `processed` agrees with the rows needs each record to be counted once. Likewise `BoundedWork`: a slot
  that is handed on at the end of a task needs `Queueing`. `AbortIsClean` needs
  `Holds`: who is given a lease held none.
- `EgressIsKept` (`NetworkProofs`), from `RateLimiterAssumption` alone: for any number of hosts and
  requests, any rates, bursts and budgets, without a bound on the line. The heart is `Covered`: what was
  handed out since any grant, and what is left, came from one burst and from the time up to the last
  refill; the ceiling over every stretch follows, and the cap on the bucket is what makes it inductive.
  For the budget, `Line` says that requests stand in order of arrival and only the first one sleeps, so
  whoever is behind has waited no longer than the first, which wakes within its own budget.
- `BandwidthAccounted` (`NetworkProofs`), from `TransportAssumption` alone: for any set of calls, kinds
  of exit and number of cycles. The invariant `WireIInv` says that the books of each cycle balance:
  the sum over the ledger plus the sum over the calls still on the wire is what moved, for bytes up,
  bytes down and requests. A step changes one call and one line, so its difference is on both sides
  (`WireChange`, `LedgerChange`, `MovedChange`).
- `ProxyJudgement`, `ResolutionHome`, `SharedRequests`, `SessionHeldBack` (`NetworkProofs`), from
  `TikTokAssumption`, `LinksAssumption` and `InstagramAssumption`: for every page, body, status and code,
  any number of redirects, attempts, exits and pages. `RequestsShared` is not inductive: that nobody
  asks for what is there needs `AttemptWell` (an attempt with a request on the wire waits for its own
  answer) and that each promise in a map has exactly one such attempt or its value. A step asks, is
  answered, or does neither (`Asked`, `Settled`, `Alone`), and each of the three is shown once for
  both maps.
- `RowsAreKept` (`OutputProofs`), from `SinkAssumption` alone: for any number of writers and any
  buffer. The invariant adds `Stored` (the stream was handed each row once, of a write past its open),
  `Waits` (who waits for a drain waits on a stream that has announced no failure, and on a sink that
  nobody has closed) and `Closed`.
- `FilesAreKept` (`OutputProofs`), from `FilesAssumption` alone: for any number of runs and events, and
  whatever a run measured. `HistoryIInv` counts the damaged lines against the interrupted appends and
  keeps what can be read in the order of the runs; `LogIInv` says that the file and what waits for it
  are the events in order. That the averages lie between the extremes of the runs is a mediant
  argument over two sums (`Mediant`).
- `LinesAccounted` (`OutputProofs`), from `PrepareAssumption` alone: for any text, any links, workers, slots
  and attempts. The invariant ties the results to the records (`RecordsTaken`: each record taken has its
  result or a worker at it, and a worker is left as long as there is a record to take), so that when
  the workers are gone every record has its result. `RecordsAre` is the lemma about the parser: the
  records are the kept lines, one for each, in their order. `FirstIsKept` takes the least record with a post:
  a duplicate always has an earlier item, whatever chain of duplicates lies between.
- `ReportsAreTrue` (`OutputProofs`), from `SummaryAssumption`, `TimelineAssumption` and
  `DiagnosisAssumption`: what a session reports can be reconciled with what happened, from one theorem for
  each part, which share no variable.
  - `SummariesAreTrue`: the invariant has the collector agree with the outcomes of the cycle under way
    (`CurrentAgrees`), the totals of the summaries with the outcomes of the cycles that have one
    (`SessionAgrees`), the latencies with those of all (`Listed`), and the errors charged to a proxy, by the
    summaries and the collector together, with the pool's count of it (`Attributed`). An outcome is
    a cycle and a position in it, so that what a step adds is a set, of one element for a result and of a
    whole cycle's for a summary, disjoint from what is there. `PercentileIs`: a sample is placed by
    how many come before it, no two have one place, so every place is taken, and the rank picks the
    smallest sample with enough of the others at or below it.
  - `ThroughputIsTrue`: in the history each sample begins where the one before it ended and the buffer is its
    newest part (`TimelineIInv`). `Knows` is what the walk over the samples knows at each of them (the
    stretch that ends there and the best so far), shown with a least sample at which it would not.
  - `DiagnosisIsTrue`: the invariant ties the lowest capacity to all that were seen, and the baseline to the
    last warning of the shortage, which explains why a wavering capacity is not warned of twice.

- `PlanIsConsistent`, `PageIsTyped` (`SupplyProofs`), from `PageAssumption` alone: for any presets, any
  values the controls take, any number of stages and any calendar. `PageIsTyped` is inductive: every
  edit keeps the inputs of the types the calculator is written for. On such inputs each part
  of `PlanHolds` is shown without a step.
  - `CohortsHold`: the stages that count keep their order, so the day a stage begins is a sum over the stages
    before it, and an age falls into one of them (`SumLemmas`: places, prefixes). The polls of
    a day are counted by rounding two instants up, which is the number of multiples between them, and the jobs
    of a day are the polls of each cohort alive on it, whether they are summed by cohort or by stage.
  - `AttemptsHold`: the expected number of attempts in closed form is the sum of the chances to reach each
    of them, one attempt at a time, with the powers of a fraction as a function of the exponent.
  - `PlanAgreesHolds`: jobs beyond what n units carry by more than the tolerance need more than n units,
    and jobs below it by more than the tolerance do not (`Beyond`, `Below`), whichever way the two sides
    are rounded: the errors of the capacity and of the quotient together are smaller than the tolerance
    (`TwoErrors`). These are inequalities between products of unbounded numbers, which the SMT
    backend does not decide; they are made of lemmas on fractions that each take one step of
    the algebra. Then the least of the scaled capacities falls short only when one of them does
    (`Strains`, `MayStrain`), the proxies required are those of the most demanding constraint, and a
    shortage is warned of.

Where an argument needs induction over data, it is made with a least counterexample (`NatMin`,
`SmallestSet` in `SumLemmas`): the library's induction theorems take an operator as a parameter, which
none of the installed provers instantiates.

Only model-checked: everything that is liveness under fairness (`AcquireSettles`, `RunReturns`,
`ShortfallAnswered`, `SessionReports`, `RunsSettle`, `WorkSettles`), which is beyond the provers, and the
findings, whose counterexamples are runs. Every invariant and every action property that a passing run
checks is a theorem.

## 5. What is left, in order

1. Compositions: `Runner` with `SnapshotSink` and `RateLimiter` in the place of their outcomes,
   `Instagram` with `SessionPool`, `Preparer` with the proxy pool.
2. A second page on one run (several calls of one page are modelled); the wait metrics and the per-host split of bandwidth.

## 6. Not modelled, and why

- *Reading and writing of formats* (CSV, JSON, the proxy and session files, the settings), the bodies of
  platform answers, printed summaries, the markup of the dashboard: data from end to end, no state.
- *Sockets, TLS and the stages of the canary probe*: their outcomes are inputs of `Transport` and
  `ProxySource`.
- *The command line and the stress harness*: wrappers around `runSession` and `ScrapeRunner.run`. The
  command line's signal is the abort that those models take at any moment.
- *Steps the code cannot take as it is wired*: a probe that throws (the canary catches everything), a
  `stop` during `start` (`execute` awaits `start` before anybody can stop the source), an `onProgress`
  that throws on the producer's side (the observers of the run service and of the session do not).
- *Figures that divide two totals*, wait times and rates of the summaries: nothing beside the totals can
  go wrong in them that a unit test would not see.
