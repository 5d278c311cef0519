-------------------------------- MODULE Runner --------------------------------
(***************************************************************************)
(* ScrapeRunner.run (core/runner/scrape-runner.ts): one producer admits    *)
(* the records of a batch into a bounded task queue; each task takes its   *)
(* record through the attempt loop, writes one row and keeps the books.    *)
(* An unwritable output, or an exception out of an observer, is fatal: it  *)
(* empties the queue and aborts everything in flight.                      *)
(*                                                                         *)
(* One action is what runs between two suspension points of one task or of *)
(* the producer.  A scrape result is reduced to the kinds that retrying    *)
(* and health reporting tell apart.  The proxy provider is a number of     *)
(* slots (ProxyPool models the static one), the queue library, the sink    *)
(* and the scraper are their outcomes.  Latencies, wait metrics, progress  *)
(* callbacks and the summary are left out.                                 *)
(***************************************************************************)
EXTENDS Integers, Sequences, FiniteSets

CONSTANTS
  Inputs,         \* the batch: a sequence of prepared items
  ScrapeResults,  \* kinds of result the scraper may come back with
  MaxAttempts,    \* attempts of one record, the first included
  Concurrency,    \* tasks running at once
  MaxQueueSize,   \* tasks waiting before the producer waits; 0 is unbounded
  ProxyMode,      \* "static", or "rotating-residential": one gateway, no limit
  ProxySlots,     \* leases a static provider has; 0: nothing configured
  Null

Records == 1 .. Len(Inputs)

ResultKinds == {"ok", "gone", "transport", "refused", "blocked", "unsuitable",
                "throttled", "unparsed", "cancelled"}
ItemKinds   == {"ready", "failure", "unsupported"}

ASSUME RunnerAssumption ==
  /\ Inputs \in Seq([kind : ItemKinds, resolved : Nat])
  /\ ScrapeResults \subseteq ResultKinds \ {"cancelled"} /\ ScrapeResults # {}
  /\ MaxAttempts \in Nat \ {0} /\ Concurrency \in Nat \ {0}
  /\ MaxQueueSize \in Nat /\ ProxySlots \in Nat
  /\ ProxyMode \in {"static", "rotating-residential"}
  /\ Null \notin ResultKinds \cup {"output_error", "unknown"}

VARIABLES
  producer,    \* where the loop over the records is
  next,        \* the record it is at
  queue,       \* records whose task waits for a slot
  phase,       \* where each record's task is
  attempts,    \* attempts each record has begun
  retries,     \* retries counted for each record
  proxy,       \* whether the task holds a proxy lease
  session,     \* whether the task holds a session lease
  result,      \* what the last attempt of each record came to
  aborted,     \* "no", or who aborted the run's signal first
  fatalError,  \* the error the run will report, or Null
  sinkClosed,  \* whether sink.close has been called
  rows,        \* rows written for each record
  processed,   \* the runner's own count of finished records
  exhausted    \* records counted as having exhausted their attempts

producerVars == <<producer, next>>
leaseVars    == <<proxy, session>>
chainVars    == <<attempts, retries, result>>
bookVars     == <<rows, processed, exhausted>>
endVars      == <<aborted, fatalError, sinkClosed>>
vars == <<producerVars, queue, phase, leaseVars, chainVars, bookVars, endVars>>

RunningPhases == {"starting", "proxy", "session", "scraping", "backoff", "writing"}
FinalPhases   == {"written", "threw", "lost", "skipped", "dropped"}
Phases        == {"waiting", "queued"} \cup RunningPhases \cup FinalPhases

Running == {r \in Records : phase[r] \in RunningPhases}
Waiting == {queue[i] : i \in DOMAIN queue}
Leased  == {r \in Records : proxy[r]}
Stopped == aborted # "no"

\* A task that has been given a slot, or whose rejection is on its way, goes on
\* in the same turn of the event loop: nothing else happens in between.
Quiet == \A r \in Records : phase[r] \notin {"starting", "threw"}

-----------------------------------------------------------------------------
(* What a result means.                                                     *)

\* isRetryableResult(): permanent statuses and non-retryable codes are final.
Retryable(kind) == kind \in {"transport", "blocked", "unsuitable", "throttled"}

\* classifyProxyOutcome(): what the attempt says about the proxy it used.
ClassifyProxyOutcome(kind) ==
  CASE kind \in {"ok", "gone"}           -> "success"
    [] kind = "blocked"                  -> "blocked"
    [] kind = "unsuitable"               -> "unsuitable"
    [] kind \in {"transport", "refused"} -> "failure"
    [] OTHER                             -> "neutral"

\* reportSessionOutcome(), for an attempt that used its session.
ReportSessionOutcome(kind) ==
  CASE kind = "cancelled" -> "neutral"
    [] kind = "blocked"   -> "blocked"
    [] kind \in {"transport", "unsuitable", "throttled"} -> "failure"
    [] OTHER              -> "success"

\* The attempts of the row, those of the URL resolution included.
RowAttempts(r) == attempts[r] + Inputs[r].resolved

-----------------------------------------------------------------------------
(* The producer and the queue.                                              *)

Init ==
  /\ producer = "loop" /\ next = 1
  /\ queue = <<>>
  /\ phase = [r \in Records |-> "waiting"]
  /\ attempts = [r \in Records |-> 0] /\ retries = [r \in Records |-> 0]
  /\ proxy = [r \in Records |-> FALSE] /\ session = [r \in Records |-> FALSE]
  /\ result = [r \in Records |-> Null]
  /\ aborted = "no" /\ fatalError = Null /\ sinkClosed = FALSE
  /\ rows = [r \in Records |-> 0] /\ processed = 0 /\ exhausted = {}

\* Mutation: one task too many may wait.
HasRoomForOneMore == MaxQueueSize = 0 \/ Len(queue) <= MaxQueueSize

HasRoom == MaxQueueSize = 0 \/ Len(queue) < MaxQueueSize

\* Top of the loop, up to the first suspension: a full queue or the limiter.
Advance ==
  /\ producer = "loop"
  /\ producer' = IF next > Len(Inputs) \/ Stopped THEN "draining"
                 ELSE IF HasRoom THEN "rate" ELSE "capacity"
  /\ UNCHANGED <<next, queue, phase, leaseVars, chainVars, bookVars, endVars>>

\* awaitCapacity() resolves when the queue shrinks, or at once on an abort.
CapacityFrees ==
  /\ producer = "capacity" /\ (HasRoom \/ Stopped)
  /\ producer' = IF Stopped THEN "draining" ELSE "rate"
  /\ UNCHANGED <<next, queue, phase, leaseVars, chainVars, bookVars, endVars>>

\* p-queue's add: a free slot is taken at once, otherwise the task waits.
Enqueue(r) ==
  IF Cardinality(Running) < Concurrency
  THEN phase' = [phase EXCEPT ![r] = "starting"] /\ UNCHANGED queue
  ELSE phase' = [phase EXCEPT ![r] = "queued"] /\ queue' = Append(queue, r)

\* The limiter hands over a token, or throws because the run was aborted.
Submit ==
  /\ producer = "rate"
  /\ IF Stopped
     THEN producer' = "draining" /\ UNCHANGED <<next, queue, phase>>
     ELSE producer' = "loop" /\ next' = next + 1 /\ Enqueue(next)
  /\ UNCHANGED <<leaseVars, chainVars, bookVars, endVars>>

\* A task returns: its slot goes to the head of `kept`, what is left of the
\* queue; tasks that were cleared out of it never run.
Ends(r, how, kept) ==
  /\ phase' = [s \in Records |->
                 CASE s = r                                    -> how
                   [] s # r /\ kept # <<>> /\ s = Head(kept)   -> "starting"
                   [] s # r /\ kept = <<>> /\ s \in Waiting    -> "dropped"
                   [] OTHER                                    -> phase[s]]
  /\ queue' = IF kept = <<>> THEN <<>> ELSE Tail(kept)

\* onIdle(): nothing runs and nothing waits; the sink is closed.
Drained ==
  /\ producer = "draining" /\ Running = {} /\ queue = <<>>
  /\ producer' = "closing" /\ sinkClosed' = TRUE
  /\ UNCHANGED <<next, queue, phase, leaseVars, chainVars, bookVars, aborted, fatalError>>

\* The run returns; a failure to close is reported unless something else was.
Closed ==
  /\ producer = "closing"
  /\ producer' = "done"
  /\ fatalError' \in {fatalError, IF fatalError = Null THEN "output_error" ELSE fatalError}
  /\ UNCHANGED <<next, queue, phase, leaseVars, chainVars, bookVars, aborted, sinkClosed>>

OperatorAbort ==
  /\ ~Stopped /\ producer # "done" /\ Quiet
  /\ aborted' = "operator"
  /\ UNCHANGED <<producerVars, queue, phase, leaseVars, chainVars, bookVars,
                 fatalError, sinkClosed>>

-----------------------------------------------------------------------------
(* One task.                                                                *)

\* A task that starts after the abort returns at once; a prepared failure and
\* an unsupported platform go straight to their row.
Begin(r) ==
  /\ phase[r] = "starting"
  /\ \/ /\ Stopped /\ Ends(r, "skipped", queue) /\ UNCHANGED attempts
     \/ /\ ~Stopped /\ Inputs[r].kind = "ready"
        /\ attempts' = [attempts EXCEPT ![r] = 1]
        /\ phase' = [phase EXCEPT ![r] = "proxy"] /\ UNCHANGED queue
     \/ /\ ~Stopped /\ Inputs[r].kind # "ready"
        /\ phase' = [phase EXCEPT ![r] = "writing"] /\ UNCHANGED <<queue, attempts>>
  /\ UNCHANGED <<producerVars, retries, result, leaseVars, bookVars, endVars>>

\* Mutation: the attempt's own failure stands although the run was aborted.
FinalAsScraped(kind) == kind

\* Once the run is aborted a failure is recorded as the cancellation it is.
Final(kind) == IF Stopped /\ kind # "ok" THEN "cancelled" ELSE kind

HasAttemptsLeft(attempt) == attempt < MaxAttempts

\* Mutation: the proxy is only given back by the attempt that ends the chain.
SettleHolding(r, kind) ==
  LET final == Final(kind) IN
  /\ result' = [result EXCEPT ![r] = final]
  /\ session' = [session EXCEPT ![r] = FALSE]
  /\ IF Retryable(final) /\ HasAttemptsLeft(attempts[r])
     THEN /\ phase' = [phase EXCEPT ![r] = "backoff"]
          /\ retries' = [retries EXCEPT ![r] = @ + 1]
          /\ UNCHANGED proxy
     ELSE /\ phase' = [phase EXCEPT ![r] = "writing"] /\ UNCHANGED retries
          /\ proxy' = [proxy EXCEPT ![r] = FALSE]
  /\ UNCHANGED <<producerVars, queue, attempts, bookVars, endVars>>

\* The end of one attempt, thrown or returned: give both leases back, then
\* retry after a backoff or hand the row to the sink.
Settle(r, kind) ==
  LET final == Final(kind) IN
  /\ result' = [result EXCEPT ![r] = final]
  /\ proxy' = [proxy EXCEPT ![r] = FALSE]
  /\ session' = [session EXCEPT ![r] = FALSE]
  /\ IF Retryable(final) /\ HasAttemptsLeft(attempts[r])
     THEN /\ phase' = [phase EXCEPT ![r] = "backoff"]
          /\ retries' = [retries EXCEPT ![r] = @ + 1]
     ELSE phase' = [phase EXCEPT ![r] = "writing"] /\ UNCHANGED retries
  /\ UNCHANGED <<producerVars, queue, attempts, bookVars, endVars>>

\* The gateway is always there; the static pool looks at the signal and has a
\* free slot, or nothing is configured.
CanAcquire == \/ ProxyMode = "rotating-residential"
              \/ ~Stopped /\ (ProxySlots = 0 \/ Cardinality(Leased) < ProxySlots)

\* A lease, or, when no proxy is configured, the go-ahead without one.
ProxyGranted(r) ==
  /\ phase[r] = "proxy" /\ CanAcquire
  /\ proxy' = [proxy EXCEPT ![r] = ProxyMode = "rotating-residential" \/ ProxySlots > 0]
  /\ phase' = [phase EXCEPT ![r] = "session"]
  /\ UNCHANGED <<producerVars, queue, session, chainVars, bookVars, endVars>>

\* acquire() throws: proxy_error when the pool is exhausted, or the abort.
ProxyRefused(r) ==
  /\ phase[r] = "proxy" /\ ProxyMode = "static" /\ (ProxySlots > 0 \/ Stopped)
  /\ Settle(r, "transport")

\* A session bound to the leased proxy, or none; then the scraper is called.
SessionAcquired(r) ==
  /\ phase[r] = "session"
  /\ session' \in {session, [session EXCEPT ![r] = TRUE]}
  /\ phase' = [phase EXCEPT ![r] = "scraping"]
  /\ UNCHANGED <<producerVars, queue, proxy, chainVars, bookVars, endVars>>

ScrapeEnds(r) ==
  /\ phase[r] = "scraping"
  /\ \E kind \in ScrapeResults : Settle(r, kind)

\* The timer of a backoff fires (a delay of zero does not look at the signal).
BackoffEnds(r) ==
  /\ phase[r] = "backoff"
  /\ attempts' = [attempts EXCEPT ![r] = @ + 1]
  /\ phase' = [phase EXCEPT ![r] = "proxy"]
  /\ UNCHANGED <<producerVars, queue, retries, result, leaseVars, bookVars, endVars>>

BackoffAborted(r) ==
  /\ phase[r] = "backoff" /\ Stopped
  /\ result' = [result EXCEPT ![r] = "cancelled"]
  /\ phase' = [phase EXCEPT ![r] = "writing"]
  /\ UNCHANGED <<producerVars, queue, attempts, retries, leaseVars, bookVars, endVars>>

\* Mutation: a failed write counts against nobody.
AbortQuietly(error) == UNCHANGED <<aborted, fatalError>>

\* The run cannot go on: report the error and abort whatever is in flight.
AbortWith(error) ==
  /\ fatalError' = error
  /\ aborted' = IF Stopped THEN aborted ELSE "fatal"

\* The row is on disk: the books are updated and the observers are told.  If
\* one of them throws, the queue hands the slot on before anybody hears of it.
RowWritten(r) ==
  /\ phase[r] = "writing" /\ ~sinkClosed
  /\ rows' = [rows EXCEPT ![r] = @ + 1]
  /\ processed' = processed + 1
  /\ exhausted' = IF result[r] # "ok" /\ RowAttempts(r) >= MaxAttempts
                  THEN exhausted \cup {r} ELSE exhausted
  /\ \E how \in {"written", "threw"} : Ends(r, how, queue)
  /\ UNCHANGED <<producerVars, leaseVars, chainVars, endVars>>

\* The task's rejection is caught, once the task that took its slot has begun:
\* fatal, unless the run already has an error.
ObserverCaught(r) ==
  /\ phase[r] = "threw" /\ \A s \in Records : phase[s] # "starting"
  /\ IF fatalError = Null
     THEN Ends(r, "written", <<>>) /\ AbortWith("unknown")
     ELSE phase' = [phase EXCEPT ![r] = "written"] /\ UNCHANGED <<queue, aborted, fatalError>>
  /\ UNCHANGED <<producerVars, leaseVars, chainVars, bookVars, sinkClosed>>

\* sink.write throws: a run-level failure.
WriteFails(r) ==
  /\ phase[r] = "writing"
  /\ Ends(r, "lost", <<>>)
  /\ AbortWith("output_error")
  /\ UNCHANGED <<producerVars, leaseVars, chainVars, bookVars, sinkClosed>>

Returned == producer = "done" /\ UNCHANGED vars

Produce == Quiet /\ (Advance \/ CapacityFrees \/ Submit \/ Drained \/ Closed)
Attempt(r) == \/ Begin(r) \/ ObserverCaught(r)
              \/ Quiet /\ \/ ProxyGranted(r) \/ SessionAcquired(r) \/ ScrapeEnds(r)
                            \/ BackoffEnds(r) \/ BackoffAborted(r) \/ RowWritten(r)

Next == \/ Produce \/ OperatorAbort \/ Returned
        \/ \E r \in Records : Attempt(r) \/ (Quiet /\ (ProxyRefused(r) \/ WriteFails(r)))

Spec == Init /\ [][Next]_vars

\* The event loop runs what is ready; a slot that stays free reaches the task
\* that waits for it, an aborted wait throws, a scrape ends by its timeout and
\* a write settles.  Nobody has to refuse a lease, fail a write or abort.
Fairness ==
  /\ WF_vars(Produce)
  /\ \A r \in Records : /\ WF_vars(Attempt(r))
                        /\ WF_vars(Quiet /\ Stopped /\ ProxyRefused(r))

FairSpec == Spec /\ Fairness

-----------------------------------------------------------------------------
(* Properties.                                                              *)

TypeOK ==
  /\ producer \in {"loop", "capacity", "rate", "draining", "closing", "done"}
  /\ next \in 1 .. Len(Inputs) + 1
  /\ queue \in Seq(Records)
  /\ phase \in [Records -> Phases]
  /\ attempts \in [Records -> 0 .. MaxAttempts]
  /\ retries \in [Records -> 0 .. MaxAttempts - 1]
  /\ proxy \in [Records -> BOOLEAN] /\ session \in [Records -> BOOLEAN]
  /\ result \in [Records -> ResultKinds \cup {Null}]
  /\ aborted \in {"no", "operator", "fatal"}
  /\ fatalError \in {Null, "output_error", "unknown"}
  /\ sinkClosed \in BOOLEAN
  /\ rows \in [Records -> Nat] /\ processed \in Nat /\ exhausted \subseteq Records

\* However completions, aborts and admissions interleave, no more tasks run or
\* wait than configured, none waits while a slot is free, and a task holds its
\* leases only while an attempt is under way, never through a backoff or a
\* write, so that a record that waits cannot starve the others.
BoundedWork ==
  /\ TypeOK
  /\ \A r \in Records : /\ proxy[r] => phase[r] \in {"session", "scraping"}
                        /\ session[r] => phase[r] = "scraping"
  /\ Cardinality(Running) <= Concurrency
  /\ MaxQueueSize > 0 => Len(queue) <= MaxQueueSize
  /\ queue # <<>> => Cardinality(Running) = Concurrency
  /\ \A r \in Records : phase[r] = "queued" <=> r \in Waiting

\* When the run returns every record is accounted for: one row each, unless it
\* was aborted, and then a record whose attempts had begun still has its row
\* or the run reports an output error. The sink is closed only when nobody can
\* still hand it a row.
RowsAccounted ==
  /\ sinkClosed => \A r \in Records : phase[r] \in FinalPhases \cup {"waiting"}
  /\ \A r \in Records : rows[r] = IF phase[r] \in {"written", "threw"} THEN 1 ELSE 0
  /\ processed = Cardinality({r \in Records : rows[r] = 1})
  /\ producer = "done" =>
       \A r \in Records :
         /\ ~Stopped => rows[r] = 1
         /\ attempts[r] > 0 /\ rows[r] = 0 => fatalError = "output_error"

\* An abort, by the operator or by a fatal error, never counts against the
\* health of a proxy or a session, and no record is begun after it; at most an
\* attempt whose backoff ended in the same instant goes ahead.
AbortIsClean ==
  [][\A r \in Records :
       Stopped =>
         /\ attempts'[r] # attempts[r] => phase[r] = "backoff"
         /\ proxy[r] /\ ~proxy'[r] =>
              ClassifyProxyOutcome(result'[r]) \in {"success", "neutral"}
         /\ session[r] /\ ~session'[r] =>
              ReportSessionOutcome(result'[r]) \in {"success", "neutral"}]_vars

\* Every run returns: neither a full queue, a starved pool, a failed write nor
\* an abort at any moment leaves the producer or a task parked for ever.
RunReturns == <>(producer = "done")

\* What the summary says of exhausted_requests: requests that used every
\* allowed attempt (of resolving the URL, or of scraping it) and still failed.
ExhaustedUsedEveryAttempt ==
  \A r \in exhausted :
    IF Inputs[r].kind = "failure" THEN Inputs[r].resolved = MaxAttempts
                                  ELSE attempts[r] = MaxAttempts
=============================================================================
