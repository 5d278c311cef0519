----------------------------- MODULE RunnerProofs -----------------------------
(* The runner's safety properties, for every batch, concurrency, queue bound, *)
(* number of attempts and set of scrape results, and either proxy mode.       *)
EXTENDS Runner, FiniteSetTheorems, SequenceTheorems, TLAPS

-----------------------------------------------------------------------------
(* The inductive invariant.                                                   *)

\* Records are submitted in order; the loop ends with the batch or an abort,
\* and the sink is closed after it.
Admission ==
  /\ \A r \in Records : phase[r] = "waiting" <=> r >= next
  /\ producer \in {"capacity", "rate"} => next <= Len(Inputs)
  /\ producer = "rate" => HasRoom
  /\ producer \in {"draining", "closing", "done"} => Stopped \/ next > Len(Inputs)
  /\ sinkClosed <=> producer \in {"closing", "done"}

\* The queue holds each waiting task once, and only while every slot is taken.
Queueing ==
  /\ \A i, j \in DOMAIN queue : queue[i] = queue[j] => i = j
  /\ \A r \in Records : phase[r] = "queued" <=> r \in Waiting
  /\ Cardinality(Running) <= Concurrency
  /\ MaxQueueSize > 0 => Len(queue) <= MaxQueueSize
  /\ queue # <<>> => Cardinality(Running) = Concurrency

\* How far the chain of attempts of a record is at each place.
Chain(r) ==
  /\ phase[r] \in {"waiting", "queued", "starting", "skipped", "dropped"} =>
       attempts[r] = 0 /\ retries[r] = 0
  /\ phase[r] \in {"proxy", "session", "scraping"} =>
       attempts[r] >= 1 /\ retries[r] = attempts[r] - 1
  /\ phase[r] = "backoff" => attempts[r] < MaxAttempts /\ retries[r] = attempts[r]

\* Leases belong to an attempt; a row to a task that ended with one; and every
\* other end to an abort, a lost row to an output error.
Holds(r) == /\ proxy[r] => phase[r] \in {"session", "scraping"}
            /\ session[r] => phase[r] = "scraping"
Fate(r)  == /\ phase[r] \in {"skipped", "dropped", "lost"} => Stopped
            /\ phase[r] = "lost" => fatalError = "output_error"
            /\ rows[r] = IF phase[r] \in {"written", "threw"} THEN 1 ELSE 0
            /\ sinkClosed => phase[r] \in FinalPhases \cup {"waiting"}

RecordInv(r) == Chain(r) /\ Holds(r) /\ Fate(r)

Books == processed = Cardinality({r \in Records : rows[r] = 1})

IInv == TypeOK /\ Admission /\ Queueing /\ (\A r \in Records : RecordInv(r)) /\ Books

-----------------------------------------------------------------------------
(* Counting.                                                                *)

LEMMA RecordsFinite == IsFiniteSet(Records) /\ \A S \in SUBSET Records : IsFiniteSet(S)
  <1>1. Len(Inputs) \in Nat
    BY RunnerAssumption
  <1>2. IsFiniteSet(Records)
    BY <1>1, FS_Interval DEF Records
  <1> QED BY <1>2, FS_Subset

\* One out and one in leaves a set as large as it was.
LEMMA Exchange ==
  ASSUME NEW S, NEW x \in S, NEW y, y \notin S, IsFiniteSet(S)
  PROVE  Cardinality((S \ {x}) \cup {y}) = Cardinality(S)
  <1>1. /\ IsFiniteSet(S \ {x}) /\ Cardinality(S \ {x}) = Cardinality(S) - 1
        /\ Cardinality(S) \in Nat
    BY FS_RemoveElement, FS_CardinalityType
  <1>2. Cardinality((S \ {x}) \cup {y}) = Cardinality(S \ {x}) + 1
    BY <1>1, FS_AddElement
  <1> QED BY <1>1, <1>2

-----------------------------------------------------------------------------
(* The slots.  What a step of task r may do to the others: nothing, start    *)
(* the one whose turn it is, or drop those that are cleared.                 *)

Moved(s) == \/ phase'[s] = phase[s]
            \/ phase[s] = "queued" /\ phase'[s] = "starting"
            \/ phase[s] = "queued" /\ phase'[s] = "dropped" /\ Stopped'

SlotsKept(r) ==
  /\ phase' \in [Records -> Phases] /\ queue' \in Seq(Records) /\ Queueing'
  /\ Len(queue') <= Len(queue)
  /\ \A s \in Records \ {r} : Moved(s)

\* A task goes on: while it runs it keeps its slot, and a rejection has none.
LEMMA GoesOn ==
  ASSUME TypeOK, Queueing, NEW r \in Records, NEW v,
         \/ phase[r] \in RunningPhases /\ v \in RunningPhases
         \/ phase[r] = "threw" /\ v = "written",
         phase' = [phase EXCEPT ![r] = v], queue' = queue
  PROVE  SlotsKept(r) /\ phase'[r] = v
  <1>1. Running' = Running /\ Waiting' = Waiting
    BY DEF Running, Waiting, TypeOK, RunningPhases
  <1>2. phase' \in [Records -> Phases] /\ phase'[r] = v
    BY DEF TypeOK, Phases, FinalPhases
  <1>3. \A s \in Records \ {r} : phase'[s] = phase[s]
    BY DEF TypeOK
  <1>4. r \notin Waiting /\ v # "queued"
    BY DEF Queueing, RunningPhases
  <1>5. Queueing'
    BY <1>1, <1>2, <1>3, <1>4 DEF Queueing, RunningPhases
  <1> QED BY <1>2, <1>3, <1>5 DEF SlotsKept, Moved, TypeOK

\* A running task ends and the head of the queue takes its slot.
LEMMA HandsOn ==
  ASSUME TypeOK, Queueing, NEW r \in Records, phase[r] \in RunningPhases,
         NEW how \in FinalPhases, Ends(r, how, queue), queue # <<>>
  PROVE  SlotsKept(r) /\ phase'[r] = how
  <1> DEFINE h == Head(queue)
  <1>1. /\ h \in Records /\ h = queue[1] /\ 1 \in DOMAIN queue
        /\ queue' \in Seq(Records) /\ Len(queue') = Len(queue) - 1 /\ Len(queue) \in Nat
        /\ DOMAIN queue = 1 .. Len(queue) /\ DOMAIN queue' = 1 .. Len(queue')
        /\ \A i \in DOMAIN queue' : queue'[i] = queue[i + 1]
    BY HeadTailProperties DEF TypeOK, Ends
  <1>2. h \in Waiting /\ phase[h] = "queued" /\ h # r
    BY <1>1 DEF Waiting, Queueing, RunningPhases
  <1>3. /\ phase'[r] = how /\ phase'[h] = "starting"
        /\ \A s \in Records \ {r, h} : phase'[s] = phase[s]
    BY <1>1, <1>2 DEF Ends
  <1>4. phase' \in [Records -> Phases]
    <2>1. \A s \in Records : phase'[s] \in Phases
      BY <1>3 DEF TypeOK, Phases, RunningPhases
    <2> QED BY <2>1 DEF Ends
  <1>5. Waiting' = Waiting \ {h}
    <2>1. ASSUME NEW s \in Waiting' PROVE s \in Waiting \ {h}
      <3>1. PICK i \in DOMAIN queue' : s = queue'[i]
        BY DEF Waiting
      <3>2. i + 1 \in DOMAIN queue /\ i + 1 # 1 /\ s = queue[i + 1]
        BY <3>1, <1>1
      <3> QED BY <3>2, <1>1 DEF Waiting, Queueing
    <2>2. ASSUME NEW s \in Waiting, s # h PROVE s \in Waiting'
      <3>1. PICK i \in DOMAIN queue : s = queue[i]
        BY DEF Waiting
      <3>2. i # 1
        BY <3>1, <2>2, <1>1
      <3>3. i - 1 \in DOMAIN queue' /\ queue'[i - 1] = queue[(i - 1) + 1] /\ (i - 1) + 1 = i
        BY <3>1, <3>2, <1>1
      <3> QED BY <3>1, <3>3 DEF Waiting
    <2> QED BY <2>1, <2>2
  <1>6. Running' = (Running \ {r}) \cup {h} /\ r \in Running /\ h \notin Running
    BY <1>1, <1>2, <1>3 DEF Running, RunningPhases, FinalPhases
  <1>7. Cardinality(Running') = Cardinality(Running)
    <2>1. IsFiniteSet(Running)
      BY RecordsFinite DEF Running
    <2> HIDE DEF h
    <2> QED BY <2>1, <1>6, Exchange
  <1>8. Queueing'
    <2>1. \A i, j \in DOMAIN queue' : queue'[i] = queue'[j] => i = j
      <3> SUFFICES ASSUME NEW i \in DOMAIN queue', NEW j \in DOMAIN queue', queue'[i] = queue'[j]
                   PROVE  i = j
        OBVIOUS
      <3>1. /\ i + 1 \in DOMAIN queue /\ j + 1 \in DOMAIN queue
            /\ queue[i + 1] = queue[j + 1] /\ i \in Nat /\ j \in Nat
        BY <1>1
      <3>2. i + 1 = j + 1
        BY <3>1 DEF Queueing
      <3> QED BY <3>1, <3>2
    <2>2. \A s \in Records : phase'[s] = "queued" <=> s \in Waiting'
      BY <1>2, <1>3, <1>5 DEF Queueing, FinalPhases, RunningPhases
    <2>3. Cardinality(Running) = Concurrency
      BY DEF Queueing
    <2>4. MaxQueueSize > 0 => Len(queue') <= MaxQueueSize
      BY <1>1, RunnerAssumption DEF Queueing
    <2> QED BY <2>1, <2>2, <2>3, <2>4, <1>7, RunnerAssumption DEF Queueing
  <1>9. \A s \in Records \ {r} : Moved(s)
    BY <1>2, <1>3 DEF Moved
  <1>10. Len(queue') <= Len(queue)
    BY <1>1
  <1> QED BY <1>1, <1>3, <1>4, <1>8, <1>9, <1>10 DEF SlotsKept

\* A task ends and nobody is left in the queue, which was empty or is cleared.
LEMMA LastOne ==
  ASSUME TypeOK, Queueing, NEW r \in Records, phase[r] \in RunningPhases \cup {"threw"},
         NEW how \in FinalPhases, Ends(r, how, <<>>), queue = <<>> \/ Stopped'
  PROVE  SlotsKept(r) /\ phase'[r] = how
  <1>1. /\ queue' = <<>> /\ queue' \in Seq(Records) /\ Len(queue') = 0 /\ Waiting' = {}
        /\ Len(queue) \in Nat
    BY DEF Ends, Waiting, TypeOK
  <1>2. /\ phase'[r] = how
        /\ \A s \in Records \ {r} :
             phase'[s] = IF s \in Waiting THEN "dropped" ELSE phase[s]
    BY DEF Ends
  <1>3. phase' \in [Records -> Phases]
    <2>1. \A s \in Records : phase'[s] \in Phases
      BY <1>2 DEF TypeOK, Phases, FinalPhases
    <2> QED BY <2>1 DEF Ends
  <1>4. \A s \in Records \ {r} : Moved(s)
    <2>1. queue = <<>> => Waiting = {}
      BY DEF Waiting
    <2> QED BY <1>2, <2>1 DEF Moved, Queueing
  <1>5. Running' \subseteq Running
    BY <1>2 DEF Running, FinalPhases, RunningPhases
  <1>6. /\ Cardinality(Running') <= Cardinality(Running)
        /\ Cardinality(Running) \in Nat /\ Cardinality(Running') \in Nat
    <2>1. IsFiniteSet(Running) /\ IsFiniteSet(Running')
      BY <1>5, RecordsFinite DEF Running
    <2> QED BY <2>1, <1>5, FS_Subset, FS_CardinalityType
  <1>7. Queueing'
    <2>1. \A s \in Records : phase'[s] # "queued"
      BY <1>2 DEF Queueing, FinalPhases
    <2> QED BY <2>1, <1>1, <1>6, RunnerAssumption DEF Queueing
  <1> QED BY <1>1, <1>2, <1>3, <1>4, <1>7 DEF SlotsKept

LEMMA EndsKeepsSlots ==
  ASSUME TypeOK, Queueing, NEW r \in Records, NEW how \in FinalPhases,
         \/ phase[r] \in RunningPhases /\ Ends(r, how, queue)
         \/ phase[r] \in RunningPhases \cup {"threw"} /\ Stopped' /\ Ends(r, how, <<>>)
  PROVE  SlotsKept(r) /\ phase'[r] = how
  <1>1. CASE phase[r] \in RunningPhases /\ Ends(r, how, queue) /\ queue # <<>>
    BY <1>1, HandsOn
  <1>2. CASE phase[r] \in RunningPhases /\ Ends(r, how, queue) /\ queue = <<>>
    <2>1. Ends(r, how, <<>>)
      BY <1>2
    <2> QED BY <1>2, <2>1, LastOne
  <1>3. CASE phase[r] \in RunningPhases \cup {"threw"} /\ Stopped' /\ Ends(r, how, <<>>)
    BY <1>3, LastOne
  <1> QED BY <1>1, <1>2, <1>3

-----------------------------------------------------------------------------
(* A step of one task.                                                      *)

Untouched(s) ==
  /\ attempts'[s] = attempts[s] /\ retries'[s] = retries[s]
  /\ proxy'[s] = proxy[s] /\ session'[s] = session[s] /\ rows'[s] = rows[s]

\* What has gone wrong stays so, and the sink is not closed by a task.
Forward ==
  /\ Stopped => Stopped'
  /\ fatalError = "output_error" => fatalError' = "output_error"
  /\ sinkClosed' = sinkClosed

LEMMA OthersKeep ==
  ASSUME NEW s \in Records, RecordInv(s), Moved(s), Untouched(s), Forward
  PROVE  RecordInv(s)'
  <1>1. Chain(s)'
    BY DEF RecordInv, Chain, Moved, Untouched
  <1>2. Holds(s)'
    BY DEF RecordInv, Holds, Moved, Untouched
  <1>3. Fate(s)'
    BY DEF RecordInv, Fate, Moved, Untouched, Forward, FinalPhases
  <1> QED BY <1>1, <1>2, <1>3 DEF RecordInv

LEMMA TaskStep ==
  ASSUME IInv, NEW r \in Records, SlotsKept(r), TypeOK', Books', Forward,
         phase[r] \in RunningPhases \cup {"threw"},
         phase'[r] \in RunningPhases \cup FinalPhases,
         \A s \in Records \ {r} : Untouched(s),
         RecordInv(r)', UNCHANGED producerVars
  PROVE  IInv'
  <1>1. \A s \in Records : RecordInv(s)'
    BY OthersKeep DEF SlotsKept, IInv
  <1>2. Admission'
    <2>1. \A s \in Records : phase'[s] = "waiting" <=> phase[s] = "waiting"
      BY DEF SlotsKept, Moved, RunningPhases, FinalPhases
    <2>2. HasRoom => HasRoom'
      BY RunnerAssumption DEF HasRoom, SlotsKept, IInv, TypeOK
    <2> QED BY <2>1, <2>2 DEF IInv, Admission, Forward, producerVars
  <1> QED BY <1>1, <1>2 DEF SlotsKept, IInv

\* The same for a step within the task's slot, that writes no row.
LEMMA SlotStep ==
  ASSUME IInv, NEW r \in Records, phase[r] \in RunningPhases,
         NEW v \in RunningPhases, phase' = [phase EXCEPT ![r] = v],
         \A s \in Records \ {r} : Untouched(s),
         Chain(r)', Holds(r)',
         attempts' \in [Records -> 0 .. MaxAttempts],
         retries' \in [Records -> 0 .. MaxAttempts - 1],
         proxy' \in [Records -> BOOLEAN], session' \in [Records -> BOOLEAN],
         result' \in [Records -> ResultKinds \cup {Null}],
         UNCHANGED <<producerVars, queue, bookVars, endVars>>
  PROVE  IInv'
  <1>1. SlotsKept(r) /\ phase'[r] = v
    BY GoesOn DEF IInv
  <1>2. TypeOK'
    BY <1>1 DEF SlotsKept, IInv, TypeOK, producerVars, bookVars, endVars
  <1>3. Books'
    BY DEF IInv, Books, bookVars
  <1>4. Forward
    BY DEF Forward, endVars, Stopped
  <1>5. Fate(r)'
    BY <1>1 DEF IInv, RecordInv, Fate, FinalPhases, RunningPhases, bookVars, endVars
  <1> QED BY <1>1, <1>2, <1>3, <1>4, <1>5, TaskStep DEF RecordInv

\* And for a task that ends without a row.
LEMMA EndStep ==
  ASSUME IInv, NEW r \in Records, phase[r] \in {"starting", "writing"}, SlotsKept(r),
         phase'[r] \in {"skipped", "lost"}, Stopped',
         phase'[r] = "skipped" => attempts[r] = 0 /\ retries[r] = 0,
         phase'[r] = "lost" => fatalError' = "output_error",
         Forward, aborted' \in {"no", "operator", "fatal"},
         fatalError' \in {Null, "output_error", "unknown"},
         UNCHANGED <<producerVars, leaseVars, chainVars, bookVars, sinkClosed>>
  PROVE  IInv'
  <1>1. TypeOK'
    BY DEF SlotsKept, IInv, TypeOK, producerVars, leaseVars, chainVars, bookVars
  <1>2. Books'
    BY DEF IInv, Books, bookVars
  <1>3. \A s \in Records : Untouched(s)
    BY DEF Untouched, leaseVars, chainVars, bookVars
  <1>5. RecordInv(r)'
    <2>1. Chain(r)'
      BY <1>3 DEF Chain, Untouched
    <2>2. Fate(r)'
      BY <1>3 DEF IInv, RecordInv, Fate, Untouched, FinalPhases, RunningPhases
    <2>3. Holds(r)'
      BY <1>3 DEF IInv, RecordInv, Holds, Untouched
    <2> QED BY <2>1, <2>2, <2>3 DEF RecordInv
  <1> QED BY <1>1, <1>2, <1>3, <1>5, TaskStep DEF FinalPhases, RunningPhases

-----------------------------------------------------------------------------
(* The actions of a task.                                                   *)

LEMMA BeginKeeps ==
  ASSUME IInv, NEW r \in Records, Begin(r)
  PROVE  IInv'
  <1>1. /\ phase[r] = "starting" /\ attempts[r] = 0 /\ retries[r] = 0 /\ ~proxy[r] /\ ~session[r]
        /\ UNCHANGED <<producerVars, retries, result, leaseVars, bookVars, endVars>>
    BY DEF Begin, IInv, RecordInv, Chain, Holds
  <1>2. CASE Stopped /\ Ends(r, "skipped", queue) /\ UNCHANGED attempts
    <2>1. SlotsKept(r) /\ phase'[r] = "skipped"
      BY <1>1, <1>2, EndsKeepsSlots DEF IInv, RunningPhases, FinalPhases
    <2>2. Forward /\ Stopped'
      BY <1>1, <1>2 DEF Forward, endVars, Stopped
    <2>3. /\ aborted' \in {"no", "operator", "fatal"}
          /\ fatalError' \in {Null, "output_error", "unknown"}
      BY <1>1 DEF IInv, TypeOK, endVars
    <2> QED BY <1>1, <1>2, <2>1, <2>2, <2>3, EndStep DEF chainVars, endVars
  <1>3. CASE /\ ~Stopped /\ attempts' = [attempts EXCEPT ![r] = 1]
             /\ phase' = [phase EXCEPT ![r] = "proxy"] /\ UNCHANGED queue
    <2>1. /\ attempts' \in [Records -> 0 .. MaxAttempts] /\ attempts'[r] = 1
          /\ phase'[r] = "proxy"
      BY <1>3, RunnerAssumption DEF IInv, TypeOK
    <2>2. Chain(r)' /\ Holds(r)'
      BY <1>1, <2>1 DEF Chain, Holds, leaseVars
    <2>3. \A s \in Records \ {r} : Untouched(s)
      BY <1>1, <1>3 DEF Untouched, leaseVars, bookVars, IInv, TypeOK
    <2> QED BY <1>1, <1>3, <2>1, <2>2, <2>3, SlotStep
            DEF IInv, TypeOK, RunningPhases, leaseVars
  <1>4. CASE /\ ~Stopped /\ phase' = [phase EXCEPT ![r] = "writing"]
             /\ UNCHANGED <<queue, attempts>>
    <2>1. phase'[r] = "writing"
      BY <1>4 DEF IInv, TypeOK
    <2>2. Chain(r)' /\ Holds(r)'
      BY <1>1, <2>1 DEF Chain, Holds, leaseVars
    <2>3. \A s \in Records \ {r} : Untouched(s)
      BY <1>1, <1>4 DEF Untouched, leaseVars, bookVars
    <2> QED BY <1>1, <1>4, <2>2, <2>3, SlotStep
            DEF IInv, TypeOK, RunningPhases, leaseVars
  <1> QED BY <1>2, <1>3, <1>4 DEF Begin

LEMMA SettleKeeps ==
  ASSUME IInv, NEW r \in Records, phase[r] \in {"proxy", "scraping"},
         NEW kind \in ResultKinds, Settle(r, kind)
  PROVE  IInv'
  <1> DEFINE final == Final(kind)
             again == Retryable(final) /\ HasAttemptsLeft(attempts[r])
             v == IF again THEN "backoff" ELSE "writing"
  <1>1. /\ final \in ResultKinds /\ v \in RunningPhases /\ phase[r] \in RunningPhases
        /\ attempts[r] \in 0 .. MaxAttempts /\ retries[r] = attempts[r] - 1 /\ attempts[r] >= 1
    BY DEF Final, ResultKinds, RunningPhases, IInv, TypeOK, RecordInv, Chain
  <1>2. /\ phase' = [phase EXCEPT ![r] = v]
        /\ retries' = IF again THEN [retries EXCEPT ![r] = @ + 1] ELSE retries
        /\ result' = [result EXCEPT ![r] = final]
        /\ proxy' = [proxy EXCEPT ![r] = FALSE] /\ session' = [session EXCEPT ![r] = FALSE]
        /\ UNCHANGED <<producerVars, queue, attempts, bookVars, endVars>>
    BY DEF Settle
  <1>3. phase'[r] = v /\ ~proxy'[r] /\ ~session'[r]
    BY <1>2 DEF IInv, TypeOK
  <1>4. /\ again => attempts[r] < MaxAttempts /\ retries'[r] = attempts[r]
        /\ retries' \in [Records -> 0 .. MaxAttempts - 1]
    <2>1. CASE again
      <3>1. attempts[r] < MaxAttempts
        BY <2>1 DEF HasAttemptsLeft
      <3>2. retries[r] + 1 = attempts[r] /\ retries[r] + 1 \in 0 .. MaxAttempts - 1
        BY <1>1, <3>1, RunnerAssumption
      <3> QED BY <1>2, <2>1, <3>1, <3>2 DEF IInv, TypeOK
    <2>2. CASE ~again
      BY <1>2, <2>2 DEF IInv, TypeOK
    <2> QED BY <2>1, <2>2
  <1>5. Chain(r)' /\ Holds(r)'
    BY <1>2, <1>3, <1>4 DEF Chain, Holds
  <1>6. \A s \in Records \ {r} : Untouched(s)
    BY <1>2 DEF Untouched, bookVars, IInv, TypeOK
  <1>7. /\ proxy' \in [Records -> BOOLEAN] /\ session' \in [Records -> BOOLEAN]
        /\ result' \in [Records -> ResultKinds \cup {Null}]
        /\ attempts' \in [Records -> 0 .. MaxAttempts]
    BY <1>1, <1>2 DEF IInv, TypeOK
  <1> HIDE DEF v
  <1> QED BY <1>1, <1>2, <1>4, <1>5, <1>6, <1>7, SlotStep

LEMMA ProxyGrantedKeeps ==
  ASSUME IInv, NEW r \in Records, ProxyGranted(r)
  PROVE  IInv'
  <1>1. /\ phase[r] = "proxy" /\ phase' = [phase EXCEPT ![r] = "session"]
        /\ phase'[r] = "session" /\ ~session[r]
        /\ proxy' = [proxy EXCEPT ![r] = ProxyMode = "rotating-residential" \/ ProxySlots > 0]
        /\ UNCHANGED <<producerVars, queue, session, chainVars, bookVars, endVars>>
    BY DEF ProxyGranted, IInv, TypeOK, RecordInv, Holds
  <1>2. proxy' \in [Records -> BOOLEAN] /\ \A s \in Records \ {r} : proxy'[s] = proxy[s]
    BY <1>1 DEF IInv, TypeOK
  <1>3. \A s \in Records \ {r} : Untouched(s)
    BY <1>1, <1>2 DEF Untouched, chainVars, bookVars
  <1>4. Chain(r)' /\ Holds(r)'
    BY <1>1 DEF Chain, Holds, IInv, RecordInv, chainVars
  <1> QED BY <1>1, <1>2, <1>3, <1>4, SlotStep DEF IInv, TypeOK, RunningPhases, chainVars

LEMMA SessionAcquiredKeeps ==
  ASSUME IInv, NEW r \in Records, SessionAcquired(r)
  PROVE  IInv'
  <1>1. /\ phase[r] = "session" /\ phase' = [phase EXCEPT ![r] = "scraping"]
        /\ phase'[r] = "scraping"
        /\ session' \in {session, [session EXCEPT ![r] = TRUE]}
        /\ UNCHANGED <<producerVars, queue, proxy, chainVars, bookVars, endVars>>
    BY DEF SessionAcquired, IInv, TypeOK
  <1>2. session' \in [Records -> BOOLEAN] /\ \A s \in Records \ {r} : session'[s] = session[s]
    BY <1>1 DEF IInv, TypeOK
  <1>3. \A s \in Records \ {r} : Untouched(s)
    BY <1>1, <1>2 DEF Untouched, chainVars, bookVars
  <1>4. Chain(r)' /\ Holds(r)'
    BY <1>1 DEF Chain, Holds, IInv, RecordInv, chainVars
  <1> QED BY <1>1, <1>2, <1>3, <1>4, SlotStep DEF IInv, TypeOK, RunningPhases, chainVars

LEMMA BackoffEndsKeeps ==
  ASSUME IInv, NEW r \in Records, BackoffEnds(r)
  PROVE  IInv'
  <1>1. /\ phase[r] = "backoff" /\ phase' = [phase EXCEPT ![r] = "proxy"]
        /\ phase'[r] = "proxy" /\ ~proxy[r] /\ ~session[r]
        /\ attempts' = [attempts EXCEPT ![r] = @ + 1]
        /\ UNCHANGED <<producerVars, queue, retries, result, leaseVars, bookVars, endVars>>
    BY DEF BackoffEnds, IInv, TypeOK, RecordInv, Holds
  <1>2. /\ attempts[r] \in Nat /\ attempts[r] < MaxAttempts /\ retries[r] = attempts[r]
        /\ attempts[r] + 1 \in 0 .. MaxAttempts
    BY <1>1, RunnerAssumption DEF IInv, TypeOK, RecordInv, Chain
  <1>3. /\ attempts' \in [Records -> 0 .. MaxAttempts] /\ attempts'[r] = attempts[r] + 1
        /\ \A s \in Records \ {r} : attempts'[s] = attempts[s]
    BY <1>1, <1>2 DEF IInv, TypeOK
  <1>4. \A s \in Records \ {r} : Untouched(s)
    BY <1>1, <1>3 DEF Untouched, leaseVars, bookVars
  <1>5. Chain(r)' /\ Holds(r)'
    BY <1>1, <1>2, <1>3 DEF Chain, Holds, leaseVars
  <1> QED BY <1>1, <1>3, <1>4, <1>5, SlotStep DEF IInv, TypeOK, RunningPhases, leaseVars

LEMMA BackoffAbortedKeeps ==
  ASSUME IInv, NEW r \in Records, BackoffAborted(r)
  PROVE  IInv'
  <1>1. /\ phase[r] = "backoff" /\ phase' = [phase EXCEPT ![r] = "writing"]
        /\ phase'[r] = "writing" /\ ~proxy[r] /\ ~session[r]
        /\ result' = [result EXCEPT ![r] = "cancelled"]
        /\ UNCHANGED <<producerVars, queue, attempts, retries, leaseVars, bookVars, endVars>>
    BY DEF BackoffAborted, IInv, TypeOK, RecordInv, Holds
  <1>2. result' \in [Records -> ResultKinds \cup {Null}]
    BY <1>1 DEF IInv, TypeOK, ResultKinds
  <1>3. \A s \in Records \ {r} : Untouched(s)
    BY <1>1 DEF Untouched, leaseVars, bookVars
  <1>4. Chain(r)' /\ Holds(r)'
    BY <1>1 DEF Chain, Holds, leaseVars
  <1> QED BY <1>1, <1>2, <1>3, <1>4, SlotStep DEF IInv, TypeOK, RunningPhases, leaseVars

\* The row of a task is its first: the count goes up with the rows.
LEMMA OneMoreRow ==
  ASSUME IInv, NEW r \in Records, rows[r] = 0, rows' = [rows EXCEPT ![r] = @ + 1]
  PROVE  Cardinality({s \in Records : rows'[s] = 1})
           = Cardinality({s \in Records : rows[s] = 1}) + 1
  <1> DEFINE W == {s \in Records : rows[s] = 1}
  <1>1. {s \in Records : rows'[s] = 1} = W \cup {r} /\ r \notin W
    BY DEF IInv, TypeOK
  <1>2. IsFiniteSet(W)
    BY RecordsFinite
  <1> HIDE DEF W
  <1>3. Cardinality(W \cup {r}) = Cardinality(W) + 1
    BY <1>1, <1>2, FS_AddElement
  <1> QED BY <1>1, <1>3 DEF W

LEMMA RowWrittenKeeps ==
  ASSUME IInv, NEW r \in Records, RowWritten(r)
  PROVE  IInv'
  <1>1. /\ phase[r] = "writing" /\ ~sinkClosed /\ rows[r] = 0 /\ ~proxy[r] /\ ~session[r]
        /\ rows' = [rows EXCEPT ![r] = @ + 1] /\ processed' = processed + 1
        /\ exhausted' = IF result[r] # "ok" /\ RowAttempts(r) >= MaxAttempts
                        THEN exhausted \cup {r} ELSE exhausted
        /\ UNCHANGED <<producerVars, leaseVars, chainVars, endVars>>
    BY DEF RowWritten, IInv, RecordInv, Fate, Holds
  <1>2. PICK how \in {"written", "threw"} : Ends(r, how, queue)
    BY DEF RowWritten
  <1>3. SlotsKept(r) /\ phase'[r] = how
    BY <1>1, <1>2, EndsKeepsSlots DEF IInv, RunningPhases, FinalPhases
  <1>4. /\ rows' \in [Records -> Nat] /\ rows'[r] = 1 /\ processed' \in Nat
        /\ exhausted' \subseteq Records /\ \A s \in Records \ {r} : rows'[s] = rows[s]
    BY <1>1 DEF IInv, TypeOK
  <1>5. TypeOK'
    BY <1>1, <1>3, <1>4 DEF SlotsKept, IInv, TypeOK, producerVars, leaseVars, chainVars, endVars
  <1>6. Books'
    BY <1>1, OneMoreRow DEF IInv, Books
  <1>7. Forward
    BY <1>1 DEF Forward, endVars, Stopped
  <1>8. \A s \in Records \ {r} : Untouched(s)
    BY <1>1, <1>4 DEF Untouched, leaseVars, chainVars
  <1>9. RecordInv(r)'
    <2>1. Chain(r)' /\ Holds(r)'
      BY <1>1, <1>2, <1>3 DEF Chain, Holds, leaseVars
    <2>2. Fate(r)'
      BY <1>1, <1>2, <1>3, <1>4 DEF Fate, endVars
    <2> QED BY <2>1, <2>2 DEF RecordInv
  <1> QED BY <1>1, <1>2, <1>3, <1>5, <1>6, <1>7, <1>8, <1>9, TaskStep
          DEF RunningPhases, FinalPhases

LEMMA ObserverCaughtKeeps ==
  ASSUME IInv, NEW r \in Records, ObserverCaught(r)
  PROVE  IInv'
  <1>1. /\ phase[r] = "threw" /\ rows[r] = 1 /\ ~proxy[r] /\ ~session[r]
        /\ UNCHANGED <<producerVars, leaseVars, chainVars, bookVars, sinkClosed>>
    BY DEF ObserverCaught, IInv, RecordInv, Fate, Holds
  <1>2. /\ SlotsKept(r) /\ phase'[r] = "written" /\ Forward
        /\ aborted' \in {"no", "operator", "fatal"}
        /\ fatalError' \in {Null, "output_error", "unknown"}
    <2>1. CASE fatalError = Null
      <3>1. Ends(r, "written", <<>>) /\ AbortWith("unknown") /\ Stopped'
        BY <2>1 DEF ObserverCaught, AbortWith, Stopped
      <3>2. SlotsKept(r) /\ phase'[r] = "written"
        BY <1>1, <3>1, EndsKeepsSlots DEF IInv, FinalPhases
      <3>3. fatalError # "output_error"
        BY <2>1, RunnerAssumption
      <3> QED BY <1>1, <3>1, <3>2, <3>3 DEF AbortWith, Forward, IInv, TypeOK, Stopped
    <2>2. CASE fatalError # Null
      <3>1. /\ phase' = [phase EXCEPT ![r] = "written"]
            /\ UNCHANGED <<queue, aborted, fatalError>>
        BY <2>2 DEF ObserverCaught
      <3>2. SlotsKept(r) /\ phase'[r] = "written"
        BY <1>1, <3>1, GoesOn DEF IInv
      <3> QED BY <1>1, <3>1, <3>2 DEF Forward, IInv, TypeOK, Stopped
    <2> QED BY <2>1, <2>2
  <1>3. TypeOK'
    BY <1>1, <1>2 DEF SlotsKept, IInv, TypeOK, producerVars, leaseVars, chainVars, bookVars
  <1>4. Books'
    BY <1>1 DEF IInv, Books, bookVars
  <1>5. \A s \in Records : Untouched(s)
    BY <1>1 DEF Untouched, leaseVars, chainVars, bookVars
  <1>6. RecordInv(r)'
    <2>1. Chain(r)' /\ Holds(r)'
      BY <1>1, <1>2 DEF Chain, Holds, leaseVars
    <2>2. Fate(r)'
      BY <1>1, <1>2 DEF Fate, bookVars, FinalPhases
    <2> QED BY <2>1, <2>2 DEF RecordInv
  <1> QED BY <1>1, <1>2, <1>3, <1>4, <1>5, <1>6, TaskStep DEF FinalPhases

LEMMA WriteFailsKeeps ==
  ASSUME IInv, NEW r \in Records, WriteFails(r)
  PROVE  IInv'
  <1>1. /\ phase[r] = "writing" /\ Ends(r, "lost", <<>>)
        /\ fatalError' = "output_error" /\ aborted' = IF Stopped THEN aborted ELSE "fatal"
        /\ UNCHANGED <<producerVars, leaseVars, chainVars, bookVars, sinkClosed>>
    BY DEF WriteFails, AbortWith
  <1>2. /\ Stopped' /\ aborted' \in {"no", "operator", "fatal"} /\ Forward
    BY <1>1 DEF Stopped, Forward, IInv, TypeOK
  <1>3. SlotsKept(r) /\ phase'[r] = "lost"
    BY <1>1, <1>2, EndsKeepsSlots DEF IInv, RunningPhases, FinalPhases
  <1> QED BY <1>1, <1>2, <1>3, EndStep

-----------------------------------------------------------------------------
(* The actions of the producer, and an abort.                               *)

\* A step that leaves the tasks and the sink alone.
LEMMA ProducerStep ==
  ASSUME IInv, TypeOK', Admission', Forward,
         UNCHANGED <<queue, phase, leaseVars, chainVars, bookVars>>
  PROVE  IInv'
  <1>1. Queueing'
    <2>1. Running' = Running /\ Waiting' = Waiting
      BY DEF Running, Waiting
    <2> QED BY <2>1 DEF IInv, Queueing
  <1>2. \A s \in Records : Moved(s) /\ Untouched(s)
    BY DEF Moved, Untouched, leaseVars, chainVars, bookVars
  <1>3. \A s \in Records : RecordInv(s)'
    BY <1>2, OthersKeep DEF IInv
  <1>4. Books'
    BY DEF IInv, Books, bookVars
  <1> QED BY <1>1, <1>3, <1>4 DEF IInv

LEMMA LoopKeeps ==
  ASSUME IInv, Advance \/ CapacityFrees \/ (Submit /\ Stopped) \/ Closed \/ OperatorAbort
  PROVE  IInv'
  <1>1. /\ UNCHANGED <<next, queue, phase, leaseVars, chainVars, bookVars, sinkClosed>>
        /\ Forward
    BY DEF Advance, CapacityFrees, Submit, Closed, OperatorAbort, endVars, producerVars,
           Forward, Stopped, IInv, TypeOK, RunnerAssumption
  <1>2. TypeOK'
    BY <1>1 DEF Advance, CapacityFrees, Submit, Closed, OperatorAbort, endVars, producerVars,
           leaseVars, chainVars, bookVars, IInv, TypeOK
  <1>3. Admission'
    <2>1. HasRoom' = HasRoom
      BY <1>1 DEF HasRoom
    <2>2. next \in Nat /\ Len(Inputs) \in Nat
      BY RunnerAssumption DEF IInv, TypeOK
    <2>3. \A r \in Records : phase'[r] = "waiting" <=> r >= next'
      BY <1>1 DEF IInv, Admission
    <2>4. CASE Advance
      BY <1>1, <2>1, <2>2, <2>3, <2>4 DEF Advance, IInv, Admission, endVars, Stopped
    <2>5. CASE CapacityFrees
      BY <1>1, <2>1, <2>2, <2>3, <2>5 DEF CapacityFrees, IInv, Admission, endVars, Stopped
    <2>6. CASE Submit /\ Stopped
      BY <1>1, <2>1, <2>2, <2>3, <2>6 DEF Submit, IInv, Admission, endVars, Stopped
    <2>7. CASE Closed
      BY <1>1, <2>1, <2>2, <2>3, <2>7 DEF Closed, IInv, Admission, Stopped
    <2>8. CASE OperatorAbort
      BY <1>1, <2>1, <2>2, <2>3, <2>8 DEF OperatorAbort, IInv, Admission, producerVars, Stopped
    <2> QED BY <2>4, <2>5, <2>6, <2>7, <2>8
  <1> QED BY <1>1, <1>2, <1>3, ProducerStep

\* Closing: every task has ended, or was never submitted.
LEMMA DrainedKeeps ==
  ASSUME IInv, Drained, Quiet
  PROVE  IInv'
  <1>1. /\ producer = "draining" /\ Running = {} /\ queue = <<>>
        /\ producer' = "closing" /\ sinkClosed' = TRUE
        /\ UNCHANGED <<next, queue, phase, leaseVars, chainVars, bookVars, aborted, fatalError>>
    BY DEF Drained
  <1>2. TypeOK'
    BY <1>1 DEF IInv, TypeOK, leaseVars, chainVars, bookVars
  <1>3. Admission'
    BY <1>1 DEF IInv, Admission, Stopped
  <1>4. Queueing'
    <2>1. Running' = Running /\ Waiting' = Waiting
      BY <1>1 DEF Running, Waiting
    <2> QED BY <1>1, <2>1 DEF IInv, Queueing
  <1>5. ASSUME NEW s \in Records PROVE RecordInv(s)'
    <2>1. phase[s] \notin RunningPhases /\ phase[s] # "queued" /\ phase[s] \in Phases
      BY <1>1 DEF IInv, Queueing, Running, Waiting, TypeOK
    <2>2. phase'[s] \in FinalPhases \cup {"waiting"}
      BY <1>1, <2>1 DEF Phases
    <2>3. Untouched(s) /\ phase'[s] = phase[s]
      BY <1>1 DEF Untouched, leaseVars, chainVars, bookVars
    <2>4. Chain(s)' /\ Holds(s)'
      BY <2>3 DEF IInv, RecordInv, Chain, Holds, Untouched
    <2>5. Fate(s)'
      BY <1>1, <2>2, <2>3 DEF IInv, RecordInv, Fate, Untouched, Stopped
    <2> QED BY <2>4, <2>5 DEF RecordInv
  <1>6. Books'
    BY <1>1 DEF IInv, Books, bookVars
  <1> QED BY <1>2, <1>3, <1>4, <1>5, <1>6 DEF IInv

\* The limiter's token came: the record's task takes a free slot, and then
\* nobody waits, or joins a queue that has room.
LEMMA SubmitKeeps ==
  ASSUME IInv, Submit, ~Stopped, Quiet
  PROVE  IInv'
  <1> DEFINE n == next
  <1>1. /\ n \in Records /\ phase[n] = "waiting" /\ next' = n + 1 /\ n \in Nat
        /\ producer = "rate" /\ producer' = "loop" /\ Enqueue(n) /\ Len(Inputs) \in Nat
        /\ UNCHANGED <<leaseVars, chainVars, bookVars, endVars>>
    BY RunnerAssumption DEF Submit, IInv, TypeOK, Admission, Records
  <1>2. n \notin Waiting /\ n \notin Running /\ ~sinkClosed
    BY <1>1 DEF IInv, Queueing, Admission, Running, RunningPhases
  <1>3. \A s \in Records \ {n} : phase'[s] = phase[s]
    BY <1>1 DEF Enqueue, IInv, TypeOK
  <1>4. phase'[n] \in {"starting", "queued"} /\ phase' \in [Records -> Phases]
    BY <1>1 DEF Enqueue, IInv, TypeOK, Phases, RunningPhases
  <1>5. IsFiniteSet(Running) /\ Cardinality(Running) \in Nat /\ Concurrency \in Nat
    BY RecordsFinite, FS_CardinalityType, RunnerAssumption DEF Running
  <1> HIDE DEF n
  <1>6. queue' \in Seq(Records) /\ Queueing'
    <2>1. CASE Cardinality(Running) < Concurrency
      <3>1. queue = <<>> /\ queue' = <<>> /\ phase'[n] = "starting"
        BY <1>1, <1>5, <2>1 DEF Enqueue, IInv, Queueing, TypeOK
      <3>2. Waiting = {} /\ Waiting' = {}
        BY <3>1 DEF Waiting
      <3>3. Running' = Running \cup {n}
        BY <1>1, <1>3, <3>1 DEF Running, RunningPhases
      <3>4. Cardinality(Running') = Cardinality(Running) + 1
        BY <1>2, <1>5, <3>3, FS_AddElement
      <3>5. \A s \in Records : phase'[s] = "queued" <=> s \in Waiting'
        BY <1>3, <3>1, <3>2 DEF IInv, Queueing
      <3>6. queue' \in Seq(Records) /\ Len(queue') = 0
        BY <3>1
      <3> QED BY <1>5, <2>1, <3>1, <3>4, <3>5, <3>6, RunnerAssumption DEF Queueing
    <2>2. CASE ~(Cardinality(Running) < Concurrency)
      <3>1. queue' = Append(queue, n) /\ phase'[n] = "queued" /\ queue \in Seq(Records)
        BY <1>1, <2>2 DEF Enqueue, IInv, TypeOK
      <3>2. /\ queue' \in Seq(Records) /\ Len(queue') = Len(queue) + 1 /\ Len(queue) \in Nat
            /\ DOMAIN queue = 1 .. Len(queue) /\ DOMAIN queue' = 1 .. Len(queue')
            /\ \A i \in 1 .. Len(queue) : queue'[i] = queue[i]
            /\ queue'[Len(queue) + 1] = n
        BY <1>1, <3>1, AppendProperties
      <3>3. Running' = Running
        BY <1>1, <1>3, <3>1 DEF Running, RunningPhases
      <3>4. Waiting' = Waiting \cup {n}
        <4>1. Waiting' \subseteq Waiting \cup {n}
          BY <3>2 DEF Waiting
        <4>2. \A i \in DOMAIN queue : i \in DOMAIN queue' /\ queue'[i] = queue[i]
          BY <3>2
        <4>3. Len(queue) + 1 \in DOMAIN queue'
          BY <3>2
        <4> QED BY <3>2, <4>1, <4>2, <4>3 DEF Waiting
      <3>5. \A i, j \in DOMAIN queue' : queue'[i] = queue'[j] => i = j
        <4> SUFFICES ASSUME NEW i \in DOMAIN queue', NEW j \in DOMAIN queue', queue'[i] = queue'[j]
                     PROVE  i = j
          OBVIOUS
        <4>1. \A k \in DOMAIN queue : queue[k] # n
          BY <1>2 DEF Waiting
        <4>2. CASE i \in DOMAIN queue /\ j \in DOMAIN queue
          BY <3>2, <4>2 DEF IInv, Queueing
        <4>3. CASE i = Len(queue) + 1 \/ j = Len(queue) + 1
          BY <3>2, <4>1, <4>3
        <4> QED BY <3>2, <4>2, <4>3
      <3>6. \A s \in Records : phase'[s] = "queued" <=> s \in Waiting'
        BY <1>3, <3>1, <3>4 DEF IInv, Queueing
      <3>7. Cardinality(Running) <= Concurrency
        BY DEF IInv, Queueing
      <3>8. MaxQueueSize > 0 => Len(queue') <= MaxQueueSize
        BY <1>1, <3>2, RunnerAssumption DEF IInv, Admission, HasRoom
      <3> QED BY <1>5, <2>2, <3>2, <3>3, <3>5, <3>6, <3>7, <3>8 DEF Queueing
    <2> QED BY <2>1, <2>2
  <1>7. TypeOK'
    BY <1>1, <1>4, <1>6 DEF IInv, TypeOK, leaseVars, chainVars, bookVars, endVars, Records
  <1>8. Admission'
    BY <1>1, <1>2, <1>3, <1>4 DEF IInv, Admission, endVars, Records, n
  <1>9. ASSUME NEW s \in Records PROVE RecordInv(s)'
    <2>1. Untouched(s) /\ Forward
      BY <1>1 DEF Untouched, Forward, leaseVars, chainVars, bookVars, endVars, Stopped
    <2>2. CASE s # n
      BY <1>3, <2>1, <2>2, OthersKeep DEF Moved, IInv
    <2>3. CASE s = n
      <3>1. Chain(s)' /\ Holds(s)'
        BY <1>1, <1>4, <2>1, <2>3 DEF IInv, RecordInv, Chain, Holds, Untouched
      <3>2. Fate(s)'
        BY <1>1, <1>2, <1>4, <2>1, <2>3 DEF IInv, RecordInv, Fate, Untouched, endVars
      <3> QED BY <3>1, <3>2 DEF RecordInv
    <2> QED BY <2>2, <2>3
  <1>10. Books'
    BY <1>1 DEF IInv, Books, bookVars
  <1> QED BY <1>6, <1>7, <1>8, <1>9, <1>10 DEF IInv

-----------------------------------------------------------------------------
(* The invariant, and what follows from it.                                 *)

LEMMA InitIInv == Init => IInv
  <1> SUFFICES ASSUME Init PROVE IInv
    OBVIOUS
  <1>1. Len(Inputs) \in Nat /\ MaxAttempts \in Nat \ {0} /\ Concurrency \in Nat \ {0}
    BY RunnerAssumption
  <1>2. TypeOK
    <2>1. next \in 1 .. Len(Inputs) + 1
      BY <1>1 DEF Init
    <2>2. /\ attempts \in [Records -> 0 .. MaxAttempts]
          /\ retries \in [Records -> 0 .. MaxAttempts - 1]
      BY <1>1 DEF Init
    <2>3. queue \in Seq(Records)
      BY DEF Init
    <2> QED BY <2>1, <2>2, <2>3 DEF Init, TypeOK, Phases
  <1>3. Running = {} /\ Waiting = {}
    BY DEF Init, Running, Waiting, RunningPhases
  <1>4. Cardinality(Running) = 0 /\ Len(queue) = 0
    BY <1>3, FS_EmptySet DEF Init
  <1>5. Queueing
    BY <1>1, <1>3, <1>4, RunnerAssumption DEF Init, Queueing
  <1>6. Admission
    BY <1>1 DEF Init, Admission, Records
  <1>7. \A r \in Records : RecordInv(r)
    BY DEF Init, RecordInv, Chain, Holds, Fate
  <1>8. Books
    <2>1. {r \in Records : rows[r] = 1} = {}
      BY DEF Init
    <2> QED BY <2>1, FS_EmptySet DEF Init, Books
  <1> QED BY <1>2, <1>5, <1>6, <1>7, <1>8 DEF IInv

LEMMA NextIInv == IInv /\ [Next]_vars => IInv'
  <1> SUFFICES ASSUME IInv, [Next]_vars PROVE IInv'
    OBVIOUS
  <1>1. CASE UNCHANGED vars
    <2>1. TypeOK' /\ Admission' /\ Forward
      BY <1>1 DEF vars, producerVars, leaseVars, chainVars, bookVars, endVars, IInv, TypeOK,
                  Admission, HasRoom, Stopped, Forward
    <2> QED BY <1>1, <2>1, ProducerStep DEF vars
  <1>2. CASE Produce
    BY <1>2, LoopKeeps, SubmitKeeps, DrainedKeeps DEF Produce
  <1>3. CASE OperatorAbort
    BY <1>3, LoopKeeps
  <1>4. CASE Returned
    BY <1>1, <1>4 DEF Returned
  <1>5. ASSUME NEW r \in Records, Attempt(r) PROVE IInv'
    <2>1. CASE Begin(r)
      BY <2>1, BeginKeeps
    <2>2. CASE ObserverCaught(r)
      BY <2>2, ObserverCaughtKeeps
    <2>3. CASE ProxyGranted(r)
      BY <2>3, ProxyGrantedKeeps
    <2>4. CASE SessionAcquired(r)
      BY <2>4, SessionAcquiredKeeps
    <2>5. CASE ScrapeEnds(r)
      BY <2>5, SettleKeeps, RunnerAssumption DEF ScrapeEnds
    <2>6. CASE BackoffEnds(r)
      BY <2>6, BackoffEndsKeeps
    <2>7. CASE BackoffAborted(r)
      BY <2>7, BackoffAbortedKeeps
    <2>8. CASE RowWritten(r)
      BY <2>8, RowWrittenKeeps
    <2> QED BY <1>5, <2>1, <2>2, <2>3, <2>4, <2>5, <2>6, <2>7, <2>8 DEF Attempt
  <1>6. ASSUME NEW r \in Records, ProxyRefused(r) PROVE IInv'
    BY <1>6, SettleKeeps DEF ProxyRefused, ResultKinds
  <1>7. ASSUME NEW r \in Records, WriteFails(r) PROVE IInv'
    BY <1>7, WriteFailsKeeps
  <1> QED BY <1>1, <1>2, <1>3, <1>4, <1>5, <1>6, <1>7 DEF Next

LEMMA Invariance == Spec => []IInv
  BY InitIInv, NextIInv, PTL DEF Spec

\* Whatever the batch and the limits of run(), its queue and its attempts: no
\* more tasks than configured, and leases only while an attempt is under way.
THEOREM WorkIsBounded == Spec => []BoundedWork
  <1>1. IInv => BoundedWork
    BY DEF IInv, BoundedWork, Queueing, RecordInv, Holds
  <1> QED BY <1>1, Invariance, PTL

\* A run that returns has one row for each record, or was aborted, and loses a
\* record that it had begun only with an output error to show for it.
THEOREM RowsAreAccounted == Spec => []RowsAccounted
  <1>1. IInv => RowsAccounted
    <2> SUFFICES ASSUME IInv PROVE RowsAccounted
      OBVIOUS
    <2>1. sinkClosed => \A r \in Records : phase[r] \in FinalPhases \cup {"waiting"}
      BY DEF IInv, RecordInv, Fate
    <2>2. \A r \in Records : rows[r] = IF phase[r] \in {"written", "threw"} THEN 1 ELSE 0
      BY DEF IInv, RecordInv, Fate
    <2>3. ASSUME producer = "done", NEW r \in Records
          PROVE  /\ ~Stopped => rows[r] = 1
                 /\ attempts[r] > 0 /\ rows[r] = 0 => fatalError = "output_error"
      <3>1. phase[r] \in FinalPhases \cup {"waiting"} /\ (Stopped \/ next > Len(Inputs))
        BY <2>1, <2>3 DEF IInv, Admission
      <3>2. ~Stopped => phase[r] # "waiting"
        BY <3>1, RunnerAssumption DEF IInv, Admission, Records, TypeOK
      <3>3. ~Stopped => phase[r] \in {"written", "threw"}
        BY <3>1, <3>2 DEF FinalPhases, IInv, RecordInv, Fate
      <3>4. attempts[r] > 0 /\ phase[r] \notin {"written", "threw"} => phase[r] = "lost"
        BY <3>1 DEF FinalPhases, IInv, RecordInv, Chain
      <3> QED BY <2>2, <3>3, <3>4 DEF IInv, RecordInv, Fate
    <2> QED BY <2>1, <2>2, <2>3 DEF RowsAccounted, IInv, Books
  <1> QED BY <1>1, Invariance, PTL

\* What the attempts that an abort cuts short report to the pools is neutral,
\* or a success; and no record is begun after it.
THEOREM AbortsAreClean == Spec => AbortIsClean
  <1> DEFINE Clean(r) ==
        Stopped =>
          /\ attempts'[r] # attempts[r] => phase[r] = "backoff"
          /\ proxy[r] /\ ~proxy'[r] =>
               ClassifyProxyOutcome(result'[r]) \in {"success", "neutral"}
          /\ session[r] /\ ~session'[r] =>
               ReportSessionOutcome(result'[r]) \in {"success", "neutral"}
  <1>1. ASSUME IInv, [Next]_vars, NEW r \in Records, Stopped PROVE Clean(r)
    <2>1. ASSUME NEW s \in Records, NEW kind \in ResultKinds, Settle(s, kind) PROVE Clean(r)
      <3>1. Final(kind) \in {"ok", "cancelled"}
        BY <1>1 DEF Final
      <3>2. CASE r = s
        <4>1. result'[r] \in {"ok", "cancelled"} /\ attempts' = attempts
          BY <1>1, <2>1, <3>1, <3>2 DEF Settle, IInv, TypeOK
        <4> QED BY <4>1 DEF ClassifyProxyOutcome, ReportSessionOutcome
      <3>3. CASE r # s
        BY <1>1, <2>1, <3>3 DEF Settle, IInv, TypeOK
      <3> QED BY <3>2, <3>3
    <2>2. UNCHANGED <<attempts, proxy, session>> => Clean(r)
      OBVIOUS
    <2>3. ASSUME NEW s \in Records, Attempt(s) PROVE Clean(r)
      <3>1. CASE Begin(s)
        BY <1>1, <2>2, <3>1 DEF Begin, leaseVars
      <3>2. CASE ObserverCaught(s)
        BY <2>2, <3>2 DEF ObserverCaught, leaseVars, chainVars
      <3>3. CASE ProxyGranted(s)
        BY <1>1, <3>3 DEF ProxyGranted, chainVars, IInv, TypeOK, RecordInv, Holds
      <3>4. CASE SessionAcquired(s)
        BY <1>1, <3>4 DEF SessionAcquired, chainVars, IInv, TypeOK
      <3>5. CASE ScrapeEnds(s)
        BY <2>1, <3>5, RunnerAssumption DEF ScrapeEnds
      <3>6. CASE BackoffEnds(s)
        BY <1>1, <3>6 DEF BackoffEnds, leaseVars, IInv, TypeOK
      <3>7. CASE BackoffAborted(s)
        BY <2>2, <3>7 DEF BackoffAborted, leaseVars
      <3>8. CASE RowWritten(s)
        BY <2>2, <3>8 DEF RowWritten, leaseVars, chainVars
      <3> QED BY <2>3, <3>1, <3>2, <3>3, <3>4, <3>5, <3>6, <3>7, <3>8 DEF Attempt
    <2>4. ASSUME NEW s \in Records, ProxyRefused(s) \/ WriteFails(s) PROVE Clean(r)
      <3>1. CASE ProxyRefused(s)
        BY <2>1, <3>1 DEF ProxyRefused, ResultKinds
      <3>2. CASE WriteFails(s)
        BY <2>2, <3>2 DEF WriteFails, leaseVars, chainVars
      <3> QED BY <2>4, <3>1, <3>2
    <2>5. Produce \/ OperatorAbort \/ Returned \/ UNCHANGED vars => Clean(r)
      BY <2>2 DEF Produce, Advance, CapacityFrees, Submit, Drained, Closed, OperatorAbort,
                  Returned, vars, leaseVars, chainVars
    <2> QED BY <1>1, <2>3, <2>4, <2>5 DEF Next
  <1>2. IInv /\ [Next]_vars => [\A r \in Records : Clean(r)]_vars
    BY <1>1
  <1>3. AbortIsClean <=> [][\A r \in Records : Clean(r)]_vars
    BY DEF AbortIsClean
  <1> HIDE DEF Clean
  <1> QED BY <1>2, <1>3, Invariance, PTL DEF Spec
=============================================================================
