-------------------------------- MODULE Preparer --------------------------------
(***************************************************************************)
(* From the pasted text to the records of a run: parseInput, and           *)
(* InputPreparer.prepare, whose workers resolve the short links through    *)
(* leased proxies, with retries and a cache that outlives the call, before *)
(* duplicates are dropped again.                                           *)
(*                                                                         *)
(* A line of the text is what normalisation makes of it.  A resolution is  *)
(* the outcome of ShortLinks, the pool a number of slots: a worker that    *)
(* finds none waits or is refused.  Metrics, formats, and a platform       *)
(* without a resolver are left out.                                        *)
(***************************************************************************)
EXTENDS Integers, Sequences, FiniteSets, SequencesExt, FiniteSetsExt, Absent

CONSTANTS
  Entries,      \* Seq of [form, url]: "blank", "bad", "other", "post" or "short"
  LeadsTo,      \* [short links -> posts they lead to]
  Resolvers,    \* the workers of a call, at most as many as there are records
  Slots,        \* leases the pool can have out
  MaxAttempts,  \* attempts of a resolution
  MaxCalls      \* bound: how often prepare is called

LineForms == {"blank", "bad", "other", "post", "short"}
PrepareAssumption ==
  /\ Entries \in Seq([form : LineForms, url : {Entries[i].url : i \in DOMAIN Entries}])
  /\ IsFiniteSet(Resolvers) /\ Resolvers # {}
  /\ Null \notin {"invalid_url", "platform_mismatch", "duplicate_url"}

VARIABLES
  call,      \* which call of prepare this is
  state,     \* "running", or how it ended: "prepared" or "cancelled"
  aborted,   \* whether the run's signal has aborted
  nextIndex, \* the next record to be taken
  resolved,  \* what each record came to, Null before
  worker,    \* where each worker is
  cache,     \* short links resolved so far
  output     \* the items and issues of the call that ended

prepareVars == <<call, state, aborted, nextIndex, resolved, worker, cache, output>>

Positions == DOMAIN Entries
Issue(code, i) == [code |-> code, position |-> i]
-------------------------------------------------------------------------------
(* parseInput: what is wrong with the line at position i, Null for nothing *)
(* and for the lines that are skipped.                                     *)
FirstWith(url) == Min({i \in Positions : Entries[i].form \in {"post", "short"} /\ Entries[i].url = url})

IssueAt(i) ==
  CASE Entries[i].form = "bad"    -> "invalid_url"
    [] Entries[i].form = "other"  -> "platform_mismatch"
    [] Entries[i].form \in {"post", "short"} /\ FirstWith(Entries[i].url) # i -> "duplicate_url"
    [] OTHER                      -> Null

ParsedIssues == {Issue(IssueAt(i), i) : i \in {j \in Positions : IssueAt(j) # Null}}

(* The records, in order: the position and URL of each, and whether it has *)
(* to be resolved.                                                         *)
Records ==
  LET Kept(i) == Entries[i].form # "blank" /\ IssueAt(i) = Null
      Record(i) == [position |-> i, url |-> Entries[i].url, short |-> Entries[i].form = "short"]
  IN [k \in 1 .. Cardinality({i \in Positions : Kept(i)}) |->
        Record(CHOOSE i \in Positions :
                 Kept(i) /\ Cardinality({j \in 1 .. i : Kept(j)}) = k)]

Resolving  == {w \in Resolvers : worker[w].phase = "resolving"}
Staffed    == CHOOSE ws \in SUBSET Resolvers :
                Cardinality(ws) = Min({Cardinality(Resolvers), Len(Records)})
Off(phase) == [phase |-> phase, index |-> 0, attempts |-> 0]

(* The workers a call starts, and the place of each result.                *)
Crew   == [w \in Resolvers |-> Off(IF w \in Staffed THEN "taking" ELSE "gone")]
Places == [k \in DOMAIN Records |-> Null]
PrepareInit ==
  /\ call = 1 /\ state = "running" /\ aborted = FALSE /\ nextIndex = 1
  /\ resolved = Places /\ worker = Crew
  /\ cache = {} /\ output = Null

(* The next cycle of a session prepares its records anew, with the cache.  *)
PrepareAgain ==
  /\ state = "prepared" /\ call < MaxCalls /\ call' = call + 1
  /\ state' = "running" /\ output' = Null
  /\ nextIndex' = 1 /\ resolved' = Places /\ worker' = Crew
  /\ UNCHANGED <<aborted, cache>>

PrepareAborts ==
  /\ ~aborted /\ aborted' = TRUE
  /\ UNCHANGED <<call, state, nextIndex, resolved, worker, cache, output>>
-------------------------------------------------------------------------------
Ready(record, url)       == [kind |-> "ready", position |-> record.position, url |-> url]
FailedItem(record, code) == [kind |-> "failure", position |-> record.position, code |-> code]

(* The result goes where the record was, whatever has been taken since.    *)
ResolvedAt(w, item) == [resolved EXCEPT ![worker[w].index] = item]

(* A worker takes the next record, and is done with it at once unless it   *)
(* is a short link that nobody has resolved.                               *)
Take(w) ==
  LET record == Records[nextIndex] IN
  /\ worker[w].phase = "taking"
  /\ IF aborted \/ nextIndex > Len(Records)
       THEN worker' = [worker EXCEPT ![w] = Off("gone")] /\ UNCHANGED <<nextIndex, resolved>>
       ELSE /\ nextIndex' = nextIndex + 1
            /\ IF record.short /\ record.url \notin cache
                 THEN /\ worker' = [worker EXCEPT ![w] = [phase |-> "acquiring", index |-> nextIndex,
                                                         attempts |-> 1]]
                      /\ UNCHANGED resolved
                 ELSE /\ resolved' = [resolved EXCEPT ![nextIndex] = Ready(record,
                                        IF record.short THEN LeadsTo[record.url] ELSE record.url)]
                      /\ UNCHANGED worker
  /\ UNCHANGED <<call, state, aborted, cache, output>>

Granted(w) ==
  /\ worker[w].phase = "acquiring" /\ ~aborted /\ Cardinality(Resolving) < Slots
  /\ worker' = [worker EXCEPT ![w].phase = "resolving"]
  /\ UNCHANGED <<call, state, aborted, nextIndex, resolved, cache, output>>

(* An attempt is over and its lease, if it had one, is back: with a post,  *)
(* a failure to retry after a pause, or one to keep.                       *)
Succeeds(w) ==
  LET record == Records[worker[w].index] IN
  /\ worker[w].phase = "resolving"
  /\ cache' = cache \cup {record.url}
  /\ resolved' = ResolvedAt(w, Ready(record, LeadsTo[record.url]))
  /\ worker' = [worker EXCEPT ![w] = Off("taking")]
  /\ UNCHANGED <<call, state, aborted, nextIndex, output>>

Keeps(w, code) ==
  /\ resolved' = ResolvedAt(w, FailedItem(Records[worker[w].index], code))
  /\ worker' = [worker EXCEPT ![w] = Off("taking")]

Fails(w, code, retryable) ==
  /\ IF retryable /\ worker[w].attempts < MaxAttempts
       THEN worker' = [worker EXCEPT ![w].phase = "pausing"] /\ UNCHANGED resolved
       ELSE Keeps(w, code)
  /\ UNCHANGED <<call, state, aborted, nextIndex, cache, output>>

(* An abort ends a wait for a proxy and a request alike; the pool may also *)
(* refuse, and a resolution fail for good or for now.                      *)
Refused(w)     == worker[w].phase = "acquiring" /\ ~aborted /\ Fails(w, "proxy_error", TRUE)
Unresolved(w)  == worker[w].phase = "resolving" /\ \E retryable \in BOOLEAN :
                    Fails(w, IF retryable THEN "timeout" ELSE "not_found", retryable)

Interrupted(w) == /\ aborted /\ worker[w].phase \in {"acquiring", "resolving"}
                  /\ Fails(w, "cancelled", FALSE)

PauseEnds(w) ==
  /\ worker[w].phase = "pausing" /\ ~aborted
  /\ worker' = [worker EXCEPT ![w].phase = "acquiring", ![w].attempts = @ + 1]
  /\ UNCHANGED <<call, state, aborted, nextIndex, resolved, cache, output>>

(* The pause rejects on an abort, the worker with it, and prepare at once, *)
(* whatever the other workers are at.                                      *)
PauseRejects(w) ==
  /\ worker[w].phase = "pausing" /\ aborted
  /\ worker' = [worker EXCEPT ![w] = Off("gone")]
  /\ state' = "cancelled"
  /\ UNCHANGED <<call, aborted, nextIndex, resolved, cache, output>>
-------------------------------------------------------------------------------
(* Mutation: of two records with one post the last is kept.                *)
DuplicateOfLater(k) == /\ resolved[k].kind = "ready"
                       /\ \E j \in k + 1 .. Len(Records) :
                            resolved[j].kind = "ready" /\ resolved[j].url = resolved[k].url

(* The duplicates that only the resolution shows: the first position of a  *)
(* post is kept, in the order of the records.                              *)
Duplicate(k) == /\ resolved[k].kind = "ready"
                /\ \E j \in 1 .. k - 1 : resolved[j].kind = "ready" /\ resolved[j].url = resolved[k].url

Settle ==
  /\ state = "running" /\ \A w \in Resolvers : worker[w].phase = "gone"
  /\ IF aborted THEN state' = "cancelled" /\ UNCHANGED output
     ELSE /\ state' = "prepared"
          /\ output' = [items |-> {resolved[k] : k \in {j \in DOMAIN Records : ~Duplicate(j)}},
                        issues |-> ParsedIssues \cup
                          {Issue("duplicate_url", Records[k].position) :
                             k \in {j \in DOMAIN Records : Duplicate(j)}}]
  /\ UNCHANGED <<call, aborted, nextIndex, resolved, worker, cache>>

Step(w) == \/ Take(w) \/ Granted(w) \/ Succeeds(w) \/ Refused(w) \/ Unresolved(w)
           \/ Interrupted(w) \/ PauseEnds(w) \/ PauseRejects(w)

PrepareNext == PrepareAgain \/ PrepareAborts \/ Settle \/ \E w \in Resolvers : Step(w)

(* Promises and timers go on, and a request has a timeout.                 *)
PrepareFairness == WF_prepareVars(Settle) /\ \A w \in Resolvers : WF_prepareVars(Step(w))
PrepareSpec == PrepareInit /\ [][PrepareNext]_prepareVars /\ PrepareFairness
-------------------------------------------------------------------------------
(* Nothing the user pasted is dropped in silence or scraped twice: every   *)
(* line that is not blank or a comment becomes one item or one issue, no   *)
(* two records of a run have one URL, however their links were spelled and *)
(* in whatever order the workers resolved them, and the first is kept.     *)
EveryLineAccounted ==
  state = "prepared" =>
    LET ready   == {x \in output.items : x.kind = "ready"}
        Post(i) == IF Entries[i].form = "short" THEN LeadsTo[Entries[i].url] ELSE Entries[i].url
    IN  /\ {x.position : x \in output.items} \cup {x.position : x \in output.issues}
          = {i \in Positions : Entries[i].form # "blank"}
        /\ {x.position : x \in output.items} \cap {x.position : x \in output.issues} = {}
        /\ \A x \in ready : /\ x.url = Post(x.position)
                            /\ \A y \in ready : x.url = y.url => x = y
        /\ \A x \in output.issues : x.code = "duplicate_url" =>
             \/ FirstWith(Entries[x.position].url) < x.position
             \/ \E y \in ready : y.position < x.position /\ y.url = Post(x.position)

(* What comes to hold for good: a call of prepare is over however many     *)
(* links fail and whenever it is cancelled, and the leases of workers that *)
(* were still busy when it rejected are back too.                          *)
PreparationEnded == state # "running" /\ Resolving = {}
=============================================================================
