------------------------------ MODULE RunService ------------------------------
(***************************************************************************)
(* RunService (app/run-service.ts): the runs of the process, each carried  *)
(* out by execute or executeSession in the background, and the dashboard   *)
(* page (web/main.ts) that starts one and polls it.                        *)
(*                                                                         *)
(* One action of a run is what runs between two awaits.  What the runner   *)
(* and the session do inside theirs is in Runner and Session; here they    *)
(* return, and a session shows itself as RunLifecycle lets it.  Reports,   *)
(* results and counts are left out; a throughput sample is its number.     *)
(* Anyone may start and cancel runs; one page is followed, and every call  *)
(* of its beginRun and poll, several at once when a failure that is not a  *)
(* call's own unlocks the form.                                            *)
(***************************************************************************)
EXTENDS Integers, Sequences, FiniteSets

CONSTANTS
  Runs,         \* 1 .. n, in the order in which they are started
  Continuous,   \* the runs that are sessions
  MaxRetained,  \* MAX_RETAINED_RUNS
  MaxSamples,   \* MAX_TIMELINE_SAMPLES, the server's and the page's
  Null,
  MaxTotal,     \* BOUND: samples one session takes
  Polls         \* BOUND: 1 .. n, the calls of beginRun and poll under way at once

Fatal == {"output_error", "unknown"}

ASSUME ServiceAssumption ==
  /\ Runs \subseteq Nat \ {0} /\ Continuous \subseteq Runs
  /\ MaxRetained \in Nat \ {0} /\ MaxSamples \in Nat \ {0} /\ MaxTotal \in Nat
  /\ Polls \subseteq Nat
  /\ Null \notin Nat \cup Fatal \cup {"cancelled"}

VARIABLES
  retained,  \* the keys of the runs map; they are inserted in ascending order
  status,    \* for each run, what its state says
  aborted,   \* whether its signal is
  at,        \* where execute or executeSession is
  held,      \* its cleanup stack
  fatal,     \* the fatal error the runner returned, or Null
  samples,   \* the samples retained of it
  cursor,    \* its timelineCursor: samples taken so far
  page,      \* what the page shows: the run, its state, samples and cursor
  loop,      \* where each call of beginRun and poll is, and the answer on its way
  alone      \* history: no other call was under way at the last submit

runVars  == <<retained, status, aborted, at, held, fatal>>
lineVars == <<samples, cursor>>
pageVars == <<page, loop, alone>>
vars == <<runVars, lineVars, pageVars>>

Active  == {"preparing", "running", "waiting"}
Final   == {"completed", "failed"}

Started == {r \in Runs : at[r] # "idle"}
IsNext(r) == r \in Runs \ Started /\ \A q \in Runs \ Started : r <= q

NoAnswer == [status |-> Null, samples |-> <<>>, cursor |-> 0]
Call(place, r, since, answer) == [at |-> place, run |-> r, since |-> since, answer |-> answer]
NoCall == Call("off", Null, 0, NoAnswer)

Init ==
  /\ retained = {}
  /\ status = [r \in Runs |-> "preparing"] /\ aborted = [r \in Runs |-> FALSE]
  /\ at = [r \in Runs |-> "idle"] /\ held = [r \in Runs |-> <<>>]
  /\ fatal = [r \in Runs |-> Null]
  /\ samples = [r \in Runs |-> <<>>] /\ cursor = [r \in Runs |-> 0]
  /\ page = [run |-> Null, status |-> "idle", samples |-> <<>>, cursor |-> 0]
  /\ loop = [p \in Polls |-> NoCall] /\ alone = TRUE

-----------------------------------------------------------------------------
(* The runs map.                                                            *)

\* Mutation: the oldest goes, whatever it is doing.
MayEvictOldest(r) == TRUE
MayEvict(r) == status[r] \in Final

\* evictOldRuns(): over the ceiling, the oldest finished runs go.
EvictOldRuns(kept) ==
  LET over == Cardinality(kept) - MaxRetained IN
  {r \in kept : MayEvict(r) => Cardinality({q \in kept : q < r /\ MayEvict(q)}) >= over}

\* start(): the run is registered, and begins.  Its input may be unusable, or its
\* proxy supply misconfigured.
Start(r) ==
  /\ IsNext(r)
  /\ retained' = EvictOldRuns(retained \cup {r})
  /\ \/ /\ at' = [at EXCEPT ![r] = IF r \in Continuous THEN "session" ELSE "starting"]
        /\ held' = [held EXCEPT ![r] = IF r \in Continuous THEN <<>> ELSE <<"events", "source">>]
        /\ status' = [status EXCEPT ![r] = IF r \in Continuous THEN "running" ELSE @]
     \/ /\ at' = [at EXCEPT ![r] = IF r \in Continuous THEN "gone" ELSE "cleaning"]
        /\ status' = [status EXCEPT ![r] = "failed"]
        /\ held' \in {held} \cup IF r \in Continuous THEN {}
                                 ELSE {[held EXCEPT ![r] = <<"events">>]}
  /\ UNCHANGED <<aborted, fatal, lineVars>>

\* Mutation: the run is told to be over at once.
CancelEndsIt(r) ==
  /\ r \in retained /\ status[r] \in Active /\ ~aborted[r]
  /\ aborted' = [aborted EXCEPT ![r] = TRUE] /\ status' = [status EXCEPT ![r] = "failed"]
  /\ UNCHANGED <<retained, at, held, fatal, lineVars, pageVars>>

\* cancel(), by the page or by another client.
Cancel(r) ==
  /\ r \in retained /\ status[r] \in Active /\ ~aborted[r]
  /\ aborted' = [aborted EXCEPT ![r] = TRUE]
  /\ UNCHANGED <<retained, status, at, held, fatal, lineVars, pageVars>>

-----------------------------------------------------------------------------
(* A one-shot run: execute.                                                 *)

Goes(r, from, to) == at[r] = from /\ at' = [at EXCEPT ![r] = to]

Fails(r, from) ==
  /\ Goes(r, from, "cleaning") /\ status' = [status EXCEPT ![r] = "failed"]
  /\ UNCHANGED held

\* The source is stocked, or cannot be.
SourceStarted(r) ==
  /\ \/ Goes(r, "starting", "building") /\ UNCHANGED <<status, held>>
     \/ Fails(r, "starting")
  /\ UNCHANGED <<retained, aborted, fatal, lineVars, pageVars>>

\* The runner is built, and is from now on to be disposed of, or cannot be.
Built(r) ==
  /\ \/ /\ Goes(r, "building", "resolving")
        /\ held' = [held EXCEPT ![r] = Append(@, "runner")] /\ UNCHANGED status
     \/ Fails(r, "building")
  /\ UNCHANGED <<retained, aborted, fatal, lineVars, pageVars>>

\* The short links are resolved; an abort may reject that.
Prepared(r) ==
  /\ \/ /\ Goes(r, "resolving", "running")
        /\ status' = [status EXCEPT ![r] = "running"] /\ UNCHANGED held
     \/ aborted[r] /\ Fails(r, "resolving")
  /\ UNCHANGED <<retained, aborted, fatal, lineVars, pageVars>>

\* The runner returns, cancelled or not.
RunReturns(r) ==
  /\ Goes(r, "running", "persisting")
  /\ \E error \in Fatal \cup {Null} : fatal' = [fatal EXCEPT ![r] = error]
  /\ UNCHANGED <<retained, status, aborted, held, lineVars, pageVars>>

\* The summary, the baseline line and the bandwidth: none of them may fail the run.
Recorded(r) ==
  /\ Goes(r, "persisting", "appending") \/ Goes(r, "appending", "refreshing")
  /\ UNCHANGED <<retained, status, aborted, held, fatal, lineVars, pageVars>>

\* Mutation: a cancel that came after the last row is forgotten.
OutcomeOfTheRun(r) == IF fatal[r] # Null THEN "failed" ELSE "completed"
Outcome(r) == IF fatal[r] # Null \/ aborted[r] THEN "failed" ELSE "completed"

Concludes(r) ==
  /\ Goes(r, "refreshing", "cleaning")
  /\ status' = [status EXCEPT ![r] = Outcome(r)]
  /\ UNCHANGED <<retained, aborted, held, fatal, lineVars, pageVars>>

\* Mutation: in the order in which they were acquired.
TailHeld(stack) == Tail(stack)
RestHeld(stack) == SubSeq(stack, 1, Len(stack) - 1)

\* Mutation: a release that fails is the last one.
ReleasesOrGivesUp(r) ==
  /\ at[r] = "cleaning"
  /\ \/ at' = [at EXCEPT ![r] = "gone"] /\ UNCHANGED held
     \/ held[r] # <<>> /\ held' = [held EXCEPT ![r] = RestHeld(@)] /\ UNCHANGED at
  /\ UNCHANGED <<retained, status, aborted, fatal, lineVars, pageVars>>

\* The finally block: the stack is unwound, one awaited release at a time.  One
\* that fails is logged.
Releases(r) ==
  /\ at[r] = "cleaning"
  /\ IF held[r] = <<>>
     THEN at' = [at EXCEPT ![r] = "gone"] /\ UNCHANGED held
     ELSE held' = [held EXCEPT ![r] = RestHeld(@)] /\ UNCHANGED at
  /\ UNCHANGED <<retained, status, aborted, fatal, lineVars, pageVars>>

-----------------------------------------------------------------------------
(* A session: executeSession.                                               *)

Shows(r) ==
  /\ at[r] = "session"
  /\ \E s \in {"running", "waiting"} : status' = [status EXCEPT ![r] = s]
  /\ UNCHANGED <<retained, aborted, at, held, fatal, lineVars, pageVars>>

\* onSample
Samples(r) ==
  /\ at[r] = "session" /\ cursor[r] < MaxTotal
  /\ LET all == Append(samples[r], cursor[r] + 1)
         over == IF Len(all) > MaxSamples THEN Len(all) - MaxSamples ELSE 0 IN
     samples' = [samples EXCEPT ![r] = SubSeq(all, over + 1, Len(all))]
  /\ cursor' = [cursor EXCEPT ![r] = @ + 1]
  /\ UNCHANGED <<runVars, pageVars>>

\* A cancelled session completes; one that could not write its output fails.
SessionEnds(r) ==
  /\ Goes(r, "session", "gone")
  /\ \E s \in Final : status' = [status EXCEPT ![r] = s]
  /\ UNCHANGED <<retained, aborted, held, fatal, lineVars, pageVars>>

-----------------------------------------------------------------------------
(* The page.                                                                *)

\* Mutation: the cursor taken for an index into what is retained.
SinceAsIndex(r, since) ==
  SubSeq(samples[r], (IF since > Len(samples[r]) THEN Len(samples[r]) ELSE since) + 1,
         Len(samples[r]))

\* get(): the samples retained that are newer than the page's cursor.
Since(r, since) ==
  LET oldest == cursor[r] - Len(samples[r])
      offset == IF since < oldest THEN 0
                ELSE IF since - oldest > Len(samples[r]) THEN Len(samples[r])
                ELSE since - oldest IN
  SubSeq(samples[r], offset + 1, Len(samples[r]))

\* The form, which is locked while the page shows an active run, is submitted
\* without URLs or with an impossible schedule.
Refuses ==
  /\ page.status \notin Active
  /\ page' = [page EXCEPT !.status = "failed"]
  /\ UNCHANGED <<runVars, lineVars, loop, alone>>

\* The defaults cannot be fetched, or the file that was chosen cannot be read: the
\* page says "failed" and the form is unlocked, whatever call is under way.
Interrupted ==
  /\ page' = [page EXCEPT !.status = "failed"]
  /\ UNCHANGED <<runVars, lineVars, loop, alone>>

\* It is submitted, and what was shown is dropped; a call under way goes on.
Submits(p) ==
  /\ page.status \notin Active /\ loop[p].at = "off"
  /\ \A q \in Polls : loop[q].at = "off" => p <= q
  /\ page' = [run |-> Null, status |-> "preparing", samples |-> <<>>, cursor |-> 0]
  /\ loop' = [loop EXCEPT ![p] = Call("posting", Null, 0, NoAnswer)]
  /\ alone' = \A q \in Polls : loop[q].at = "off"
  /\ UNCHANGED <<runVars, lineVars>>

\* The service gets the request, and the answer says what the run was then.
Posted(p, r) ==
  /\ loop[p].at = "posting" /\ Start(r)
  /\ loop' = [loop EXCEPT ![p] = Call("posted", r, 0, [NoAnswer EXCEPT !.status = status'[r]])]
  /\ UNCHANGED <<page, alone>>

\* The page learns its run, and asks for it at once.
Begun(p) ==
  /\ loop[p].at = "posted"
  /\ page' = [page EXCEPT !.run = loop[p].run, !.status = loop[p].answer.status]
  /\ loop' = [loop EXCEPT ![p] = Call("asking", loop[p].run, page.cursor, NoAnswer)]
  /\ UNCHANGED <<runVars, lineVars, alone>>

\* The service answers, unless the run has been evicted.
Answered(p) ==
  LET r == loop[p].run IN
  /\ loop[p].at = "asking" /\ r \in retained
  /\ loop' = [loop EXCEPT ![p] =
       Call("answered", r, 0,
            [status |-> status[r], samples |-> Since(r, loop[p].since), cursor |-> cursor[r]])]
  /\ UNCHANGED <<runVars, lineVars, page, alone>>

LastSamples(line) ==
  IF Len(line) > MaxSamples THEN SubSeq(line, Len(line) - MaxSamples + 1, Len(line)) ELSE line

\* The page shows the answer after what it has by now, and the call goes on polling
\* unless the run has ended.
Shown(p) ==
  LET answer == loop[p].answer IN
  /\ loop[p].at = "answered"
  /\ page' = [page EXCEPT !.status = answer.status, !.samples = LastSamples(@ \o answer.samples),
                          !.cursor = answer.cursor]
  /\ loop' = [loop EXCEPT ![p] = IF answer.status \in Final THEN NoCall
                                 ELSE Call("pausing", loop[p].run, 0, NoAnswer)]
  /\ UNCHANGED <<runVars, lineVars, alone>>

\* The call asks on, with the cursor that the page has by now.
Asks(p) ==
  /\ loop[p].at = "pausing"
  /\ loop' = [loop EXCEPT ![p] = Call("asking", loop[p].run, page.cursor, NoAnswer)]
  /\ UNCHANGED <<runVars, lineVars, page, alone>>

\* A request or its answer is lost, or the answer is an error: the call gives up.
GivesUp(p) ==
  /\ loop[p].at \in {"posting", "posted", "asking", "answered"}
  /\ page' = [page EXCEPT !.status = "failed"]
  /\ loop' = [loop EXCEPT ![p] = NoCall]
  /\ UNCHANGED <<runVars, lineVars, alone>>

-----------------------------------------------------------------------------
RunStep(r) == \/ SourceStarted(r) \/ Built(r) \/ Prepared(r) \/ RunReturns(r)
              \/ Recorded(r) \/ Concludes(r) \/ Releases(r) \/ SessionEnds(r)

PageStep == \/ Refuses \/ Interrupted
            \/ \E p \in Polls : \/ Submits(p) \/ Begun(p) \/ Answered(p) \/ Shown(p)
                                \/ Asks(p) \/ GivesUp(p)

Finished == (\A r \in Runs : at[r] = "gone") /\ UNCHANGED vars

Next ==
  \/ \E r \in Runs : \/ RunStep(r) \/ Cancel(r) \/ Shows(r) \/ Samples(r)
                     \/ Start(r) /\ UNCHANGED pageVars
                     \/ \E p \in Polls : Posted(p, r)
  \/ PageStep \/ Finished

Spec == Init /\ [][Next]_vars

\* Every await of a run ends: the runner returns (see Runner), a session reports
\* (see Session), and the rest is bounded input and output.
Fairness == \A r \in Runs : WF_vars(RunStep(r))

FairSpec == Spec /\ Fairness

-----------------------------------------------------------------------------
(* Properties.                                                              *)

TypeOK ==
  /\ retained \subseteq Runs
  /\ status \in [Runs -> Active \cup Final] /\ aborted \in [Runs -> BOOLEAN]
  /\ at \in [Runs -> {"idle", "starting", "building", "resolving", "running", "persisting",
                      "appending", "refreshing", "session", "cleaning", "gone"}]
  /\ held \in [Runs -> Seq({"events", "source", "runner"})]
  /\ fatal \in [Runs -> Fatal \cup {Null}]
  /\ samples \in [Runs -> Seq(Nat)] /\ cursor \in [Runs -> Nat]
  /\ page \in [run : Runs \cup {Null}, status : {"idle"} \cup Active \cup Final,
               samples : Seq(Nat), cursor : Nat]
  /\ loop \in [Polls ->
       [at : {"off", "posting", "posted", "asking", "answered", "pausing"},
        run : Runs \cup {Null}, since : Nat,
        answer : [status : Active \cup Final \cup {Null}, samples : Seq(Nat), cursor : Nat]]]
  /\ alone \in BOOLEAN

\* However many runs are started, a run that has not ended can be watched and
\* cancelled, and while the map is over its ceiling no run that had ended when
\* the last one was started is kept.
RetentionIsSafe ==
  [][/\ (\A r \in Started : status[r] \in Active => r \in retained)'
     /\ retained' # retained => \/ Cardinality(retained') <= MaxRetained
                               \/ \A r \in retained' : status[r] \in Active]_vars

\* A cancel that a one-shot run accepted is never answered by "completed", even
\* if it comes when every row is written; and a run completes without a fatal
\* error only.
CancelHonoured ==
  \A r \in Started \ Continuous :
    status[r] = "completed" => ~aborted[r] /\ fatal[r] = Null

\* The event log is open as long as the source writes to it, and whatever uses
\* the runner has it.
ResourcesNest ==
  \A r \in Runs :
    LET has == {held[r][i] : i \in DOMAIN held[r]} IN
    /\ "source" \in has => "events" \in has
    /\ "runner" \in has => "source" \in has
    /\ at[r] \in {"resolving", "running", "persisting", "appending", "refreshing"} =>
         "runner" \in has

\* Unless it was submitted while an earlier call was still polling, the page shows
\* the newest samples of its run up to its cursor, none twice and none missing, and
\* "completed" only of a run that is, whatever answers are lost or late and whatever
\* failure of the form comes in between.
PageTellsTheRun ==
  alone =>
    LET n == IF page.cursor < MaxSamples THEN page.cursor ELSE MaxSamples IN
    /\ page.samples = [i \in 1 .. n |-> page.cursor - n + i]
    /\ page.run # Null => page.cursor <= cursor[page.run]
    /\ page.status = "completed" => page.run # Null /\ status[page.run] = "completed"

\* Each run keeps to the lifecycle of RunLifecycle; its cycles are not counted here.
Life(r) == INSTANCE RunLifecycle
             WITH status <- status[r], cancelled <- aborted[r], begun <- 0, ended <- 0

EachRunLives == /\ \A r \in Runs : Life(r)!Init
                /\ [][\A r \in Runs : [Life(r)!Next]_(Life(r)!vars)]_vars

\* A run that is started ends and gives back everything it acquired, however far
\* it came.
RunsSettle == \A r \in Runs : at[r] # "idle" ~> at[r] = "gone" /\ held[r] = <<>>
=============================================================================
