--------------------------- MODULE RunServiceProofs ---------------------------
(* The runs of RunService, for any number of runs, any retention and any      *)
(* number of samples: types, what a cancel means, the cleanup stack, which    *)
(* runs are kept, what the page shows, and that each run keeps to             *)
(* RunLifecycle.                                                              *)
EXTENDS RunService, SequenceTheorems, SumLemmas

-----------------------------------------------------------------------------
(* Sequences.                                                               *)

\* What is cut out of a sequence has its elements.
LEMMA CutType ==
  ASSUME NEW S, NEW s \in Seq(S), NEW i \in Nat \ {0}
  PROVE  SubSeq(s, i, Len(s)) \in Seq(S)
  <1>1. Len(s) \in Nat
    BY LenProperties
  <1>2. CASE i <= Len(s)
    BY <1>1, <1>2, SubSeqProperties
  <1>3. CASE i > Len(s)
    BY <1>1, <1>3, SubSeqProperties
  <1> QED BY <1>1, <1>2, <1>3

Names == {"events", "source", "runner"}
Name(i) == IF i = 1 THEN "events" ELSE IF i = 2 THEN "source" ELSE "runner"

\* The first n resources, in the order in which they are acquired.
IsStack(s, n) == s \in Seq(Names) /\ Len(s) = n /\ \A i \in 1 .. n : s[i] = Name(i)

LEMMA FirstStacks ==
  IsStack(<<>>, 0) /\ IsStack(<<"events">>, 1) /\ IsStack(<<"events", "source">>, 2)
  <1>1. IsStack(<<>>, 0)
    BY EmptySeq DEF IsStack
  <1>2. IsStack(<<"events">>, 1)
    BY DEF IsStack, Names, Name
  <1>3. IsStack(<<"events", "source">>, 2)
    BY DEF IsStack, Names, Name
  <1> QED BY <1>1, <1>2, <1>3

\* t is s with e after it.
Grown(t, s, e) ==
  Len(t) = Len(s) + 1 /\ t[Len(s) + 1] = e /\ \A i \in 1 .. Len(s) : t[i] = s[i]

LEMMA Appended ==
  ASSUME NEW S, NEW s \in Seq(S), NEW e \in S
  PROVE  Append(s, e) \in Seq(S) /\ Grown(Append(s, e), s, e)
  BY AppendProperties DEF Grown

\* Building the runner completes the stack.
LEMMA StackGrows ==
  ASSUME NEW s, IsStack(s, 2)
  PROVE  IsStack(Append(s, "runner"), 3)
  <1>1. s \in Seq(Names) /\ "runner" \in Names
    BY DEF IsStack, Names
  <1>2. Append(s, "runner") \in Seq(Names) /\ Grown(Append(s, "runner"), s, "runner")
    BY <1>1, Appended
  <1> SUFFICES ASSUME NEW t \in Seq(Names), Grown(t, s, "runner") PROVE IsStack(t, 3)
    BY <1>2
  <1>3. Len(t) = 3 /\ t[3] = "runner" /\ \A i \in 1 .. 2 : t[i] = s[i]
    BY DEF IsStack, Grown
  <1>4. \A i \in 1 .. 3 : t[i] = Name(i)
    BY <1>3 DEF IsStack, Name
  <1> QED BY <1>3, <1>4 DEF IsStack

\* Unwinding takes the last one off.
LEMMA StackShrinks ==
  ASSUME NEW n \in Nat \ {0}, NEW s, IsStack(s, n)
  PROVE  IsStack(RestHeld(s), n - 1)
  <1>1. s \in Seq(Names) /\ Len(s) = n /\ \A i \in 1 .. n : s[i] = Name(i)
    BY DEF IsStack
  <1>2. \A i \in 1 .. n - 1 : s[i] \in Names
    BY <1>1 DEF Names, Name
  <1>3. /\ SubSeq(s, 1, n - 1) \in Seq(Names)
        /\ Len(SubSeq(s, 1, n - 1)) = IF 1 <= n - 1 THEN (n - 1) - 1 + 1 ELSE 0
        /\ \A i \in 1 .. (n - 1) - 1 + 1 : SubSeq(s, 1, n - 1)[i] = s[1 + i - 1]
    BY <1>2, SubSeqProperties
  <1>4. RestHeld(s) = SubSeq(s, 1, n - 1)
    BY <1>1 DEF RestHeld
  <1>5. Len(RestHeld(s)) = n - 1 /\ \A i \in 1 .. n - 1 : RestHeld(s)[i] = Name(i)
    BY <1>1, <1>3, <1>4
  <1> QED BY <1>3, <1>4, <1>5 DEF IsStack

-----------------------------------------------------------------------------
(* The invariant: where a run is, and what goes with it.                    *)

Places == {"idle", "starting", "building", "resolving", "running", "persisting",
           "appending", "refreshing", "session", "cleaning", "gone"}

RunTypes ==
  /\ status \in [Runs -> Active \cup Final] /\ aborted \in [Runs -> BOOLEAN]
  /\ at \in [Runs -> Places] /\ fatal \in [Runs -> Fatal \cup {Null}]
  /\ held \in [Runs -> Seq(Names)]

\* A run has ended when its steps are over, and only then; one that nobody has
\* started is untouched.
Ended(r) ==
  /\ status[r] \in Final <=> at[r] \in {"cleaning", "gone"}
  /\ at[r] = "idle" => status[r] = "preparing"
  /\ at[r] = "session" => r \in Continuous

\* What a run has acquired depends on how far it came.
Holding(r) ==
  /\ at[r] \in {"idle", "session", "gone"} => IsStack(held[r], 0)
  /\ at[r] \in {"starting", "building"} => IsStack(held[r], 2)
  /\ at[r] \in {"resolving", "running", "persisting", "appending", "refreshing"} =>
       IsStack(held[r], 3)
  /\ at[r] = "cleaning" => \E n \in 0 .. 3 : IsStack(held[r], n)

\* A one-shot run that completed was not cancelled before, nor met a fatal error.
Honoured(r) ==
  r \notin Continuous /\ status[r] = "completed" => ~aborted[r] /\ fatal[r] = Null

IInv == RunTypes /\ \A r \in Runs : Ended(r) /\ Holding(r) /\ Honoured(r)

LEMMA InitIInv == Init => IInv
  BY FirstStacks
     DEF Init, IInv, RunTypes, Ended, Holding, Honoured, Active, Final, Places

\* A step of run r keeps the invariant if it does for r.
LEMMA OneRun ==
  ASSUME IInv, NEW r \in Runs, RunTypes',
         \A q \in Runs \ {r} : /\ status'[q] = status[q] /\ aborted'[q] = aborted[q]
                               /\ at'[q] = at[q] /\ held'[q] = held[q] /\ fatal'[q] = fatal[q],
         Ended(r)', Holding(r)', Honoured(r)'
  PROVE  IInv'
  <1> SUFFICES ASSUME NEW q \in Runs PROVE Ended(q)' /\ Holding(q)' /\ Honoured(q)'
    BY DEF IInv
  <1>1. CASE q = r
    BY <1>1
  <1>2. CASE q # r
    BY <1>2 DEF IInv, Ended, Holding, Honoured
  <1> QED BY <1>1, <1>2

-----------------------------------------------------------------------------
(* Each step.                                                               *)

\* The rows that a step of run r sets.
Sets(r, s, a, h) ==
  /\ status' = [status EXCEPT ![r] = s] /\ at' = [at EXCEPT ![r] = a]
  /\ held' = [held EXCEPT ![r] = h]

\* Moving on within the active places, the stack as the new place wants it.
LEMMA Proceeds ==
  ASSUME IInv, NEW r \in Runs, NEW s \in Active, NEW a \in Places \ {"idle", "cleaning", "gone"},
         NEW h, Sets(r, s, a, h), UNCHANGED aborted,
         fatal' \in [Runs -> Fatal \cup {Null}], \A q \in Runs \ {r} : fatal'[q] = fatal[q],
         a = "session" => r \in Continuous /\ IsStack(h, 0),
         a \in {"starting", "building"} => IsStack(h, 2),
         a \in {"resolving", "running", "persisting", "appending", "refreshing"} => IsStack(h, 3)
  PROVE  IInv'
  <1>1. RunTypes'
    <2>1. h \in Seq(Names)
      BY DEF IsStack, Places
    <2> QED BY <2>1 DEF IInv, RunTypes, Sets
  <1>2. status'[r] = s /\ at'[r] = a /\ held'[r] = h
    BY DEF IInv, RunTypes, Sets
  <1>3. Ended(r)' /\ Holding(r)' /\ Honoured(r)'
    BY <1>2 DEF Ended, Holding, Honoured, Active, Final, Places
  <1>4. \A q \in Runs \ {r} : /\ status'[q] = status[q] /\ aborted'[q] = aborted[q]
                               /\ at'[q] = at[q] /\ held'[q] = held[q] /\ fatal'[q] = fatal[q]
    BY DEF IInv, RunTypes, Sets
  <1> QED BY <1>1, <1>3, <1>4, OneRun

\* Coming to an end: with a truthful outcome, and a stack to unwind.
LEMMA Concluded ==
  ASSUME IInv, NEW r \in Runs, NEW s \in Final, NEW a \in {"cleaning", "gone"}, NEW h,
         Sets(r, s, a, h), UNCHANGED <<aborted, fatal>>,
         a = "gone" => IsStack(h, 0), a = "cleaning" => \E n \in 0 .. 3 : IsStack(h, n),
         r \in Continuous \/ s = "failed" \/ (~aborted[r] /\ fatal[r] = Null)
  PROVE  IInv'
  <1>1. RunTypes'
    <2>1. h \in Seq(Names)
      BY DEF IsStack
    <2> QED BY <2>1 DEF IInv, RunTypes, Sets, Places
  <1>2. status'[r] = s /\ at'[r] = a /\ held'[r] = h
    BY DEF IInv, RunTypes, Sets
  <1>3. Ended(r)' /\ Holding(r)' /\ Honoured(r)'
    BY <1>2 DEF Ended, Holding, Honoured, Active, Final
  <1>4. \A q \in Runs \ {r} : /\ status'[q] = status[q] /\ aborted'[q] = aborted[q]
                               /\ at'[q] = at[q] /\ held'[q] = held[q] /\ fatal'[q] = fatal[q]
    BY DEF IInv, RunTypes, Sets
  <1> QED BY <1>1, <1>3, <1>4, OneRun

\* What a step leaves alone can be said to be set to what it is.
LEMMA SetToItself ==
  ASSUME IInv, NEW r \in Runs
  PROVE  /\ status = [status EXCEPT ![r] = status[r]] /\ held = [held EXCEPT ![r] = held[r]]
         /\ at = [at EXCEPT ![r] = at[r]]
  BY DEF IInv, RunTypes

LEMMA StartKeeps ==
  ASSUME IInv, NEW r \in Runs, Start(r)
  PROVE  IInv'
  <1>1. at[r] = "idle" /\ status[r] = "preparing" /\ IsStack(held[r], 0)
    BY DEF Start, IsNext, Started, IInv, Ended, Holding
  <1>2. UNCHANGED <<aborted, fatal>> /\ fatal \in [Runs -> Fatal \cup {Null}]
    BY DEF Start, IInv, RunTypes
  <1>3. CASE at' = [at EXCEPT ![r] = "starting"] /\ UNCHANGED status
             /\ held' = [held EXCEPT ![r] = <<"events", "source">>]
    BY <1>1, <1>2, <1>3, SetToItself, FirstStacks, Proceeds DEF Sets, Active, Places
  <1>4. CASE /\ r \in Continuous /\ at' = [at EXCEPT ![r] = "session"]
             /\ status' = [status EXCEPT ![r] = "running"] /\ held' = [held EXCEPT ![r] = <<>>]
    BY <1>1, <1>2, <1>4, FirstStacks, Proceeds DEF Sets, Active, Places
  <1>5. CASE /\ at' = [at EXCEPT ![r] = IF r \in Continuous THEN "gone" ELSE "cleaning"]
             /\ status' = [status EXCEPT ![r] = "failed"]
             /\ held' \in {held} \cup IF r \in Continuous THEN {}
                                      ELSE {[held EXCEPT ![r] = <<"events">>]}
    <2>1. PICK h \in {held[r], <<"events">>} :
            held' = [held EXCEPT ![r] = h] /\ (r \in Continuous => h = held[r])
      BY <1>5, SetToItself
    <2>2. IsStack(h, 0) \/ (r \notin Continuous /\ IsStack(h, 1))
      BY <1>1, <2>1, FirstStacks
    <2>3. 0 \in 0 .. 3 /\ 1 \in 0 .. 3
      OBVIOUS
    <2>4. CASE r \in Continuous
      BY <1>1, <1>2, <1>5, <2>1, <2>2, <2>4, Concluded DEF Sets, Final
    <2>5. CASE r \notin Continuous
      BY <1>1, <1>2, <1>5, <2>1, <2>2, <2>3, <2>5, Concluded DEF Sets, Final
    <2> QED BY <2>4, <2>5
  <1>6. (r \in Continuous /\ held' = [held EXCEPT ![r] = <<>>]) \/ r \notin Continuous
        \/ status' = [status EXCEPT ![r] = "failed"]
    BY DEF Start
  <1> QED BY <1>1, <1>3, <1>4, <1>5, <1>6, SetToItself DEF Start

LEMMA FailsKeeps ==
  ASSUME IInv, NEW r \in Runs, NEW from \in {"starting", "building", "resolving"},
         Fails(r, from), UNCHANGED <<aborted, fatal>>
  PROVE  IInv'
  <1>1. \E n \in 0 .. 3 : IsStack(held[r], n)
    <2>1. IsStack(held[r], 2) \/ IsStack(held[r], 3)
      BY DEF Fails, Goes, IInv, Holding
    <2>2. 2 \in 0 .. 3 /\ 3 \in 0 .. 3
      OBVIOUS
    <2> QED BY <2>1, <2>2
  <1>2. Sets(r, "failed", "cleaning", held[r])
    BY SetToItself DEF Fails, Goes, Sets
  <1> QED BY <1>1, <1>2, Concluded DEF Final

LEMMA ReleasesKeeps ==
  ASSUME IInv, NEW r \in Runs, Releases(r)
  PROVE  IInv'
  <1>1. PICK n \in 0 .. 3 : IsStack(held[r], n)
    BY DEF Releases, IInv, Holding
  <1>2. /\ at[r] = "cleaning" /\ status[r] \in Final /\ UNCHANGED <<aborted, fatal, status>>
        /\ r \in Continuous \/ status[r] = "failed" \/ (~aborted[r] /\ fatal[r] = Null)
    BY DEF Releases, IInv, Ended, Honoured, Final
  <1>3. CASE held[r] = <<>>
    <2>1. IsStack(held[r], 0)
      BY <1>3, FirstStacks
    <2>2. Sets(r, status[r], "gone", held[r])
      BY <1>2, <1>3, SetToItself DEF Releases, Sets
    <2> QED BY <1>2, <2>1, <2>2, Concluded
  <1>4. CASE held[r] # <<>>
    <2>1. n \in Nat \ {0} /\ n - 1 \in 0 .. 3
      BY <1>1, <1>4, EmptySeq DEF IsStack
    <2>2. \E m \in 0 .. 3 : IsStack(RestHeld(held[r]), m)
      BY <1>1, <2>1, StackShrinks
    <2>3. Sets(r, status[r], "cleaning", RestHeld(held[r]))
      BY <1>2, <1>4, SetToItself DEF Releases, Sets
    <2> QED BY <1>2, <2>2, <2>3, Concluded
  <1> QED BY <1>3, <1>4

\* A step on the way of a one-shot run.
LEMMA OneShotKeeps ==
  ASSUME IInv, NEW r \in Runs,
         SourceStarted(r) \/ Built(r) \/ Prepared(r) \/ RunReturns(r) \/ Recorded(r)
  PROVE  IInv'
  <1>1. UNCHANGED aborted /\ fatal \in [Runs -> Fatal \cup {Null}]
    BY DEF SourceStarted, Built, Prepared, RunReturns, Recorded, IInv, RunTypes
  <1>2. ASSUME NEW from \in {"starting", "building", "resolving"}, Fails(r, from), UNCHANGED fatal
        PROVE  IInv'
    BY <1>1, <1>2, FailsKeeps
  <1>3. CASE SourceStarted(r)
    <2>1. CASE Goes(r, "starting", "building") /\ UNCHANGED <<status, held>>
      <3>1. IsStack(held[r], 2) /\ status[r] \in Active
        BY <2>1 DEF Goes, IInv, Holding, RunTypes, Ended
      <3>2. Sets(r, status[r], "building", held[r]) /\ UNCHANGED fatal
        BY <1>3, <2>1, SetToItself DEF SourceStarted, Goes, Sets
      <3> QED BY <1>1, <3>1, <3>2, Proceeds DEF Places
    <2> QED BY <1>2, <1>3, <2>1 DEF SourceStarted
  <1>4. CASE Built(r)
    <2>1. CASE /\ Goes(r, "building", "resolving") /\ UNCHANGED status
               /\ held' = [held EXCEPT ![r] = Append(@, "runner")]
      <3>1. IsStack(Append(held[r], "runner"), 3) /\ status[r] \in Active
        <4>1. IsStack(held[r], 2) /\ status[r] \in Active
          BY <2>1 DEF Goes, IInv, Holding, RunTypes, Ended
        <4> QED BY <4>1, StackGrows
      <3>2. Sets(r, status[r], "resolving", Append(held[r], "runner")) /\ UNCHANGED fatal
        BY <1>4, <2>1, SetToItself DEF Built, Goes, Sets
      <3> QED BY <1>1, <3>1, <3>2, Proceeds DEF Places
    <2> QED BY <1>2, <1>4, <2>1 DEF Built
  <1>5. CASE Prepared(r)
    <2>1. CASE /\ Goes(r, "resolving", "running") /\ UNCHANGED held
               /\ status' = [status EXCEPT ![r] = "running"]
      <3>1. IsStack(held[r], 3) /\ "running" \in Active
        BY <2>1 DEF Goes, IInv, Holding, Active
      <3>2. Sets(r, "running", "running", held[r]) /\ UNCHANGED fatal
        BY <1>5, <2>1, SetToItself DEF Prepared, Goes, Sets
      <3> QED BY <1>1, <3>1, <3>2, Proceeds DEF Places
    <2> QED BY <1>2, <1>5, <2>1 DEF Prepared
  <1>6. CASE RunReturns(r)
    <2>1. IsStack(held[r], 3) /\ status[r] \in Active
      BY <1>6 DEF RunReturns, Goes, IInv, Holding, RunTypes, Ended
    <2>2. Sets(r, status[r], "persisting", held[r])
      BY <1>6, SetToItself DEF RunReturns, Goes, Sets
    <2>3. /\ fatal' \in [Runs -> Fatal \cup {Null}]
          /\ \A q \in Runs \ {r} : fatal'[q] = fatal[q]
      BY <1>1, <1>6 DEF RunReturns
    <2> QED BY <1>1, <2>1, <2>2, <2>3, Proceeds DEF Places
  <1>7. CASE Recorded(r)
    <2>1. PICK a \in {"appending", "refreshing"} :
            at[r] \in {"persisting", "appending"} /\ at' = [at EXCEPT ![r] = a]
      BY <1>7 DEF Recorded, Goes
    <2>2. IsStack(held[r], 3) /\ status[r] \in Active
      BY <2>1 DEF IInv, Holding, RunTypes, Ended
    <2>3. Sets(r, status[r], a, held[r]) /\ UNCHANGED fatal
      BY <1>7, <2>1, SetToItself DEF Recorded, Sets
    <2> QED BY <1>1, <2>1, <2>2, <2>3, Proceeds DEF Places
  <1> QED BY <1>3, <1>4, <1>5, <1>6, <1>7

LEMMA ConcludesKeeps ==
  ASSUME IInv, NEW r \in Runs, Concludes(r)
  PROVE  IInv'
  <1>1. IsStack(held[r], 3) /\ 3 \in 0 .. 3 /\ aborted[r] \in BOOLEAN
    BY DEF Concludes, Goes, IInv, Holding, RunTypes
  <1>2. Outcome(r) \in Final /\ (Outcome(r) = "failed" \/ (~aborted[r] /\ fatal[r] = Null))
    BY <1>1 DEF Outcome, Final
  <1>3. Sets(r, Outcome(r), "cleaning", held[r]) /\ UNCHANGED <<aborted, fatal>>
    BY SetToItself DEF Concludes, Goes, Sets
  <1> QED BY <1>1, <1>2, <1>3, Concluded

LEMMA SessionKeeps ==
  ASSUME IInv, NEW r \in Continuous, Shows(r) \/ SessionEnds(r)
  PROVE  IInv'
  <1>1. r \in Runs /\ at[r] = "session" /\ IsStack(held[r], 0)
    BY ServiceAssumption DEF Shows, SessionEnds, Goes, IInv, Holding
  <1>2. UNCHANGED <<aborted, fatal>> /\ fatal \in [Runs -> Fatal \cup {Null}]
    BY DEF Shows, SessionEnds, IInv, RunTypes
  <1>3. CASE Shows(r)
    <2>1. PICK s \in {"running", "waiting"} : status' = [status EXCEPT ![r] = s]
      BY <1>3 DEF Shows
    <2>2. Sets(r, s, "session", held[r]) /\ s \in Active
      BY <1>1, <1>3, <2>1, SetToItself DEF Shows, Sets, Active
    <2> QED BY <1>1, <1>2, <2>2, Proceeds DEF Places
  <1>4. CASE SessionEnds(r)
    <2>1. PICK s \in Final : status' = [status EXCEPT ![r] = s]
      BY <1>4 DEF SessionEnds
    <2>2. Sets(r, s, "gone", held[r])
      BY <1>1, <1>4, <2>1, SetToItself DEF SessionEnds, Goes, Sets
    <2> QED BY <1>1, <1>2, <2>1, <2>2, Concluded
  <1> QED BY <1>3, <1>4

LEMMA CancelKeeps ==
  ASSUME IInv, NEW r \in Runs, Cancel(r)
  PROVE  IInv'
  <1>1. UNCHANGED <<status, at, held, fatal>> /\ status[r] \in Active
    BY DEF Cancel
  <1>2. aborted' \in [Runs -> BOOLEAN]
    BY Zenon DEF Cancel, IInv, RunTypes
  <1>3. \A q \in Runs \ {r} : aborted'[q] = aborted[q]
    BY DEF Cancel, IInv, RunTypes
  <1>4. RunTypes'
    BY <1>1, <1>2 DEF IInv, RunTypes
  <1>5. Ended(r)' /\ Holding(r)'
    BY <1>1 DEF IInv, Ended, Holding
  <1>6. Honoured(r)'
    BY <1>1 DEF Honoured, Active
  <1> QED BY <1>1, <1>3, <1>4, <1>5, <1>6, OneRun

LEMMA NextIInv ==
  ASSUME IInv, [Next]_vars
  PROVE  IInv'
  <1>1. ASSUME UNCHANGED runVars PROVE IInv'
    BY <1>1 DEF runVars, IInv, RunTypes, Ended, Holding, Honoured
  <1>2. CASE UNCHANGED vars
    BY <1>1, <1>2 DEF vars
  <1>3. ASSUME NEW r \in Runs, RunStep(r) PROVE IInv'
    <2>1. SessionEnds(r) => r \in Continuous
      BY DEF SessionEnds, Goes, IInv, Ended
    <2> QED BY <1>3, <2>1, OneShotKeeps, ConcludesKeeps, ReleasesKeeps, SessionKeeps DEF RunStep
  <1>4. ASSUME NEW r \in Runs, Cancel(r) PROVE IInv'
    BY <1>4, CancelKeeps
  <1>5. ASSUME NEW r \in Runs, Shows(r) PROVE IInv'
    <2>1. r \in Continuous
      BY <1>5 DEF Shows, IInv, Ended
    <2> QED BY <1>5, <2>1, SessionKeeps
  <1>6. ASSUME NEW r \in Runs, Samples(r) PROVE IInv'
    BY <1>1, <1>6 DEF Samples
  <1>7. ASSUME NEW r \in Runs, Start(r) PROVE IInv'
    BY <1>7, StartKeeps
  <1>8. CASE PageStep
    BY <1>1, <1>8 DEF PageStep, Refuses, Interrupted, Submits, Begun, Answered, Shown, Asks, GivesUp
  <1>9. ASSUME NEW r \in Runs, NEW p \in Polls, Posted(p, r) PROVE IInv'
    BY <1>7, <1>9 DEF Posted
  <1>10. CASE Finished
    BY <1>2, <1>10 DEF Finished
  <1> QED BY <1>2, <1>3, <1>4, <1>5, <1>6, <1>7, <1>8, <1>9, <1>10 DEF Next

THEOREM Invariance == Spec => []IInv
  <1>1. Init => IInv
    BY InitIInv
  <1>2. IInv /\ [Next]_vars => IInv'
    BY NextIInv
  <1> QED BY <1>1, <1>2, PTL DEF Spec

-----------------------------------------------------------------------------
(* What the runs promise.                                                   *)

\* However late the cancel of a one-shot run comes, the run does not say that
\* it completed (the terminal status of execute).
THEOREM CancelIsHonoured == Spec => []CancelHonoured
  <1>1. IInv => CancelHonoured
    BY DEF IInv, Honoured, CancelHonoured, Started
  <1> QED BY <1>1, Invariance, PTL

\* A stack has what was acquired before whatever it has.
LEMMA StacksNest ==
  ASSUME NEW n \in 0 .. 3, NEW s, IsStack(s, n)
  PROVE  LET has == {s[i] : i \in DOMAIN s} IN
         /\ "source" \in has => "events" \in has
         /\ "runner" \in has => "source" \in has
         /\ n = 3 => "runner" \in has
  <1>1. DOMAIN s = 1 .. n /\ \A i \in 1 .. n : s[i] = Name(i)
    BY LenProperties DEF IsStack
  <1>2. /\ "source" \in {s[i] : i \in DOMAIN s} => n >= 2
        /\ "runner" \in {s[i] : i \in DOMAIN s} => n >= 3
    BY <1>1 DEF Name
  <1>3. /\ n >= 2 => s[1] = "events" /\ 1 \in DOMAIN s
        /\ n >= 3 => s[2] = "source" /\ 2 \in DOMAIN s
        /\ n = 3 => s[3] = "runner" /\ 3 \in DOMAIN s
    BY <1>1 DEF Name
  <1> QED BY <1>2, <1>3

\* Whatever fails, and wherever, a resource is released before what it uses (the
\* cleanup stack of execute).
THEOREM ResourcesAreNested == Spec => []ResourcesNest
  <1>1. IInv => ResourcesNest
    <2> SUFFICES ASSUME IInv, NEW r \in Runs
                 PROVE  LET has == {held[r][i] : i \in DOMAIN held[r]} IN
                        /\ "source" \in has => "events" \in has
                        /\ "runner" \in has => "source" \in has
                        /\ at[r] \in {"resolving", "running", "persisting", "appending",
                                      "refreshing"} => "runner" \in has
      BY DEF ResourcesNest
    <2>1. at[r] \in Places /\ Holding(r)
      BY DEF IInv, RunTypes
    <2>2. PICK n \in 0 .. 3 :
            /\ IsStack(held[r], n)
            /\ at[r] \in {"resolving", "running", "persisting", "appending", "refreshing"} => n = 3
      BY <2>1 DEF Places, Holding
    <2> QED BY <2>2, StacksNest
  <1> QED BY <1>1, Invariance, PTL

-----------------------------------------------------------------------------
(* Each run keeps to the lifecycle.                                         *)

\* What a step may do to what the dashboard sees of a run.
LifeStep(q) ==
  \/ status'[q] = status[q] /\ aborted'[q] = aborted[q]
  \/ /\ status[q] \in Active /\ aborted'[q] = aborted[q]
     /\ status'[q] \in Final \cup {"running", "waiting"}
  \/ status[q] \in Active /\ status'[q] = status[q] /\ aborted'[q] = TRUE

LEMMA SetsOne ==
  ASSUME IInv, NEW r \in Runs, NEW s \in Final \cup {"running", "waiting"}, NEW q \in Runs,
         status[r] \in Active, status' = [status EXCEPT ![r] = s], UNCHANGED aborted
  PROVE  LifeStep(q)
  BY DEF LifeStep, IInv, RunTypes

LEMMA NextLifeStep ==
  ASSUME IInv, [Next]_vars, NEW q \in Runs
  PROVE  LifeStep(q)
  <1>1. ASSUME UNCHANGED <<status, aborted>> PROVE LifeStep(q)
    BY <1>1 DEF LifeStep
  <1>2. CASE UNCHANGED vars
    BY <1>1, <1>2 DEF vars, runVars
  <1>3. ASSUME NEW r \in Runs, RunStep(r) PROVE LifeStep(q)
    <2>1. ASSUME NEW from \in {"starting", "building", "resolving"}, Fails(r, from),
                 UNCHANGED aborted
          PROVE  LifeStep(q)
      <3>1. status[r] \in Active
        BY <2>1 DEF Fails, Goes, IInv, Ended, RunTypes
      <3> QED BY <2>1, <3>1, SetsOne DEF Fails, Final
    <2>2. CASE SourceStarted(r)
      BY <1>1, <2>1, <2>2 DEF SourceStarted
    <2>3. CASE Built(r)
      BY <1>1, <2>1, <2>3 DEF Built
    <2>4. CASE Prepared(r)
      <3>1. CASE Goes(r, "resolving", "running") /\ status' = [status EXCEPT ![r] = "running"]
        <4>1. status[r] \in Active
          BY <3>1 DEF Goes, IInv, Ended, RunTypes
        <4> QED BY <2>4, <3>1, <4>1, SetsOne DEF Prepared
      <3> QED BY <2>1, <2>4, <3>1 DEF Prepared
    <2>5. CASE RunReturns(r) \/ Recorded(r) \/ Releases(r)
      BY <1>1, <2>5 DEF RunReturns, Recorded, Releases
    <2>6. CASE Concludes(r)
      <3>1. status[r] \in Active /\ Outcome(r) \in Final
        BY <2>6 DEF Concludes, Goes, IInv, Ended, RunTypes, Outcome, Final
      <3> QED BY <2>6, <3>1, SetsOne DEF Concludes
    <2>7. CASE SessionEnds(r)
      <3>1. status[r] \in Active
        BY <2>7 DEF SessionEnds, Goes, IInv, Ended, RunTypes
      <3> QED BY <2>7, <3>1, SetsOne DEF SessionEnds
    <2> QED BY <1>3, <2>2, <2>3, <2>4, <2>5, <2>6, <2>7 DEF RunStep
  <1>4. ASSUME NEW r \in Runs, Cancel(r) PROVE LifeStep(q)
    <2>1. CASE q = r
      <3>1. aborted'[r] = TRUE
        BY <1>4, Zenon DEF Cancel, IInv, RunTypes
      <3> QED BY <1>4, <2>1, <3>1 DEF Cancel, LifeStep
    <2>2. CASE q # r
      BY <1>4, <2>2 DEF Cancel, LifeStep, IInv, RunTypes
    <2> QED BY <2>1, <2>2
  <1>5. ASSUME NEW r \in Runs, Shows(r) PROVE LifeStep(q)
    <2>1. status[r] \in Active
      BY <1>5 DEF Shows, IInv, Ended, RunTypes
    <2> QED BY <1>5, <2>1, SetsOne DEF Shows
  <1>6. ASSUME NEW r \in Runs, Samples(r) PROVE LifeStep(q)
    BY <1>1, <1>6 DEF Samples, runVars
  <1>7. ASSUME NEW r \in Runs, Start(r) PROVE LifeStep(q)
    <2>1. status[r] \in Active /\ UNCHANGED aborted
      BY <1>7 DEF Start, IsNext, Started, IInv, Ended, Active
    <2>2. UNCHANGED status \/ \E s \in {"running", "failed"} : status' = [status EXCEPT ![r] = s]
      <3>1. status = [status EXCEPT ![r] = status[r]]
        BY SetToItself
      <3> QED BY <1>7, <3>1 DEF Start
    <2> QED BY <1>1, <2>1, <2>2, SetsOne DEF Final
  <1>8. CASE PageStep
    BY <1>1, <1>8 DEF PageStep, Refuses, Interrupted, Submits, Begun, Answered, Shown, Asks, GivesUp,
                     runVars
  <1>9. ASSUME NEW r \in Runs, NEW p \in Polls, Posted(p, r) PROVE LifeStep(q)
    BY <1>7, <1>9 DEF Posted
  <1>10. CASE Finished
    BY <1>2, <1>10 DEF Finished
  <1> QED BY <1>2, <1>3, <1>4, <1>5, <1>6, <1>7, <1>8, <1>9, <1>10 DEF Next

\* Every run of the service, one-shot or session, is one that RunLifecycle
\* allows: it ends once, and nothing of it changes after that.
THEOREM RunsLive == Spec => EachRunLives
  <1>1. Init => \A r \in Runs : Life(r)!Init
    BY DEF Init, Life!Init, Life!Active
  <1>2. IInv /\ [Next]_vars => [\A r \in Runs : [Life(r)!Next]_(Life(r)!vars)]_vars
    <2> SUFFICES ASSUME IInv, [Next]_vars, NEW r \in Runs
                 PROVE  [Life(r)!Next]_(Life(r)!vars)
      OBVIOUS
    <2>1. LifeStep(r)
      BY NextLifeStep
    <2> QED BY <2>1 DEF LifeStep, Active, Final, Life!Next, Life!Show, Life!Cancel, Life!End,
                        Life!vars, Life!Active, Life!Final
  <1> QED BY <1>1, <1>2, Invariance, PTL DEF Spec, EachRunLives

-----------------------------------------------------------------------------
(* Retention.                                                               *)

\* What is retained is finite, and has every run that goes on.
Retains ==
  /\ retained \subseteq Runs /\ IsFiniteSet(retained)
  /\ \A r \in Started : status[r] \in Active => r \in retained

LEMMA EvictKeepsActive ==
  ASSUME NEW kept
  PROVE  /\ EvictOldRuns(kept) \subseteq kept
         /\ \A r \in kept : status[r] \notin Final => r \in EvictOldRuns(kept)
  BY DEF EvictOldRuns, MayEvict

\* An eviction leaves the map within its ceiling, or nothing in it that has ended.
\* The oldest finished run that stays has all those before it evicted, and they
\* are as many as there were too many.
LEMMA EvictsEnough ==
  ASSUME NEW kept, IsFiniteSet(kept), kept \subseteq Nat
  PROVE  \/ Cardinality(EvictOldRuns(kept)) <= MaxRetained
         \/ \A r \in EvictOldRuns(kept) : status[r] \notin Final
  <1> DEFINE over == Cardinality(kept) - MaxRetained
             Before(r) == {q \in kept : q < r /\ MayEvict(q)}
             stay == EvictOldRuns(kept)
             ended == {r \in stay : MayEvict(r)}
  <1>1. stay = {r \in kept : MayEvict(r) => Cardinality(Before(r)) >= over}
    BY DEF EvictOldRuns
  <1>2. CASE ended = {}
    BY <1>2 DEF MayEvict
  <1>3. CASE ended # {}
    <2>1. PICK r \in ended : \A q \in ended : r <= q
      <3>1. ended \in SUBSET Nat
        BY <1>1
      <3> HIDE DEF ended
      <3> QED BY <1>3, <3>1, NatMin
    <2>2. Cardinality(Before(r)) >= over /\ r \in kept
      BY <1>1, <2>1
    <2>3. stay \subseteq kept \ Before(r)
      <3> SUFFICES ASSUME NEW q \in stay PROVE q \notin Before(r)
        BY <1>1
      <3>1. q \in kept /\ (q \in Before(r) => q \in ended /\ q < r)
        BY <1>1
      <3> QED BY <2>1, <2>2, <3>1
    <2>4. /\ IsFiniteSet(kept \ Before(r))
          /\ Cardinality(kept \ Before(r)) = Cardinality(kept) - Cardinality(Before(r))
      <3>1. kept \cap Before(r) = Before(r)
        OBVIOUS
      <3> QED BY <3>1, FS_Difference
    <2>5. Cardinality(stay) <= Cardinality(kept \ Before(r))
      BY <2>3, <2>4, FS_Subset
    <2>6. Cardinality(stay) \in Nat /\ Cardinality(kept) \in Nat /\ Cardinality(Before(r)) \in Nat
      <3>1. IsFiniteSet(stay) /\ IsFiniteSet(Before(r))
        BY <2>3, <2>4, FS_Subset
      <3> QED BY <3>1, FS_CardinalityType
    <2>7. Cardinality(stay) <= MaxRetained
      <3> HIDE DEF stay, Before
      <3> QED BY <2>2, <2>4, <2>5, <2>6, ServiceAssumption
    <2> QED BY <2>7
  <1> QED BY <1>2, <1>3

\* What a step of the runs may do to the map.
Evicting ==
  /\ (\A r \in Started : status[r] \in Active => r \in retained)'
  /\ retained' # retained => \/ Cardinality(retained') <= MaxRetained
                             \/ \A r \in retained' : status[r] \in Active

LEMMA StartEvicts ==
  ASSUME IInv, Retains, NEW r \in Runs, Start(r)
  PROVE  Retains' /\ Evicting
  <1> DEFINE kept == retained \cup {r}
  <1>1. retained' = EvictOldRuns(kept) /\ IsFiniteSet(kept) /\ kept \subseteq Runs
    BY FS_AddElement DEF Start, Retains
  <1>2. retained' \subseteq kept /\ IsFiniteSet(retained')
    BY <1>1, EvictKeepsActive, FS_Subset
  <1>3. at[r] = "idle" /\ status[r] = "preparing"
    BY DEF Start, IsNext, Started, IInv, Ended
  <1>4. \A q \in Runs \ {r} : at'[q] = at[q] /\ status'[q] = status[q]
    BY DEF Start, IInv, RunTypes
  <1>5. ASSUME NEW q \in Started', status'[q] \in Active
        PROVE  q \in retained'
    <2>1. q \in kept /\ status[q] \in Active
      BY <1>3, <1>4, <1>5 DEF Started, Retains, Active
    <2> QED BY <1>1, <2>1, EvictKeepsActive DEF Active, Final
  <1>6. \/ Cardinality(retained') <= MaxRetained
        \/ \A q \in retained' : status[q] \in Active
    <2>1. kept \subseteq Nat
      BY <1>1, ServiceAssumption
    <2>2. \/ Cardinality(retained') <= MaxRetained
          \/ \A q \in retained' : status[q] \notin Final
      BY <1>1, <2>1, EvictsEnough
    <2> QED BY <1>1, <1>2, <2>2 DEF IInv, RunTypes
  <1> QED BY <1>1, <1>2, <1>5, <1>6 DEF Retains, Evicting

\* Whatever goes on after a step that starts nothing went on before.
LEMMA OthersEvictNothing ==
  ASSUME IInv, Retains, UNCHANGED retained,
         \A q \in Runs : /\ at[q] = "idle" => at'[q] = "idle"
                         /\ status'[q] \in Active => status[q] \in Active
  PROVE  Retains' /\ Evicting
  BY DEF Retains, Evicting, Started

LEMMA NextEvicts ==
  ASSUME IInv, Retains, [Next]_vars
  PROVE  Retains' /\ Evicting
  <1>1. \A q \in Runs : status'[q] \in Active => status[q] \in Active
    BY NextLifeStep DEF LifeStep, Active, Final
  <1>2. ASSUME UNCHANGED <<retained, at>> PROVE Retains' /\ Evicting
    BY <1>1, <1>2, OthersEvictNothing
  <1>3. CASE UNCHANGED vars
    BY <1>2, <1>3 DEF vars, runVars
  <1>4. ASSUME NEW r \in Runs, NEW from, NEW to, from # "idle", Goes(r, from, to)
        PROVE  \A q \in Runs : at[q] = "idle" => at'[q] = "idle"
    BY <1>4 DEF Goes, IInv, RunTypes
  <1>5. ASSUME NEW r \in Runs, RunStep(r) PROVE Retains' /\ Evicting
    <2>1. UNCHANGED retained
      BY <1>5 DEF RunStep, SourceStarted, Built, Prepared, RunReturns, Recorded, Concludes,
                  Releases, SessionEnds
    <2>2. \A q \in Runs : at[q] = "idle" => at'[q] = "idle"
      <3>1. CASE Releases(r)
        BY <3>1 DEF Releases, IInv, RunTypes
      <3> QED BY <1>4, <1>5, <3>1
              DEF RunStep, SourceStarted, Built, Prepared, RunReturns, Recorded, Concludes,
                  SessionEnds, Fails
    <2> QED BY <1>1, <2>1, <2>2, OthersEvictNothing
  <1>6. ASSUME NEW r \in Runs, Cancel(r) \/ Shows(r) \/ Samples(r) PROVE Retains' /\ Evicting
    BY <1>2, <1>6 DEF Cancel, Shows, Samples, runVars
  <1>7. CASE PageStep
    BY <1>2, <1>7 DEF PageStep, Refuses, Interrupted, Submits, Begun, Answered, Shown, Asks, GivesUp,
                     runVars
  <1> QED BY <1>3, <1>5, <1>6, <1>7, StartEvicts DEF Next, Posted, Finished

LEMMA RetainsInvariance == Spec => []Retains
  <1>1. Init => Retains
    BY FS_EmptySet DEF Init, Retains, Started
  <1>2. IInv /\ Retains /\ [Next]_vars => Retains'
    BY NextEvicts
  <1> QED BY <1>1, <1>2, Invariance, PTL DEF Spec

\* A run that goes on can be watched and cancelled however many are started after
\* it, and the map is over its ceiling only while all it has goes on (evictOldRuns).
THEOREM RetentionSafe == Spec => RetentionIsSafe
  <1>1. IInv /\ Retains /\ [Next]_vars
          => [/\ (\A r \in Started : status[r] \in Active => r \in retained)'
              /\ retained' # retained => \/ Cardinality(retained') <= MaxRetained
                                        \/ \A r \in retained' : status[r] \in Active]_vars
    BY NextEvicts DEF Evicting
  <1> QED BY <1>1, Invariance, RetainsInvariance, PTL DEF Spec, RetentionIsSafe

-----------------------------------------------------------------------------
(* Samples that follow each other.                                          *)

Fewer(a, b) == IF a < b THEN a ELSE b

\* The last m of the samples up to the c-th, and as many as are retained.
LastOf(c, m) == [i \in 1 .. m |-> c - m + i]
Newest(c)    == LastOf(c, Fewer(c, MaxSamples))

LEMMA LastOfType ==
  ASSUME NEW c \in Nat, NEW m \in 0 .. c
  PROVE  /\ LastOf(c, m) \in Seq(Nat) /\ Len(LastOf(c, m)) = m
         /\ \A i \in 1 .. m : LastOf(c, m)[i] = c - m + i
  BY DEF LastOf

\* A sequence of consecutive numbers that end with c is that.
LEMMA IsLastOf ==
  ASSUME NEW c \in Nat, NEW m \in 0 .. c, NEW s \in Seq(Nat), Len(s) = m,
         \A i \in 1 .. m : s[i] = c - m + i
  PROVE  s = LastOf(c, m)
  BY LastOfType, SeqEqual

LEMMA CutLastOf ==
  ASSUME NEW c \in Nat, NEW m \in 0 .. c, NEW k \in 0 .. m
  PROVE  SubSeq(LastOf(c, m), k + 1, m) = LastOf(c, m - k)
  <1> DEFINE s == LastOf(c, m)
             t == SubSeq(s, k + 1, m)
  <1>1. s \in Seq(Nat) /\ Len(s) = m /\ \A i \in 1 .. m : s[i] = c - m + i
    BY LastOfType
  <1>2. \A i \in (k + 1) .. m : s[i] \in Nat
    BY <1>1
  <1> HIDE DEF s
  <1>3. /\ t \in Seq(Nat) /\ Len(t) = IF k + 1 <= m THEN m - (k + 1) + 1 ELSE 0
        /\ \A i \in 1 .. m - (k + 1) + 1 : t[i] = s[(k + 1) + i - 1]
    BY <1>2, SubSeqProperties
  <1> HIDE DEF t
  <1>4. Len(t) = m - k /\ \A i \in 1 .. m - k : t[i] = c - (m - k) + i
    BY <1>1, <1>3
  <1>5. t = LastOf(c, m - k)
    BY <1>3, <1>4, IsLastOf
  <1> QED BY <1>5 DEF t, s

LEMMA GrowLastOf ==
  ASSUME NEW c \in Nat, NEW m \in 0 .. c
  PROVE  Append(LastOf(c, m), c + 1) = LastOf(c + 1, m + 1)
  <1> DEFINE s == LastOf(c, m)
             t == Append(s, c + 1)
  <1>1. s \in Seq(Nat) /\ Len(s) = m /\ \A i \in 1 .. m : s[i] = c - m + i
    BY LastOfType
  <1> HIDE DEF s
  <1>2. t \in Seq(Nat) /\ Grown(t, s, c + 1)
    BY <1>1, Appended
  <1> HIDE DEF t
  <1>3. Len(t) = m + 1 /\ t[m + 1] = c + 1 /\ \A i \in 1 .. m : t[i] = c - m + i
    BY <1>1, <1>2 DEF Grown
  <1>4. \A i \in 1 .. m + 1 : t[i] = (c + 1) - (m + 1) + i
    BY <1>3
  <1>5. m + 1 \in 0 .. c + 1 /\ c + 1 \in Nat
    OBVIOUS
  <1>6. t = LastOf(c + 1, m + 1)
    BY <1>2, <1>3, <1>4, <1>5, IsLastOf
  <1> QED BY <1>6 DEF t, s

\* What follows is joined on, and of what does not the end is left.
LEMMA JoinLastOf ==
  ASSUME NEW s \in Nat, NEW k \in 0 .. s, NEW c \in Nat, NEW m \in 0 .. c, s <= c,
         NEW n \in m .. m + k, n = m \/ m = c - s
  PROVE  LET all == LastOf(s, k) \o LastOf(c, m) IN
         Len(all) = k + m /\ SubSeq(all, k + m - n + 1, k + m) = LastOf(c, n)
  <1> DEFINE f == LastOf(s, k)
             g == LastOf(c, m)
             all == f \o g
             t == SubSeq(all, k + m - n + 1, k + m)
  <1>1. /\ f \in Seq(Nat) /\ Len(f) = k /\ \A i \in 1 .. k : f[i] = s - k + i
        /\ g \in Seq(Nat) /\ Len(g) = m /\ \A i \in 1 .. m : g[i] = c - m + i
    BY LastOfType
  <1> HIDE DEF f, g
  <1>2. /\ all \in Seq(Nat) /\ Len(all) = Len(f) + Len(g)
        /\ \A i \in 1 .. Len(f) + Len(g) : all[i] = IF i <= Len(f) THEN f[i] ELSE g[i - Len(f)]
    BY <1>1, ConcatProperties
  <1> HIDE DEF all
  <1> DEFINE o == k + m - n
  <1>3. /\ o \in 0 .. k /\ n \in Nat /\ k \in Nat /\ m \in Nat
        /\ (k + m) - (o + 1) + 1 = n /\ o + n = k + m
        /\ k + m - n + 1 = o + 1 /\ (n = 0 => o + 1 > k + m) /\ (n > 0 => o + 1 <= k + m)
    OBVIOUS
  <1>4. \A i \in 1 .. k + m : all[i] \in Nat
    BY <1>1, <1>2, LenProperties, ElementOfSeq
  <1>5. \A i \in (o + 1) .. (k + m) : all[i] \in Nat
    BY <1>3, <1>4
  <1>6. t = SubSeq(all, o + 1, k + m)
    BY <1>3
  <1> HIDE DEF t, o
  <1>7. /\ t \in Seq(Nat)
        /\ Len(t) = IF o + 1 <= k + m THEN (k + m) - (o + 1) + 1 ELSE 0
        /\ \A i \in 1 .. (k + m) - (o + 1) + 1 : t[i] = all[(o + 1) + i - 1]
    BY <1>3, <1>5, <1>6, SubSeqProperties
  <1>8. Len(t) = n
    BY <1>3, <1>7
  <1>9. ASSUME NEW i \in 1 .. n
        PROVE  t[i] = c - n + i
    <2>1. t[i] = all[(o + 1) + i - 1] /\ (o + 1) + i - 1 = o + i
      BY <1>3, <1>7
    <2>2. o + i \in 1 .. k + m
      BY <1>3
    <2>3. all[o + i] = IF o + i <= k THEN f[o + i] ELSE g[(o + i) - k]
      BY <1>1, <1>2, <2>2
    <2>4. o = k + m - n
      BY DEF o
    <2>5. CASE o + i <= k
      <3>1. f[o + i] = s - k + (o + i)
        BY <1>1, <1>3, <2>2, <2>5
      <3> QED BY <1>3, <2>1, <2>3, <2>4, <2>5, <3>1
    <2>6. CASE o + i > k
      <3>1. (o + i) - k \in 1 .. m
        BY <1>3, <2>2, <2>6
      <3>2. g[(o + i) - k] = c - m + ((o + i) - k)
        BY <1>1, <3>1
      <3> QED BY <1>3, <2>1, <2>3, <2>4, <2>6, <3>2
    <2> QED BY <1>3, <2>5, <2>6
  <1>10. n \in 0 .. c
    BY <1>3
  <1>11. t = LastOf(c, n)
    BY <1>7, <1>8, <1>9, <1>10, IsLastOf
  <1> QED BY <1>1, <1>2, <1>11 DEF t, all, f, g

-----------------------------------------------------------------------------
(* The page and the run it follows.                                         *)

LineTypes == samples \in [Runs -> Seq(Nat)] /\ cursor \in [Runs -> Nat]
Pages == [run : Runs \cup {Null}, status : {"idle"} \cup Active \cup Final,
          samples : Seq(Nat), cursor : Nat]
Replies == [status : Active \cup Final \cup {Null}, samples : Seq(Nat), cursor : Nat]
Turns == {"off", "posting", "posted", "asking", "answered", "pausing"}
AnyLoop == [at : Turns, run : Runs \cup {Null}, since : Nat, answer : Replies]

\* A call that was answered knows its run, and what it was told is a state of one.
Loops == {l \in AnyLoop :
           /\ l.at \in {"posted", "asking", "answered", "pausing"} => l.run # Null
           /\ l.at \in {"posted", "answered"} => l.answer.status \in Active \cup Final}

\* What is retained of a run is the newest of it.
Lines == \A r \in Runs : samples[r] = Newest(cursor[r])

\* What the page shows is what its run was, up to its cursor.
Linked ==
  /\ page.samples = Newest(page.cursor)
  /\ page.run = Null => page.cursor = 0
  /\ page.run # Null => page.cursor <= cursor[page.run]
  /\ page.status = "completed" => page.run # Null /\ status[page.run] = "completed"

\* The samples of an answer that are missing on a page with cursor s.
Fills(answer, s) ==
  answer.samples = LastOf(answer.cursor, Fewer(answer.cursor - s, Fewer(answer.cursor, MaxSamples)))

\* What is on its way is for the run and the cursor that the page has, and was
\* true when it was said.
Pending(p) ==
  LET l == loop[p] IN
  /\ l.at \in {"posting", "posted"} => page.cursor = 0
  /\ l.at \in {"asking", "answered", "pausing"} => l.run = page.run /\ page.run # Null
  /\ l.at = "asking" => l.since = page.cursor
  /\ l.at = "answered" => /\ page.cursor <= l.answer.cursor
                          /\ l.answer.cursor <= cursor[l.run]
                          /\ Fills(l.answer, page.cursor)
  /\ l.at \in {"posted", "answered"} /\ l.answer.status = "completed"
       => status[l.run] = "completed"

\* No call but one, if any, is under way.
OneCall == \A p, q \in Polls : loop[p].at # "off" /\ loop[q].at # "off" => p = q

PageTypes == page \in Pages /\ loop \in [Polls -> Loops] /\ alone \in BOOLEAN
Told == alone => OneCall /\ Linked /\ \A p \in Polls : Pending(p)
PageInv == LineTypes /\ PageTypes /\ Lines /\ Told

\* The newest samples are none yet, or one more.
LEMMA NewestType ==
  ASSUME NEW c \in Nat
  PROVE  Newest(c) \in Seq(Nat) /\ Len(Newest(c)) = Fewer(c, MaxSamples)
  <1>1. Fewer(c, MaxSamples) \in 0 .. c
    BY ServiceAssumption DEF Fewer
  <1> QED BY <1>1, LastOfType DEF Newest

LEMMA NoneYet == Newest(0) = <<>>
  <1>1. Newest(0) \in Seq(Nat) /\ Len(Newest(0)) = 0
    BY NewestType, ServiceAssumption DEF Fewer
  <1> QED BY <1>1, EmptySeq

\* How the runs move on: a run that completed has, and the samples come one by one.
MovesOn ==
  \A q \in Runs : /\ status[q] = "completed" => status'[q] = "completed"
                  /\ cursor[q] <= cursor'[q]

LEMMA StatusMovesOn ==
  ASSUME IInv, [Next]_vars, NEW q \in Runs, status[q] = "completed"
  PROVE  status'[q] = "completed"
  BY NextLifeStep DEF LifeStep, Active

\* onSample: the oldest sample makes room, and the rest is still the newest.
LEMMA SamplesKeep ==
  ASSUME LineTypes, Lines, NEW r \in Runs, Samples(r)
  PROVE  LineTypes' /\ Lines' /\ \A q \in Runs : cursor[q] <= cursor'[q]
  <1> DEFINE c == cursor[r]
             m == Fewer(c, MaxSamples)
             all == Append(samples[r], c + 1)
             over == IF Len(all) > MaxSamples THEN Len(all) - MaxSamples ELSE 0
             kept == SubSeq(all, over + 1, Len(all))
  <1>1. /\ samples' = [samples EXCEPT ![r] = kept] /\ cursor' = [cursor EXCEPT ![r] = c + 1]
        /\ c \in Nat /\ samples[r] = LastOf(c, m) /\ m \in 0 .. c
    BY ServiceAssumption DEF Samples, LineTypes, Lines, Newest, Fewer
  <1>2. /\ all = LastOf(c + 1, m + 1) /\ c + 1 \in Nat /\ m + 1 \in 0 .. c + 1
        /\ Len(all) = m + 1
    <2>1. all = LastOf(c + 1, m + 1)
      BY <1>1, GrowLastOf
    <2>2. c + 1 \in Nat /\ m + 1 \in 0 .. c + 1
      BY <1>1
    <2> QED BY <2>1, <2>2, LastOfType
  <1>3. over \in 0 .. m + 1 /\ m + 1 - over = Fewer(c + 1, MaxSamples)
    BY <1>1, <1>2, ServiceAssumption DEF Fewer
  <1> HIDE DEF all, over, m
  <1>4. kept = Newest(c + 1)
    <2>1. SubSeq(LastOf(c + 1, m + 1), over + 1, m + 1) = LastOf(c + 1, (m + 1) - over)
      BY <1>2, <1>3, CutLastOf
    <2>2. kept = SubSeq(LastOf(c + 1, m + 1), over + 1, m + 1)
      BY <1>2
    <2>3. Newest(c + 1) = LastOf(c + 1, (m + 1) - over)
      <3> HIDE DEF c
      <3> QED BY <1>1, <1>2, <1>3 DEF Newest
    <2> QED BY <2>1, <2>2, <2>3
  <1> HIDE DEF kept
  <1>5. kept \in Seq(Nat)
    BY <1>2, <1>4, NewestType
  <1>6. LineTypes'
    BY <1>1, <1>2, <1>5 DEF LineTypes
  <1>7. ASSUME NEW q \in Runs
        PROVE  samples'[q] = Newest(cursor'[q]) /\ cursor[q] <= cursor'[q]
    BY <1>1, <1>4 DEF LineTypes, Lines
  <1> QED BY <1>6, <1>7 DEF Lines

LEMMA RunsMoveOn ==
  ASSUME IInv, LineTypes, Lines, [Next]_vars
  PROVE  LineTypes' /\ Lines' /\ MovesOn
  <1>1. CASE UNCHANGED lineVars
    BY <1>1, StatusMovesOn DEF lineVars, LineTypes, Lines, MovesOn
  <1>2. ASSUME NEW r \in Runs, Samples(r) PROVE LineTypes' /\ Lines' /\ MovesOn
    BY <1>2, SamplesKeep, StatusMovesOn DEF MovesOn
  <1>3. ASSUME NEW r \in Runs, RunStep(r) \/ Cancel(r) \/ Shows(r) \/ Start(r)
        PROVE  UNCHANGED lineVars
    BY <1>3 DEF RunStep, SourceStarted, Built, Prepared, RunReturns, Recorded, Concludes,
                Releases, SessionEnds, Cancel, Shows, Start
  <1>4. PageStep \/ UNCHANGED vars => UNCHANGED lineVars
    BY DEF PageStep, Refuses, Interrupted, Submits, Begun, Answered, Shown, Asks, GivesUp, vars
  <1> QED BY <1>1, <1>2, <1>3, <1>4 DEF Next, Posted, Finished

\* While the page does nothing, what it shows stays true.
LEMMA PageIdles ==
  ASSUME PageInv, MovesOn, LineTypes', Lines', UNCHANGED pageVars
  PROVE  PageInv'
  <1>1. /\ page.run \in Runs \cup {Null} /\ page.cursor \in Nat
        /\ \A p \in Polls : loop[p].run \in Runs \cup {Null} /\ loop[p].answer.cursor \in Nat
    BY DEF PageInv, PageTypes, Pages, Loops, AnyLoop, Replies
  <1>2. page' = page /\ loop' = loop /\ alone' = alone
    BY DEF pageVars
  <1>3. \A q \in Runs : cursor[q] \in Nat /\ cursor'[q] \in Nat
    BY DEF PageInv, LineTypes
  <1>4. ASSUME alone PROVE OneCall' /\ Linked' /\ \A p \in Polls : Pending(p)'
    <2>1. OneCall'
      BY <1>2, <1>4 DEF PageInv, Told, OneCall
    <2>2. Linked'
      BY <1>1, <1>2, <1>3, <1>4 DEF PageInv, Told, Linked, MovesOn
    <2>3. ASSUME NEW p \in Polls PROVE Pending(p)'
      <3> DEFINE l == loop[p]
      <3>1. /\ l.run \in Runs \cup {Null} /\ l.answer.cursor \in Nat /\ Pending(p)
            /\ page'.run = page.run /\ page'.cursor = page.cursor /\ loop'[p] = l
        BY <1>1, <1>2, <1>4 DEF PageInv, Told
      <3>2. l.at \in {"asking", "answered", "pausing", "posted"} => l.run \in Runs
        BY DEF PageInv, PageTypes, Loops, AnyLoop
      <3>3. l.at = "answered" => /\ page.cursor <= l.answer.cursor
                                 /\ l.answer.cursor <= cursor'[l.run]
        BY <1>3, <3>1, <3>2 DEF Pending, MovesOn
      <3>4. /\ l.at \in {"posted", "answered"} /\ l.answer.status = "completed"
            => status'[l.run] = "completed"
        BY <3>1, <3>2 DEF Pending, MovesOn
      <3> HIDE DEF l
      <3>5. Pending(p) /\ loop[p] = l
        BY <3>1 DEF l
      <3> QED BY <3>1, <3>3, <3>4, <3>5 DEF Pending, Fills
    <2> QED BY <2>1, <2>2, <2>3
  <1> QED BY <1>2, <1>4 DEF PageInv, PageTypes, Told

-----------------------------------------------------------------------------
(* What the page does.                                                      *)

\* The answer to a page with cursor s: what is retained and newer than that.
LEMMA AnswerFills ==
  ASSUME LineTypes, Lines, NEW r \in Runs, NEW s \in Nat, s <= cursor[r]
  PROVE  /\ Since(r, s) \in Seq(Nat)
         /\ Since(r, s) = LastOf(cursor[r], Fewer(cursor[r] - s, Fewer(cursor[r], MaxSamples)))
  <1> DEFINE c == cursor[r]
             n == Fewer(c, MaxSamples)
             oldest == c - n
             offset == IF s < oldest THEN 0 ELSE IF s - oldest > n THEN n ELSE s - oldest
             m == Fewer(c - s, n)
  <1>1. c \in Nat /\ n \in 0 .. c /\ samples[r] = LastOf(c, n)
    BY ServiceAssumption DEF LineTypes, Lines, Newest, Fewer
  <1>2. Len(samples[r]) = n
    BY <1>1, LastOfType
  <1>3. offset \in 0 .. n /\ n - offset = m /\ m \in 0 .. c
    <2>1. s <= c
      OBVIOUS
    <2> HIDE DEF n, c
    <2> QED BY <1>1, <2>1 DEF Fewer
  <1>4. Since(r, s) = SubSeq(LastOf(c, n), offset + 1, n)
    BY <1>1, <1>2 DEF Since
  <1> HIDE DEF offset, n, c, m
  <1>5. SubSeq(LastOf(c, n), offset + 1, n) = LastOf(c, n - offset)
    BY <1>1, <1>3, CutLastOf
  <1>6. Since(r, s) = LastOf(c, m) /\ LastOf(c, m) \in Seq(Nat)
    BY <1>1, <1>3, <1>4, <1>5, LastOfType
  <1> QED BY <1>6 DEF c, m, n

\* What the page makes of an answer that fills it.
LEMMA ShownIsNewest ==
  ASSUME NEW s \in Nat, NEW answer \in Replies, s <= answer.cursor, Fills(answer, s)
  PROVE  LastSamples(Newest(s) \o answer.samples) = Newest(answer.cursor)
  <1> DEFINE c == answer.cursor
             k == Fewer(s, MaxSamples)
             m == Fewer(c - s, Fewer(c, MaxSamples))
             n == Fewer(c, MaxSamples)
             all == LastOf(s, k) \o LastOf(c, m)
  <1>1. c \in Nat /\ s <= c
    BY DEF Replies
  <1>2. /\ k \in 0 .. s /\ m \in 0 .. c /\ n \in m .. m + k /\ (n = m \/ m = c - s)
        /\ IF k + m > MaxSamples THEN n = MaxSamples ELSE n = k + m
    BY <1>1, ServiceAssumption DEF Fewer
  <1>3. all = Newest(s) \o answer.samples
    BY DEF Fills, Newest
  <1>4. Newest(c) = LastOf(c, n)
    BY DEF Newest
  <1> HIDE DEF k, m, n, c
  <1>5. Len(all) = k + m /\ SubSeq(all, k + m - n + 1, k + m) = LastOf(c, n)
    BY <1>1, <1>2, JoinLastOf
  <1>6. LastSamples(all) = LastOf(c, n)
    <2>1. CASE k + m > MaxSamples
      <3> HIDE DEF all
      <3>1. n = MaxSamples /\ k \in Nat /\ m \in Nat
        BY <1>2, <2>1
      <3>2. Len(all) = k + m /\ Len(all) - MaxSamples + 1 = k + m - n + 1
        BY <1>5, <3>1, ServiceAssumption
      <3>3. LastSamples(all) = SubSeq(all, Len(all) - MaxSamples + 1, Len(all))
        BY <2>1, <3>2 DEF LastSamples
      <3> QED BY <1>5, <3>2, <3>3
    <2>2. CASE ~(k + m > MaxSamples)
      <3>1. LastSamples(all) = all
        BY <1>5, <2>2 DEF LastSamples
      <3>2. /\ all \in Seq(Nat) /\ k + m - n + 1 = 1
        <4>1. LastOf(s, k) \in Seq(Nat) /\ LastOf(c, m) \in Seq(Nat)
          BY <1>1, <1>2, LastOfType
        <4>2. k + m - n + 1 = 1
          BY <1>1, <1>2, <2>2
        <4> QED BY <4>1, <4>2, ConcatProperties
      <3>3. SubSeq(all, 1, Len(all)) = all
        <4> HIDE DEF all
        <4> QED BY <3>2, SubSeqFull
      <3> QED BY <1>5, <3>1, <3>2, <3>3
    <2> QED BY <2>1, <2>2
  <1> HIDE DEF all
  <1> QED BY <1>3, <1>4, <1>6 DEF c

\* Answers and what is shown are sequences of samples, whatever they are asked with.
LEMMA SinceType ==
  ASSUME LineTypes, NEW r \in Runs, NEW s \in Nat
  PROVE  Since(r, s) \in Seq(Nat)
  <1> DEFINE line == samples[r]
  <1>1. line \in Seq(Nat) /\ cursor[r] \in Nat /\ Len(line) \in Nat
    BY DEF LineTypes
  <1> DEFINE oldest == cursor[r] - Len(line)
             offset == IF s < oldest THEN 0
                       ELSE IF s - oldest > Len(line) THEN Len(line) ELSE s - oldest
  <1>2. offset \in 0 .. Len(line)
    BY <1>1
  <1>3. Since(r, s) = SubSeq(line, offset + 1, Len(line))
    BY DEF Since
  <1> HIDE DEF offset, line
  <1> QED BY <1>1, <1>2, <1>3, SubSeqProperties

LEMMA LastSamplesType ==
  ASSUME NEW a \in Seq(Nat), NEW b \in Seq(Nat)
  PROVE  LastSamples(a \o b) \in Seq(Nat)
  <1> DEFINE line == a \o b
  <1>1. line \in Seq(Nat) /\ Len(line) \in Nat
    BY ConcatProperties
  <1> HIDE DEF line
  <1>2. CASE Len(line) > MaxSamples
    <2>1. Len(line) - MaxSamples + 1 \in 1 .. Len(line)
      BY <1>1, <1>2, ServiceAssumption
    <2> QED BY <1>1, <1>2, <2>1, SubSeqProperties DEF LastSamples, line
  <1> QED BY <1>1, <1>2 DEF LastSamples, line

\* While a page is alone, a call that moves is the only one under way.
LEMMA OthersAreOff ==
  ASSUME PageInv, alone, NEW p \in Polls, loop[p].at # "off"
  PROVE  \A q \in Polls \ {p} : loop[q].at = "off"
  BY DEF PageInv, Told, OneCall

\* What a step of a call keeps, given where it leaves the page and itself.
LEMMA CallKeeps ==
  ASSUME PageInv, LineTypes', Lines', NEW p \in Polls, loop[p].at # "off",
         NEW call \in Loops, loop' = [loop EXCEPT ![p] = call],
         page' \in Pages, alone' = alone, alone => Linked' /\ Pending(p)'
  PROVE  PageInv'
  <1>1. loop \in [Polls -> Loops] /\ alone \in BOOLEAN
    BY DEF PageInv, PageTypes
  <1>2. PageTypes'
    BY <1>1 DEF PageTypes
  <1>3. ASSUME alone PROVE OneCall' /\ Linked' /\ \A q \in Polls : Pending(q)'
    <2>1. \A q \in Polls \ {p} : loop'[q].at = "off"
      BY <1>1, <1>3, OthersAreOff
    <2>2. OneCall'
      BY <2>1 DEF OneCall
    <2>3. ASSUME NEW q \in Polls \ {p} PROVE Pending(q)'
      BY <2>1 DEF Pending
    <2> QED BY <1>3, <2>2, <2>3
  <1> QED BY <1>2, <1>3 DEF PageInv, Told

\* The form is refused, or unlocked by a failure that is not a call's own.
LEMMA FormKeeps ==
  ASSUME PageInv, LineTypes', Lines', UNCHANGED <<runVars, lineVars>>, Refuses \/ Interrupted
  PROVE  PageInv'
  <1>1. page \in Pages /\ loop \in [Polls -> Loops] /\ alone \in BOOLEAN
    BY DEF PageInv, PageTypes
  <1>2. UNCHANGED <<cursor, status>>
    BY DEF runVars, lineVars
  <1>3. page' = [page EXCEPT !.status = "failed"] /\ loop' = loop /\ alone' = alone
    BY DEF Refuses, Interrupted
  <1>4. /\ page' \in Pages /\ page'.run = page.run /\ page'.samples = page.samples
        /\ page'.cursor = page.cursor /\ page'.status = "failed"
    BY <1>1, <1>3 DEF Pages, Final
  <1>5. ASSUME alone PROVE OneCall' /\ Linked' /\ \A p \in Polls : Pending(p)'
    <2>1. OneCall'
      BY <1>3, <1>5 DEF PageInv, Told, OneCall
    <2>2. Linked'
      BY <1>2, <1>4, <1>5 DEF PageInv, Told, Linked
    <2>3. ASSUME NEW p \in Polls PROVE Pending(p)'
      BY <1>2, <1>3, <1>4, <1>5 DEF PageInv, Told, Pending, Fills
    <2> QED BY <2>1, <2>2, <2>3
  <1> QED BY <1>1, <1>3, <1>4, <1>5 DEF PageInv, PageTypes, Told

\* It is submitted: the page is alone if no other call is under way.
LEMMA SubmitsKeeps ==
  ASSUME PageInv, LineTypes', Lines', NEW p \in Polls, Submits(p)
  PROVE  PageInv'
  <1> DEFINE call == Call("posting", Null, 0, NoAnswer)
  <1>1. loop \in [Polls -> Loops]
    BY DEF PageInv, PageTypes
  <1>2. call \in Loops /\ call.at = "posting"
    BY EmptySeq DEF Call, NoAnswer, Loops, AnyLoop, Turns, Replies
  <1>3. /\ page' = [run |-> Null, status |-> "preparing", samples |-> <<>>, cursor |-> 0]
        /\ loop' = [loop EXCEPT ![p] = call] /\ alone' = \A q \in Polls : loop[q].at = "off"
    BY DEF Submits
  <1> HIDE DEF call
  <1>4. PageTypes'
    <2>1. page' \in Pages
      BY <1>3, EmptySeq DEF Pages, Active
    <2>2. loop' \in [Polls -> Loops] /\ alone' \in BOOLEAN
      BY <1>1, <1>2, <1>3
    <2> QED BY <2>1, <2>2 DEF PageTypes
  <1>5. ASSUME alone' PROVE OneCall' /\ Linked' /\ \A q \in Polls : Pending(q)'
    <2>1. \A q \in Polls \ {p} : loop'[q].at = "off"
      BY <1>1, <1>3, <1>5
    <2>2. loop'[p].at = "posting" /\ page'.cursor = 0
      BY <1>1, <1>2, <1>3
    <2>3. OneCall'
      BY <2>1 DEF OneCall
    <2>4. Linked'
      BY <1>3, NoneYet DEF Linked
    <2>5. ASSUME NEW q \in Polls PROVE Pending(q)'
      BY <2>1, <2>2 DEF Pending
    <2> QED BY <2>3, <2>4, <2>5
  <1> QED BY <1>4, <1>5 DEF PageInv, Told

\* The run is posted, and the answer tells what it was then.
LEMMA PostedKeeps ==
  ASSUME IInv, IInv', PageInv, NEW r \in Runs, NEW p \in Polls, Posted(p, r), MovesOn,
         LineTypes', Lines'
  PROVE  PageInv'
  <1> DEFINE call == Call("posted", r, 0, [NoAnswer EXCEPT !.status = status'[r]])
  <1>1. /\ page \in Pages /\ loop \in [Polls -> Loops] /\ status'[r] \in Active \cup Final
        /\ r # Null
    BY ServiceAssumption DEF PageInv, PageTypes, IInv, RunTypes
  <1>2. /\ loop[p].at = "posting" /\ loop' = [loop EXCEPT ![p] = call] /\ page' = page
        /\ alone' = alone
    BY DEF Posted
  <1>3. call \in Loops /\ call.at = "posted" /\ call.run = r /\ call.answer.status = status'[r]
    BY <1>1, EmptySeq DEF Call, NoAnswer, Loops, AnyLoop, Turns, Replies
  <1> HIDE DEF call
  <1>4. ASSUME alone PROVE Linked' /\ Pending(p)'
    <2>1. /\ page.run \in Runs \cup {Null} /\ page.cursor \in Nat
          /\ \A q \in Runs : cursor[q] \in Nat /\ cursor'[q] \in Nat
      BY <1>1 DEF PageInv, LineTypes, Pages
    <2>2. Linked'
      BY <1>2, <1>4, <2>1 DEF PageInv, Told, Linked, MovesOn
    <2>3. loop'[p] = call /\ page.cursor = 0
      BY <1>1, <1>2, <1>4 DEF PageInv, Told, Pending
    <2>4. Pending(p)'
      BY <1>1, <1>2, <1>3, <2>3 DEF Pending
    <2> QED BY <2>2, <2>4
  <1> QED BY <1>1, <1>2, <1>3, <1>4, CallKeeps

\* The page learns its run, or the next look is due: it asks.
LEMMA AskingKeeps ==
  ASSUME PageInv, LineTypes', Lines', UNCHANGED <<runVars, lineVars>>,
         NEW p \in Polls, Begun(p) \/ Asks(p)
  PROVE  PageInv'
  <1> DEFINE r == loop[p].run
             call == Call("asking", r, page.cursor, NoAnswer)
  <1>1. /\ page \in Pages /\ loop \in [Polls -> Loops] /\ page.cursor \in Nat
        /\ r \in Runs \cup {Null} /\ (loop[p].at \in {"posted", "pausing"} => r # Null)
    BY DEF PageInv, PageTypes, Pages, Loops, AnyLoop
  <1>2. UNCHANGED <<cursor, status>>
    BY DEF runVars, lineVars
  <1>3. loop' = [loop EXCEPT ![p] = call] /\ alone' = alone /\ loop[p].at \in {"posted", "pausing"}
    BY DEF Begun, Asks
  <1>4. call \in Loops /\ call.at = "asking" /\ call.run = r /\ call.since = page.cursor
    BY <1>1, <1>3, EmptySeq DEF Call, NoAnswer, Loops, AnyLoop, Turns, Replies
  <1> HIDE DEF call
  <1>5. CASE Asks(p)
    <2>1. page' = page /\ loop[p].at = "pausing"
      BY <1>5 DEF Asks
    <2>2. ASSUME alone PROVE Linked' /\ Pending(p)'
      <3>1. loop'[p] = call /\ r = page.run /\ page.run # Null
        BY <1>1, <1>3, <2>1, <2>2 DEF PageInv, Told, Pending
      <3>2. Linked'
        BY <1>2, <2>1, <2>2 DEF PageInv, Told, Linked
      <3>3. Pending(p)'
        BY <1>3, <1>4, <2>1, <3>1 DEF Pending
      <3> QED BY <3>2, <3>3
    <2> QED BY <1>1, <1>3, <1>4, <2>1, <2>2, CallKeeps
  <1>6. CASE Begun(p)
    <2> DEFINE said == loop[p].answer.status
    <2>1. page' = [page EXCEPT !.run = r, !.status = said] /\ loop[p].at = "posted"
      BY <1>6 DEF Begun
    <2>2. page' \in Pages
      <3>1. said \in Active \cup Final
        BY <2>1 DEF PageInv, PageTypes, Loops
      <3> QED BY <1>1, <2>1, <3>1 DEF Pages
    <2>3. /\ page'.run = r /\ page'.samples = page.samples /\ page'.cursor = page.cursor
          /\ page'.status = said
      BY <1>1, <2>1 DEF Pages
    <2>4. ASSUME alone PROVE Linked' /\ Pending(p)'
      <3>1. /\ loop'[p] = call /\ page.cursor = 0 /\ r # Null
            /\ said = "completed" => status[r] = "completed"
        BY <1>1, <1>3, <2>1, <2>4 DEF PageInv, Told, Pending
      <3>2. cursor[r] \in Nat
        BY <1>1, <3>1 DEF PageInv, LineTypes
      <3>3. Linked'
        BY <1>2, <2>3, <2>4, <3>1, <3>2 DEF PageInv, Told, Linked
      <3>4. Pending(p)'
        BY <1>3, <1>4, <2>3, <3>1 DEF Pending
      <3> QED BY <3>3, <3>4
    <2> QED BY <1>3, <1>4, <2>2, <2>4, CallKeeps
  <1> QED BY <1>5, <1>6

\* It is answered with what is retained and newer than its cursor.
LEMMA AnsweredKeeps ==
  ASSUME IInv, PageInv, LineTypes', Lines', UNCHANGED <<runVars, lineVars>>,
         NEW p \in Polls, Answered(p)
  PROVE  PageInv'
  <1> DEFINE r == loop[p].run
             s == loop[p].since
             answer == [status |-> status[r], samples |-> Since(r, s), cursor |-> cursor[r]]
             call == Call("answered", r, 0, answer)
  <1>1. /\ page \in Pages /\ loop \in [Polls -> Loops] /\ loop[p].at = "asking" /\ s \in Nat
        /\ page.cursor \in Nat
    BY DEF Answered, PageInv, PageTypes, Pages, Loops, AnyLoop
  <1>2. r \in Runs /\ r # Null
    BY <1>1 DEF Loops, AnyLoop
  <1>3. cursor[r] \in Nat /\ samples[r] \in Seq(Nat) /\ status[r] \in Active \cup Final
    BY <1>2 DEF PageInv, LineTypes, IInv, RunTypes
  <1>4. UNCHANGED <<cursor, status>>
    BY DEF runVars, lineVars
  <1>5. Since(r, s) \in Seq(Nat)
    BY <1>1, <1>2, SinceType DEF PageInv
  <1>6. answer \in Replies /\ answer.cursor = cursor[r] /\ answer.status = status[r]
    BY <1>3, <1>5 DEF Replies
  <1>7. loop' = [loop EXCEPT ![p] = call] /\ page' = page /\ alone' = alone
    BY DEF Answered
  <1>8. alone /\ s <= cursor[r] => Fills(answer, s)
    BY <1>1, <1>2, AnswerFills DEF Fills, PageInv
  <1> HIDE DEF answer
  <1>9. call \in Loops /\ call.at = "answered" /\ call.run = r /\ call.answer = answer
    BY <1>2, <1>3, <1>6 DEF Call, Loops, AnyLoop, Turns
  <1> HIDE DEF call
  <1>10. ASSUME alone PROVE Linked' /\ Pending(p)'
    <2>1. r = page.run /\ s = page.cursor /\ page.cursor <= cursor[r] /\ loop'[p] = call
      BY <1>1, <1>2, <1>7, <1>10 DEF PageInv, Told, Pending, Linked
    <2>2. Linked'
      BY <1>4, <1>7, <1>10 DEF PageInv, Told, Linked
    <2>3. Pending(p)'
      BY <1>2, <1>3, <1>4, <1>6, <1>7, <1>8, <1>9, <1>10, <2>1 DEF Pending, Fills
    <2> QED BY <2>2, <2>3
  <1> QED BY <1>1, <1>7, <1>9, <1>10, CallKeeps

\* The answer is shown, or the call gives up.
LEMMA ShownKeeps ==
  ASSUME PageInv, LineTypes', Lines', UNCHANGED <<runVars, lineVars>>,
         NEW p \in Polls, Shown(p) \/ GivesUp(p)
  PROVE  PageInv'
  <1> DEFINE answer == loop[p].answer
             r == loop[p].run
  <1>1. /\ page \in Pages /\ page.samples \in Seq(Nat) /\ loop \in [Polls -> Loops]
        /\ loop[p] \in Loops /\ r \in Runs \cup {Null} /\ answer \in Replies
        /\ answer.samples \in Seq(Nat) /\ answer.cursor \in Nat
    BY DEF PageInv, PageTypes, Pages, Loops, AnyLoop, Replies
  <1>2. UNCHANGED <<cursor, status>> /\ alone' = alone /\ loop[p].at # "off"
    BY DEF runVars, lineVars, Shown, GivesUp
  <1>3. NoCall \in Loops /\ NoCall.at = "off"
    BY EmptySeq DEF NoCall, Call, NoAnswer, Loops, AnyLoop, Turns, Replies
  <1>4. CASE GivesUp(p)
    <2>1. page' = [page EXCEPT !.status = "failed"] /\ loop' = [loop EXCEPT ![p] = NoCall]
      BY <1>4 DEF GivesUp
    <2>2. /\ page' \in Pages /\ page'.run = page.run /\ page'.samples = page.samples
          /\ page'.cursor = page.cursor /\ page'.status = "failed"
      BY <1>1, <2>1 DEF Pages, Final
    <2>3. ASSUME alone PROVE Linked' /\ Pending(p)'
      <3>1. loop'[p].at = "off"
        BY <1>1, <1>3, <2>1
      <3>2. Linked'
        BY <1>2, <2>2, <2>3 DEF PageInv, Told, Linked
      <3>3. Pending(p)'
        BY <3>1 DEF Pending
      <3> QED BY <3>2, <3>3
    <2> QED BY <1>2, <1>3, <2>1, <2>2, <2>3, CallKeeps
  <1>5. CASE Shown(p)
    <2> DEFINE line == LastSamples(page.samples \o answer.samples)
               call == IF answer.status \in Final THEN NoCall
                       ELSE Call("pausing", r, 0, NoAnswer)
    <2>1. loop[p].at = "answered" /\ r # Null /\ answer.status \in Active \cup Final
      BY <1>1, <1>5 DEF Shown, Loops
    <2>2. page' = [page EXCEPT !.status = answer.status, !.samples = line, !.cursor = answer.cursor]
      BY <1>5 DEF Shown
    <2>3. loop' = [loop EXCEPT ![p] = call]
      BY <1>5 DEF Shown
    <2>4. line \in Seq(Nat)
      BY <1>1, LastSamplesType
    <2>5. call \in Loops /\ call.at \in {"off", "pausing"} /\ (call.at = "pausing" => call.run = r)
      BY <1>1, <1>3, <2>1, EmptySeq DEF Call, NoAnswer, Loops, AnyLoop, Turns, Replies
    <2> HIDE DEF line, call
    <2>6. /\ page' \in Pages /\ page'.run = page.run /\ page'.samples = line
          /\ page'.cursor = answer.cursor /\ page'.status = answer.status
      BY <1>1, <2>1, <2>2, <2>4 DEF Pages
    <2>7. ASSUME alone PROVE Linked' /\ Pending(p)'
      <3>1. /\ r = page.run /\ page.run # Null /\ page.cursor <= answer.cursor
            /\ answer.cursor <= cursor[r] /\ Fills(answer, page.cursor)
            /\ page.samples = Newest(page.cursor) /\ page.cursor \in Nat
            /\ answer.status = "completed" => status[r] = "completed"
        BY <1>1, <2>1, <2>7 DEF PageInv, Told, Pending, Linked, Pages
      <3>2. line = Newest(answer.cursor)
        BY <1>1, <3>1, ShownIsNewest DEF line
      <3>3. Linked'
        BY <1>2, <2>6, <3>1, <3>2 DEF Linked
      <3>4. loop'[p] = call
        BY <1>1, <2>3
      <3>5. Pending(p)'
        BY <2>5, <2>6, <3>1, <3>4 DEF Pending
      <3> QED BY <3>3, <3>5
    <2> QED BY <1>2, <2>3, <2>5, <2>6, <2>7, CallKeeps
  <1> QED BY <1>4, <1>5

LEMMA NextPageInv ==
  ASSUME IInv, PageInv, [Next]_vars
  PROVE  PageInv'
  <1>1. IInv' /\ LineTypes' /\ Lines' /\ MovesOn
    BY NextIInv, RunsMoveOn DEF PageInv
  <1>2. ASSUME UNCHANGED pageVars PROVE PageInv'
    BY <1>1, <1>2, PageIdles
  <1>3. ASSUME NEW r \in Runs, RunStep(r) \/ Cancel(r) \/ Shows(r) \/ Samples(r)
        PROVE  UNCHANGED pageVars
    BY <1>3 DEF RunStep, SourceStarted, Built, Prepared, RunReturns, Recorded, Concludes,
                Releases, SessionEnds, Cancel, Shows, Samples
  <1>4. CASE PageStep
    <2>1. UNCHANGED <<runVars, lineVars>>
      BY <1>4 DEF PageStep, Refuses, Interrupted, Submits, Begun, Answered, Shown, Asks, GivesUp
    <2>2. CASE Refuses \/ Interrupted
      BY <1>1, <2>1, <2>2, FormKeeps
    <2>3. ASSUME NEW p \in Polls, Submits(p) PROVE PageInv'
      BY <1>1, <2>1, <2>3, SubmitsKeeps
    <2>4. ASSUME NEW p \in Polls, Begun(p) \/ Asks(p) PROVE PageInv'
      BY <1>1, <2>1, <2>4, AskingKeeps
    <2>5. ASSUME NEW p \in Polls, Answered(p) PROVE PageInv'
      BY <1>1, <2>1, <2>5, AnsweredKeeps
    <2>6. ASSUME NEW p \in Polls, Shown(p) \/ GivesUp(p) PROVE PageInv'
      BY <1>1, <2>1, <2>6, ShownKeeps
    <2> QED BY <1>4, <2>2, <2>3, <2>4, <2>5, <2>6 DEF PageStep
  <1>5. ASSUME NEW r \in Runs, NEW p \in Polls, Posted(p, r) PROVE PageInv'
    BY <1>1, <1>5, PostedKeeps
  <1> QED BY <1>2, <1>3, <1>4, <1>5 DEF Next, Finished, vars

LEMMA InitPageInv == Init => PageInv
  <1> SUFFICES ASSUME Init PROVE PageInv
    OBVIOUS
  <1>1. NoCall \in Loops /\ NoCall.at = "off"
    BY EmptySeq DEF NoCall, Call, NoAnswer, Loops, AnyLoop, Turns, Replies
  <1>2. LineTypes /\ PageTypes
    BY <1>1, EmptySeq DEF Init, LineTypes, PageTypes, Pages
  <1>3. Lines /\ Linked
    BY NoneYet DEF Init, Lines, Linked
  <1>4. \A p \in Polls : loop[p].at = "off"
    BY <1>1 DEF Init
  <1>5. OneCall /\ \A p \in Polls : Pending(p)
    BY <1>4 DEF OneCall, Pending
  <1> QED BY <1>2, <1>3, <1>5 DEF PageInv, Told

LEMMA PageInvariance == Spec => []PageInv
  <1>1. IInv /\ PageInv /\ [Next]_vars => PageInv'
    BY NextPageInv
  <1> QED BY <1>1, InitPageInv, Invariance, PTL DEF Spec

\* However many samples a session takes, whatever answers are late or lost, and
\* whatever failure unlocks the form: a page that was submitted while no earlier call
\* was polling shows the newest samples of its run up to its cursor, each once, and
\* says "completed" only of a run that is.
THEOREM PageIsTrue == Spec => []PageTellsTheRun
  <1>1. PageInv => PageTellsTheRun
    BY DEF PageInv, Told, Linked, Newest, LastOf, Fewer, PageTellsTheRun
  <1> QED BY <1>1, PageInvariance, PTL

\* Everything the service and the page keep is of its type, always.
THEOREM TypesAreKept == Spec => []TypeOK
  <1>1. IInv /\ Retains /\ PageInv => TypeOK
    BY DEF IInv, RunTypes, Retains, PageInv, LineTypes, PageTypes, Pages, Loops, AnyLoop, Turns,
           Replies, Names, Places, TypeOK
  <1> QED BY <1>1, Invariance, RetainsInvariance, PageInvariance, PTL
=============================================================================
