----------------------------- MODULE Throughput -----------------------------
(* core/metrics/throughput-timeline.ts, as a session fills it: a sampler on   *)
(* its own cadence records what has been completed, the buffer keeps the      *)
(* newest samples only, and the session's summary reads from it how long the  *)
(* target rate was held. One unit of time stands for a minute, so that a rate *)
(* is the number completed over the span of a sample; the session begins at 0.*)
EXTENDS Integers, Sequences, SequencesExt, FiniteSetsExt

CONSTANTS TargetRate,  \* target rate, per unit of time
          MaxSamples,  \* samples the buffer keeps
          LastInstant, \* BOUND: the last instant
          MaxBurst     \* BOUND: items completed between two instants

(* A rate and a buffer are whole numbers.                                     *)
TimelineAssumption == {TargetRate, MaxSamples, LastInstant, MaxBurst} \subseteq Nat

VARIABLES elapsed, completed,
          last,        \* [at, completed] of the last sample, or of the start
          samples,     \* the samples kept
          produced,    \* samples ever recorded
          history      \* every sample ever recorded; no code keeps it

timelineVars == <<elapsed, completed, last, samples, produced, history>>

Sample == [tMs : 1..LastInstant, span : 1..LastInstant, done : Nat]

TimelineTypeOK ==
  /\ elapsed \in 0..LastInstant /\ completed \in Nat
  /\ last \in [at : 0..LastInstant, completed : Nat]
  /\ samples \in Seq(Sample) /\ Len(samples) <= MaxSamples
  /\ history \in Seq(Sample) /\ produced = Len(history)
  /\ IsSuffix(samples, history)

TimelineInit ==
  /\ elapsed = 0 /\ completed = 0 /\ last = [at |-> 0, completed |-> 0]
  /\ samples = <<>> /\ produced = 0 /\ history = <<>>

(* Time passes, while requests complete.                                      *)
Work ==
  /\ elapsed < LastInstant
  /\ elapsed' = elapsed + 1
  /\ \E n \in 0..MaxBurst : completed' = completed + n
  /\ UNCHANGED <<last, samples, produced, history>>

(* record(): a second sample of the same instant is skipped, the next one     *)
(* covers the whole window.                                                   *)
RecordSample ==
  LET sample == [tMs |-> elapsed, span |-> elapsed - last.at, done |-> completed - last.completed]
      all    == Append(samples, sample)
  IN  /\ elapsed > last.at
      /\ last' = [at |-> elapsed, completed |-> completed]
      /\ samples' = IF Len(all) > MaxSamples THEN Tail(all) ELSE all
      /\ produced' = produced + 1
      /\ history' = Append(history, sample)
      /\ UNCHANGED <<elapsed, completed>>

TimelineNext == Work \/ RecordSample
TimelineSpec == TimelineInit /\ [][TimelineNext]_timelineVars

-----------------------------------------------------------------------------
(* peakRequestsPerMinute(), as the sample that holds it.                      *)
AtLeast(s, t) == s.done * t.span >= t.done * s.span
Highest[n \in 0..Len(samples)] ==
  IF n = 0 THEN [tMs |-> 0, span |-> 1, done |-> 0]
  ELSE IF AtLeast(samples[n], Highest[n - 1]) THEN samples[n] ELSE Highest[n - 1]
PeakRequestsPerMinute == Highest[Len(samples)]

(* sustained(): a stretch starts where the sample before it left off.         *)
Held(s) == s.done >= TargetRate * s.span
NoWindow == [windowMs |-> 0, fromMs |-> 0, toMs |-> 0]
BeginsAt(acc, s) == acc.previous
Extend(acc, s) ==
  LET start  == IF acc.start = <<>> THEN <<BeginsAt(acc, s)>> ELSE acc.start
      window == [windowMs |-> s.tMs - start[1], fromMs |-> start[1], toMs |-> s.tMs]
  IN  IF Held(s)
      THEN [start |-> start, previous |-> s.tMs,
            best |-> IF window.windowMs > acc.best.windowMs THEN window ELSE acc.best]
      ELSE [start |-> <<>>, previous |-> s.tMs, best |-> acc.best]
Followed[n \in 0..Len(samples)] ==
  IF n = 0 THEN [start |-> <<>>, previous |-> 0, best |-> NoWindow]
  ELSE Extend(Followed[n - 1], samples[n])
Sustained == IF TargetRate = 0 THEN NoWindow ELSE Followed[Len(samples)].best

-----------------------------------------------------------------------------
(* The stretches of the session during which every sample was at the target.  *)
Stretches ==
  {s \in (DOMAIN history) \X (DOMAIN history) :
     s[1] <= s[2] /\ \A k \in s[1]..s[2] : Held(history[k])}
LengthOf(i, j) == history[j].tMs - (history[i].tMs - history[i].span)
LongestStretch == Max({0} \cup {LengthOf(s[1], s[2]) : s \in Stretches})

(* sustained_target_ms is the longest contiguous stretch at or above the      *)
(* target, at the place the window names, and the peak is the highest rate of *)
(* any sample: as long as nothing has been dropped from the buffer.           *)
SustainedIsLongest ==
  produced = Len(samples) /\ TargetRate > 0 =>
    /\ Sustained.windowMs = LongestStretch
    /\ LongestStretch > 0 =>
         \E s \in Stretches : /\ history[s[2]].tMs = Sustained.toMs
                              /\ LengthOf(s[1], s[2]) = Sustained.windowMs
    /\ \A i \in DOMAIN history : AtLeast(PeakRequestsPerMinute, history[i])

(* README.md:904 says of sustained_target_ms, without that condition:         *)
(* "Longest contiguous stretch at or above `target_rpm`". No stretch that the *)
(* session reports is longer than any it had.                                 *)
SustainedAsPromised == Sustained.windowMs <= LongestStretch
=============================================================================
