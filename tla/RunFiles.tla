------------------------------ MODULE RunFiles ------------------------------
(* The two append-only files beside the rows, which must never stop a run:    *)
(* the history of bandwidth baselines that successive runs share              *)
(* (infrastructure/output/bandwidth-baselines.ts, with its callers in         *)
(* app/bandwidth-refresh.ts), and the proxy events of one run                 *)
(* (infrastructure/output/proxy-event-log.ts). A process may be killed, and a *)
(* disk may fail, between any two bytes of an append.                         *)
EXTENDS Integers, Sequences, FiniteSets, FiniteSetsExt, Functions, Absent

CONSTANTS Cut,        \* a line, or the end of one, that no reader can parse
          Views,      \* bandwidth a run may end with: [requests, totalBytes], or Null
          MaxRuns,    \* BOUND: runs, one after the other
          MaxEvents   \* BOUND: proxy events of a run

FilesAssumption ==
  /\ Views \subseteq {Null} \cup [requests : Nat, totalBytes : Nat]
  /\ MaxRuns \in Nat \ {0} /\ MaxEvents \in Nat
  /\ Cut # Null /\ Null \notin [runId : 1..MaxRuns, requests : Nat, totalBytes : Nat]
  /\ Cut \notin [runId : 1..MaxRuns, requests : Nat, totalBytes : Nat]
  /\ Null \notin [requests : Nat, totalBytes : Nat]

VARIABLES lines,      \* the terminated lines of the history: records, or Cut
          tail,       \* what follows the last newline: Null, a record, or Cut
          run,        \* the current run
          phase,      \* "running", "appending" its record, "finished", "dead"
          record,     \* the record it appends, or Null
          appended,   \* records whose append completed
          interrupted,\* appends that were cut short
          events,     \* proxy events of the run so far
          log,        \* the file of the proxy events
          pending,    \* rows its stream has not written
          stream      \* "none", "open", "ending" or "down"

historyVars == <<lines, tail, run, phase, record, appended, interrupted>>
logVars == <<events, log, pending, stream>>
filesVars == <<historyVars, logVars>>

BaselineRecord == [runId : 1..MaxRuns, requests : Nat, totalBytes : Nat]

FilesTypeOK ==
  /\ lines \in Seq(BaselineRecord \cup {Cut}) /\ tail \in BaselineRecord \cup {Cut, Null}
  /\ run \in 1..MaxRuns /\ phase \in {"running", "appending", "finished", "dead"}
  /\ record \in BaselineRecord \cup {Null}
  /\ appended \in Nat /\ interrupted \in Nat
  /\ events \in 0..MaxEvents /\ log \in Seq(1..MaxEvents) /\ pending \in Seq(1..MaxEvents)
  /\ stream \in {"none", "open", "ending", "down"}

FilesInit ==
  /\ lines = <<>> /\ tail = Null /\ run = 1 /\ phase = "running" /\ record = Null
  /\ appended = 0 /\ interrupted = 0
  /\ events = 0 /\ log = <<>> /\ pending = <<>> /\ stream = "none"

-----------------------------------------------------------------------------
(* The baseline history.                                                      *)

(* buildBaselineRecord(): a run that measured nothing leaves no record.       *)
BuildRecord(view) ==
  IF view = Null \/ view.requests = 0 THEN Null
  ELSE [runId |-> run, requests |-> view.requests, totalBytes |-> view.totalBytes]

RunFinishes ==
  /\ phase = "running"
  /\ \E view \in Views :
       /\ record' = BuildRecord(view)
       /\ phase' = IF BuildRecord(view) = Null THEN "finished" ELSE "appending"
  /\ UNCHANGED <<lines, tail, run, appended, interrupted, logVars>>

(* appendBaseline() adds to whatever the file ends with: behind a tail that   *)
(* has no newline, the two make one line that no reader can parse.            *)
Glued(text) == IF tail = Null THEN text ELSE Cut

AppendRecord ==
  /\ phase = "appending"
  /\ lines' = Append(lines, Glued(record)) /\ tail' = Null
  /\ appended' = appended + 1
  /\ phase' = "finished"
  /\ UNCHANGED <<run, record, interrupted, logVars>>

(* The append stops short: of the whole line, of part of it, or of its        *)
(* newline only. A failed append is logged and the run goes on; a kill ends it.*)
AppendCut ==
  /\ phase = "appending"
  /\ tail' \in {tail, Cut, Glued(record)}
  /\ interrupted' = interrupted + 1
  /\ phase' \in {"finished", "dead"}
  /\ UNCHANGED <<lines, run, record, appended, logVars>>

NextRun ==
  /\ phase \in {"finished", "dead"} /\ run < MaxRuns
  /\ run' = run + 1 /\ phase' = "running" /\ record' = Null
  /\ events' = 0 /\ log' = <<>> /\ pending' = <<>> /\ stream' = "none"
  /\ UNCHANGED <<lines, tail, appended, interrupted>>

(* readBaselines(): the places of the lines that parse, in order; the others  *)
(* are counted, the blank end of a file whose last line is whole is not.      *)
Text == Append(lines, tail)
IsRecord(line) == line # Cut /\ line # Null
(* Mutation: reading stops at the first damaged line.                        *)
ReadUpToDamage == {i \in DOMAIN Text : \A j \in 1..i : IsRecord(Text[j])}
ReadBaselines == {i \in DOMAIN Text : IsRecord(Text[i])}
SkippedLines == Cardinality({i \in DOMAIN Text : Text[i] = Cut})

(* summarizeBaselines(): byRequest is [bytes, requests], the ratio of totals. *)
MeasuredRuns(records) == {i \in records : Text[i].requests > 0}
Summarize(records, current) ==
  LET measured == MeasuredRuns(records)
      history == {i \in measured : Text[i].runId # current}
  IN  [baseline |-> IF history = {} THEN Null ELSE Text[Max(history)],
       runs |-> Cardinality(measured),
       byRequest |-> <<SumFunctionOnSet([i \in measured |-> Text[i].totalBytes], measured),
                       SumFunctionOnSet([i \in measured |-> Text[i].requests], measured)>>]

-----------------------------------------------------------------------------
(* The proxy event log: record() is called from inside the pool and neither   *)
(* waits nor throws; the first failure, at once or announced later by the     *)
(* stream, makes the log stand down for good.                                 *)
StandDown == "down"

RecordEvent ==
  /\ phase = "running" /\ events < MaxEvents
  /\ events' = events + 1
  /\ \/ stream = "down" /\ UNCHANGED <<pending, stream>>
     \/ stream \in {"none", "open"} /\ stream' = "open" /\ pending' = Append(pending, events')
     \/ stream = "none" /\ stream' = StandDown /\ UNCHANGED pending
  /\ UNCHANGED <<log, historyVars>>

FlushLog ==
  /\ stream \in {"open", "ending"} /\ pending # <<>>
  /\ log' = Append(log, Head(pending)) /\ pending' = Tail(pending)
  /\ UNCHANGED <<events, stream, historyVars>>

(* The stream fails: what it had buffered is gone.                            *)
LogFails ==
  /\ stream \in {"open", "ending"} /\ pending # <<>>
  /\ stream' = StandDown /\ pending' = <<>>
  /\ UNCHANGED <<events, log, historyVars>>

(* close(), once the run is over: a log without a stream has nothing to end.  *)
CloseLog ==
  /\ phase = "finished" /\ stream = "open" /\ stream' = "ending"
  /\ UNCHANGED <<events, log, pending, historyVars>>

FilesNext ==
  \/ RunFinishes \/ AppendRecord \/ AppendCut \/ NextRun
  \/ RecordEvent \/ FlushLog \/ LogFails \/ CloseLog

FilesSpec == FilesInit /\ [][FilesNext]_filesVars

-----------------------------------------------------------------------------
(* The history survives crashes: an append that was cut short costs at most   *)
(* the one record that is appended behind it, and nothing already terminated; *)
(* and every line that cannot be read is due to such a cut.                   *)
HistorySurvives ==
  /\ Cardinality(ReadBaselines) + interrupted >= appended
  /\ SkippedLines <= interrupted

(* What a run is compared with is another run that measured something, the    *)
(* latest that can be read, and the bytes per request over all runs lie       *)
(* between those of the thriftiest and of the most wasteful of them.          *)
BaselineIsAnother ==
  LET records == ReadBaselines
      view == Summarize(records, run)
  IN  /\ view.baseline # Null =>
           /\ view.baseline.runId < run /\ view.baseline.requests > 0
           /\ \A i \in records : Text[i].runId < run => Text[i].runId <= view.baseline.runId
      /\ view.runs > 0 =>
           /\ \E i \in records :
                Text[i].totalBytes * view.byRequest[2] <= view.byRequest[1] * Text[i].requests
           /\ \E i \in records :
                Text[i].totalBytes * view.byRequest[2] >= view.byRequest[1] * Text[i].requests

(* The event log has no gap: its file is a prefix of the events of the run,   *)
(* and as long as it has not stood down nothing it was given is missing.      *)
LogHasNoGap ==
  /\ log \o pending = [i \in 1..Len(log \o pending) |-> i]
  /\ stream # "down" => Len(log \o pending) = events

(* The files beside the rows: crashes cost the history one record each, a run *)
(* is compared with another one, and the event log has no gap.                *)
FilesHold == FilesTypeOK /\ HistorySurvives /\ BaselineIsAnother /\ LogHasNoGap
=============================================================================
