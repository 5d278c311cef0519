---------------------------- MODULE SnapshotSink ----------------------------
(* infrastructure/output/jsonl-file-sink.ts, the append-only file the rows of *)
(* a run go to, with the runner's use of it (scrape-runner.ts:272-291): the   *)
(* tasks write concurrently, and the sink is closed when they have ended.     *)
(* The Node stream underneath is external: a row handed to it waits in its    *)
(* buffer, reaches the file later, and a failure of the file drops the buffer *)
(* first and is announced by an 'error' event afterwards.                     *)
EXTENDS Naturals, Sequences, FiniteSets, SequencesExt

CONSTANTS Rows,        \* the rows of the run, one write each
          HighWater    \* rows in the stream's buffer from which write() returns false

VARIABLES opening,     \* the memoized promise of the open stream
          accepted,    \* rows handed to the stream, in the order of the calls
          disk,        \* how many of them the file holds
          fault,       \* "none", "failed" (not announced yet), "announced"
          streamError, \* the sink's note of the announcement
          writer,      \* where the write of each row stands
          rows,        \* rowsWritten
          closing      \* "no", "ending", "ok" or "failed"

sinkVars == <<opening, accepted, disk, fault, streamError, writer, rows, closing>>

SinkAssumption == IsFiniteSet(Rows) /\ HighWater \in Nat \ {0}

Settled == {"written", "rejected"}

SinkTypeOK ==
  /\ opening \in {"none", "pending", "open", "failed"}
  /\ accepted \in Seq(Rows) /\ disk \in 0..Len(accepted)
  /\ fault \in {"none", "failed", "announced"} /\ streamError \in BOOLEAN
  /\ writer \in [Rows -> {"idle", "opening", "draining"} \cup Settled]
  /\ rows \in Nat
  /\ closing \in {"no", "ending", "ok", "failed"}

SinkInit ==
  /\ opening = "none" /\ accepted = <<>> /\ disk = 0
  /\ fault = "none" /\ streamError = FALSE
  /\ writer = [r \in Rows |-> "idle"] /\ rows = 0
  /\ closing = "no"

Buffered == Len(accepted) - disk

(* write() up to the await of the shared open; a closed sink refuses.         *)
Write(r) ==
  /\ writer[r] = "idle" /\ closing = "no"
  /\ writer' = [writer EXCEPT ![r] = "opening"]
  /\ opening' = IF opening = "none" THEN "pending" ELSE opening
  /\ UNCHANGED <<accepted, disk, fault, streamError, rows, closing>>

(* doOpen() settles, once for all who wait. A stream that cannot be opened    *)
(* also announces its error, and the memo keeps the rejection.                *)
Opened ==
  /\ opening = "pending"
  /\ opening' = "open"
  /\ UNCHANGED <<accepted, disk, fault, streamError, writer, rows, closing>>

OpenFails ==
  /\ opening = "pending"
  /\ opening' = "failed"
  /\ streamError' \in BOOLEAN        \* mkdir failed, or the stream did
  /\ UNCHANGED <<accepted, disk, fault, writer, rows, closing>>

(* The continuation of write() after the open: a failed sink throws; a row    *)
(* the buffer had room for counts at once, another waits for the drain that   *)
(* every writer shares. A stream that failed without having said so takes the *)
(* row and drops it.                                                          *)
Rejects(r) ==
  /\ writer[r] = "opening"
  /\ opening = "failed" \/ (opening = "open" /\ streamError)
  /\ writer' = [writer EXCEPT ![r] = "rejected"]
  /\ UNCHANGED <<opening, accepted, disk, fault, streamError, rows, closing>>

Accepts(r) ==
  /\ writer[r] = "opening" /\ opening = "open" /\ ~streamError
  /\ accepted' = Append(accepted, r)
  /\ IF fault = "none" /\ Buffered + 1 >= HighWater
     THEN /\ writer' = [writer EXCEPT ![r] = "draining"]
          /\ rows' = rows
     ELSE /\ writer' = [writer EXCEPT ![r] = "written"]
          /\ rows' = rows + 1
  /\ UNCHANGED <<opening, disk, fault, streamError, closing>>

(* The stream writes the oldest row of its buffer. Emptied, it emits 'drain', *)
(* unless it is ending: the waiters' writes return, and each counts its row.  *)
Draining == {r \in Rows : writer[r] = "draining"}
Drains == Buffered = 1 /\ closing = "no"

Flush ==
  /\ opening = "open" /\ fault = "none" /\ Buffered > 0
  /\ disk' = disk + 1
  /\ IF Drains
     THEN /\ writer' = [r \in Rows |-> IF r \in Draining THEN "written" ELSE writer[r]]
          /\ rows' = rows + Cardinality(Draining)
     ELSE UNCHANGED <<writer, rows>>
  /\ UNCHANGED <<opening, accepted, fault, streamError, closing>>

(* end() calls back when the buffer has been written or when the stream fails *)
(* (with an error the sink does not look at), and an 'error' event rejects    *)
(* close() too: it settles by whichever comes first, then asks throwIfFailed. *)
ClosedAs(announced) == IF announced THEN "failed" ELSE "ok"

(* A write to the file fails: the stream drops its buffer, and calls back an  *)
(* end() that waits, before it announces the error.                           *)
FlushFails ==
  /\ opening = "open" /\ fault = "none" /\ Buffered > 0
  /\ fault' = "failed"
  /\ closing' = IF closing = "ending" THEN ClosedAs(streamError) ELSE closing
  /\ UNCHANGED <<opening, accepted, disk, streamError, writer, rows>>

(* The 'error' event: the listener notes it, and the shared drain rejects.    *)
Announced ==
  /\ fault = "failed"
  /\ fault' = "announced"
  /\ streamError' = TRUE
  /\ writer' = [r \in Rows |-> IF r \in Draining THEN "rejected" ELSE writer[r]]
  /\ UNCHANGED <<opening, accepted, disk, rows, closing>>

(* close(), by the runner whose tasks have ended: nothing to do without a     *)
(* stream; a stream that failed already calls back at once.                   *)
TasksEnded == \A r \in Rows : writer[r] \in {"idle"} \cup Settled
(* Mutation: close does not wait for the buffer to reach the file.           *)
CloseOfAtOnce(announced) == IF opening # "open" THEN "ok" ELSE ClosedAs(announced)
CloseOf(announced) ==
  CASE opening # "open" -> "ok"
    [] fault # "none"   -> ClosedAs(announced)
    [] OTHER            -> "ending"

Close ==
  /\ closing = "no" /\ TasksEnded
  /\ closing' = CloseOf(streamError)
  /\ UNCHANGED <<opening, accepted, disk, fault, streamError, writer, rows>>

CloseEnds ==
  /\ closing = "ending" /\ fault = "none" /\ Buffered = 0
  /\ closing' = ClosedAs(streamError)
  /\ UNCHANGED <<opening, accepted, disk, fault, streamError, writer, rows>>

Stream == Opened \/ OpenFails \/ Flush \/ FlushFails \/ Announced \/ CloseEnds
SinkNext ==
  \/ \E r \in Rows : Write(r) \/ Rejects(r) \/ Accepts(r)
  \/ Stream
  \/ Close

(* The file system answers, the event loop runs what is ready, and the runner *)
(* closes the sink once its tasks are done.                                   *)
SinkFairness ==
  /\ WF_sinkVars(Stream) /\ WF_sinkVars(Close)
  /\ \A r \in Rows : WF_sinkVars(Rejects(r) \/ Accepts(r))

SinkSpec == SinkInit /\ [][SinkNext]_sinkVars /\ SinkFairness

-----------------------------------------------------------------------------
(* The count of rowsWritten is the number of writes that returned, whoever    *)
(* shared a drain; no row is handed to the stream twice; and as long as the   *)
(* stream has not failed, a close() that succeeded left every one of them in  *)
(* the file. An announced failure leaves no writer waiting for a drain.       *)
Written == {r \in Rows : writer[r] = "written"}
OnDisk == ToSet(SubSeq(accepted, 1, disk))

RowsKept ==
  /\ rows = Cardinality(Written) /\ Written \subseteq ToSet(accepted)
  /\ IsInjective(accepted)
  /\ fault = "none" /\ closing = "ok" => Written \subseteq OnDisk
  /\ fault = "announced" => Draining = {}

(* What comes to hold for good: every write that began has returned or thrown,*)
(* whether it waited for the open or for the shared drain, and close() has    *)
(* settled: the run never waits on its output for ever.                       *)
WritesSettled ==
  (\A r \in Rows : writer[r] \in {"idle"} \cup Settled) /\ closing # "ending"
=============================================================================
