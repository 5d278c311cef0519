---------------------------- MODULE OutputProofs ----------------------------
(* What goes in and what stays behind, for every value of the constants: the  *)
(* rows of the snapshot sink, the files a run leaves in the data directory,   *)
(* the preparation of the input, and what a session reports of its work: the  *)
(* diagnosis of its concurrency, its throughput and its totals.               *)
EXTENDS SnapshotSink, RunFiles, Preparer, Reports, SumLemmas, SequenceTheorems

-----------------------------------------------------------------------------
(* The snapshot sink.                                                         *)

\* The rows whose write got past the open.
Taken == {r \in Rows : writer[r] \in {"draining", "written", "rejected"}}

\* What the stream was handed is each row once, of a write past its open, and
\* nothing before the file is open.
Stored ==
  /\ IsInjective(accepted)
  /\ \A i \in DOMAIN accepted : accepted[i] \in Taken
  /\ \A r \in Written \cup Draining : \E i \in DOMAIN accepted : accepted[i] = r
  /\ opening # "open" => accepted = <<>>

\* Who waits for a drain waits on a stream that has announced no failure, and
\* on a sink that nobody has closed.
Waits ==
  /\ closing # "no" => TasksEnded
  /\ fault # "none" => opening = "open"
  /\ fault = "announced" => streamError /\ Draining = {}

\* What a close that did not reject promises.
Closed == fault = "none" /\ closing = "ok" =>
            \A r \in Written : \E i \in 1 .. disk : accepted[i] = r

\* The inductive invariant.
SinkIInv == SinkTypeOK /\ rows = Cardinality(Written) /\ Stored /\ Waits /\ Closed

-----------------------------------------------------------------------------
\* The rows are finitely many.
LEMMA FiniteParts ==
  ASSUME SinkAssumption
  PROVE  /\ IsFiniteSet(Written) /\ IsFiniteSet(Draining)
         /\ Cardinality(Written) \in Nat /\ Cardinality(Draining) \in Nat
  <1>1. IsFiniteSet(Written) /\ IsFiniteSet(Draining)
    BY FS_Subset DEF SinkAssumption, Written, Draining
  <1> QED BY <1>1, FS_CardinalityType

\* A write waits for the open.
LEMMA WriteKeeps ==
  ASSUME SinkAssumption, SinkIInv, NEW r \in Rows, Write(r)
  PROVE  SinkIInv'
  <1>1. /\ writer[r] = "idle" /\ closing = "no" /\ writer' = [writer EXCEPT ![r] = "opening"]
        /\ opening' = IF opening = "none" THEN "pending" ELSE opening
        /\ accepted' = accepted /\ disk' = disk /\ fault' = fault /\ streamError' = streamError
        /\ rows' = rows /\ closing' = closing
    BY DEF Write
  <1>2. /\ writer' \in [Rows -> {"idle", "opening", "draining"} \cup Settled]
        /\ writer'[r] = "opening" /\ \A q \in Rows : q # r => writer'[q] = writer[q]
    BY <1>1 DEF SinkIInv, SinkTypeOK
  <1>3. Written' = Written /\ Draining' = Draining /\ Taken' = Taken
    BY <1>1, <1>2 DEF Written, Draining, Taken
  <1>4. SinkTypeOK'
    BY <1>1, <1>2 DEF SinkIInv, SinkTypeOK
  <1>5. Stored' /\ Waits' /\ Closed'
    BY <1>1, <1>3 DEF SinkIInv, Stored, Waits, Closed
  <1> QED BY <1>1, <1>3, <1>4, <1>5 DEF SinkIInv

\* The open comes to an end.
LEMMA OpenKeeps ==
  ASSUME SinkAssumption, SinkIInv, Opened \/ OpenFails
  PROVE  SinkIInv'
  <1>1. /\ opening = "pending" /\ opening' \in {"open", "failed"} /\ accepted = <<>>
        /\ accepted' = accepted /\ disk' = disk /\ fault' = fault
        /\ writer' = writer /\ rows' = rows /\ closing' = closing
    BY DEF Opened, OpenFails, SinkIInv, Stored
  <1>2. streamError' \in BOOLEAN /\ (streamError' = streamError \/ opening' = "failed")
    BY DEF Opened, OpenFails, SinkIInv, SinkTypeOK
  <1>3. Written' = Written /\ Draining' = Draining /\ Taken' = Taken
    BY <1>1 DEF Written, Draining, Taken
  <1>4. SinkTypeOK' /\ Stored' /\ Closed'
    BY <1>1, <1>2, <1>3 DEF SinkIInv, SinkTypeOK, Stored, Closed
  <1>5. Waits'
    BY <1>1, <1>3 DEF SinkIInv, Waits, TasksEnded
  <1> QED BY <1>1, <1>3, <1>4, <1>5 DEF SinkIInv

\* A write that rejects leaves the stream alone.
LEMMA RejectsKeeps ==
  ASSUME SinkAssumption, SinkIInv, NEW r \in Rows, Rejects(r)
  PROVE  SinkIInv'
  <1>1. /\ writer[r] = "opening" /\ writer' = [writer EXCEPT ![r] = "rejected"]
        /\ UNCHANGED <<opening, accepted, disk, fault, streamError, rows, closing>>
    BY DEF Rejects
  <1>2. /\ writer' \in [Rows -> {"idle", "opening", "draining"} \cup Settled]
        /\ writer'[r] = "rejected" /\ \A q \in Rows : q # r => writer'[q] = writer[q]
    BY <1>1 DEF SinkIInv, SinkTypeOK, Settled
  <1>3. Written' = Written /\ Draining' = Draining /\ Taken \subseteq Taken'
    BY <1>1, <1>2 DEF Written, Draining, Taken
  <1>4. SinkTypeOK'
    BY <1>1, <1>2 DEF SinkIInv, SinkTypeOK
  <1>5. Stored' /\ Closed'
    BY <1>1, <1>3 DEF SinkIInv, Stored, Closed
  <1>6. Waits'
    BY <1>1, <1>2, <1>3 DEF SinkIInv, Waits, TasksEnded, Settled
  <1> QED BY <1>1, <1>3, <1>4, <1>5, <1>6 DEF SinkIInv

\* The stream is handed the row of a write, once.
LEMMA AcceptsKeeps ==
  ASSUME SinkAssumption, SinkIInv, NEW r \in Rows, Accepts(r)
  PROVE  SinkIInv'
  <1> DEFINE kept == fault = "none" /\ Buffered + 1 >= HighWater
             next == IF kept THEN "draining" ELSE "written"
  <1>1. /\ writer[r] = "opening" /\ opening = "open" /\ ~streamError
        /\ accepted' = Append(accepted, r)
        /\ UNCHANGED <<opening, disk, fault, streamError, closing>>
        /\ writer' = [writer EXCEPT ![r] = next]
        /\ rows' = IF kept THEN rows ELSE rows + 1
    BY DEF Accepts
  <1>2. next \in {"draining", "written"} /\ (kept => fault = "none")
    OBVIOUS
  <1>3. kept \in BOOLEAN /\ (next = "draining" <=> kept) /\ (next = "written" <=> ~kept)
    OBVIOUS
  <1> HIDE DEF kept, next
  <1>4. /\ writer' \in [Rows -> {"idle", "opening", "draining"} \cup Settled]
        /\ writer'[r] = next /\ \A q \in Rows : q # r => writer'[q] = writer[q]
    BY <1>1, <1>2 DEF SinkIInv, SinkTypeOK, Settled
  <1>5. /\ accepted \in Seq(Rows) /\ accepted' \in Seq(Rows) /\ Len(accepted) \in Nat
        /\ Len(accepted') = Len(accepted) + 1 /\ disk \in 0 .. Len(accepted)
        /\ DOMAIN accepted = 1 .. Len(accepted) /\ DOMAIN accepted' = 1 .. Len(accepted) + 1
        /\ \A i \in 1 .. Len(accepted) : accepted'[i] = accepted[i]
        /\ accepted'[Len(accepted) + 1] = r
    BY <1>1, AppendProperties, LenProperties DEF SinkIInv, SinkTypeOK
  <1>6. closing = "no" /\ fault # "announced" /\ r \notin Taken
    BY <1>1 DEF SinkIInv, Waits, TasksEnded, Settled, Taken
  <1>7. SinkTypeOK'
    BY <1>1, <1>4, <1>5 DEF SinkIInv, SinkTypeOK
  <1>8. rows' = Cardinality(Written')
    <2>1. CASE kept
      <3>1. Written' = Written
        BY <1>1, <1>3, <1>4, <2>1 DEF Written
      <3> QED BY <1>1, <2>1, <3>1 DEF SinkIInv
    <2>2. CASE ~kept
      <3>1. Written' = Written \cup {r} /\ r \notin Written
        BY <1>1, <1>3, <1>4, <2>2 DEF Written
      <3> QED BY <1>1, <2>2, <3>1, FiniteParts, FS_AddElement DEF SinkIInv
    <2> QED BY <2>1, <2>2
  <1>9. Taken' = Taken \cup {r} /\ (Written \cup Draining)' = Written \cup Draining \cup {r}
    BY <1>1, <1>2, <1>4 DEF Taken, Written, Draining
  <1>10. Stored'
    <2>1. Stored
      BY DEF SinkIInv
    <2>2. \A i \in DOMAIN accepted : accepted[i] \in Taken /\ accepted[i] # r
      BY <1>6, <2>1 DEF Stored
    <2>3. IsInjective(accepted')
      <3>1. ASSUME NEW i \in DOMAIN accepted', NEW j \in DOMAIN accepted', accepted'[i] = accepted'[j]
            PROVE  i = j
        <4>1. i \in DOMAIN accepted \/ i = Len(accepted) + 1
          BY <1>5
        <4>2. j \in DOMAIN accepted \/ j = Len(accepted) + 1
          BY <1>5
        <4> QED BY <1>5, <2>1, <2>2, <3>1, <4>1, <4>2 DEF Stored, IsInjective
      <3> QED BY <3>1 DEF IsInjective
    <2>4. \A i \in DOMAIN accepted' : accepted'[i] \in Taken'
      BY <1>5, <1>9, <2>2
    <2>5. \A q \in (Written \cup Draining)' : \E i \in DOMAIN accepted' : accepted'[i] = q
      BY <1>5, <1>9, <2>1 DEF Stored
    <2> QED BY <1>1, <2>3, <2>4, <2>5 DEF Stored
  <1>11. Waits' /\ Closed'
    BY <1>1, <1>6 DEF SinkIInv, Waits, Closed
  <1> QED BY <1>7, <1>8, <1>10, <1>11 DEF SinkIInv

\* A row that reaches the file is one of those handed over, in order.
LEMMA FlushKeeps ==
  ASSUME SinkAssumption, SinkIInv, Flush
  PROVE  SinkIInv'
  <1>1. /\ opening = "open" /\ fault = "none" /\ disk' = disk + 1 /\ Len(accepted) - disk > 0
        /\ UNCHANGED <<opening, accepted, fault, streamError, closing>>
    BY DEF Flush, Buffered
  <1>2. accepted \in Seq(Rows) /\ Len(accepted) \in Nat /\ disk \in 0 .. Len(accepted)
    BY LenProperties DEF SinkIInv, SinkTypeOK
  <1>3. disk' \in 0 .. Len(accepted) /\ 1 .. disk \subseteq 1 .. disk'
    BY <1>1, <1>2
  <1>4. CASE ~Drains
    <2>1. writer' = writer /\ rows' = rows
      BY <1>4 DEF Flush
    <2>2. Written' = Written /\ Draining' = Draining /\ Taken' = Taken
      BY <2>1 DEF Written, Draining, Taken
    <2>3. SinkTypeOK'
      BY <1>1, <1>3, <2>1 DEF SinkIInv, SinkTypeOK
    <2>4. Stored'
      BY <1>1, <2>2 DEF SinkIInv, Stored
    <2>5. Waits'
      BY <1>1, <2>1, <2>2 DEF SinkIInv, Waits, TasksEnded
    <2>6. Closed'
      BY <1>1, <1>3, <2>2 DEF SinkIInv, Closed
    <2> QED BY <2>1, <2>2, <2>3, <2>4, <2>5, <2>6 DEF SinkIInv
  <1>5. CASE Drains
    <2>1. /\ closing = "no"
          /\ writer' = [r \in Rows |-> IF r \in Draining THEN "written" ELSE writer[r]]
          /\ rows' = rows + Cardinality(Draining)
      BY <1>5 DEF Flush, Drains
    <2>2. /\ writer' \in [Rows -> {"idle", "opening", "draining"} \cup Settled]
          /\ \A r \in Draining : writer'[r] = "written"
          /\ \A r \in Rows \ Draining : writer'[r] = writer[r]
      BY <2>1 DEF SinkIInv, SinkTypeOK, Settled, Draining
    <2>3. /\ Written' = Written \cup Draining /\ Written \cap Draining = {}
          /\ Draining' = {} /\ Taken' = Taken
      BY <2>2 DEF Written, Draining, Taken
    <2>4. rows' = Cardinality(Written')
      BY <2>1, <2>3, FiniteParts, FS_Union, FS_EmptySet DEF SinkIInv
    <2>5. SinkTypeOK'
      <3>1. rows' \in Nat
        BY <2>1, FiniteParts DEF SinkIInv
      <3> QED BY <1>1, <1>3, <2>2, <3>1 DEF SinkIInv, SinkTypeOK
    <2>6. Stored'
      BY <1>1, <2>3 DEF SinkIInv, Stored
    <2>7. Waits' /\ Closed'
      BY <1>1, <2>1 DEF SinkIInv, Waits, Closed
    <2> QED BY <2>4, <2>5, <2>6, <2>7 DEF SinkIInv
  <1> QED BY <1>4, <1>5

\* A fault of the file ends what reaches it.
LEMMA FlushFailsKeeps ==
  ASSUME SinkAssumption, SinkIInv, FlushFails
  PROVE  SinkIInv'
  <1>1. /\ opening = "open" /\ fault = "none" /\ fault' = "failed"
        /\ closing' = IF closing = "ending" THEN ClosedAs(streamError) ELSE closing
        /\ UNCHANGED <<opening, accepted, disk, streamError, writer, rows>>
    BY DEF FlushFails
  <1>2. closing' \in {"no", "ending", "ok", "failed"} /\ (closing' # "no" => closing # "no")
    BY <1>1 DEF ClosedAs, SinkIInv, SinkTypeOK
  <1>3. Written' = Written /\ Draining' = Draining /\ Taken' = Taken
    BY <1>1 DEF Written, Draining, Taken
  <1>4. SinkTypeOK' /\ Stored' /\ Closed'
    BY <1>1, <1>2, <1>3 DEF SinkIInv, SinkTypeOK, Stored, Closed
  <1>5. Waits'
    BY <1>1, <1>2 DEF SinkIInv, Waits, TasksEnded
  <1> QED BY <1>1, <1>3, <1>4, <1>5 DEF SinkIInv

\* Once the fault is announced nobody waits for a drain.
LEMMA AnnouncedKeeps ==
  ASSUME SinkAssumption, SinkIInv, Announced
  PROVE  SinkIInv'
  <1>1. /\ fault = "failed" /\ fault' = "announced" /\ streamError' = TRUE
        /\ writer' = [r \in Rows |-> IF r \in Draining THEN "rejected" ELSE writer[r]]
        /\ UNCHANGED <<opening, accepted, disk, rows, closing>>
    BY DEF Announced
  <1>2. /\ writer' \in [Rows -> {"idle", "opening", "draining"} \cup Settled]
        /\ \A r \in Draining : writer'[r] = "rejected"
        /\ \A r \in Rows \ Draining : writer'[r] = writer[r]
    BY <1>1 DEF SinkIInv, SinkTypeOK, Settled, Draining
  <1>3. Written' = Written /\ Draining' = {} /\ Taken' = Taken
    BY <1>2 DEF Written, Draining, Taken
  <1>4. SinkTypeOK' /\ Stored' /\ Closed'
    BY <1>1, <1>2, <1>3 DEF SinkIInv, SinkTypeOK, Stored, Closed
  <1>5. Waits'
    BY <1>1, <1>2, <1>3 DEF SinkIInv, Waits, TasksEnded, Settled
  <1> QED BY <1>1, <1>3, <1>4, <1>5 DEF SinkIInv

\* A close that succeeds at once found no stream, and so no row; one that waits
\* succeeds when the buffer is empty: all that was handed over is in the file.
LEMMA CloseKeeps ==
  ASSUME SinkAssumption, SinkIInv, Close \/ CloseEnds
  PROVE  SinkIInv'
  <1>1. /\ UNCHANGED <<opening, accepted, disk, fault, streamError, writer, rows>>
        /\ closing' \in {"ending", "ok", "failed"} /\ TasksEnded
    BY DEF Close, CloseEnds, CloseOf, ClosedAs, SinkIInv, Waits
  <1>2. Written' = Written /\ Draining' = Draining /\ Taken' = Taken
    BY <1>1 DEF Written, Draining, Taken
  <1>3. SinkTypeOK' /\ Stored' /\ Waits'
    BY <1>1, <1>2 DEF SinkIInv, SinkTypeOK, Stored, Waits, TasksEnded
  <1>4. Closed'
    <2>1. SUFFICES ASSUME fault = "none", closing' = "ok", NEW r \in Written
                   PROVE  \E i \in 1 .. disk : accepted[i] = r
      BY <1>1, <1>2 DEF Closed
    <2>2. PICK i \in DOMAIN accepted : accepted[i] = r
      BY DEF SinkIInv, Stored
    <2>3. accepted # <<>> /\ opening = "open"
      BY <2>2 DEF SinkIInv, Stored
    <2>4. Len(accepted) - disk = 0
      BY <2>1, <2>3 DEF Close, CloseEnds, CloseOf, Buffered
    <2>5. /\ Len(accepted) \in Nat /\ DOMAIN accepted = 1 .. Len(accepted)
          /\ disk \in 0 .. Len(accepted)
      BY LenProperties DEF SinkIInv, SinkTypeOK
    <2> QED BY <2>2, <2>4, <2>5
  <1> QED BY <1>1, <1>2, <1>3, <1>4 DEF SinkIInv

-----------------------------------------------------------------------------
\* A new sink has no rows.
LEMMA SinkInitIInv ==
  ASSUME SinkAssumption, SinkInit
  PROVE  SinkIInv
  <1>1. Written = {} /\ Draining = {}
    BY DEF SinkInit, Written, Draining
  <1>2. SinkTypeOK
    <2>1. <<>> \in Seq(Rows) /\ 0 \in 0 .. Len(<<>>)
      BY EmptySeq
    <2> QED BY <2>1 DEF SinkInit, SinkTypeOK, Settled
  <1>3. Stored /\ Waits /\ Closed
    BY <1>1 DEF SinkInit, Stored, Waits, Closed, IsInjective
  <1> QED BY <1>1, <1>2, <1>3, FS_EmptySet DEF SinkInit, SinkIInv

\* Every step keeps the invariant.
LEMMA SinkNextIInv ==
  ASSUME SinkAssumption, SinkIInv, [SinkNext]_sinkVars
  PROVE  SinkIInv'
  <1>1. CASE UNCHANGED sinkVars
    BY <1>1 DEF sinkVars, SinkIInv, SinkTypeOK, Stored, Waits, Closed, TasksEnded, Written, Draining, Taken
  <1>2. ASSUME NEW r \in Rows, Write(r) PROVE SinkIInv'
    BY <1>2, WriteKeeps
  <1>3. ASSUME NEW r \in Rows, Rejects(r) PROVE SinkIInv'
    BY <1>3, RejectsKeeps
  <1>4. ASSUME NEW r \in Rows, Accepts(r) PROVE SinkIInv'
    BY <1>4, AcceptsKeeps
  <1>5. CASE Opened \/ OpenFails
    BY <1>5, OpenKeeps
  <1>6. CASE Flush
    BY <1>6, FlushKeeps
  <1>7. CASE FlushFails
    BY <1>7, FlushFailsKeeps
  <1>8. CASE Announced
    BY <1>8, AnnouncedKeeps
  <1>9. CASE Close \/ CloseEnds
    BY <1>9, CloseKeeps
  <1> QED BY <1>1, <1>2, <1>3, <1>4, <1>5, <1>6, <1>7, <1>8, <1>9 DEF SinkNext, Stream

\* The invariant implies the property.
LEMMA KeepsRows ==
  ASSUME SinkIInv
  PROVE  SinkTypeOK /\ RowsKept
  <1>1. /\ SinkTypeOK /\ rows = Cardinality(Written) /\ IsInjective(accepted)
        /\ fault = "announced" => Draining = {}
    BY DEF SinkIInv, Stored, Waits
  <1>2. Written \subseteq ToSet(accepted)
    BY DEF SinkIInv, Stored, ToSet
  <1>3. ASSUME fault = "none", closing = "ok" PROVE Written \subseteq OnDisk
    <2>1. accepted \in Seq(Rows) /\ disk \in 0 .. Len(accepted) /\ Len(accepted) \in Nat
      BY <1>1, LenProperties DEF SinkTypeOK
    <2> DEFINE stored == SubSeq(accepted, 1, disk)
    <2>2. /\ DOMAIN stored = 1 .. disk
          /\ \A i \in 1 .. disk : stored[i] = accepted[i]
      BY <2>1, SubSeqProperties
    <2>3. ASSUME NEW r \in Written PROVE r \in {stored[i] : i \in DOMAIN stored}
      BY <1>3, <2>2 DEF SinkIInv, Closed
    <2> QED BY <2>3 DEF OnDisk, ToSet
  <1> QED BY <1>1, <1>2, <1>3 DEF RowsKept

\* The count of rows is the number of writes that returned, no row is handed
\* over twice, and a close in good order left every counted row in the file
\* (JsonlFileSink.write and close), whatever shares a drain.
THEOREM RowsAreKept ==
  ASSUME SinkAssumption
  PROVE  SinkSpec => [](SinkTypeOK /\ RowsKept)
  <1>1. SinkInit => SinkIInv
    BY SinkInitIInv
  <1>2. SinkIInv /\ [SinkNext]_sinkVars => SinkIInv'
    BY SinkNextIInv
  <1>3. SinkIInv => SinkTypeOK /\ RowsKept
    BY KeepsRows
  <1> QED BY <1>1, <1>2, <1>3, PTL DEF SinkSpec

-----------------------------------------------------------------------------
(* The files of a run.                                                        *)

\* The lines of a text that a crash cut short.
Cuts(l) == {i \in DOMAIN l : l[i] = Cut}

\* A record of a run that sent requests.
Metered(e) == e \in BaselineRecord /\ e.requests > 0

\* The lines that can be read, and that they are in the order of the runs.
Readable(u) == {i \in DOMAIN u : IsRecord(u[i])}
InOrder(u, n) ==
  \A i \in Readable(u) :
    /\ Metered(u[i]) /\ u[i].runId <= n
    /\ \A j \in Readable(u) : i <= j => u[i].runId <= u[j].runId

\* The inductive invariant of the history: its lines are the records appended, cut
\* short once per crash at most, in the order of the runs.
HistoryIInv ==
  /\ lines \in Seq(BaselineRecord \cup {Cut}) /\ tail \in BaselineRecord \cup {Cut, Null}
  /\ run \in 1..MaxRuns /\ phase \in {"running", "appending", "finished", "dead"}
  /\ record \in BaselineRecord \cup {Null} /\ appended \in Nat /\ interrupted \in Nat
  /\ phase = "appending" => Metered(record) /\ record.runId = run
  /\ Len(lines) = appended
  /\ Cardinality(Cuts(lines)) + (IF tail = Null THEN 0 ELSE 1) <= interrupted
  /\ InOrder(Text, run)
  /\ phase \in {"running", "appending"} => \A i \in Readable(Text) : Text[i].runId < run

\* The inductive invariant of the event log: the file and what waits for it are the
\* events in order, with none left out.
LogIInv ==
  /\ events \in 0..MaxEvents /\ log \in Seq(1..MaxEvents) /\ pending \in Seq(1..MaxEvents)
  /\ stream \in {"none", "open", "ending", "down"}
  /\ \A i \in 1..Len(log) : log[i] = i
  /\ \A i \in 1..Len(pending) : pending[i] = Len(log) + i
  /\ stream \in {"none", "down"} => pending = <<>>
  /\ stream # "down" => Len(log) + Len(pending) = events

\* The text of the history: its lines, and what follows the last newline.
LEMMA TextIs ==
  ASSUME NEW l \in Seq(BaselineRecord \cup {Cut}), NEW t \in BaselineRecord \cup {Cut, Null}
  PROVE  LET u == Append(l, t) IN
         /\ DOMAIN u = 1..Len(l) + 1 /\ u[Len(l) + 1] = t
         /\ \A i \in 1..Len(l) : u[i] = l[i]
         /\ Len(l) \in Nat /\ DOMAIN l = 1..Len(l)
         /\ \A i \in 1..Len(l) : l[i] \in BaselineRecord \cup {Cut}
  <1>1. l \in Seq(BaselineRecord \cup {Cut, Null}) /\ t \in BaselineRecord \cup {Cut, Null}
    OBVIOUS
  <1>2. /\ Append(l, t) \in Seq(BaselineRecord \cup {Cut, Null}) /\ Len(Append(l, t)) = Len(l) + 1
        /\ \A i \in 1..Len(l) : Append(l, t)[i] = l[i]
        /\ Append(l, t)[Len(l) + 1] = t
    BY <1>1, AppendProperties
  <1>3. DOMAIN Append(l, t) = 1..Len(l) + 1
    BY <1>2, LenProperties
  <1>4. Len(l) \in Nat /\ DOMAIN l = 1..Len(l) /\ \A i \in 1..Len(l) : l[i] \in BaselineRecord \cup {Cut}
    BY LenProperties, ElementOfSeq
  <1> QED BY <1>2, <1>3, <1>4

\* What can be read stays in order when the record of the current run comes last.
LEMMA OrderKept ==
  ASSUME FilesAssumption, NEW u, NEW v, DOMAIN v \subseteq Int, NEW n \in 1..MaxRuns, InOrder(u, n),
         NEW e, Metered(e), e.runId = n,
         \A i \in Readable(v) : \/ i \in Readable(u) /\ v[i] = u[i]
                                \/ v[i] = e /\ \A j \in Readable(v) : j <= i
  PROVE  InOrder(v, n)
  <1>1. e.runId \in Nat /\ n \in Nat /\ e.runId = n
    BY DEF FilesAssumption
  <1>2. \A i \in Readable(u) : u[i].runId \in Nat
    BY DEF InOrder, Metered, BaselineRecord, FilesAssumption
  <1> SUFFICES ASSUME NEW i \in Readable(v)
               PROVE  /\ Metered(v[i]) /\ v[i].runId <= n
                      /\ \A j \in Readable(v) : i <= j => v[i].runId <= v[j].runId
    BY DEF InOrder
  <1>3. Metered(v[i]) /\ v[i].runId <= n
    <2>1. CASE i \in Readable(u) /\ v[i] = u[i]
      BY <2>1 DEF InOrder
    <2>2. CASE v[i] = e
      BY <2>2, <1>1
    <2> QED BY <2>1, <2>2
  <1>4. ASSUME NEW j \in Readable(v), i <= j PROVE v[i].runId <= v[j].runId
    <2>1. CASE v[j] = e
      BY <2>1, <1>1, <1>3
    <2>2. CASE v[i] = e /\ \A m \in Readable(v) : m <= i
      <3>1. i \in Int /\ j \in Int /\ j <= i
        BY <2>2 DEF Readable
      <3>2. i = j
        BY <3>1, <1>4
      <3> QED BY <3>2, <2>2, <1>1
    <2>3. CASE j \in Readable(u) /\ v[j] = u[j] /\ i \in Readable(u) /\ v[i] = u[i]
      BY <2>3, <1>4 DEF InOrder
    <2> QED BY <2>1, <2>2, <2>3
  <1> QED BY <1>3, <1>4

\* The damaged lines are finitely many, and one more line is at most one more.
LEMMA CutsOf ==
  ASSUME NEW l \in Seq(BaselineRecord \cup {Cut}), NEW g \in BaselineRecord \cup {Cut}
  PROVE  /\ IsFiniteSet(Cuts(l)) /\ Cardinality(Cuts(l)) \in Nat
         /\ g = Cut => Cardinality(Cuts(Append(l, g))) = Cardinality(Cuts(l)) + 1
         /\ g # Cut => Cardinality(Cuts(Append(l, g))) = Cardinality(Cuts(l))
  <1>1. /\ DOMAIN Append(l, g) = 1..Len(l) + 1 /\ Append(l, g)[Len(l) + 1] = g
        /\ \A i \in 1..Len(l) : Append(l, g)[i] = l[i]
        /\ Len(l) \in Nat /\ DOMAIN l = 1..Len(l)
    BY TextIs
  <1>2. IsFiniteSet(Cuts(l)) /\ Cardinality(Cuts(l)) \in Nat
    <2>1. IsFiniteSet(1..Len(l))
      BY <1>1, FS_Interval
    <2>2. Cuts(l) \subseteq 1..Len(l)
      BY <1>1 DEF Cuts
    <2> QED BY <2>1, <2>2, FS_Subset, FS_CardinalityType
  <1>3. 1..Len(l) + 1 = (1..Len(l)) \cup {Len(l) + 1} /\ Len(l) + 1 \notin 1..Len(l)
    BY <1>1
  <1>4. CASE g = Cut
    <2>1. Cuts(Append(l, g)) = Cuts(l) \cup {Len(l) + 1} /\ Len(l) + 1 \notin Cuts(l)
      BY <1>1, <1>3, <1>4 DEF Cuts
    <2> QED BY <1>2, <1>4, <2>1, FS_AddElement
  <1>5. CASE g # Cut
    <2>1. Cuts(Append(l, g)) = Cuts(l)
      BY <1>1, <1>3, <1>5 DEF Cuts
    <2> QED BY <1>2, <1>5, <2>1
  <1> QED BY <1>4, <1>5

\* A new data directory has neither lines nor events.
LEMMA FilesInitIInv == ASSUME FilesAssumption, FilesInit PROVE HistoryIInv /\ LogIInv
  <1>1. LogIInv
    BY DEF FilesInit, LogIInv, FilesAssumption
  <1>2. lines = <<>> /\ lines \in Seq(BaselineRecord \cup {Cut}) /\ Len(lines) = 0
    BY DEF FilesInit
  <1>3. Cuts(lines) = {} /\ Cardinality(Cuts(lines)) = 0
    BY <1>2, FS_EmptySet DEF Cuts
  <1>4. Readable(Text) = {}
    <2>1. DOMAIN Text = 1..1 /\ Text[1] = Null
      BY <1>2, TextIs DEF FilesInit, Text
    <2> QED BY <2>1 DEF Readable, IsRecord
  <1>5. tail = Null /\ run = 1 /\ 1 \in 1..MaxRuns /\ phase = "running" /\ record = Null
        /\ appended = 0 /\ interrupted = 0
    BY DEF FilesInit, FilesAssumption
  <1> QED BY <1>1, <1>2, <1>3, <1>4, <1>5 DEF HistoryIInv, InOrder

\* A run that ended keeps its record apart from those of the runs before it.
\* A run that ends leaves the history alone, and knows what it will append.
LEMMA FinishKeeps ==
  ASSUME FilesAssumption, HistoryIInv, RunFinishes PROVE HistoryIInv'
  <1>1. PICK view \in Views : /\ record' = BuildRecord(view)
                              /\ phase' = IF BuildRecord(view) = Null THEN "finished" ELSE "appending"
    BY DEF RunFinishes
  <1>2. /\ phase = "running" /\ lines' = lines /\ tail' = tail /\ run' = run
        /\ appended' = appended /\ interrupted' = interrupted /\ Text' = Text
    BY DEF RunFinishes, Text
  <1>3. BuildRecord(view) # Null => Metered(BuildRecord(view)) /\ BuildRecord(view).runId = run
    <2> SUFFICES ASSUME BuildRecord(view) # Null
                 PROVE  Metered(BuildRecord(view)) /\ BuildRecord(view).runId = run
      OBVIOUS
    <2>1. view # Null /\ view.requests # 0
      BY DEF BuildRecord
    <2>2. view \in [requests : Nat, totalBytes : Nat] /\ run \in 1..MaxRuns
      BY <2>1 DEF FilesAssumption, HistoryIInv
    <2>3. BuildRecord(view) = [runId |-> run, requests |-> view.requests, totalBytes |-> view.totalBytes]
      BY <2>1 DEF BuildRecord
    <2> QED BY <2>1, <2>2, <2>3 DEF Metered, BaselineRecord
  <1>4. record' \in BaselineRecord \cup {Null}
    BY <1>1, <1>3 DEF Metered
  <1>5. phase' \in {"finished", "appending"} /\ (phase' = "appending" => record' # Null)
    BY <1>1
  <1> QED BY <1>1, <1>2, <1>3, <1>4, <1>5 DEF HistoryIInv

\* A whole append adds the record, or a damaged line behind a damaged end.
\* The record of the current run is appended last.
LEMMA AppendKeeps ==
  ASSUME FilesAssumption, HistoryIInv, AppendRecord PROVE HistoryIInv'
  <1> DEFINE g == Glued(record)
             n == Len(lines)
  <1>1. /\ phase = "appending" /\ lines' = Append(lines, g) /\ tail' = Null
        /\ appended' = appended + 1 /\ phase' = "finished" /\ run' = run
        /\ record' = record /\ interrupted' = interrupted
    BY DEF AppendRecord
  <1>2. Metered(record) /\ record.runId = run /\ record \in BaselineRecord
    BY <1>1 DEF HistoryIInv, Metered
  <1>3. g \in BaselineRecord \cup {Cut} /\ (g # Cut => g = record) /\ (tail # Null => g = Cut)
    BY <1>2 DEF Glued
  <1>4. lines \in Seq(BaselineRecord \cup {Cut}) /\ tail \in BaselineRecord \cup {Cut, Null}
    BY DEF HistoryIInv
  <1>5. lines' \in Seq(BaselineRecord \cup {Cut}) /\ Len(lines') = n + 1
    BY <1>1, <1>3, <1>4, AppendProperties
  <1> HIDE DEF g
  <1>6. Cardinality(Cuts(lines')) + (IF tail' = Null THEN 0 ELSE 1) <= interrupted'
    <2>1. /\ Cardinality(Cuts(lines)) \in Nat
          /\ g = Cut => Cardinality(Cuts(lines')) = Cardinality(Cuts(lines)) + 1
          /\ g # Cut => Cardinality(Cuts(lines')) = Cardinality(Cuts(lines))
      BY <1>1, <1>3, <1>4, CutsOf
    <2>2. Cardinality(Cuts(lines)) + (IF tail = Null THEN 0 ELSE 1) <= interrupted /\ interrupted \in Nat
      BY DEF HistoryIInv
    <2>3. tail = Null \/ tail # Null
      OBVIOUS
    <2>4. Cut # Null
      BY DEF FilesAssumption
    <2>5. g = Cut => tail # Null
      <3>1. Cut \notin BaselineRecord
        BY DEF FilesAssumption, BaselineRecord
      <3> QED BY <3>1, <1>2 DEF g, Glued
    <2> QED BY <1>1, <2>1, <2>2, <2>5
  <1>7. InOrder(Text', run')
    <2>1. /\ DOMAIN Text = 1..n + 1 /\ Text[n + 1] = tail
          /\ \A i \in 1..n : Text[i] = lines[i]
          /\ n \in Nat
      BY <1>4, TextIs DEF Text
    <2>2. /\ DOMAIN Text' = 1..(n + 1) + 1 /\ Text'[(n + 1) + 1] = Null
          /\ \A i \in 1..n + 1 : Text'[i] = lines'[i]
      <3>1. tail' = Null /\ Null \in BaselineRecord \cup {Cut, Null}
        BY <1>1
      <3> QED BY <3>1, <1>5, TextIs DEF Text
    <2>3. lines'[n + 1] = g /\ \A i \in 1..n : lines'[i] = lines[i]
      BY <1>1, <1>3, <1>4, TextIs
    <2>4. \A i \in Readable(Text') : \/ i \in Readable(Text) /\ Text'[i] = Text[i]
                                     \/ Text'[i] = record /\ \A j \in Readable(Text') : j <= i
      <3> SUFFICES ASSUME NEW i \in Readable(Text')
                   PROVE  \/ i \in Readable(Text) /\ Text'[i] = Text[i]
                          \/ Text'[i] = record /\ \A j \in Readable(Text') : j <= i
        OBVIOUS
      <3>1. \A j \in Readable(Text') : j \in 1..n + 1
        BY <2>1, <2>2 DEF Readable, IsRecord
      <3>2. CASE i = n + 1
        BY <3>1, <3>2, <2>1, <2>2, <2>3, <1>3 DEF Readable, IsRecord
      <3>3. CASE i \in 1..n
        BY <3>3, <2>1, <2>2, <2>3 DEF Readable, IsRecord
      <3> QED BY <3>1, <3>2, <3>3, <2>1
    <2>5. InOrder(Text, run) /\ run \in 1..MaxRuns /\ DOMAIN Text' \subseteq Int
      BY <2>1, <2>2 DEF HistoryIInv
    <2>6. InOrder(Text', run)
      BY <2>4, <2>5, <1>2, OrderKept
    <2> QED BY <2>6, <1>1
  <1>8. appended + 1 \in Nat /\ n + 1 = appended + 1
    BY DEF HistoryIInv
  <1> QED BY <1>1, <1>2, <1>5, <1>6, <1>7, <1>8 DEF HistoryIInv

\* An append cut short leaves at most one end that is not a line yet.
\* A crash while appending cuts the last line short.
LEMMA CutKeeps ==
  ASSUME FilesAssumption, HistoryIInv, AppendCut PROVE HistoryIInv'
  <1> DEFINE n == Len(lines)
  <1>1. /\ phase = "appending" /\ tail' \in {tail, Cut, Glued(record)}
        /\ interrupted' = interrupted + 1 /\ phase' \in {"finished", "dead"}
        /\ lines' = lines /\ run' = run /\ record' = record /\ appended' = appended
    BY DEF AppendCut
  <1>2. Metered(record) /\ record.runId = run /\ record \in BaselineRecord
    BY <1>1 DEF HistoryIInv, Metered
  <1>3. tail' \in BaselineRecord \cup {Cut, Null} /\ (tail' = tail \/ tail' = Cut \/ tail' = record)
    BY <1>1, <1>2 DEF Glued, HistoryIInv
  <1>4. Cardinality(Cuts(lines')) + (IF tail' = Null THEN 0 ELSE 1) <= interrupted'
    <2>1. Cardinality(Cuts(lines)) \in Nat
      BY CutsOf DEF HistoryIInv
    <2>2. Cardinality(Cuts(lines)) + (IF tail = Null THEN 0 ELSE 1) <= interrupted /\ interrupted \in Nat
      BY DEF HistoryIInv
    <2> QED BY <1>1, <2>1, <2>2
  <1>5. InOrder(Text', run)
    <2>1. /\ DOMAIN Text = 1..n + 1 /\ Text[n + 1] = tail
          /\ \A i \in 1..n : Text[i] = lines[i]
          /\ n \in Nat
      BY TextIs DEF Text, HistoryIInv
    <2>2. /\ DOMAIN Text' = 1..n + 1 /\ Text'[n + 1] = tail'
          /\ \A i \in 1..n : Text'[i] = lines[i]
      BY <1>1, <1>3, TextIs DEF Text, HistoryIInv
    <2>3. \A i \in Readable(Text') : \/ i \in Readable(Text) /\ Text'[i] = Text[i]
                                     \/ Text'[i] = record /\ \A j \in Readable(Text') : j <= i
      <3> SUFFICES ASSUME NEW i \in Readable(Text')
                   PROVE  \/ i \in Readable(Text) /\ Text'[i] = Text[i]
                          \/ Text'[i] = record /\ \A j \in Readable(Text') : j <= i
        OBVIOUS
      <3>1. \A j \in Readable(Text') : j \in 1..n + 1
        BY <2>2 DEF Readable
      <3>2. CASE i = n + 1
        BY <3>1, <3>2, <2>1, <2>2, <1>3 DEF Readable, IsRecord
      <3>3. CASE i \in 1..n
        BY <3>3, <2>1, <2>2 DEF Readable, IsRecord
      <3> QED BY <3>1, <3>2, <3>3, <2>1
    <2>4. InOrder(Text, run) /\ run \in 1..MaxRuns /\ DOMAIN Text' \subseteq Int
      BY <2>1, <2>2 DEF HistoryIInv
    <2> QED BY <2>3, <2>4, <1>2, OrderKept
  <1> QED BY <1>1, <1>2, <1>3, <1>4, <1>5 DEF HistoryIInv

\* Every step keeps the invariant of the history.
LEMMA HistoryKept ==
  ASSUME FilesAssumption, HistoryIInv, [FilesNext]_filesVars PROVE HistoryIInv'
  <1>1. CASE NextRun
    <2>1. /\ lines' = lines /\ tail' = tail /\ run' = run + 1 /\ phase' = "running"
          /\ record' = Null /\ appended' = appended /\ interrupted' = interrupted
          /\ Text' = Text /\ run < MaxRuns
      BY <1>1 DEF NextRun, Text
    <2>2. run + 1 \in 1..MaxRuns /\ run \in Nat
      BY <2>1 DEF HistoryIInv, FilesAssumption
    <2>3. \A i \in Readable(Text) : /\ Text[i].runId \in Nat
                                    /\ Text[i].runId <= run
      BY DEF HistoryIInv, InOrder, Metered, BaselineRecord
    <2>4. \A i \in Readable(Text) : Text[i].runId < run + 1 /\ Text[i].runId <= run + 1
      BY <2>2, <2>3
    <2>5. InOrder(Text, run + 1)
      BY <2>4 DEF HistoryIInv, InOrder
    <2> QED BY <2>1, <2>2, <2>4, <2>5 DEF HistoryIInv
  <1>2. CASE UNCHANGED historyVars
    <2>1. Text' = Text
      BY <1>2 DEF historyVars, Text
    <2> QED BY <1>2, <2>1 DEF historyVars, HistoryIInv
  <1>3. CASE RecordEvent \/ FlushLog \/ LogFails \/ CloseLog \/ UNCHANGED filesVars
    BY <1>2, <1>3 DEF RecordEvent, FlushLog, LogFails, CloseLog, filesVars
  <1> QED BY <1>1, <1>3, FinishKeeps, AppendKeeps, CutKeeps DEF FilesNext

\* An event joins those that wait.
LEMMA RecordKeeps == ASSUME FilesAssumption, LogIInv, RecordEvent PROVE LogIInv'
  <1>1. /\ events \in Nat /\ events' = events + 1 /\ events' \in 1..MaxEvents /\ log' = log
        /\ log \in Seq(1..MaxEvents) /\ pending \in Seq(1..MaxEvents)
        /\ Len(log) \in Nat /\ Len(pending) \in Nat
    BY LenProperties DEF RecordEvent, LogIInv, FilesAssumption
  <1>2. CASE stream = "down" /\ pending' = pending /\ stream' = stream
    BY <1>1, <1>2 DEF LogIInv
  <1>3. CASE stream \in {"none", "open"} /\ stream' = "open" /\ pending' = Append(pending, events')
    <2>1. Len(log) + Len(pending) = events
      BY <1>3 DEF LogIInv
    <2>2. /\ pending' \in Seq(1..MaxEvents) /\ Len(pending') = Len(pending) + 1
          /\ \A i \in 1..Len(pending) : pending'[i] = pending[i]
          /\ pending'[Len(pending) + 1] = events'
      BY <1>1, <1>3, AppendProperties
    <2>3. \A i \in 1..Len(pending') : pending'[i] = Len(log') + i
      <3> TAKE i \in 1..Len(pending')
      <3>1. CASE i = Len(pending) + 1
        BY <3>1, <2>1, <2>2, <1>1
      <3>2. CASE i \in 1..Len(pending)
        BY <3>2, <2>2, <1>1 DEF LogIInv
      <3> QED BY <3>1, <3>2, <2>2, <1>1
    <2>4. Len(log') + Len(pending') = events'
      <3>1. Len(log') = Len(log) /\ Len(pending') = Len(pending) + 1
        BY <1>1, <2>2
      <3> QED BY <3>1, <1>1, <2>1
    <2> QED BY <1>1, <1>3, <2>2, <2>3, <2>4 DEF LogIInv
  <1>4. CASE stream = "none" /\ stream' = StandDown /\ pending' = pending
    BY <1>1, <1>4 DEF LogIInv, StandDown
  <1> QED BY <1>2, <1>3, <1>4 DEF RecordEvent

\* What waits is written in order.
LEMMA FlushLogKeeps == ASSUME FilesAssumption, LogIInv, FlushLog PROVE LogIInv'
  <1>1. /\ stream \in {"open", "ending"} /\ stream' = stream /\ events' = events /\ pending # <<>>
        /\ log' = Append(log, Head(pending)) /\ pending' = Tail(pending)
        /\ log \in Seq(1..MaxEvents) /\ pending \in Seq(1..MaxEvents)
        /\ Len(log) \in Nat /\ Len(pending) \in Nat
    BY LenProperties DEF FlushLog, LogIInv
  <1>2. /\ Head(pending) \in 1..MaxEvents /\ pending' \in Seq(1..MaxEvents)
        /\ Len(pending') = Len(pending) - 1
        /\ \A i \in 1..Len(pending') : pending'[i] = pending[i + 1]
    BY <1>1, HeadTailProperties
  <1>3. Head(pending) = pending[1] /\ 1 \in 1..Len(pending)
    BY <1>1, EmptySeq
  <1>4. Head(pending) = Len(log) + 1
    BY <1>3 DEF LogIInv
  <1>5. /\ log' \in Seq(1..MaxEvents) /\ Len(log') = Len(log) + 1
        /\ \A i \in 1..Len(log) : log'[i] = log[i]
        /\ log'[Len(log) + 1] = Head(pending)
    BY <1>1, <1>2, AppendProperties
  <1>6. \A i \in 1..Len(log') : log'[i] = i
    <2> TAKE i \in 1..Len(log')
    <2>1. CASE i = Len(log) + 1
      BY <2>1, <1>4, <1>5
    <2>2. CASE i \in 1..Len(log)
      BY <2>2, <1>5 DEF LogIInv
    <2> QED BY <2>1, <2>2, <1>1, <1>5
  <1>7. \A i \in 1..Len(pending') : pending'[i] = Len(log') + i
    <2> TAKE i \in 1..Len(pending')
    <2>1. pending'[i] = pending[i + 1] /\ i + 1 \in 1..Len(pending) /\ i \in Nat
      BY <1>1, <1>2
    <2>2. pending[i + 1] = Len(log) + (i + 1)
      BY <2>1 DEF LogIInv
    <2> QED BY <2>1, <2>2, <1>1, <1>5
  <1>8. Len(log') + Len(pending') = events' /\ events' \in 0..MaxEvents
    <2>1. Len(log) + Len(pending) = events /\ events \in 0..MaxEvents /\ events' = events
      BY <1>1 DEF LogIInv
    <2>2. Len(log') = Len(log) + 1 /\ Len(pending') = Len(pending) - 1
      BY <1>2, <1>5
    <2>3. Len(log') + Len(pending') = Len(log) + Len(pending)
      BY <2>2, <1>1
    <2> QED BY <2>1, <2>3
  <1> QED BY <1>1, <1>2, <1>5, <1>6, <1>7, <1>8 DEF LogIInv

\* Every step keeps the invariant of the log.
LEMMA LogKept ==
  ASSUME FilesAssumption, LogIInv, [FilesNext]_filesVars PROVE LogIInv'
  <1>1. CASE UNCHANGED logVars
    BY <1>1 DEF logVars, LogIInv
  <1>2. CASE RunFinishes \/ AppendRecord \/ AppendCut \/ UNCHANGED filesVars
    BY <1>1, <1>2 DEF RunFinishes, AppendRecord, AppendCut, filesVars
  <1>3. CASE NextRun
    BY <1>3 DEF NextRun, LogIInv, FilesAssumption
  <1>4. CASE LogFails
    <2>1. log' = log /\ events' = events /\ pending' = <<>> /\ stream' = "down"
      BY <1>4 DEF LogFails, StandDown
    <2> QED BY <2>1 DEF LogIInv
  <1>5. CASE CloseLog
    BY <1>5 DEF CloseLog, LogIInv
  <1> QED BY <1>2, <1>3, <1>4, <1>5, RecordKeeps, FlushLogKeeps DEF FilesNext

\* The invariant gives what the reader of the history relies on.
LEMMA HistoryHolds == ASSUME FilesAssumption, HistoryIInv PROVE HistorySurvives
  <1> DEFINE n == Len(lines)
             R == Readable(Text)
             C == Cuts(lines)
             D == {i \in DOMAIN Text : Text[i] = Cut}
  <1>1. /\ DOMAIN Text = 1..n + 1 /\ Text[n + 1] = tail
        /\ \A i \in 1..n : Text[i] = lines[i] /\ lines[i] \in BaselineRecord \cup {Cut}
        /\ n \in Nat /\ DOMAIN lines = 1..n
    BY TextIs DEF Text, HistoryIInv
  <1>2. /\ IsFiniteSet(1..n) /\ Cardinality(1..n) = n
        /\ IsFiniteSet(1..n + 1)
    <2>1. n \in Nat
      BY <1>1
    <2> HIDE DEF n
    <2>2. IsFiniteSet(1..n) /\ IsFiniteSet(1..n + 1)
      BY <2>1, FS_Interval
    <2>3. Cardinality(1..n) = IF 1 > n THEN 0 ELSE n - 1 + 1
      BY <2>1, FS_Interval
    <2> QED BY <2>1, <2>2, <2>3
  <1>3. /\ IsFiniteSet(R) /\ IsFiniteSet(C) /\ IsFiniteSet(D)
        /\ Cardinality(R) \in Nat /\ Cardinality(C) \in Nat /\ Cardinality(D) \in Nat
    <2>1. R \subseteq 1..n + 1 /\ C \subseteq 1..n /\ D \subseteq 1..n + 1
      BY <1>1 DEF Readable, Cuts
    <2> HIDE DEF R, C, D
    <2> QED BY <1>2, <2>1, FS_Subset, FS_CardinalityType
  <1>4. Null \notin BaselineRecord /\ Cut \notin BaselineRecord /\ Cut # Null
    BY DEF FilesAssumption, BaselineRecord
  <1>5. Cardinality(C) + (IF tail = Null THEN 0 ELSE 1) <= interrupted /\ interrupted \in Nat
        /\ appended = n
    BY DEF HistoryIInv
  <1>6. Cardinality(R) + Cardinality(C) >= n
    <2>1. 1..n \subseteq R \cup C
      BY <1>1, <1>4 DEF Readable, Cuts, IsRecord
    <2>2. /\ IsFiniteSet(R \cup C)
          /\ Cardinality(R \cup C) = Cardinality(R) + Cardinality(C) - Cardinality(R \cap C)
      BY <1>3, FS_Union
    <2>3. n <= Cardinality(R \cup C)
      BY <1>2, <2>1, <2>2, FS_Subset
    <2>4. Cardinality(R \cap C) \in Nat /\ Cardinality(R \cup C) \in Nat
      BY <1>3, <2>2, FS_Subset, FS_CardinalityType
    <2> HIDE DEF R, C, n
    <2> QED BY <1>1, <1>3, <2>2, <2>3, <2>4
  <1>7. Cardinality(D) <= interrupted
    <2>1. CASE tail = Cut
      <3>1. D = C \cup {n + 1} /\ n + 1 \notin C
        BY <1>1, <2>1 DEF Cuts
      <3>2. Cardinality(D) = Cardinality(C) + 1
        <4> HIDE DEF C, D
        <4> QED BY <3>1, <1>3, FS_AddElement
      <3> HIDE DEF C, D
      <3> QED BY <3>2, <2>1, <1>3, <1>4, <1>5
    <2>2. CASE tail # Cut
      <3>1. D = C
        BY <1>1, <2>2 DEF Cuts
      <3> HIDE DEF C, D
      <3> QED BY <3>1, <1>3, <1>5
    <2> QED BY <2>1, <2>2
  <1>8. ReadBaselines = R /\ SkippedLines = Cardinality(D)
    BY DEF ReadBaselines, Readable, SkippedLines
  <1> HIDE DEF R, C, D, n
  <1> QED BY <1>1, <1>3, <1>5, <1>6, <1>7, <1>8 DEF HistorySurvives

\* The baseline is the newest record of an earlier run.
LEMMA BaselineHolds == ASSUME FilesAssumption, HistoryIInv PROVE BaselineIsAnother
  <1> DEFINE R == ReadBaselines
             view == Summarize(R, run)
             H == {i \in R : Text[i].runId # run}
             f == [i \in R |-> Text[i].totalBytes]
             g == [i \in R |-> Text[i].requests]
  <1>1. \A i \in R : /\ Text[i] \in BaselineRecord /\ Text[i].requests \in Nat /\ Text[i].requests > 0
                     /\ Text[i].totalBytes \in Nat /\ Text[i].runId \in Nat /\ Text[i].runId <= run
    BY DEF HistoryIInv, InOrder, Readable, ReadBaselines, Metered, BaselineRecord
  <1>2. MeasuredRuns(R) = R
    BY <1>1 DEF MeasuredRuns
  <1>3. /\ view.baseline = IF H = {} THEN Null ELSE Text[Max(H)]
        /\ view.runs = Cardinality(R)
        /\ view.byRequest[1] = SumFunctionOnSet(f, R) /\ view.byRequest[2] = SumFunctionOnSet(g, R)
    BY <1>2 DEF Summarize
  <1>4. R \subseteq 1..Len(lines) + 1 /\ IsFiniteSet(R) /\ Len(lines) \in Nat
    <2>1. DOMAIN Text = 1..Len(lines) + 1 /\ Len(lines) \in Nat
      BY TextIs DEF Text, HistoryIInv
    <2>2. R \subseteq 1..Len(lines) + 1 /\ IsFiniteSet(1..Len(lines) + 1)
      BY <2>1, FS_Interval DEF ReadBaselines
    <2> QED BY <2>1, <2>2, FS_Subset
  <1>5. ASSUME H # {} PROVE Max(H) \in H /\ \A i \in H : i <= Max(H)
    <2> DEFINE G == {Len(lines) + 1 - i : i \in H}
    <2>1. G \in SUBSET Nat /\ G # {}
      <3>1. \A i \in H : Len(lines) + 1 - i \in Nat
        BY <1>4
      <3> QED BY <3>1, <1>5
    <2>2. PICK d \in G : \A x \in G : d <= x
      <3> HIDE DEF G
      <3> QED BY <2>1, NatMin
    <2>3. PICK m \in H : d = Len(lines) + 1 - m
      BY <2>2
    <2>4. \A i \in H : i <= m
      <3> TAKE i \in H
      <3>1. d <= Len(lines) + 1 - i
        BY <2>2
      <3> QED BY <3>1, <2>3, <1>4
    <2>5. \E x \in H : \A y \in H : x >= y
      BY <2>4, <1>4
    <2>6. Max(H) \in H /\ \A y \in H : Max(H) >= y
      BY <2>5 DEF Max
    <2> QED BY <2>6, <1>4
  <1>6. view.baseline # Null =>
           /\ view.baseline.runId < run /\ view.baseline.requests > 0
           /\ \A i \in R : Text[i].runId < run => Text[i].runId <= view.baseline.runId
    <2> SUFFICES ASSUME view.baseline # Null
                 PROVE  /\ view.baseline.runId < run /\ view.baseline.requests > 0
                        /\ \A i \in R : Text[i].runId < run => Text[i].runId <= view.baseline.runId
      OBVIOUS
    <2>1. H # {} /\ view.baseline = Text[Max(H)]
      BY <1>3
    <2> DEFINE m == Max(H)
    <2>2. m \in H /\ m \in R /\ \A i \in H : i <= m
      BY <2>1, <1>5
    <2>3. Text[m].runId # run /\ run \in Nat
      BY <2>2 DEF HistoryIInv
    <2>4. Text[m].runId < run /\ Text[m].requests > 0
      BY <1>1, <2>2, <2>3
    <2>5. \A i \in R : Text[i].runId < run => Text[i].runId <= Text[m].runId
      <3> TAKE i \in R
      <3> SUFFICES ASSUME Text[i].runId < run PROVE Text[i].runId <= Text[m].runId
        OBVIOUS
      <3>1. i \in H
        BY <1>1, <2>3
      <3> QED BY <3>1, <2>2 DEF HistoryIInv, InOrder, Readable, ReadBaselines
    <2> QED BY <2>1, <2>4, <2>5
  <1>7. view.runs > 0 =>
           /\ \E i \in R : Text[i].totalBytes * view.byRequest[2] <= view.byRequest[1] * Text[i].requests
           /\ \E i \in R : Text[i].totalBytes * view.byRequest[2] >= view.byRequest[1] * Text[i].requests
    <2> SUFFICES ASSUME view.runs > 0
                 PROVE  /\ \E i \in R : f[i] * view.byRequest[2] <= view.byRequest[1] * g[i]
                        /\ \E i \in R : f[i] * view.byRequest[2] >= view.byRequest[1] * g[i]
      OBVIOUS
    <2>1. R # {}
      BY <1>3, FS_EmptySet
    <2>2. \A i \in R : f[i] \in Int /\ g[i] \in Int
      BY <1>1
    <2> HIDE DEF f, g, R
    <2> QED BY <1>3, <1>4, <2>1, <2>2, Mediant
  <1> QED BY <1>6, <1>7 DEF BaselineIsAnother

\* The log in the file has no gap.
LEMMA LogHolds == ASSUME LogIInv PROVE LogHasNoGap
  <1> DEFINE all == log \o pending
             n == Len(log) + Len(pending)
  <1>1. /\ log \in Seq(1..MaxEvents) /\ pending \in Seq(1..MaxEvents)
        /\ Len(log) \in Nat /\ Len(pending) \in Nat
    BY LenProperties DEF LogIInv
  <1>2. /\ all \in Seq(1..MaxEvents) /\ Len(all) = n
        /\ \A i \in 1..n : all[i] = IF i <= Len(log) THEN log[i] ELSE pending[i - Len(log)]
    BY <1>1, ConcatProperties
  <1>3. \A i \in 1..n : all[i] = i
    <2> TAKE i \in 1..n
    <2>1. CASE i <= Len(log)
      BY <2>1, <1>1, <1>2 DEF LogIInv
    <2>2. CASE ~(i <= Len(log))
      <3>1. i - Len(log) \in 1..Len(pending) /\ i \in Nat
        BY <2>2, <1>1
      <3>2. pending[i - Len(log)] = Len(log) + (i - Len(log))
        BY <3>1 DEF LogIInv
      <3> QED BY <3>1, <3>2, <2>2, <1>1, <1>2
    <2> QED BY <2>1, <2>2
  <1>4. all = [i \in 1..Len(all) |-> i]
    <2>1. all = [i \in 1..Len(all) |-> all[i]]
      BY <1>2, LenProperties
    <2> HIDE DEF all
    <2> QED BY <2>1, <1>2, <1>3
  <1> HIDE DEF all
  <1>5. stream # "down" => Len(all) = events
    BY <1>2 DEF LogIInv
  <1> QED BY <1>4, <1>5 DEF LogHasNoGap, all

\* Crashes cost the history at most the line being written, its reader compares a run
\* with earlier ones only, and the event log has no gap: for every number of runs and
\* events, and whatever the runs measure.
THEOREM FilesAreKept ==
  ASSUME FilesAssumption
  PROVE  FilesSpec => []FilesHold
  <1>1. FilesInit => HistoryIInv /\ LogIInv
    BY FilesInitIInv
  <1>2. HistoryIInv /\ LogIInv /\ [FilesNext]_filesVars => (HistoryIInv /\ LogIInv)'
    BY HistoryKept, LogKept
  <1>3. HistoryIInv /\ LogIInv => FilesHold
    <2> SUFFICES ASSUME HistoryIInv, LogIInv PROVE FilesHold
      OBVIOUS
    <2>1. FilesTypeOK
      BY DEF HistoryIInv, LogIInv, FilesTypeOK
    <2> QED BY <2>1, HistoryHolds, BaselineHolds, LogHolds DEF FilesHold
  <1> QED BY <1>1, <1>2, <1>3, PTL DEF FilesSpec

-----------------------------------------------------------------------------
(* The preparation of the input.                                              *)

\* Of a finite set there are subsets of every smaller size.
LEMMA SomeOfSize ==
  ASSUME NEW S, IsFiniteSet(S), NEW k \in Nat, k <= Cardinality(S)
  PROVE  \E T \in SUBSET S : Cardinality(T) = k
  <1> DEFINE Big == {T \in SUBSET S : Cardinality(T) >= k}
  <1>1. S \in Big
    OBVIOUS
  <1>2. PICK T \in Big : \A y \in Big : ~(y \subseteq T /\ y # T)
    <2>1. Big \in SUBSET (SUBSET S) /\ Big # {}
      BY <1>1
    <2> HIDE DEF Big
    <2> QED BY <2>1, SmallestSet
  <1>3. IsFiniteSet(T) /\ Cardinality(T) \in Nat /\ Cardinality(T) >= k
    BY <1>2, FS_Subset, FS_CardinalityType
  <1>4. ASSUME Cardinality(T) # k PROVE FALSE
    <2>1. T # {}
      BY <1>3, <1>4, FS_EmptySet
    <2>2. PICK x \in T : TRUE
      BY <2>1
    <2>3. Cardinality(T \ {x}) = Cardinality(T) - 1
      BY <1>3, <2>2, FS_RemoveElement
    <2>4. T \ {x} \in Big
      BY <1>2, <1>3, <1>4, <2>3
    <2> QED BY <1>2, <2>2, <2>4
  <1> QED BY <1>2, <1>4

\* The lines parseInput keeps, the post of each, and that a record is of a line.
Kept(i) == Entries[i].form # "blank" /\ IssueAt(i) = Null
KeptPositions == {i \in Positions : Kept(i)}
Post(i) == IF Entries[i].form = "short" THEN LeadsTo[Entries[i].url] ELSE Entries[i].url
RecordAt(k, i) == Records[k] = [position |-> i, url |-> Entries[i].url, short |-> Entries[i].form = "short"]

\* The positions are an interval, and those kept are finitely many of it.
LEMMA PositionsAre ==
  ASSUME PrepareAssumption
  PROVE  /\ Len(Entries) \in Nat /\ Positions = 1..Len(Entries)
         /\ KeptPositions \subseteq 1..Len(Entries) /\ KeptPositions \subseteq Nat \ {0}
         /\ IsFiniteSet(KeptPositions) /\ Cardinality(KeptPositions) \in Nat
         /\ \A i \in Positions : Entries[i].form \in LineForms
  <1>1. Entries \in Seq([form : LineForms, url : {Entries[i].url : i \in DOMAIN Entries}])
    BY DEF PrepareAssumption
  <1>2. Len(Entries) \in Nat /\ Positions = 1..Len(Entries)
    BY <1>1, LenProperties DEF Positions
  <1>3. \A i \in Positions : Entries[i] \in [form : LineForms, url : {Entries[j].url : j \in DOMAIN Entries}]
    BY <1>1, <1>2, ElementOfSeq
  <1>4. KeptPositions \subseteq 1..Len(Entries) /\ KeptPositions \subseteq Nat \ {0}
    BY <1>2 DEF KeptPositions
  <1>5. IsFiniteSet(KeptPositions) /\ Cardinality(KeptPositions) \in Nat
    <2>1. IsFiniteSet(1..Len(Entries))
      BY <1>2, FS_Interval
    <2>2. IsFiniteSet(KeptPositions)
      BY <1>4, <2>1, FS_Subset
    <2> QED BY <2>2, FS_CardinalityType
  <1> QED BY <1>2, <1>3, <1>4, <1>5

\* The records are the kept lines, in order.
LEMMA RecordsAre ==
  ASSUME PrepareAssumption
  PROVE  /\ Len(Records) \in Nat /\ DOMAIN Records = 1..Len(Records)
         /\ \A k \in DOMAIN Records : \E i \in KeptPositions : RecordAt(k, i)
         /\ \A i \in KeptPositions : \E k \in DOMAIN Records : RecordAt(k, i)
         /\ \A k, l \in DOMAIN Records : k < l => Records[k].position < Records[l].position
  <1> DEFINE n == Cardinality(KeptPositions)
             At(k) == CHOOSE i \in Positions : Kept(i) /\ Upto(KeptPositions, i) = k
             Rec(i) == [position |-> i, url |-> Entries[i].url, short |-> Entries[i].form = "short"]
  <1>1. /\ Len(Entries) \in Nat /\ KeptPositions \subseteq 1..Len(Entries) /\ n \in Nat
        /\ KeptPositions \subseteq Nat \ {0} /\ IsFiniteSet(KeptPositions)
        /\ Positions = 1..Len(Entries)
    BY PositionsAre
  <1>2. Records = [k \in 1..n |-> Rec(At(k))]
    <2>1. \A i \in Positions : {j \in 1..i : Kept(j)} = KeptPositions \cap (1..i)
      BY <1>1 DEF KeptPositions
    <2>2. Records = [k \in 1..n |->
             Rec(CHOOSE i \in Positions : Kept(i) /\ Cardinality({j \in 1..i : Kept(j)}) = k)]
      BY DEF Records, KeptPositions, Kept
    <2>3. ASSUME NEW k
          PROVE  (CHOOSE i \in Positions : Kept(i) /\ Cardinality({j \in 1..i : Kept(j)}) = k) = At(k)
      <3>1. \A i \in Positions : Cardinality({j \in 1..i : Kept(j)}) = Upto(KeptPositions, i)
        BY <2>1 DEF Upto
      <3>2. \A i : (i \in Positions /\ Kept(i) /\ Cardinality({j \in 1..i : Kept(j)}) = k)
                      <=> (i \in Positions /\ Kept(i) /\ Upto(KeptPositions, i) = k)
        BY <3>1
      <3> QED BY <3>2
    <2> DEFINE Before(k) == CHOOSE i \in Positions : Kept(i) /\ Cardinality({j \in 1..i : Kept(j)}) = k
    <2>4. Records = [k \in 1..n |-> Rec(Before(k))] /\ \A k : Before(k) = At(k)
      BY <2>2, <2>3
    <2> HIDE DEF Rec, n, At, Before
    <2> QED BY <2>4
  <1>3. \A k \in 1..n : At(k) \in KeptPositions /\ Upto(KeptPositions, At(k)) = k
    <2> TAKE k \in 1..n
    <2>1. \E i \in KeptPositions : Upto(KeptPositions, i) = k
      BY <1>1, Nth
    <2>2. \E i \in Positions : Kept(i) /\ Upto(KeptPositions, i) = k
      BY <2>1 DEF KeptPositions
    <2>3. At(k) \in Positions /\ Kept(At(k)) /\ Upto(KeptPositions, At(k)) = k
      <3> HIDE DEF n
      <3> QED BY <2>2
    <2> HIDE DEF At, n
    <2> QED BY <2>3 DEF KeptPositions
  <1>4. \A i \in KeptPositions : Upto(KeptPositions, i) \in 1..n /\ At(Upto(KeptPositions, i)) = i
    <2> TAKE i \in KeptPositions
    <2> DEFINE k == Upto(KeptPositions, i)
    <2>01. k \in Nat /\ k <= n
      BY <1>1, UptoType
    <2>02. i \in Int
      BY <1>1
    <2>1. k \in Nat /\ k <= n /\ i \in Int
      <3> HIDE DEF k, n
      <3> QED BY <2>01, <2>02
    <2>2. k >= 1
      <3>1. i \in KeptPositions \cap (1..i)
        BY <1>1, <2>1
      <3>2. IsFiniteSet(KeptPositions \cap (1..i))
        BY <1>1, UptoType
      <3>3. k # 0
        BY <3>1, <3>2, FS_EmptySet DEF Upto
      <3> QED BY <2>1, <3>3
    <2>3. k \in 1..n
      BY <2>1, <2>2, <1>1
    <2>4. At(k) \in KeptPositions /\ Upto(KeptPositions, At(k)) = k
      BY <1>3, <2>3
    <2> HIDE DEF At, n
    <2>5. At(k) = i
      <3> DEFINE j == At(k)
      <3>0. j \in KeptPositions /\ Upto(KeptPositions, j) = Upto(KeptPositions, i)
        BY <2>4
      <3>00. \A x \in KeptPositions : x \in Int /\ Upto(KeptPositions, x) \in Int
        <4>1. \A x \in KeptPositions : x \in Int
          BY <1>1
        <4>2. \A x : Upto(KeptPositions, x) \in Nat
          BY <1>1, UptoType
        <4> QED BY <4>1, <4>2
      <3>1. \A x, y \in KeptPositions : x < y => Upto(KeptPositions, x) < Upto(KeptPositions, y)
        BY <1>1, UptoRises
      <3> HIDE DEF j
      <3>2. ~(j < i)
        BY <3>0, <3>00, <3>1
      <3>3. ~(i < j)
        BY <3>0, <3>00, <3>1
      <3>4. j = i
        BY <3>0, <3>00, <3>2, <3>3
      <3> QED BY <3>4 DEF j
    <2> QED BY <2>3, <2>5
  <1>5. DOMAIN Records = 1..n /\ Len(Records) = n
    <2>1. Records \in [1..n -> {Records[k] : k \in 1..n}]
      <3> HIDE DEF n, At, Rec
      <3>1. Records = [k \in 1..n |-> Records[k]] /\ DOMAIN Records = 1..n
        BY <1>2
      <3> QED BY <3>1
    <2>2. Records \in Seq({Records[k] : k \in 1..n})
      BY <1>1, <2>1, SeqDef
    <2>3. DOMAIN Records = 1..Len(Records) /\ Len(Records) \in Nat /\ DOMAIN Records = 1..n
      <3> HIDE DEF n
      <3> QED BY <2>1, <2>2, LenProperties
    <2>4. 1..Len(Records) = 1..n
      BY <2>3
    <2>5. \A a, b \in Nat : 1..a = 1..b => a = b
      <3> TAKE a, b \in Nat
      <3> HAVE 1..a = 1..b
      <3>1. a <= b
        <4>1. CASE a = 0
          BY <4>1
        <4>2. CASE a > 0
          <5>1. a \in 1..b
            BY <4>2
          <5> QED BY <5>1
        <4> QED BY <4>1, <4>2
      <3>2. b <= a
        <4>1. CASE b = 0
          BY <4>1
        <4>2. CASE b > 0
          <5>1. b \in 1..a
            BY <4>2
          <5> QED BY <5>1
        <4> QED BY <4>1, <4>2
      <3> QED BY <3>1, <3>2
    <2> HIDE DEF n
    <2>6. Len(Records) = n
      BY <2>3, <2>4, <2>5, <1>1
    <2> QED BY <2>3, <2>6
  <1>6. \A k \in DOMAIN Records : RecordAt(k, At(k)) /\ Records[k].position = At(k)
    <2> HIDE DEF n, At
    <2> QED BY <1>2, <1>5 DEF RecordAt
  <1>7. \A k \in DOMAIN Records : \E i \in KeptPositions : RecordAt(k, i)
    <2> HIDE DEF n, At
    <2> QED BY <1>3, <1>5, <1>6
  <1>8. \A i \in KeptPositions : \E k \in DOMAIN Records : RecordAt(k, i)
    <2> HIDE DEF n, At
    <2> QED BY <1>4, <1>5, <1>6
  <1>9. ASSUME NEW k \in DOMAIN Records, NEW l \in DOMAIN Records, k < l
        PROVE  Records[k].position < Records[l].position
    <2>1. /\ At(k) \in KeptPositions /\ Upto(KeptPositions, At(k)) = k
          /\ At(l) \in KeptPositions /\ Upto(KeptPositions, At(l)) = l
          /\ k \in Nat /\ l \in Nat
      BY <1>1, <1>3, <1>5
    <2> HIDE DEF n, At
    <2> DEFINE i == At(k)
               j == At(l)
    <2>02. \A x \in KeptPositions : x \in Int
      BY <1>1
    <2>3. \A x, y \in KeptPositions : x < y => Upto(KeptPositions, x) < Upto(KeptPositions, y)
      BY <1>1, UptoRises
    <2>4. i \in KeptPositions /\ j \in KeptPositions /\ Upto(KeptPositions, i) = k /\ Upto(KeptPositions, j) = l
      BY <2>1
    <2>5. Records[k].position = i /\ Records[l].position = j
      BY <1>6
    <2> HIDE DEF i, j
    <2>2. i \in Int /\ j \in Int
      BY <2>02, <2>4
    <2>6. ~(j < i)
      BY <1>9, <2>1, <2>3, <2>4
    <2>7. i # j
      BY <1>9, <2>1, <2>4
    <2>8. i < j
      BY <2>2, <2>6, <2>7
    <2> QED BY <2>5, <2>8
  <1> QED BY <1>1, <1>5, <1>7, <1>8, <1>9

\* What may stand at the place of a record, and that a worker is at one.
PostResults(k) == {Ready(Records[k], Post(Records[k].position))}
                \cup {FailedItem(Records[k], code) : code \in {"proxy_error", "timeout", "not_found", "cancelled"}}
Busy(w) == worker[w].phase \in {"acquiring", "resolving", "pausing"}
At(w, k) == Busy(w) /\ worker[w].index = k

\* The types.
WorkerAt == [phase : {"taking", "gone", "acquiring", "resolving", "pausing"},
             index : Nat, attempts : Nat]

PrepTypes ==
  /\ nextIndex \in Nat \ {0}
  /\ state \in {"running", "prepared", "cancelled"}
  /\ aborted \in BOOLEAN
  /\ worker \in [Resolvers -> WorkerAt]
  /\ DOMAIN resolved = DOMAIN Records

\* A worker that is busy is at a short link of the records.
AtRecord == \A w \in Resolvers : Busy(w) =>
              worker[w].index \in DOMAIN Records /\ Records[worker[w].index].short

\* While the call goes on, each record taken has its result or a worker at it, and
\* there is a worker left as long as there is a record to take.
RecordsTaken ==
  state = "running" /\ ~aborted =>
    /\ \A k \in DOMAIN Records : k < nextIndex =>
         resolved[k] \in PostResults(k) \/ \E w \in Resolvers : At(w, k)
    /\ (\A w \in Resolvers : worker[w].phase = "gone") => nextIndex > Len(Records)

\* The inductive invariant.
PrepIInv == PrepTypes /\ AtRecord /\ RecordsTaken /\ EveryLineAccounted

\* What parseInput says of a line.
LEMMA IssuesAre ==
  ASSUME PrepareAssumption, NEW i \in Positions
  PROVE  /\ IssueAt(i) # Null => Entries[i].form # "blank"
         /\ IssueAt(i) = "duplicate_url" => FirstWith(Entries[i].url) < i
  <1>1. /\ Entries[i].form \in LineForms /\ Positions = 1..Len(Entries) /\ Len(Entries) \in Nat
        /\ Null \notin {"invalid_url", "platform_mismatch", "duplicate_url"}
    BY PositionsAre DEF PrepareAssumption
  <1>2. Entries[i].form = "blank" => IssueAt(i) = Null
    BY DEF IssueAt
  <1>3. ASSUME IssueAt(i) = "duplicate_url"
        PROVE  Entries[i].form \in {"post", "short"} /\ FirstWith(Entries[i].url) # i
    BY <1>1, <1>3 DEF IssueAt, LineForms
  <1>4. ASSUME Entries[i].form \in {"post", "short"}, FirstWith(Entries[i].url) # i
        PROVE  FirstWith(Entries[i].url) < i
    <2> DEFINE T == {j \in Positions : Entries[j].form \in {"post", "short"} /\ Entries[j].url = Entries[i].url}
    <2>1. T \in SUBSET Nat /\ T # {} /\ i \in T
      BY <1>1, <1>4
    <2>2. FirstWith(Entries[i].url) = CHOOSE x \in T : \A y \in T : x <= y
      BY DEF FirstWith, Min
    <2> DEFINE m == CHOOSE x \in T : \A y \in T : x <= y
    <2> HIDE DEF T
    <2>3. \E x \in T : \A y \in T : x <= y
      BY <2>1, NatMin
    <2>4. m \in T /\ \A y \in T : m <= y
      BY <2>3
    <2>5. m = FirstWith(Entries[i].url)
      BY <2>2
    <2> HIDE DEF m
    <2>6. m \in Nat /\ i \in Nat /\ m <= i /\ m # i
      BY <2>1, <2>4, <2>5, <1>4
    <2>7. m < i
      BY <2>6
    <2> QED BY <2>5, <2>7
  <1> QED BY <1>2, <1>3, <1>4

\* EveryLineAccounted, of any output.
Accounts(out) ==
  LET ready   == {x \in out.items : x.kind = "ready"}
  IN  /\ {x.position : x \in out.items} \cup {x.position : x \in out.issues}
          = {i \in Positions : Entries[i].form # "blank"}
      /\ {x.position : x \in out.items} \cap {x.position : x \in out.issues} = {}
      /\ \A x \in ready : /\ x.url = Post(x.position)
                          /\ \A y \in ready : x.url = y.url => x = y
      /\ \A x \in out.issues : x.code = "duplicate_url" =>
           \/ FirstWith(Entries[x.position].url) < x.position
           \/ \E y \in ready : y.position < x.position /\ y.url = Post(x.position)

\* The property is that of the output.
LEMMA AccountsAre == EveryLineAccounted <=> (state = "prepared" => Accounts(output))
  BY DEF EveryLineAccounted, Accounts, Post

\* Every record has its result.
AllDone == DOMAIN resolved = DOMAIN Records /\ \A k \in DOMAIN Records : resolved[k] \in PostResults(k)

\* A result is of its record.
LEMMA ResultIs ==
  ASSUME AllDone, NEW k \in DOMAIN Records
  PROVE  /\ resolved[k].position = Records[k].position
         /\ resolved[k].kind \in {"ready", "failure"}
         /\ resolved[k].kind = "ready" => resolved[k].url = Post(Records[k].position)
  <1>1. resolved[k] \in PostResults(k)
    BY DEF AllDone
  <1>2. CASE resolved[k] = Ready(Records[k], Post(Records[k].position))
    BY <1>2 DEF Ready
  <1>3. CASE resolved[k] # Ready(Records[k], Post(Records[k].position))
    <2>1. PICK code : resolved[k] = FailedItem(Records[k], code)
      BY <1>1, <1>3 DEF PostResults
    <2> QED BY <2>1 DEF FailedItem
  <1> QED BY <1>2, <1>3

\* The first record of a post is no duplicate: of every duplicate there is an
\* earlier item with its post.
LEMMA FirstIsKept ==
  ASSUME PrepareAssumption, NEW k \in DOMAIN Records, Duplicate(k)
  PROVE  \E j \in DOMAIN Records : j < k /\ ~Duplicate(j) /\ resolved[j].kind = "ready"
                                   /\ resolved[j].url = resolved[k].url
  <1>1. DOMAIN Records = 1..Len(Records) /\ Len(Records) \in Nat
    BY RecordsAre
  <1> DEFINE T == {j \in 1..k - 1 : resolved[j].kind = "ready" /\ resolved[j].url = resolved[k].url}
  <1>2. T \in SUBSET Nat /\ T # {}
    BY <1>1 DEF Duplicate
  <1>3. PICK m \in T : \A y \in T : m <= y
    <2> HIDE DEF T
    <2> QED BY <1>2, NatMin
  <1>4. m \in 1..k - 1 /\ resolved[m].kind = "ready" /\ resolved[m].url = resolved[k].url
    BY <1>3
  <1>5. m \in DOMAIN Records /\ m < k /\ m \in Int /\ k \in Int
    BY <1>1, <1>4
  <1>6. ASSUME Duplicate(m) PROVE FALSE
    <2>1. PICK j \in 1..m - 1 : resolved[j].kind = "ready" /\ resolved[j].url = resolved[m].url
      BY <1>6 DEF Duplicate
    <2>2. j \in 1..k - 1 /\ j \in Int /\ ~(m <= j)
      BY <1>5, <2>1
    <2>3. j \in T
      BY <2>1, <2>2, <1>4
    <2> HIDE DEF T
    <2> QED BY <1>3, <2>2, <2>3
  <1> QED BY <1>4, <1>5, <1>6

\* What prepare makes of the results.
ResultItems == {resolved[k] : k \in {j \in DOMAIN Records : ~Duplicate(j)}}
ResultIssues == ParsedIssues \cup {Issue("duplicate_url", Records[k].position) :
                                     k \in {j \in DOMAIN Records : Duplicate(j)}}

\* When every record has its result, what prepare makes of them accounts for
\* every line.
LEMMA SettleAccounts ==
  ASSUME PrepareAssumption, AllDone
  PROVE  Accounts([items |-> ResultItems, issues |-> ResultIssues])
  <1>1. /\ Len(Records) \in Nat /\ DOMAIN Records = 1..Len(Records)
        /\ \A k \in DOMAIN Records : \E i \in KeptPositions : RecordAt(k, i)
        /\ \A i \in KeptPositions : \E k \in DOMAIN Records : RecordAt(k, i)
        /\ \A k, l \in DOMAIN Records : k < l => Records[k].position < Records[l].position
    BY RecordsAre
  <1>2. \A k \in DOMAIN Records : Records[k].position \in KeptPositions /\ Records[k].position \in Int
    <2> TAKE k \in DOMAIN Records
    <2>1. PICK i \in KeptPositions : RecordAt(k, i)
      BY <1>1
    <2>2. Records[k].position = i
      BY <2>1 DEF RecordAt
    <2>3. i \in Int
      BY PositionsAre
    <2> QED BY <2>2, <2>3
  <1>3. \A i \in KeptPositions : \E k \in DOMAIN Records : Records[k].position = i
    <2> TAKE i \in KeptPositions
    <2>1. PICK k \in DOMAIN Records : RecordAt(k, i)
      BY <1>1
    <2>2. Records[k].position = i
      BY <2>1 DEF RecordAt
    <2> QED BY <2>2
  <1>4. \A k, l \in DOMAIN Records : Records[k].position = Records[l].position => k = l
    <2> TAKE k, l \in DOMAIN Records
    <2>1. k \in Int /\ l \in Int /\ Records[k].position \in Int /\ Records[l].position \in Int
      BY <1>1, <1>2
    <2> QED BY <1>1, <2>1
  <1>5. \A k \in DOMAIN Records : /\ resolved[k].position = Records[k].position
                                  /\ resolved[k].kind = "ready" => resolved[k].url = Post(Records[k].position)
    BY ResultIs
  <1> DEFINE ItemPlaces == {Records[k].position : k \in {j \in DOMAIN Records : ~Duplicate(j)}}
             LatePlaces == {Records[k].position : k \in {j \in DOMAIN Records : Duplicate(j)}}
             BadPlaces == {j \in Positions : IssueAt(j) # Null}
  <1>6. {x.position : x \in ResultItems} = ItemPlaces
    <2>1. \A x \in ResultItems : x.position \in ItemPlaces
      BY <1>5 DEF ResultItems
    <2>2. \A p \in ItemPlaces : \E x \in ResultItems : x.position = p
      BY <1>5 DEF ResultItems
    <2> QED BY <2>1, <2>2
  <1>7. {x.position : x \in ResultIssues} = LatePlaces \cup BadPlaces
    <2>1. \A x \in ResultIssues : x.position \in LatePlaces \cup BadPlaces
      BY DEF ResultIssues, ParsedIssues, Issue
    <2>2. \A p \in BadPlaces : Issue(IssueAt(p), p) \in ResultIssues /\ Issue(IssueAt(p), p).position = p
      BY DEF ResultIssues, ParsedIssues, Issue
    <2>3. ASSUME NEW p \in LatePlaces
          PROVE  \E x \in ResultIssues : x.position = p
      <3>1. PICK k \in {j \in DOMAIN Records : Duplicate(j)} : p = Records[k].position
        OBVIOUS
      <3>2. Issue("duplicate_url", Records[k].position) \in ResultIssues
        BY DEF ResultIssues
      <3>3. Issue("duplicate_url", Records[k].position).position = p
        BY <3>1 DEF Issue
      <3> QED BY <3>2, <3>3
    <2> HIDE DEF LatePlaces, BadPlaces
    <2> QED BY <2>1, <2>2, <2>3
  <1>8. ItemPlaces \cup LatePlaces = KeptPositions
    <2>1. \A p \in ItemPlaces \cup LatePlaces : p \in KeptPositions
      BY <1>2
    <2>2. ASSUME NEW p \in KeptPositions PROVE p \in ItemPlaces \cup LatePlaces
      <3>1. PICK k \in DOMAIN Records : Records[k].position = p
        BY <1>3
      <3>2. CASE Duplicate(k)
        BY <3>1, <3>2
      <3>3. CASE ~Duplicate(k)
        BY <3>1, <3>3
      <3> QED BY <3>2, <3>3
    <2> HIDE DEF ItemPlaces, LatePlaces
    <2> QED BY <2>1, <2>2
  <1>9. ItemPlaces \cap LatePlaces = {}
    BY <1>4
  <1>10. /\ KeptPositions \cup BadPlaces = {i \in Positions : Entries[i].form # "blank"}
         /\ KeptPositions \cap BadPlaces = {}
    BY IssuesAre DEF KeptPositions, Kept
  <1>11. /\ {x.position : x \in ResultItems} \cup {x.position : x \in ResultIssues}
              = {i \in Positions : Entries[i].form # "blank"}
         /\ {x.position : x \in ResultItems} \cap {x.position : x \in ResultIssues} = {}
    <2> HIDE DEF ItemPlaces, LatePlaces, BadPlaces
    <2> QED BY <1>6, <1>7, <1>8, <1>9, <1>10
  <1>12. ASSUME NEW x \in ResultItems, x.kind = "ready"
         PROVE  /\ x.url = Post(x.position)
                /\ \A y \in ResultItems : y.kind = "ready" /\ x.url = y.url => x = y
    <2>1. PICK k \in DOMAIN Records : ~Duplicate(k) /\ x = resolved[k]
      BY DEF ResultItems
    <2>2. x.url = Post(x.position)
      BY <1>12, <1>5, <2>1
    <2>3. ASSUME NEW y \in ResultItems, y.kind = "ready", x.url = y.url
          PROVE  x = y
      <3>1. PICK l \in DOMAIN Records : ~Duplicate(l) /\ y = resolved[l]
        BY DEF ResultItems
      <3>2. k \in 1..Len(Records) /\ l \in 1..Len(Records)
        BY <1>1
      <3>3. ~(k < l)
        <4>1. SUFFICES ASSUME k < l PROVE k \in 1..l - 1
          BY <1>12, <2>1, <2>3, <3>1 DEF Duplicate
        <4> QED BY <3>2, <4>1, <1>1
      <3>4. ~(l < k)
        <4>1. SUFFICES ASSUME l < k PROVE l \in 1..k - 1
          BY <1>12, <2>1, <2>3, <3>1 DEF Duplicate
        <4> QED BY <3>2, <4>1, <1>1
      <3>5. k = l
        BY <1>1, <3>2, <3>3, <3>4
      <3> QED BY <2>1, <3>1, <3>5
    <2> QED BY <2>2, <2>3
  <1>13. ASSUME NEW x \in ResultIssues, x.code = "duplicate_url"
         PROVE  \/ FirstWith(Entries[x.position].url) < x.position
                \/ \E y \in ResultItems : y.kind = "ready" /\ y.position < x.position /\ y.url = Post(x.position)
    <2>1. CASE x \in ParsedIssues
      <3>1. PICK i \in Positions : x = Issue(IssueAt(i), i)
        BY <2>1 DEF ParsedIssues
      <3>2. x.code = IssueAt(i) /\ x.position = i
        BY <3>1 DEF Issue
      <3> QED BY <1>13, <3>2, IssuesAre
    <2>2. CASE x \notin ParsedIssues
      <3>1. PICK k \in DOMAIN Records : Duplicate(k) /\ x = Issue("duplicate_url", Records[k].position)
        BY <2>2 DEF ResultIssues
      <3>2. x.position = Records[k].position
        BY <3>1 DEF Issue
      <3>3. PICK j \in DOMAIN Records : /\ j < k /\ ~Duplicate(j) /\ resolved[j].kind = "ready"
                                        /\ resolved[j].url = resolved[k].url
        BY <3>1, FirstIsKept
      <3>4. resolved[k].kind = "ready"
        BY <3>1 DEF Duplicate
      <3>5. resolved[j] \in ResultItems /\ resolved[j].position < x.position /\ resolved[j].url = Post(x.position)
        BY <3>2, <3>3, <3>4, <1>1, <1>5 DEF ResultItems
      <3> QED BY <3>3, <3>5
    <2> QED BY <2>1, <2>2
  <1>14. [items |-> ResultItems, issues |-> ResultIssues].items = ResultItems
         /\ [items |-> ResultItems, issues |-> ResultIssues].issues = ResultIssues
    OBVIOUS
  <1> DEFINE out == [items |-> ResultItems, issues |-> ResultIssues]
  <1>15. out.items = ResultItems /\ out.issues = ResultIssues
    BY <1>14
  <1> HIDE DEF out
  <1>16. Accounts(out)
    BY <1>11, <1>12, <1>13, <1>15 DEF Accounts
  <1> QED BY <1>16 DEF out

\* The workers a call starts with: some, when there is a record to take.
LEMMA CrewIs ==
  ASSUME PrepareAssumption
  PROVE  /\ Crew \in [Resolvers -> WorkerAt] /\ Places = [k \in DOMAIN Records |-> Null]
         /\ \A w \in Resolvers : Crew[w].phase \in {"taking", "gone"}
         /\ (\A w \in Resolvers : Crew[w].phase = "gone") => 1 > Len(Records)
  <1>1. \A w \in Resolvers : Crew[w] = Off(IF w \in Staffed THEN "taking" ELSE "gone")
    BY DEF Crew
  <1>2. \A w \in Resolvers : Crew[w] \in WorkerAt /\ Crew[w].phase = IF w \in Staffed THEN "taking" ELSE "gone"
    <2>1. 0 \in Nat
      OBVIOUS
    <2>2. \A how \in {"taking", "gone"} : Off(how) \in WorkerAt /\ Off(how).phase = how
      BY <2>1 DEF Off, WorkerAt
    <2>3. \A w \in Resolvers : (IF w \in Staffed THEN "taking" ELSE "gone") \in {"taking", "gone"}
      OBVIOUS
    <2> QED BY <1>1, <2>2, <2>3
  <1>3. Crew \in [Resolvers -> WorkerAt]
    <2>1. Crew = [w \in Resolvers |-> Crew[w]]
      BY DEF Crew
    <2> QED BY <2>1, <1>2
  <1>4. ASSUME \A w \in Resolvers : Crew[w].phase = "gone"
        PROVE  1 > Len(Records)
    <2> DEFINE a == Cardinality(Resolvers)
               b == Len(Records)
               m == Min({a, b})
    <2>1. a \in Nat /\ b \in Nat /\ IsFiniteSet(Resolvers) /\ Resolvers # {}
      BY RecordsAre, FS_CardinalityType DEF PrepareAssumption
    <2>2. a # 0
      BY <2>1, FS_EmptySet
    <2>3. m \in {a, b} /\ m <= a /\ m <= b
      <3> HIDE DEF a, b
      <3>1. {a, b} \in SUBSET Nat /\ {a, b} # {}
        BY <2>1
      <3>2. \E x \in {a, b} : \A y \in {a, b} : x <= y
        BY <3>1, NatMin
      <3>3. m = CHOOSE x \in {a, b} : \A y \in {a, b} : x <= y
        BY DEF Min
      <3> QED BY <3>2, <3>3
    <2>4. \E ws \in SUBSET Resolvers : Cardinality(ws) = m
      <3>1. m \in Nat /\ m <= Cardinality(Resolvers)
        BY <2>1, <2>3
      <3> HIDE DEF m
      <3> QED BY <3>1, <2>1, SomeOfSize
    <2>5. Staffed \in SUBSET Resolvers /\ Cardinality(Staffed) = m
      <3> HIDE DEF a, b
      <3>1. Staffed = CHOOSE ws \in SUBSET Resolvers : Cardinality(ws) = m
        BY DEF Staffed, a, b
      <3> HIDE DEF m
      <3> QED BY <2>4, <3>1
    <2>6. Staffed = {}
      BY <1>2, <1>4, <2>5
    <2>7. m = 0
      BY <2>5, <2>6, FS_EmptySet
    <2> HIDE DEF m, a, b
    <2>8. b = 0
      BY <2>1, <2>2, <2>3, <2>7
    <2> QED BY <2>8 DEF b
  <1> QED BY <1>2, <1>3, <1>4 DEF Places

\* The post of a record, as the workers make it.
LEMMA PostOf ==
  ASSUME PrepareAssumption, NEW k \in DOMAIN Records
  PROVE  Post(Records[k].position)
           = IF Records[k].short THEN LeadsTo[Records[k].url] ELSE Records[k].url
  <1>1. PICK i \in KeptPositions : RecordAt(k, i)
    BY RecordsAre
  <1>2. /\ Records[k].position = i /\ Records[k].url = Entries[i].url
        /\ Records[k].short = (Entries[i].form = "short")
    BY <1>1 DEF RecordAt
  <1> QED BY <1>2 DEF Post

\* A call starts with no record taken.
LEMMA PrepInitIInv ==
  ASSUME PrepareAssumption, PrepareInit
  PROVE  PrepIInv
  <1>1. state = "running" /\ aborted = FALSE /\ nextIndex = 1 /\ resolved = Places /\ worker = Crew
    BY DEF PrepareInit
  <1>2. PrepTypes
    <2>1. worker \in [Resolvers -> WorkerAt]
      BY <1>1, CrewIs
    <2>2. DOMAIN resolved = DOMAIN Records
      BY <1>1 DEF Places
    <2>3. 1 \in Nat \ {0}
      OBVIOUS
    <2> QED BY <1>1, <2>1, <2>2, <2>3 DEF PrepTypes
  <1>3. \A w \in Resolvers : ~Busy(w)
    BY <1>1, CrewIs DEF Busy
  <1>4. RecordsTaken
    <2>1. \A k \in DOMAIN Records : ~(k < nextIndex)
      BY <1>1, RecordsAre
    <2>2. (\A w \in Resolvers : worker[w].phase = "gone") => nextIndex > Len(Records)
      BY <1>1, CrewIs
    <2> QED BY <2>1, <2>2 DEF RecordsTaken
  <1>5. EveryLineAccounted
    BY <1>1 DEF EveryLineAccounted
  <1> QED BY <1>2, <1>3, <1>4, <1>5 DEF PrepIInv, AtRecord

\* What is accounted for when a call is over stays so.
LEMMA AgainKeeps ==
  ASSUME PrepareAssumption, PrepIInv, PrepareAgain
  PROVE  PrepIInv'
  <1>1. state' = "running" /\ aborted' = aborted /\ nextIndex' = 1 /\ resolved' = Places /\ worker' = Crew
    BY DEF PrepareAgain
  <1>2. PrepTypes'
    BY <1>1, CrewIs DEF PrepIInv, PrepTypes
  <1>3. \A w \in Resolvers : ~Busy(w)'
    BY <1>1, CrewIs DEF Busy
  <1>4. RecordsTaken'
    <2>1. \A k \in DOMAIN Records : ~(k < nextIndex')
      BY <1>1, RecordsAre
    <2>2. (\A w \in Resolvers : worker'[w].phase = "gone") => nextIndex' > Len(Records)
      BY <1>1, CrewIs
    <2> QED BY <2>1, <2>2 DEF RecordsTaken
  <1>5. EveryLineAccounted'
    BY <1>1 DEF EveryLineAccounted
  <1> QED BY <1>2, <1>3, <1>4, <1>5 DEF PrepIInv, AtRecord

\* An abort takes nothing away.
LEMMA AbortKeeps ==
  ASSUME PrepIInv, PrepareAborts
  PROVE  PrepIInv'
  <1>1. /\ aborted' = TRUE /\ state' = state /\ nextIndex' = nextIndex /\ resolved' = resolved
        /\ worker' = worker /\ output' = output
    BY DEF PrepareAborts
  <1>2. PrepTypes' /\ AtRecord' /\ RecordsTaken'
    BY <1>1 DEF PrepIInv, PrepTypes, AtRecord, RecordsTaken, Busy
  <1>3. EveryLineAccounted'
    BY <1>1 DEF PrepIInv, EveryLineAccounted
  <1> QED BY <1>2, <1>3 DEF PrepIInv

\* A worker moves and the cursor stays: the record it was at has its result, or it
\* is still at it.
LEMMA WorkerKeeps ==
  ASSUME PrepareAssumption, PrepIInv, NEW w \in Resolvers, NEW v \in WorkerAt,
         worker' = [worker EXCEPT ![w] = v], nextIndex' = nextIndex, aborted' = aborted,
         output' = output, state' \in {state, "cancelled"}, DOMAIN resolved' = DOMAIN resolved,
         v.phase \in {"acquiring", "resolving", "pausing"} => Busy(w) /\ v.index = worker[w].index,
         \A k \in DOMAIN Records : ~At(w, k) => resolved'[k] = resolved[k],
         \A k \in DOMAIN Records : At(w, k) =>
           resolved'[k] \in PostResults(k) \/ v.phase \in {"acquiring", "resolving", "pausing"},
         v.phase = "gone" => aborted \/ nextIndex > Len(Records)
  PROVE  PrepIInv'
  <1>1. /\ worker' \in [Resolvers -> WorkerAt] /\ worker'[w] = v
        /\ \A u \in Resolvers : u # w => worker'[u] = worker[u]
    BY DEF PrepIInv, PrepTypes
  <1>2. PrepTypes'
    BY <1>1 DEF PrepIInv, PrepTypes
  <1>3. AtRecord'
    <2> SUFFICES ASSUME NEW u \in Resolvers, Busy(u)'
                 PROVE  worker'[u].index \in DOMAIN Records /\ Records[worker'[u].index].short
      BY DEF AtRecord
    <2>1. CASE u = w
      BY <1>1, <2>1 DEF PrepIInv, AtRecord, Busy
    <2>2. CASE u # w
      BY <1>1, <2>2 DEF PrepIInv, AtRecord, Busy
    <2> QED BY <2>1, <2>2
  <1>4. RecordsTaken'
    <2> SUFFICES ASSUME state' = "running", ~aborted'
                 PROVE  /\ \A k \in DOMAIN Records : k < nextIndex' =>
                              (resolved'[k] \in PostResults(k) \/ \E u \in Resolvers : At(u, k)')
                        /\ (\A u \in Resolvers : worker'[u].phase = "gone") => nextIndex' > Len(Records)
      BY DEF RecordsTaken, PostResults
    <2>1. state = "running" /\ ~aborted
      OBVIOUS
    <2>2. ASSUME NEW k \in DOMAIN Records, k < nextIndex'
          PROVE  resolved'[k] \in PostResults(k) \/ \E u \in Resolvers : At(u, k)'
      <3>1. resolved[k] \in PostResults(k) \/ \E u \in Resolvers : At(u, k)
        BY <2>1, <2>2 DEF PrepIInv, RecordsTaken
      <3>2. CASE At(w, k)
        <4>1. v.phase \in {"acquiring", "resolving", "pausing"} => At(w, k)'
          BY <1>1, <3>2 DEF At, Busy
        <4> QED BY <4>1, <3>2
      <3>3. CASE ~At(w, k)
        <4>1. resolved'[k] = resolved[k]
          BY <3>3
        <4>2. \A u \in Resolvers : At(u, k) => At(u, k)'
          BY <1>1, <3>3 DEF At, Busy
        <4> QED BY <3>1, <4>1, <4>2
      <3> QED BY <3>2, <3>3
    <2>3. ASSUME \A u \in Resolvers : worker'[u].phase = "gone"
          PROVE  nextIndex' > Len(Records)
      BY <2>1, <2>3, <1>1
    <2> QED BY <2>2, <2>3
  <1>5. EveryLineAccounted'
    <2>1. state' = "prepared" => state = "prepared"
      OBVIOUS
    <2> QED BY <2>1 DEF PrepIInv, EveryLineAccounted
  <1> QED BY <1>2, <1>3, <1>4, <1>5 DEF PrepIInv

\* A record that is taken has its result at once, or the worker at it.
LEMMA TakeKeeps ==
  ASSUME PrepareAssumption, PrepIInv, NEW w \in Resolvers, Take(w)
  PROVE  PrepIInv'
  <1>1. worker[w].phase = "taking" /\ state' = state /\ aborted' = aborted /\ output' = output
    BY DEF Take
  <1>2. ~Busy(w)
    BY <1>1 DEF Busy
  <1>3. CASE aborted \/ nextIndex > Len(Records)
    <2>1. worker' = [worker EXCEPT ![w] = Off("gone")] /\ nextIndex' = nextIndex /\ resolved' = resolved
      BY <1>3 DEF Take
    <2>2. Off("gone") \in WorkerAt /\ Off("gone").phase = "gone"
      BY DEF Off, WorkerAt
    <2>3. \A k \in DOMAIN Records : ~At(w, k)
      BY <1>2 DEF At
    <2> QED BY <1>1, <1>3, <2>1, <2>2, <2>3, WorkerKeeps
  <1>4. CASE ~(aborted \/ nextIndex > Len(Records))
    <2> DEFINE taken == Records[nextIndex]
    <2>1. nextIndex \in DOMAIN Records /\ nextIndex \in Nat /\ Len(Records) \in Nat
      <3>1. nextIndex \in Nat \ {0}
        BY DEF PrepIInv, PrepTypes
      <3>2. DOMAIN Records = 1..Len(Records) /\ Len(Records) \in Nat
        BY RecordsAre
      <3> QED BY <1>4, <3>1, <3>2
    <2>2. nextIndex' = nextIndex + 1
      BY <1>4 DEF Take
    <2>3. EveryLineAccounted'
      BY <1>1 DEF PrepIInv, EveryLineAccounted
    <2>4. \A k \in DOMAIN Records : k \in Int
      BY RecordsAre
    <2>5. \A k \in DOMAIN Records : k < nextIndex' => k < nextIndex \/ k = nextIndex
      BY <2>1, <2>2, <2>4
    <2>6. CASE taken.short /\ taken.url \notin cache
      <3> DEFINE v == [phase |-> "acquiring", index |-> nextIndex, attempts |-> 1]
      <3>1. worker' = [worker EXCEPT ![w] = v] /\ resolved' = resolved
        BY <1>4, <2>6 DEF Take
      <3>2. v \in WorkerAt /\ v.phase = "acquiring" /\ v.index = nextIndex
        BY <2>1 DEF WorkerAt
      <3> HIDE DEF v
      <3>3. /\ worker' \in [Resolvers -> WorkerAt] /\ worker'[w] = v
            /\ \A u \in Resolvers : u # w => worker'[u] = worker[u]
        BY <3>1, <3>2 DEF PrepIInv, PrepTypes
      <3>4. PrepTypes'
        BY <1>1, <2>1, <2>2, <3>1, <3>3 DEF PrepIInv, PrepTypes
      <3>5. AtRecord'
        <4> SUFFICES ASSUME NEW u \in Resolvers, Busy(u)'
                     PROVE  worker'[u].index \in DOMAIN Records /\ Records[worker'[u].index].short
          BY DEF AtRecord
        <4>1. CASE u = w
          BY <2>1, <2>6, <3>2, <3>3, <4>1
        <4>2. CASE u # w
          BY <3>3, <4>2 DEF PrepIInv, AtRecord, Busy
        <4> QED BY <4>1, <4>2
      <3>6. RecordsTaken'
        <4>1. ~(\A u \in Resolvers : worker'[u].phase = "gone")
          BY <3>2, <3>3
        <4>3. \A k : \A u \in Resolvers : At(u, k) => At(u, k)'
          <5>1. \A u \in Resolvers : Busy(u) => u # w
            BY <1>2
          <5> QED BY <5>1, <3>3 DEF At, Busy
        <4>4. state = "running" /\ ~aborted => \A k \in DOMAIN Records : k < nextIndex =>
                  (resolved[k] \in PostResults(k) \/ \E u \in Resolvers : At(u, k))
          BY DEF PrepIInv, RecordsTaken
        <4> SUFFICES ASSUME state' = "running", ~aborted', NEW k \in DOMAIN Records, k < nextIndex'
                     PROVE  resolved'[k] \in PostResults(k) \/ \E u \in Resolvers : At(u, k)'
          BY <4>1 DEF RecordsTaken, PostResults
        <4>5. CASE k = nextIndex
          <5>1. At(w, k)'
            <6>1. worker'[w].phase = "acquiring" /\ worker'[w].index = k
              BY <3>2, <3>3, <4>5
            <6> QED BY <6>1 DEF At, Busy
          <5> QED BY <5>1
        <4>6. CASE k < nextIndex
          BY <1>1, <3>1, <4>3, <4>4, <4>6
        <4> QED BY <2>5, <4>5, <4>6
      <3> QED BY <2>3, <3>4, <3>5, <3>6 DEF PrepIInv
    <2>7. CASE ~(taken.short /\ taken.url \notin cache)
      <3> DEFINE item == Ready(taken, IF taken.short THEN LeadsTo[taken.url] ELSE taken.url)
      <3>1. worker' = worker /\ resolved' = [resolved EXCEPT ![nextIndex] = item]
        BY <1>4, <2>7 DEF Take
      <3>2. item \in PostResults(nextIndex)
        <4>1. item = Ready(Records[nextIndex], Post(Records[nextIndex].position))
          BY <2>1, PostOf
        <4> QED BY <4>1 DEF PostResults
      <3> HIDE DEF item
      <3>3. /\ DOMAIN resolved' = DOMAIN resolved /\ DOMAIN resolved = DOMAIN Records
            /\ resolved'[nextIndex] = item
            /\ \A k \in DOMAIN Records : k # nextIndex => resolved'[k] = resolved[k]
        BY <2>1, <3>1 DEF PrepIInv, PrepTypes
      <3>4. PrepTypes'
        BY <1>1, <2>1, <2>2, <3>1, <3>3 DEF PrepIInv, PrepTypes
      <3>5. AtRecord'
        BY <3>1 DEF PrepIInv, AtRecord, Busy
      <3>6. RecordsTaken'
        <4>1. ~(\A u \in Resolvers : worker'[u].phase = "gone")
          BY <1>1, <3>1
        <4>3. \A k : \A u \in Resolvers : At(u, k) => At(u, k)'
          BY <3>1 DEF At, Busy
        <4>4. state = "running" /\ ~aborted => \A k \in DOMAIN Records : k < nextIndex =>
                  (resolved[k] \in PostResults(k) \/ \E u \in Resolvers : At(u, k))
          BY DEF PrepIInv, RecordsTaken
        <4> SUFFICES ASSUME state' = "running", ~aborted', NEW k \in DOMAIN Records, k < nextIndex'
                     PROVE  resolved'[k] \in PostResults(k) \/ \E u \in Resolvers : At(u, k)'
          BY <4>1 DEF RecordsTaken, PostResults
        <4>5. CASE k = nextIndex
          BY <3>2, <3>3, <4>5
        <4>6. CASE k < nextIndex
          <5>1. k # nextIndex
            BY <4>6, <2>1
          <5>2. resolved'[k] = resolved[k]
            BY <5>1, <3>3
          <5> QED BY <1>1, <5>2, <4>3, <4>4, <4>6
        <4> QED BY <2>5, <4>5, <4>6
      <3> QED BY <2>3, <3>4, <3>5, <3>6 DEF PrepIInv
    <2> QED BY <2>6, <2>7
  <1> QED BY <1>3, <1>4

\* A worker that stays at its record: it is granted a proxy, pauses, or goes on.
LEMMA StaysKeeps ==
  ASSUME PrepareAssumption, PrepIInv, NEW w \in Resolvers, Busy(w), NEW v \in WorkerAt,
         worker' = [worker EXCEPT ![w] = v], v.index = worker[w].index,
         v.phase \in {"acquiring", "resolving", "pausing"},
         nextIndex' = nextIndex, aborted' = aborted, output' = output, state' = state, resolved' = resolved
  PROVE  PrepIInv'
  BY WorkerKeeps

\* A worker that leaves its record, with a result of it.
LEMMA LeavesKeeps ==
  ASSUME PrepareAssumption, PrepIInv, NEW w \in Resolvers, Busy(w),
         NEW item, item \in PostResults(worker[w].index),
         resolved' = ResolvedAt(w, item), worker' = [worker EXCEPT ![w] = Off("taking")],
         nextIndex' = nextIndex, aborted' = aborted, output' = output, state' = state
  PROVE  PrepIInv'
  <1>1. Off("taking") \in WorkerAt /\ Off("taking").phase = "taking"
    BY DEF Off, WorkerAt
  <1>2. worker[w].index \in DOMAIN Records /\ DOMAIN resolved = DOMAIN Records
    BY DEF PrepIInv, AtRecord, PrepTypes
  <1>3. resolved' = [resolved EXCEPT ![worker[w].index] = item]
    BY DEF ResolvedAt
  <1>4. /\ DOMAIN resolved' = DOMAIN resolved /\ resolved'[worker[w].index] = item
        /\ \A k \in DOMAIN Records : k # worker[w].index => resolved'[k] = resolved[k]
    BY <1>2, <1>3
  <1>5. \A k \in DOMAIN Records : ~At(w, k) => resolved'[k] = resolved[k]
    BY <1>4 DEF At
  <1>6. \A k \in DOMAIN Records : At(w, k) => resolved'[k] \in PostResults(k)
    BY <1>4 DEF At
  <1> QED BY <1>1, <1>4, <1>5, <1>6, WorkerKeeps

\* A failed attempt is retried, or kept as the result.
LEMMA FailsKeeps ==
  ASSUME PrepareAssumption, PrepIInv, NEW w \in Resolvers, Busy(w),
         NEW code \in {"proxy_error", "timeout", "not_found", "cancelled"}, NEW retryable \in BOOLEAN,
         Fails(w, code, retryable)
  PROVE  PrepIInv'
  <1>1. nextIndex' = nextIndex /\ aborted' = aborted /\ output' = output /\ state' = state
    BY DEF Fails
  <1>2. worker[w] \in WorkerAt /\ worker \in [Resolvers -> WorkerAt]
    BY DEF PrepIInv, PrepTypes
  <1>3. CASE retryable /\ worker[w].attempts < MaxAttempts
    <2> DEFINE v == [worker[w] EXCEPT !.phase = "pausing"]
    <2>1. worker' = [worker EXCEPT ![w].phase = "pausing"] /\ resolved' = resolved
      BY <1>3 DEF Fails
    <2>2. worker' = [worker EXCEPT ![w] = v]
      BY <2>1
    <2>3. v \in WorkerAt /\ v.index = worker[w].index /\ v.phase = "pausing"
      BY <1>2 DEF WorkerAt
    <2> HIDE DEF v
    <2> QED BY <1>1, <2>1, <2>2, <2>3, StaysKeeps
  <1>4. CASE ~(retryable /\ worker[w].attempts < MaxAttempts)
    <2> DEFINE item == FailedItem(Records[worker[w].index], code)
    <2>1. resolved' = ResolvedAt(w, item) /\ worker' = [worker EXCEPT ![w] = Off("taking")]
      BY <1>4 DEF Fails, Keeps
    <2>2. item \in PostResults(worker[w].index)
      BY DEF PostResults
    <2> HIDE DEF item
    <2> QED BY <1>1, <2>1, <2>2, LeavesKeeps
  <1> QED BY <1>3, <1>4

\* Every step of a worker keeps the invariant.
LEMMA StepKeeps ==
  ASSUME PrepareAssumption, PrepIInv, NEW w \in Resolvers, Step(w)
  PROVE  PrepIInv'
  <1>1. worker[w] \in WorkerAt /\ worker \in [Resolvers -> WorkerAt]
    BY DEF PrepIInv, PrepTypes
  <1>2. CASE Take(w)
    BY <1>2, TakeKeeps
  <1>3. CASE Granted(w)
    <2> DEFINE v == [worker[w] EXCEPT !.phase = "resolving"]
    <2>1. /\ worker[w].phase = "acquiring" /\ worker' = [worker EXCEPT ![w].phase = "resolving"]
          /\ nextIndex' = nextIndex /\ aborted' = aborted /\ output' = output /\ state' = state
          /\ resolved' = resolved
      BY <1>3 DEF Granted
    <2>2. worker' = [worker EXCEPT ![w] = v] /\ Busy(w)
      BY <2>1 DEF Busy
    <2>3. v \in WorkerAt /\ v.index = worker[w].index /\ v.phase = "resolving"
      BY <1>1 DEF WorkerAt
    <2> HIDE DEF v
    <2> QED BY <2>1, <2>2, <2>3, StaysKeeps
  <1>4. CASE Succeeds(w)
    <2> DEFINE k == worker[w].index
               item == Ready(Records[k], LeadsTo[Records[k].url])
    <2>1. /\ worker[w].phase = "resolving" /\ resolved' = ResolvedAt(w, item)
          /\ worker' = [worker EXCEPT ![w] = Off("taking")]
          /\ nextIndex' = nextIndex /\ aborted' = aborted /\ output' = output /\ state' = state
      BY <1>4 DEF Succeeds
    <2>2. Busy(w)
      BY <2>1 DEF Busy
    <2>3. k \in DOMAIN Records /\ Records[k].short
      BY <2>2 DEF PrepIInv, AtRecord
    <2>4. Post(Records[k].position) = LeadsTo[Records[k].url]
      BY <2>3, PostOf
    <2>5. item \in PostResults(k)
      BY <2>4 DEF PostResults
    <2> HIDE DEF item
    <2> QED BY <2>1, <2>2, <2>5, LeavesKeeps
  <1>5. CASE Refused(w)
    <2>1. Busy(w) /\ Fails(w, "proxy_error", TRUE)
      BY <1>5 DEF Refused, Busy
    <2> QED BY <2>1, FailsKeeps
  <1>6. CASE Unresolved(w)
    <2>1. Busy(w)
      BY <1>6 DEF Unresolved, Busy
    <2>2. Fails(w, "timeout", TRUE) \/ Fails(w, "not_found", FALSE)
      BY <1>6 DEF Unresolved
    <2>3. CASE Fails(w, "timeout", TRUE)
      BY <2>1, <2>3, FailsKeeps
    <2>4. CASE Fails(w, "not_found", FALSE)
      BY <2>1, <2>4, FailsKeeps
    <2> QED BY <2>2, <2>3, <2>4
  <1>7. CASE Interrupted(w)
    <2>1. Busy(w) /\ Fails(w, "cancelled", FALSE)
      BY <1>7 DEF Interrupted, Busy
    <2> QED BY <2>1, FailsKeeps
  <1>8. CASE PauseEnds(w)
    <2> DEFINE v == [worker[w] EXCEPT !.phase = "acquiring", !.attempts = worker[w].attempts + 1]
    <2>1. /\ worker[w].phase = "pausing"
          /\ nextIndex' = nextIndex /\ aborted' = aborted /\ output' = output /\ state' = state
          /\ resolved' = resolved
      BY <1>8 DEF PauseEnds
    <2>2. worker' = [worker EXCEPT ![w] = v] /\ Busy(w)
      BY <1>1, <1>8 DEF PauseEnds, Busy, WorkerAt
    <2>3. worker[w].attempts \in Nat
      BY <1>1 DEF WorkerAt
    <2>4. worker[w].attempts + 1 \in Nat
      BY <2>3
    <2>5. v \in WorkerAt /\ v.index = worker[w].index /\ v.phase = "acquiring"
      <3> DEFINE n == worker[w].attempts + 1
      <3>1. n \in Nat
        BY <2>4
      <3> HIDE DEF n
      <3>2. [worker[w] EXCEPT !.phase = "acquiring", !.attempts = n] \in WorkerAt
        BY <1>1, <3>1 DEF WorkerAt
      <3>3. /\ [worker[w] EXCEPT !.phase = "acquiring", !.attempts = n].index = worker[w].index
            /\ [worker[w] EXCEPT !.phase = "acquiring", !.attempts = n].phase = "acquiring"
        BY <1>1 DEF WorkerAt
      <3> QED BY <3>2, <3>3 DEF n
    <2> HIDE DEF v
    <2> QED BY <2>1, <2>2, <2>5, StaysKeeps
  <1>9. CASE PauseRejects(w)
    <2>1. /\ aborted /\ worker' = [worker EXCEPT ![w] = Off("gone")] /\ state' = "cancelled"
          /\ nextIndex' = nextIndex /\ aborted' = aborted /\ output' = output /\ resolved' = resolved
          /\ worker[w].phase = "pausing"
      BY <1>9 DEF PauseRejects
    <2>2. Off("gone") \in WorkerAt /\ Off("gone").phase = "gone"
      BY DEF Off, WorkerAt
    <2>3. worker'[w] = Off("gone") /\ \A u \in Resolvers : u # w => worker'[u] = worker[u]
      BY <1>1, <2>1
    <2>4. worker' \in [Resolvers -> WorkerAt]
      BY <1>1, <2>1, <2>2
    <2>5. PrepTypes'
      BY <2>1, <2>4 DEF PrepIInv, PrepTypes
    <2>6. AtRecord'
      <3> SUFFICES ASSUME NEW u \in Resolvers, Busy(u)'
                   PROVE  worker'[u].index \in DOMAIN Records /\ Records[worker'[u].index].short
        BY DEF AtRecord
      <3>1. u # w
        BY <2>2, <2>3 DEF Busy
      <3> QED BY <3>1, <2>3 DEF PrepIInv, AtRecord, Busy
    <2>7. RecordsTaken' /\ EveryLineAccounted'
      BY <2>1 DEF RecordsTaken, EveryLineAccounted
    <2> QED BY <2>5, <2>6, <2>7 DEF PrepIInv
  <1> QED BY <1>2, <1>3, <1>4, <1>5, <1>6, <1>7, <1>8, <1>9 DEF Step

\* When the workers are gone every record has been taken and has its result.
LEMMA SettleKeeps ==
  ASSUME PrepareAssumption, PrepIInv, Settle
  PROVE  PrepIInv'
  <1>1. /\ state = "running" /\ \A w \in Resolvers : worker[w].phase = "gone"
        /\ aborted' = aborted /\ nextIndex' = nextIndex /\ resolved' = resolved /\ worker' = worker
        /\ state' \in {"cancelled", "prepared"}
    BY DEF Settle
  <1>2. PrepTypes' /\ AtRecord' /\ RecordsTaken'
    BY <1>1 DEF PrepIInv, PrepTypes, AtRecord, RecordsTaken, Busy
  <1>3. CASE aborted
    <2>1. state' = "cancelled"
      BY <1>3 DEF Settle
    <2>2. EveryLineAccounted'
      BY <2>1 DEF EveryLineAccounted
    <2> QED BY <1>2, <2>2 DEF PrepIInv
  <1>4. CASE ~aborted
    <2>1. output' = [items |-> ResultItems, issues |-> ResultIssues]
      BY <1>4 DEF Settle, ResultItems, ResultIssues
    <2>2. AllDone
      <3>1. nextIndex > Len(Records) /\ nextIndex \in Nat
        BY <1>1, <1>4 DEF PrepIInv, RecordsTaken, PrepTypes
      <3>2. \A k \in DOMAIN Records : k < nextIndex
        BY <3>1, RecordsAre
      <3>3. \A w \in Resolvers : ~Busy(w)
        BY <1>1 DEF Busy
      <3>4. \A k \in DOMAIN Records : resolved[k] \in PostResults(k)
        BY <1>1, <1>4, <3>2, <3>3 DEF PrepIInv, RecordsTaken, At
      <3> QED BY <3>4 DEF PrepIInv, PrepTypes, AllDone
    <2>3. Accounts(output')
      BY <2>1, <2>2, SettleAccounts
    <2>4. EveryLineAccounted'
      BY <2>3 DEF EveryLineAccounted, Accounts, Post
    <2> QED BY <1>2, <2>4 DEF PrepIInv
  <1> QED BY <1>3, <1>4

\* Nothing the user pasted is dropped in silence or scraped twice: for every text,
\* every set of links and workers, and every order of their steps.
THEOREM LinesAccounted ==
  ASSUME PrepareAssumption
  PROVE  PrepareSpec => []EveryLineAccounted
  <1>1. PrepareInit => PrepIInv
    BY PrepInitIInv
  <1>2. PrepIInv /\ [PrepareNext]_prepareVars => PrepIInv'
    <2> SUFFICES ASSUME PrepIInv, [PrepareNext]_prepareVars PROVE PrepIInv'
      OBVIOUS
    <2>1. CASE PrepareAgain
      BY <2>1, AgainKeeps
    <2>2. CASE PrepareAborts
      BY <2>2, AbortKeeps
    <2>3. CASE Settle
      BY <2>3, SettleKeeps
    <2>4. CASE \E w \in Resolvers : Step(w)
      BY <2>4, StepKeeps
    <2>5. CASE UNCHANGED prepareVars
      <3>1. PrepTypes' /\ AtRecord' /\ RecordsTaken'
        BY <2>5 DEF PrepIInv, PrepTypes, AtRecord, RecordsTaken, Busy, At, PostResults, prepareVars
      <3>2. EveryLineAccounted'
        BY <2>5 DEF PrepIInv, EveryLineAccounted, prepareVars
      <3> QED BY <3>1, <3>2 DEF PrepIInv
    <2> QED BY <2>1, <2>2, <2>3, <2>4, <2>5 DEF PrepareNext
  <1>3. PrepIInv => EveryLineAccounted
    BY DEF PrepIInv
  <1> QED BY <1>1, <1>2, <1>3, PTL DEF PrepareSpec

-----------------------------------------------------------------------------
(* The diagnosis of the concurrency.                                          *)

\* The demand is a number, as a quotient rounded up is.
LEMMA CeilDivNat ==
  ASSUME NEW a \in Nat, NEW b \in Nat \ {0}
  PROVE  CeilDiv(a, b) \in Nat
  <1>1. a + b - 1 \in Nat
    OBVIOUS
  <1>2. \A n \in Nat : n \div b \in Nat
    OBVIOUS
  <1> QED BY <1>1, <1>2 DEF CeilDiv

\* What is asked for, and what counts as a fall.
LEMMA DemandIs ==
  ASSUME DiagnosisAssumption
  PROVE  /\ Demand \in Nat /\ Demand <= Configured /\ Demand <= Accepted
         /\ Demand = Configured \/ Demand = Accepted
         /\ MaterialDrop \in Nat
         /\ Demand > 0 => MaterialDrop > 0
  <1>1. Demand = IF Configured <= Accepted THEN Configured ELSE Accepted
    BY MinOfTwo DEF DiagnosisAssumption, Demand
  <1>2. Demand \in Nat
    BY <1>1 DEF DiagnosisAssumption
  <1>3. MaterialDrop = (Demand + 4) \div 5
    BY <1>2 DEF MaterialDrop, CeilDiv
  <1> QED BY <1>1, <1>2, <1>3 DEF DiagnosisAssumption

\* The monitor's two figures are those of what it has seen and warned of.
MonitorTypes ==
  /\ minimumKnownCapacity \in Nat \cup {Null} /\ limitedBaseline \in Nat \cup {Null}
  /\ seen \in Seq(Nat) /\ Len(seen) <= MaxObservations /\ warned \in Seq(Nat)
LowestSeen ==
  /\ minimumKnownCapacity = Null <=> seen = <<>>
  /\ seen # <<>> => /\ \A i \in DOMAIN seen : minimumKnownCapacity <= seen[i]
                    /\ \E i \in DOMAIN seen : minimumKnownCapacity = seen[i]
BaselineIsLastWarned ==
  /\ limitedBaseline = Null <=> warned = <<>>
  /\ warned # <<>> => limitedBaseline = warned[Len(warned)]
Warned ==
  /\ seen # <<>> /\ seen[Len(seen)] < Demand =>
       warned # <<>> /\ warned[Len(warned)] - seen[Len(seen)] < MaterialDrop
  /\ \A i \in 1..Len(warned)-1 : warned[i] - warned[i + 1] >= MaterialDrop
Reported ==
  /\ report # Null => report.findings \subseteq FindingCodes
  /\ ShortfallExplained
DiagnosisIInv == MonitorTypes /\ LowestSeen /\ BaselineIsLastWarned /\ Warned /\ Reported

\* The invariant holds at first.
LEMMA DiagnosisInitIInv ==
  ASSUME DiagnosisAssumption, DiagnosisInit PROVE DiagnosisIInv
  <1>1. MonitorTypes /\ LowestSeen /\ BaselineIsLastWarned
    BY DEF DiagnosisAssumption, DiagnosisInit, MonitorTypes, LowestSeen, BaselineIsLastWarned
  <1>2. Warned /\ Reported
    BY DEF DiagnosisInit, Warned, Reported, ShortfallExplained
  <1> QED BY <1>1, <1>2 DEF DiagnosisIInv

\* An observation.
LEMMA ObserveKeeps ==
  ASSUME DiagnosisAssumption, DiagnosisIInv, NEW capacity \in Capacities, Observe(capacity)
  PROVE  DiagnosisIInv'
  <1>1. /\ capacity \in Nat /\ Demand \in Nat /\ MaterialDrop \in Nat
        /\ Demand > 0 => MaterialDrop > 0
    <2>1. capacity \in Nat
      BY DEF DiagnosisAssumption
    <2> QED BY <2>1, DemandIs
  <1>2. /\ seen' = Append(seen, capacity) /\ report' = report /\ Len(seen) < MaxObservations
        /\ minimumKnownCapacity' = IF minimumKnownCapacity = Null THEN capacity
                                   ELSE Min({minimumKnownCapacity, capacity})
    BY DEF Observe
  <1>3. /\ seen' \in Seq(Nat) /\ Len(seen') = Len(seen) + 1 /\ seen' # <<>>
        /\ seen'[Len(seen')] = capacity /\ \A i \in DOMAIN seen : seen'[i] = seen[i]
        /\ Len(seen') \in Nat /\ Len(seen') <= MaxObservations
    <2>1. seen \in Seq(Nat) /\ seen' = Append(seen, capacity) /\ MaxObservations \in Nat
      BY <1>2 DEF DiagnosisIInv, MonitorTypes, DiagnosisAssumption
    <2>2. /\ seen' \in Seq(Nat) /\ Len(seen') = Len(seen) + 1
          /\ seen'[Len(seen) + 1] = capacity /\ \A i \in 1..Len(seen) : seen'[i] = seen[i]
      BY <2>1, <1>1, AppendProperties
    <2> QED BY <2>1, <2>2, <1>2, LenProperties
  <1>4. /\ minimumKnownCapacity' \in Nat
        /\ \A i \in DOMAIN seen' : minimumKnownCapacity' <= seen'[i]
        /\ \E i \in DOMAIN seen' : minimumKnownCapacity' = seen'[i]
    <2>1. CASE minimumKnownCapacity = Null
      <3>1. Len(seen) = 0 /\ minimumKnownCapacity' = capacity
        BY <2>1, <1>2 DEF DiagnosisIInv, LowestSeen
      <3> QED BY <3>1, <1>1, <1>3
    <2>2. CASE minimumKnownCapacity # Null
      <3>1. minimumKnownCapacity \in Nat /\ seen # <<>>
        BY <2>2 DEF DiagnosisIInv, MonitorTypes, LowestSeen
      <3>2. minimumKnownCapacity' = IF minimumKnownCapacity <= capacity
                                    THEN minimumKnownCapacity ELSE capacity
        BY <3>1, <2>2, <1>1, <1>2, MinOfTwo
      <3>3. /\ \A i \in DOMAIN seen : minimumKnownCapacity <= seen[i] /\ seen[i] \in Nat
            /\ \E i \in DOMAIN seen : minimumKnownCapacity = seen[i]
        BY <3>1 DEF DiagnosisIInv, MonitorTypes, LowestSeen
      <3>4. DOMAIN seen = 1..Len(seen) /\ DOMAIN seen' = 1..Len(seen) + 1 /\ Len(seen) \in Nat
        BY <1>3 DEF DiagnosisIInv, MonitorTypes
      <3>5. \A i \in DOMAIN seen' : minimumKnownCapacity' <= seen'[i]
        <4> TAKE i \in DOMAIN seen'
        <4>1. CASE i \in DOMAIN seen
          BY <4>1, <3>1, <3>2, <3>3, <1>1, <1>3
        <4>2. CASE i = Len(seen')
          BY <4>2, <3>1, <3>2, <1>1, <1>3
        <4> QED BY <4>1, <4>2, <3>4, <1>3
      <3>6. \E i \in DOMAIN seen' : minimumKnownCapacity' = seen'[i]
        <4>1. CASE minimumKnownCapacity' = capacity
          BY <4>1, <1>3, <3>4
        <4>2. CASE minimumKnownCapacity' = minimumKnownCapacity
          BY <4>2, <3>3, <1>3, <3>4
        <4> QED BY <4>1, <4>2, <3>2
      <3> QED BY <3>1, <3>2, <3>5, <3>6, <1>1
    <2> QED BY <2>1, <2>2
  <1>5. LowestSeen'
    BY <1>3, <1>4 DEF LowestSeen, DiagnosisAssumption
  <1>6. Reported'
    BY <1>2 DEF DiagnosisIInv, Reported, ShortfallExplained
  <1>7. CASE capacity >= Demand /\ limitedBaseline' = Null /\ warned' = <<>>
    <2>1. MonitorTypes' /\ BaselineIsLastWarned'
      BY <1>7, <1>3, <1>4 DEF MonitorTypes, BaselineIsLastWarned
    <2>2. Warned'
      BY <1>7, <1>1, <1>3 DEF Warned, Demand, MaterialDrop
    <2> QED BY <2>1, <2>2, <1>5, <1>6 DEF DiagnosisIInv
  <1>8. CASE /\ capacity < Demand /\ Falls(capacity)
             /\ limitedBaseline' = capacity /\ warned' = Append(warned, capacity)
    <2>1. /\ warned' \in Seq(Nat) /\ Len(warned') = Len(warned) + 1 /\ warned' # <<>>
          /\ warned'[Len(warned')] = capacity /\ \A i \in 1..Len(warned) : warned'[i] = warned[i]
          /\ Len(warned) \in Nat /\ warned \in Seq(Nat)
      <3>1. warned \in Seq(Nat) /\ warned' = Append(warned, capacity)
        BY <1>8 DEF DiagnosisIInv, MonitorTypes
      <3>2. /\ warned' \in Seq(Nat) /\ Len(warned') = Len(warned) + 1
            /\ warned'[Len(warned) + 1] = capacity
            /\ \A i \in 1..Len(warned) : warned'[i] = warned[i]
        BY <3>1, <1>1, AppendProperties
      <3> QED BY <3>1, <3>2, LenProperties
    <2>2. MonitorTypes' /\ BaselineIsLastWarned'
      <3>1. Null \notin Nat
        BY DEF DiagnosisAssumption
      <3> QED BY <3>1, <2>1, <1>8, <1>1, <1>3, <1>4 DEF MonitorTypes, BaselineIsLastWarned
    <2>3. \A i \in 1..Len(warned')-1 : warned'[i] - warned'[i + 1] >= MaterialDrop
      <3> TAKE i \in 1..Len(warned')-1
      <3>1. CASE i < Len(warned)
        <4>1. i \in 1..Len(warned)-1 /\ i \in 1..Len(warned) /\ i + 1 \in 1..Len(warned)
          BY <3>1, <2>1
        <4>2. warned[i] - warned[i + 1] >= MaterialDrop
          BY <4>1 DEF DiagnosisIInv, Warned
        <4>3. warned'[i] = warned[i] /\ warned'[i + 1] = warned[i + 1]
          BY <4>1, <2>1
        <4> QED BY <4>2, <4>3
      <3>2. CASE i = Len(warned)
        <4>1. warned # <<>> /\ limitedBaseline = warned[i] /\ limitedBaseline # Null
          BY <3>2, <2>1 DEF DiagnosisIInv, BaselineIsLastWarned
        <4>2. limitedBaseline - capacity >= MaterialDrop
          BY <4>1, <1>8 DEF Falls
        <4>3. warned'[i] = warned[i] /\ warned'[i + 1] = capacity
          BY <3>2, <2>1
        <4> QED BY <4>1, <4>2, <4>3
      <3> QED BY <3>1, <3>2, <2>1
    <2>4. warned'[Len(warned')] - seen'[Len(seen')] < MaterialDrop
      BY <2>1, <1>3, <1>1, <1>8
    <2>5. Warned'
      BY <2>1, <2>3, <2>4 DEF Warned, Demand, MaterialDrop
    <2> QED BY <2>2, <2>5, <1>5, <1>6 DEF DiagnosisIInv
  <1>9. CASE /\ capacity < Demand /\ ~Falls(capacity)
             /\ limitedBaseline' = limitedBaseline /\ warned' = warned
    <2>1. MonitorTypes' /\ BaselineIsLastWarned'
      BY <1>9, <1>3, <1>4 DEF DiagnosisIInv, MonitorTypes, BaselineIsLastWarned
    <2>2. /\ limitedBaseline # Null /\ ~(limitedBaseline - capacity >= MaterialDrop)
      BY <1>9 DEF Falls
    <2>3. warned # <<>> /\ limitedBaseline = warned[Len(warned)] /\ limitedBaseline \in Nat
      BY <2>2 DEF DiagnosisIInv, BaselineIsLastWarned, MonitorTypes
    <2>4. warned'[Len(warned')] - seen'[Len(seen')] < MaterialDrop
      BY <2>2, <2>3, <1>1, <1>3, <1>9
    <2>5. Warned'
      BY <2>3, <2>4, <1>9 DEF DiagnosisIInv, Warned, Demand, MaterialDrop
    <2> QED BY <2>1, <2>5, <1>5, <1>6 DEF DiagnosisIInv
  <1> QED BY <1>7, <1>8, <1>9 DEF Observe

\* What is called achievable is the least of the ceilings that are known.
LEMMA KnownHasMin ==
  ASSUME NEW c, {c.configured, c.input, c.admission} \subseteq Nat,
         {c.proxy, c.http} \subseteq Nat \cup {Null}, Null \notin Nat
  PROVE  Min(Known(c)) \in Known(c) /\ \A y \in Known(c) : Min(Known(c)) <= y
  <1>1. Known(c) \in SUBSET Nat /\ Known(c) # {}
    BY DEF Known
  <1>2. \E x \in Known(c) : \A y \in Known(c) : x <= y
    BY <1>1, NatMin
  <1> QED BY <1>1, <1>2, MinIs

\* The ceilings are numbers, or unknown.
LEMMA CeilingsAre ==
  ASSUME DiagnosisAssumption, NEW m \in Figures
  PROVE  AdmissionCeiling(m) \in Nat /\ HttpCeiling(m) \in Nat \cup {Null}
  <1>1. /\ m.meanLatencyMs \in Nat \cup {Null} /\ m.httpRpm \in Nat \cup {Null}
        /\ m.observed \in Nat /\ m.targetRpm \in Nat /\ m.requests \in Nat
        /\ m.jobs \in Nat /\ m.httpWaitMs \in Nat
        /\ MinuteMs \in Nat \ {0}
    BY DEF DiagnosisAssumption
  <1>2. \A a, b \in Nat : a * b \in Nat
    OBVIOUS
  <1>3. AdmissionCeiling(m) \in Nat
    <2>1. ResolvedBurst(m.targetRpm) \in Nat
      <3>1. CeilDiv(m.targetRpm, 60) \in Nat
        BY <1>1, CeilDivNat
      <3> QED BY <3>1, MaxOfNat DEF ResolvedBurst
    <2>2. (IF m.meanLatencyMs = Null THEN 0
           ELSE CeilDiv(m.targetRpm * m.meanLatencyMs, MinuteMs)) \in Nat
      BY <1>1, <1>2, CeilDivNat
    <2> QED BY <2>1, <2>2, <1>1, MaxOfNat DEF AdmissionCeiling
  <1>4. HttpCeiling(m) \in Nat \cup {Null}
    <2> DEFINE service == m.meanLatencyMs * m.jobs - m.httpWaitMs
               off == \/ m.httpRpm = Null \/ m.meanLatencyMs = Null \/ m.jobs = 0
                      \/ m.requests = 0 \/ service <= 0
    <2>1. HttpCeiling(m) = IF off THEN Null
            ELSE Max({1, CeilDiv(m.httpRpm * service, m.requests * MinuteMs)})
      BY DEF HttpCeiling
    <2>2. CASE off
      BY <2>1, <2>2
    <2>3. CASE ~off
      <3>1. m.meanLatencyMs \in Nat /\ m.httpRpm \in Nat /\ m.requests # 0
        BY <2>3, <1>1
      <3>2. m.meanLatencyMs * m.jobs \in Nat
        BY <3>1, <1>1, <1>2
      <3>3. service \in Nat
        <4>1. service \in Int
          BY <3>2, <1>1
        <4>2. ~(service <= 0)
          BY <2>3
        <4> HIDE DEF service
        <4> QED BY <4>1, <4>2
      <3> HIDE DEF service
      <3>4. m.httpRpm * service \in Nat
        BY <3>1, <3>3, <1>2
      <3>5. m.requests * MinuteMs \in Nat \ {0}
        <4>1. \A a, b \in Nat \ {0} : a * b # 0
          OBVIOUS
        <4> QED BY <4>1, <3>1, <1>1, <1>2
      <3>6. CeilDiv(m.httpRpm * service, m.requests * MinuteMs) \in Nat
        BY <3>4, <3>5, CeilDivNat
      <3>7. Max({1, CeilDiv(m.httpRpm * service, m.requests * MinuteMs)}) \in Nat
        BY <3>6, MaxOfNat
      <3> QED BY <3>7, <2>1, <2>3
    <2> HIDE DEF off
    <2> QED BY <2>2, <2>3
  <1> QED BY <1>3, <1>4

\* The diagnosis explains itself, whatever was measured.
LEMMA DiagnoseKeeps ==
  ASSUME DiagnosisAssumption, DiagnosisIInv, Diagnose
  PROVE  DiagnosisIInv'
  <1>1. PICK m \in Figures : report' = Evaluate(m)
    BY DEF Diagnose
  <1>2. /\ minimumKnownCapacity' = minimumKnownCapacity /\ limitedBaseline' = limitedBaseline
        /\ seen' = seen /\ warned' = warned
    BY DEF Diagnose
  <1>3. MonitorTypes' /\ LowestSeen' /\ BaselineIsLastWarned' /\ Warned'
    BY <1>2 DEF DiagnosisIInv, MonitorTypes, LowestSeen, BaselineIsLastWarned, Warned,
                Demand, MaterialDrop
  <1> DEFINE c == [configured |-> Configured, input |-> Accepted,
                   admission |-> AdmissionCeiling(m), proxy |-> minimumKnownCapacity,
                   http |-> HttpCeiling(m)]
             a == Min(Known(c))
             Binds(x) == x # Null /\ x = a /\ x < Demand
             limits == {code \in Limiting :
                       \/ code = "admission_limited" /\ m.admissionWaitMs > 0
                                                     /\ Binds(c.admission)
                       \/ code = "proxy_capacity_limited" /\ Binds(c.proxy)
                       \/ code = "http_rate_limited" /\ Binds(c.http)}
             others == {code \in FindingCodes \ Limiting :
                       \/ code = "small_input" /\ Accepted < Configured /\ Accepted = a
                       \/ code = "proxy_capacity_unknown" /\ m.residential /\ c.proxy = Null
                       \/ code = "serialized" /\ a > 0 /\ m.queueDemand > 0
                                              /\ 5 * m.observed <= 4 * a /\ limits = {}}
  <1>4. report' = [achievable |-> a, ceilings |-> c, findings |-> limits \cup others]
    BY <1>1 DEF Evaluate
  <1>5. /\ c.configured = Configured /\ c.input = Accepted /\ c.admission \in Nat
        /\ c.proxy \in Nat \cup {Null} /\ c.http \in Nat \cup {Null} /\ Null \notin Nat
        /\ Configured \in Nat /\ Accepted \in Nat
    BY CeilingsAre DEF DiagnosisIInv, MonitorTypes, DiagnosisAssumption
  <1>6. Demand \in Nat /\ Demand <= Configured /\ Demand <= Accepted
    BY DemandIs
  <1>7. limits \subseteq Limiting /\ others \cap Limiting = {}
        /\ limits \subseteq FindingCodes /\ others \subseteq FindingCodes
    BY DEF Limiting, FindingCodes
  <1>8. "serialized" \in others => limits = {}
    OBVIOUS
  <1>9. /\ "proxy_capacity_limited" \in limits <=> Binds(c.proxy)
        /\ "http_rate_limited" \in limits <=> Binds(c.http)
    BY DEF Limiting
  <1> HIDE DEF c, limits, others
  <1>10. a \in Known(c) /\ \A y \in Known(c) : a <= y
    BY <1>5, KnownHasMin
  <1>11. Known(c) = {c.configured, c.input, c.admission} \cup ({c.proxy, c.http} \ {Null})
    BY DEF Known
  <1>12. Known(c) = {c.configured, c.input, c.admission, c.proxy, c.http} \ {Null}
    BY <1>11, <1>5
  <1> HIDE DEF a
  <1>13. /\ report'.achievable = a /\ report'.ceilings = c /\ report'.findings = limits \cup others
    BY <1>4
  <1>14. a < Demand => limits # {} \/ a = c.admission
    <2> SUFFICES ASSUME a < Demand, a # c.admission PROVE limits # {}
      OBVIOUS
    <2>1. a # c.configured /\ a # c.input /\ a \in Nat
      BY <1>5, <1>6, <1>10, <1>11
    <2>2. a = c.proxy \/ a = c.http
      BY <2>1, <1>10, <1>11
    <2>3. Binds(c.proxy) \/ Binds(c.http)
      BY <2>1, <2>2, <1>5
    <2> QED BY <2>3, <1>9
  <1>15. "serialized" \in limits \cup others => (limits \cup others) \cap Limiting = {}
    <2>1. "serialized" \notin Limiting
      BY DEF Limiting
    <2> QED BY <2>1, <1>7, <1>8
  <1>16. ShortfallExplained'
    BY <1>7, <1>10, <1>12, <1>13, <1>14, <1>15 DEF ShortfallExplained, Demand
  <1>17. Reported'
    BY <1>7, <1>13, <1>16 DEF Reported
  <1> QED BY <1>3, <1>17 DEF DiagnosisIInv

\* What the invariant says of the monitor is what is promised of it.
LEMMA DiagnosisPromises ==
  ASSUME DiagnosisAssumption, DiagnosisIInv PROVE DiagnosisHolds
  <1>1. DiagnosisTypeOK
    BY DEF DiagnosisIInv, MonitorTypes, Reported, DiagnosisTypeOK
  <1>2. ASSUME seen # <<>> PROVE minimumKnownCapacity = Min({seen[i] : i \in DOMAIN seen})
    <2> DEFINE S == {seen[i] : i \in DOMAIN seen}
    <2>1. S \in SUBSET Int /\ minimumKnownCapacity \in S /\ \A y \in S : minimumKnownCapacity <= y
      BY <1>2 DEF DiagnosisIInv, MonitorTypes, LowestSeen
    <2>2. Min(S) \in S /\ \A y \in S : Min(S) <= y
      BY <2>1, MinIs
    <2> HIDE DEF S
    <2>3. minimumKnownCapacity <= Min(S) /\ Min(S) <= minimumKnownCapacity
      BY <2>1, <2>2
    <2>4. Min(S) \in Int /\ minimumKnownCapacity \in Int
      BY <2>1, <2>2
    <2>5. \A a, b \in Int : a <= b /\ b <= a => a = b
      OBVIOUS
    <2>6. minimumKnownCapacity = Min(S)
      BY <2>3, <2>4, <2>5
    <2> QED BY <2>6 DEF S
  <1>3. ShortageIsWarned
    BY <1>2 DEF DiagnosisIInv, Warned, ShortageIsWarned
  <1> QED BY <1>1, <1>3 DEF DiagnosisIInv, Reported, DiagnosisHolds

\* The monitor warns of every shortage, and the diagnosis puts it down to what
\* caused it: for every demand, every capacity observed and every measurement.
THEOREM DiagnosisIsTrue ==
  ASSUME DiagnosisAssumption
  PROVE  DiagnosisSpec => []DiagnosisHolds
  <1>1. DiagnosisInit => DiagnosisIInv
    BY DiagnosisInitIInv
  <1>2. DiagnosisIInv /\ [DiagnosisNext]_diagnosisVars => DiagnosisIInv'
    <2> SUFFICES ASSUME DiagnosisIInv, [DiagnosisNext]_diagnosisVars PROVE DiagnosisIInv'
      OBVIOUS
    <2>1. CASE \E capacity \in Capacities : Observe(capacity)
      BY <2>1, ObserveKeeps
    <2>2. CASE Diagnose
      BY <2>2, DiagnoseKeeps
    <2>3. CASE UNCHANGED diagnosisVars
      BY <2>3 DEF diagnosisVars, DiagnosisIInv, MonitorTypes, LowestSeen,
                  BaselineIsLastWarned, Warned, Reported, ShortfallExplained, Demand, MaterialDrop
    <2> QED BY <2>1, <2>2, <2>3 DEF DiagnosisNext
  <1>3. DiagnosisIInv => DiagnosisHolds
    BY DiagnosisPromises
  <1> QED BY <1>1, <1>2, <1>3, PTL DEF DiagnosisSpec

-----------------------------------------------------------------------------
(* The throughput.                                                            *)

\* When a sample begins, and what the history is: samples of the session's time,
\* each beginning where the one before it ended, of which the buffer holds the
\* newest.
Began(i) == history[i].tMs - history[i].span
TimelineTypes ==
  /\ elapsed \in 0..LastInstant /\ completed \in Nat
  /\ last \in [at : 0..LastInstant, completed : Nat]
  /\ last.at <= elapsed /\ last.completed <= completed
  /\ samples \in Seq(Sample) /\ Len(samples) <= MaxSamples
  /\ history \in Seq(Sample) /\ produced = Len(history)
Newest ==
  /\ Len(samples) <= Len(history)
  /\ \A i \in 1..Len(samples) : samples[i] = history[Len(history) - Len(samples) + i]
Contiguous ==
  /\ \A i \in 1..Len(history) : history[i].tMs <= last.at
  /\ \A i \in 1..Len(history) : Began(i) = IF i = 1 THEN 0 ELSE history[i - 1].tMs
  /\ \A i, j \in 1..Len(history) : i < j => history[i].tMs <= Began(j)
  /\ last.at = IF history = <<>> THEN 0 ELSE history[Len(history)].tMs
TimelineIInv == TimelineTypes /\ Newest /\ Contiguous

\* The invariant holds at first.
LEMMA TimelineInitIInv == ASSUME TimelineAssumption, TimelineInit PROVE TimelineIInv
  <1>1. LastInstant \in Nat /\ MaxSamples \in Nat
    BY DEF TimelineAssumption
  <1>2. TimelineTypes
    BY <1>1 DEF TimelineInit, TimelineTypes
  <1>3. Newest /\ Contiguous
    BY DEF TimelineInit, Newest, Contiguous
  <1> QED BY <1>2, <1>3 DEF TimelineIInv

\* Time passes and results complete, and nothing is sampled.
LEMMA WorkKeeps == ASSUME TimelineAssumption, TimelineIInv, Work PROVE TimelineIInv'
  <1>1. PICK n \in 0..MaxBurst : completed' = completed + n
    BY DEF Work
  <1>2. n \in Nat /\ LastInstant \in Nat
    BY DEF TimelineAssumption
  <1>3. /\ elapsed < LastInstant /\ elapsed' = elapsed + 1 /\ last' = last
        /\ samples' = samples /\ produced' = produced /\ history' = history
    BY DEF Work
  <1>4. TimelineTypes'
    BY <1>1, <1>2, <1>3 DEF TimelineIInv, TimelineTypes
  <1>5. Newest' /\ Contiguous'
    BY <1>3 DEF TimelineIInv, Newest, Contiguous, Began
  <1> QED BY <1>4, <1>5 DEF TimelineIInv

\* A sample begins where the one before it ended, and takes the oldest one's
\* place when the buffer is full.
LEMMA SampleKeeps == ASSUME TimelineAssumption, TimelineIInv, RecordSample PROVE TimelineIInv'
  <1> DEFINE sample == [tMs |-> elapsed, span |-> elapsed - last.at, done |-> completed - last.completed]
             all == Append(samples, sample)
  <1>1. /\ elapsed > last.at /\ last' = [at |-> elapsed, completed |-> completed]
        /\ samples' = IF Len(all) > MaxSamples THEN Tail(all) ELSE all
        /\ produced' = produced + 1 /\ history' = Append(history, sample)
        /\ elapsed' = elapsed /\ completed' = completed
    BY DEF RecordSample
  <1>2. /\ elapsed \in 0..LastInstant /\ completed \in Nat /\ LastInstant \in Nat
        /\ last.at \in 0..LastInstant /\ last.completed \in Nat /\ last.completed <= completed
        /\ samples \in Seq(Sample) /\ Len(samples) <= MaxSamples /\ MaxSamples \in Nat
        /\ history \in Seq(Sample) /\ produced = Len(history)
    BY DEF TimelineIInv, TimelineTypes, TimelineAssumption
  <1>3. sample \in Sample
    <2>1. elapsed \in 1..LastInstant /\ elapsed - last.at \in 1..LastInstant
      BY <1>1, <1>2
    <2>2. completed - last.completed \in Nat
      BY <1>2
    <2> QED BY <2>1, <2>2 DEF Sample
  <1>4. sample.tMs = elapsed /\ sample.span = elapsed - last.at
    OBVIOUS
  <1> HIDE DEF sample
  <1>5. /\ history' \in Seq(Sample) /\ Len(history') = Len(history) + 1 /\ history' # <<>>
        /\ history'[Len(history) + 1] = sample
        /\ \A i \in 1..Len(history) : history'[i] = history[i]
    BY <1>1, <1>2, <1>3, AppendProperties
  <1>6. /\ all \in Seq(Sample) /\ Len(all) = Len(samples) + 1 /\ all # <<>>
        /\ all[Len(samples) + 1] = sample
        /\ \A i \in 1..Len(samples) : all[i] = samples[i]
    BY <1>2, <1>3, AppendProperties
  <1> HIDE DEF all
  <1>7. Len(samples) \in Nat /\ Len(history) \in Nat
    BY <1>2, LenProperties
  <1>8. /\ samples' \in Seq(Sample) /\ Len(samples') <= MaxSamples
        /\ Len(samples') <= Len(history')
        /\ \A i \in 1..Len(samples') : samples'[i] = history'[Len(history') - Len(samples') + i]
    <2>1. \A i \in 1..Len(all) : all[i] = history'[Len(history') - Len(all) + i]
      <3> TAKE i \in 1..Len(all)
      <3>1. CASE i = Len(samples) + 1
        BY <3>1, <1>5, <1>6, <1>7
      <3>2. CASE i \in 1..Len(samples)
        <4>1. samples[i] = history[Len(history) - Len(samples) + i]
              /\ Len(samples) <= Len(history)
          BY <3>2 DEF TimelineIInv, Newest
        <4>2. Len(history) - Len(samples) + i \in 1..Len(history)
          BY <4>1, <3>2, <1>7
        <4>3. Len(history') - Len(all) + i = Len(history) - Len(samples) + i
          BY <1>5, <1>6, <1>7, <3>2
        <4> QED BY <4>1, <4>2, <4>3, <3>2, <1>5, <1>6
      <3> QED BY <3>1, <3>2, <1>6, <1>7
    <2>2. Len(all) <= Len(history')
      BY <1>5, <1>6, <1>7 DEF TimelineIInv, Newest
    <2>3. CASE Len(all) > MaxSamples
      <3>1. samples' = Tail(all)
        BY <2>3, <1>1
      <3>2. /\ samples' \in Seq(Sample) /\ Len(samples') = Len(all) - 1
            /\ \A i \in 1..Len(samples') : samples'[i] = all[i + 1]
        BY <3>1, <1>6, HeadTailProperties
      <3>3. \A i \in 1..Len(samples') : samples'[i] = history'[Len(history') - Len(samples') + i]
        <4> TAKE i \in 1..Len(samples')
        <4>1. i + 1 \in 1..Len(all)
          BY <3>2, <1>6, <1>7
        <4>2. Len(history') - Len(all) + (i + 1) = Len(history') - Len(samples') + i
          BY <3>2, <1>5, <1>6, <1>7
        <4> QED BY <4>1, <4>2, <2>1, <3>2
      <3> QED BY <3>2, <3>3, <2>2, <1>2, <1>5, <1>6, <1>7
    <2>4. CASE ~(Len(all) > MaxSamples)
      <3>1. samples' = all /\ Len(all) <= MaxSamples
        BY <2>4, <1>1, <1>2, <1>6, <1>7
      <3> QED BY <3>1, <2>1, <2>2, <1>6
    <2> QED BY <2>3, <2>4
  <1>9. TimelineTypes'
    <2>1. produced' = Len(history')
      BY <1>1, <1>2, <1>5
    <2>2. last'.at = elapsed /\ last'.completed = completed
          /\ last' \in [at : 0..LastInstant, completed : Nat]
      BY <1>1, <1>2
    <2> QED BY <2>1, <2>2, <1>1, <1>2, <1>5, <1>8 DEF TimelineTypes
  <1>10. Newest'
    BY <1>8 DEF Newest
  <1>11. \A i \in 1..Len(history) : history[i] \in Sample /\ history[i].tMs <= last.at
    BY <1>2, <1>7 DEF TimelineIInv, Contiguous
  <1>12. \A i \in 1..Len(history) : Began(i)' = Began(i)
    BY <1>5 DEF Began
  <1>13. /\ \A j : j = Len(history) + 1 => Began(j)' = last.at
         /\ last'.at = elapsed
    <2>1. \A a, b \in Int : a - (a - b) = b
      OBVIOUS
    <2>2. elapsed \in Int /\ last.at \in Int
      BY <1>2
    <2>3. sample.tMs - sample.span = last.at
      BY <2>1, <2>2, <1>4
    <2> QED BY <2>3, <1>1, <1>5 DEF Began
  <1>14. last.at = IF history = <<>> THEN 0 ELSE history[Len(history)].tMs
    BY DEF TimelineIInv, Contiguous
  <1>15. \A i \in 1..Len(history') : history'[i].tMs <= last'.at
    <2> TAKE i \in 1..Len(history')
    <2>1. CASE i \in 1..Len(history)
      <3>1. history'[i].tMs \in Int /\ history'[i].tMs <= last.at
        <4>1. history'[i] = history[i] /\ history[i] \in Sample /\ history[i].tMs <= last.at
          BY <2>1, <1>5, <1>11
        <4>2. history[i].tMs \in Int
          BY <4>1, <1>2 DEF Sample
        <4> QED BY <4>1, <4>2
      <3> QED BY <3>1, <1>1, <1>2, <1>13
    <2>2. CASE i = Len(history) + 1
      BY <2>2, <1>2, <1>4, <1>5, <1>13
    <2> QED BY <2>1, <2>2, <1>5, <1>7
  <1>16. \A i \in 1..Len(history') : Began(i)' = IF i = 1 THEN 0 ELSE history'[i - 1].tMs
    <2> TAKE i \in 1..Len(history')
    <2>1. CASE i \in 1..Len(history)
      <3>1. i # 1 => i - 1 \in 1..Len(history)
        BY <2>1, <1>7
      <3>2. Began(i) = IF i = 1 THEN 0 ELSE history[i - 1].tMs
        BY <2>1 DEF TimelineIInv, Contiguous
      <3> QED BY <2>1, <3>1, <3>2, <1>5, <1>12
    <2>2. CASE i = Len(history) + 1
      <3>1. history = <<>> <=> i = 1
        BY <2>2, <1>2, <1>7, EmptySeq
      <3>2. i # 1 => i - 1 = Len(history) /\ i - 1 \in 1..Len(history)
        BY <2>2, <1>7
      <3> QED BY <2>2, <3>1, <3>2, <1>5, <1>13, <1>14
    <2> QED BY <2>1, <2>2, <1>5, <1>7
  <1>17. \A i, j \in 1..Len(history') : i < j => history'[i].tMs <= Began(j)'
    <2> SUFFICES ASSUME NEW i \in 1..Len(history'), NEW j \in 1..Len(history'), i < j
                 PROVE  history'[i].tMs <= Began(j)'
      OBVIOUS
    <2>1. i \in 1..Len(history) /\ history'[i] = history[i]
      BY <1>5, <1>7
    <2>2. CASE j \in 1..Len(history)
      <3>1. history[i].tMs <= Began(j)
        BY <2>1, <2>2 DEF TimelineIInv, Contiguous
      <3> QED BY <2>1, <2>2, <3>1, <1>12
    <2>3. CASE j = Len(history) + 1
      BY <2>1, <2>3, <1>11, <1>13
    <2> QED BY <2>2, <2>3, <1>5, <1>7
  <1>18. last'.at = IF history' = <<>> THEN 0 ELSE history'[Len(history')].tMs
    BY <1>4, <1>5, <1>13
  <1>19. Contiguous'
    BY <1>15, <1>16, <1>17, <1>18 DEF Contiguous
  <1> QED BY <1>9, <1>10, <1>19 DEF TimelineIInv

-----------------------------------------------------------------------------
\* The two walks over the samples are what their equations say.
Unmet == [start |-> <<>>, previous |-> 0, best |-> NoWindow]
FollowsTo(f, m) == f = [n \in 0..m |-> IF n = 0 THEN Unmet ELSE Extend(f[n - 1], samples[n])]
LEMMA FollowedIs ==
  ASSUME Len(samples) \in Nat
  PROVE  /\ Followed[0] = Unmet
         /\ \A n \in 1..Len(samples) : Followed[n] = Extend(Followed[n - 1], samples[n])
  <1> DEFINE Bad == {m \in Nat : ~\E f : FollowsTo(f, m)}
  <1>1. Bad = {}
    <2> SUFFICES ASSUME Bad # {} PROVE FALSE
      OBVIOUS
    <2>1. PICK m \in Bad : \A k \in Bad : m <= k
      <3>1. Bad \in SUBSET Nat
        OBVIOUS
      <3> HIDE DEF Bad
      <3> QED BY <3>1, NatMin
    <2>2. m \in Nat /\ ~\E f : FollowsTo(f, m)
      BY <2>1
    <2>3. m # 0
      <3>1. FollowsTo([n \in 0..0 |-> Unmet], 0)
        BY DEF FollowsTo
      <3> QED BY <3>1, <2>2
    <2>4. PICK g : FollowsTo(g, m - 1)
      <3>1. m - 1 \in Nat /\ ~(m <= m - 1)
        BY <2>2, <2>3
      <3> QED BY <3>1, <2>1
    <2> DEFINE f == [n \in 0..m |-> IF n < m THEN g[n] ELSE Extend(g[m - 1], samples[m])]
    <2>5. FollowsTo(f, m)
      <3>1. f[m] = Extend(g[m - 1], samples[m]) /\ \A n \in 0..(m - 1) : f[n] = g[n]
        BY <2>2, <2>3
      <3>2. ASSUME NEW n \in 0..m
            PROVE  f[n] = IF n = 0 THEN Unmet ELSE Extend(f[n - 1], samples[n])
        <4>1. CASE n = m
          <5>1. m - 1 \in 0..(m - 1)
            BY <2>2, <2>3
          <5> HIDE DEF f
          <5> QED BY <4>1, <5>1, <3>1, <2>3
        <4>2. CASE n # m
          <5>1. n \in 0..(m - 1) /\ (n # 0 => n - 1 \in 0..(m - 1))
            BY <4>2, <2>2
          <5>2. g[n] = IF n = 0 THEN Unmet ELSE Extend(g[n - 1], samples[n])
            BY <5>1, <2>4 DEF FollowsTo
          <5> HIDE DEF f
          <5> QED BY <5>1, <5>2, <3>1
        <4> QED BY <4>1, <4>2
      <3> QED BY <3>2 DEF FollowsTo
    <2> QED BY <2>2, <2>5
  <1>2. PICK f : FollowsTo(f, Len(samples))
    BY <1>1
  <1>3. FollowsTo(Followed, Len(samples))
    <2>1. Followed = CHOOSE h : h = [n \in 0..Len(samples) |-> IF n = 0 THEN Unmet
                                                  ELSE Extend(h[n - 1], samples[n])]
      BY DEF Followed, Unmet
    <2> QED BY <1>2, <2>1 DEF FollowsTo
  <1> QED BY <1>3 DEF FollowsTo

Lowest == [tMs |-> 0, span |-> 1, done |-> 0]
HigherOf(s, t) == IF AtLeast(s, t) THEN s ELSE t
RisesTo(f, m) == f = [n \in 0..m |-> IF n = 0 THEN Lowest ELSE HigherOf(samples[n], f[n - 1])]
LEMMA HighestIs ==
  ASSUME Len(samples) \in Nat
  PROVE  /\ Highest[0] = Lowest
         /\ \A n \in 1..Len(samples) : Highest[n] = HigherOf(samples[n], Highest[n - 1])
  <1> DEFINE Bad == {m \in Nat : ~\E f : RisesTo(f, m)}
  <1>1. Bad = {}
    <2> SUFFICES ASSUME Bad # {} PROVE FALSE
      OBVIOUS
    <2>1. PICK m \in Bad : \A k \in Bad : m <= k
      <3>1. Bad \in SUBSET Nat
        OBVIOUS
      <3> HIDE DEF Bad
      <3> QED BY <3>1, NatMin
    <2>2. m \in Nat /\ ~\E f : RisesTo(f, m)
      BY <2>1
    <2>3. m # 0
      <3>1. RisesTo([n \in 0..0 |-> Lowest], 0)
        BY DEF RisesTo
      <3> QED BY <3>1, <2>2
    <2>4. PICK g : RisesTo(g, m - 1)
      <3>1. m - 1 \in Nat /\ ~(m <= m - 1)
        BY <2>2, <2>3
      <3> QED BY <3>1, <2>1
    <2> DEFINE f == [n \in 0..m |-> IF n < m THEN g[n] ELSE HigherOf(samples[m], g[m - 1])]
    <2>5. RisesTo(f, m)
      <3>1. f[m] = HigherOf(samples[m], g[m - 1]) /\ \A n \in 0..(m - 1) : f[n] = g[n]
        BY <2>2, <2>3
      <3>2. ASSUME NEW n \in 0..m
            PROVE  f[n] = IF n = 0 THEN Lowest ELSE HigherOf(samples[n], f[n - 1])
        <4>1. CASE n = m
          <5>1. m - 1 \in 0..(m - 1)
            BY <2>2, <2>3
          <5> HIDE DEF f
          <5> QED BY <4>1, <5>1, <3>1, <2>3
        <4>2. CASE n # m
          <5>1. n \in 0..(m - 1) /\ (n # 0 => n - 1 \in 0..(m - 1))
            BY <4>2, <2>2
          <5>2. g[n] = IF n = 0 THEN Lowest ELSE HigherOf(samples[n], g[n - 1])
            BY <5>1, <2>4 DEF RisesTo
          <5> HIDE DEF f
          <5> QED BY <5>1, <5>2, <3>1
        <4> QED BY <4>1, <4>2
      <3> QED BY <3>2 DEF RisesTo
    <2> QED BY <2>2, <2>5
  <1>2. PICK f : RisesTo(f, Len(samples))
    BY <1>1
  <1>3. RisesTo(Highest, Len(samples))
    <2>1. Highest = CHOOSE h : h = [n \in 0..Len(samples) |-> IF n = 0 THEN Lowest
                                                 ELSE HigherOf(samples[n], h[n - 1])]
      BY DEF Highest, Lowest, HigherOf
    <2> QED BY <1>2, <2>1 DEF RisesTo
  <1> QED BY <1>3 DEF RisesTo

-----------------------------------------------------------------------------
\* At least as high a rate is an order.
LEMMA RateOrder ==
  ASSUME NEW a \in Nat, NEW p \in Nat, NEW b \in Nat, NEW q \in Nat \ {0},
         NEW c \in Nat, NEW r \in Nat, a * q >= b * p, b * r >= c * q
  PROVE  a * r >= c * p
  <1>1. (a * q) * r >= (b * p) * r /\ (b * r) * p >= (c * q) * p
    <2>1. \A x, y, z \in Nat : x >= y => x * z >= y * z
      OBVIOUS
    <2>2. \A x, y \in Nat : x * y \in Nat
      OBVIOUS
    <2> QED BY <2>1, <2>2
  <1>2. /\ (a * q) * r = q * (a * r) /\ (b * p) * r = (b * r) * p
        /\ (c * q) * p = q * (c * p)
    OBVIOUS
  <1>3. q * (a * r) >= q * (c * p)
    <2>1. \A x, y \in Nat : x * y \in Nat
      OBVIOUS
    <2> QED BY <1>1, <1>2, <2>1
  <1>4. a * r \in Nat /\ c * p \in Nat
    OBVIOUS
  <1>5. \A x, y \in Nat : q * x >= q * y => x >= y
    OBVIOUS
  <1> QED BY <1>3, <1>4, <1>5

-----------------------------------------------------------------------------
\* What the history is, for the lemmas below: its figures are numbers, and a
\* sample begins no sooner than an earlier one.
LEMMA HistoryIs ==
  ASSUME TimelineAssumption, TimelineIInv
  PROVE  /\ Len(history) \in Nat /\ DOMAIN history = 1..Len(history)
         /\ \A i \in 1..Len(history) :
              /\ history[i].tMs \in Nat /\ history[i].span \in Nat \ {0} /\ history[i].done \in Nat
              /\ Began(i) \in Int /\ Began(i) < history[i].tMs
         /\ \A i, j \in 1..Len(history) : i <= j => Began(i) <= Began(j)
  <1>1. history \in Seq(Sample) /\ LastInstant \in Nat
    BY DEF TimelineIInv, TimelineTypes, TimelineAssumption
  <1>2. Len(history) \in Nat /\ DOMAIN history = 1..Len(history)
    BY <1>1, LenProperties
  <1>3. ASSUME NEW i \in 1..Len(history)
        PROVE  /\ history[i].tMs \in Nat /\ history[i].span \in Nat \ {0} /\ history[i].done \in Nat
               /\ Began(i) \in Int /\ Began(i) < history[i].tMs
    <2>1. history[i] \in Sample
      BY <1>1
    <2>2. history[i].tMs \in Nat /\ history[i].span \in Nat \ {0} /\ history[i].done \in Nat
      BY <2>1, <1>1 DEF Sample
    <2> QED BY <2>2 DEF Began
  <1>4. ASSUME NEW i \in 1..Len(history), NEW j \in 1..Len(history), i <= j
        PROVE  Began(i) <= Began(j)
    <2>1. CASE i = j
      BY <2>1, <1>3
    <2>2. CASE i < j
      <3>1. history[i].tMs <= Began(j)
        BY <2>2 DEF TimelineIInv, Contiguous
      <3> QED BY <3>1, <1>3
    <2> QED BY <1>2, <1>4, <2>1, <2>2
  <1> QED BY <1>2, <1>3, <1>4

\* With nothing dropped, the buffer is the history.
LEMMA BufferIs ==
  ASSUME TimelineAssumption, TimelineIInv, produced = Len(samples)
  PROVE  Len(samples) = Len(history) /\ \A i \in 1..Len(history) : samples[i] = history[i]
  <1>1. Len(history) \in Nat /\ Len(samples) = Len(history)
    BY HistoryIs DEF TimelineIInv, TimelineTypes
  <1> QED BY <1>1 DEF TimelineIInv, Newest

\* What the walk knows after n samples: where it is, where the stretch that ends
\* there began, and the longest of the stretches so far.
Knows(n) ==
  LET a == Followed[n]
  IN  /\ a.previous = IF n = 0 THEN 0 ELSE history[n].tMs
      /\ n = 0 \/ ~Held(history[n]) => a.start = <<>>
      /\ n # 0 /\ Held(history[n]) =>
           \E i \in 1..n : /\ a.start = <<Began(i)>> /\ \A k \in i..n : Held(history[k])
                           /\ i > 1 => ~Held(history[i - 1])
      /\ a.best.windowMs \in Nat
      /\ \A s \in Stretches : s[2] <= n => LengthOf(s[1], s[2]) <= a.best.windowMs
      /\ a.best.windowMs > 0 =>
           \E s \in Stretches : /\ s[2] <= n /\ history[s[2]].tMs = a.best.toMs
                                /\ LengthOf(s[1], s[2]) = a.best.windowMs

\* What one stretch of the samples is.
LEMMA StretchIs ==
  ASSUME TimelineAssumption, TimelineIInv
  PROVE  /\ \A s \in Stretches : /\ s[1] \in 1..Len(history) /\ s[2] \in 1..Len(history)
                                 /\ s[1] <= s[2] /\ \A k \in s[1]..s[2] : Held(history[k])
                                 /\ LengthOf(s[1], s[2]) \in Nat \ {0}
         /\ \A i, j \in 1..Len(history) : i <= j /\ (\A k \in i..j : Held(history[k])) =>
               <<i, j>> \in Stretches
  <1>1. \A s \in Stretches : /\ s[1] \in 1..Len(history) /\ s[2] \in 1..Len(history)
                             /\ s[1] <= s[2] /\ \A k \in s[1]..s[2] : Held(history[k])
    BY HistoryIs DEF Stretches
  <1>2. ASSUME NEW s \in Stretches PROVE LengthOf(s[1], s[2]) \in Nat \ {0}
    <2>1. /\ Began(s[1]) <= Began(s[2]) /\ Began(s[2]) < history[s[2]].tMs
          /\ Began(s[1]) \in Int /\ Began(s[2]) \in Int /\ history[s[2]].tMs \in Nat
      BY <1>1, HistoryIs
    <2>2. LengthOf(s[1], s[2]) = history[s[2]].tMs - Began(s[1])
      BY DEF LengthOf, Began
    <2> QED BY <2>1, <2>2
  <1>3. \A i, j \in 1..Len(history) : i <= j /\ (\A k \in i..j : Held(history[k])) =>
               <<i, j>> \in Stretches
    BY HistoryIs DEF Stretches
  <1> QED BY <1>1, <1>2, <1>3

\* A sample more, and the walk still knows the longest stretch before it.
LEMMA KnowsNext ==
  ASSUME TimelineAssumption, TimelineIInv, produced = Len(samples),
         NEW n \in 1..Len(history), Knows(n - 1)
  PROVE  Knows(n)
  <1> DEFINE a == Followed[n - 1]
             b == Followed[n]
             t == history[n].tMs
  <1>1. b = Extend(a, history[n])
    <2>1. Len(samples) \in Nat /\ n \in 1..Len(samples) /\ samples[n] = history[n]
      BY BufferIs, HistoryIs
    <2> QED BY <2>1, FollowedIs
  <1>2. /\ a.previous = IF n - 1 = 0 THEN 0 ELSE history[n - 1].tMs
        /\ n - 1 = 0 \/ ~Held(history[n - 1]) => a.start = <<>>
        /\ n - 1 # 0 /\ Held(history[n - 1]) =>
             \E i \in 1..(n - 1) : /\ a.start = <<Began(i)>> /\ \A k \in i..(n - 1) : Held(history[k])
                                   /\ i > 1 => ~Held(history[i - 1])
        /\ a.best.windowMs \in Nat
        /\ \A s \in Stretches : s[2] <= n - 1 => LengthOf(s[1], s[2]) <= a.best.windowMs
        /\ a.best.windowMs > 0 =>
             \E s \in Stretches : /\ s[2] <= n - 1 /\ history[s[2]].tMs = a.best.toMs
                                  /\ LengthOf(s[1], s[2]) = a.best.windowMs
    BY DEF Knows
  <1>3. n \in Nat /\ n # 0 /\ Len(history) \in Nat
    BY HistoryIs
  <1>4. Began(n) = a.previous
    BY <1>2, <1>3 DEF TimelineIInv, Contiguous
  <1> DEFINE start == IF a.start = <<>> THEN <<a.previous>> ELSE a.start
             window == [windowMs |-> t - start[1], fromMs |-> start[1], toMs |-> t]
  <1>5. b = IF Held(history[n])
            THEN [start |-> start, previous |-> t,
                  best |-> IF window.windowMs > a.best.windowMs THEN window ELSE a.best]
            ELSE [start |-> <<>>, previous |-> t, best |-> a.best]
    BY <1>1 DEF Extend, BeginsAt
  <1> HIDE DEF a, b
  <1>6. CASE ~Held(history[n])
    <2>1. b.start = <<>> /\ b.previous = t /\ b.best = a.best
      BY <1>5, <1>6
    <2>2. \A s \in Stretches : s[2] <= n => s[2] <= n - 1
      <3> TAKE s \in Stretches
      <3>1. s[2] \in Int /\ s[2] # n
        BY <1>6, StretchIs
      <3> QED BY <3>1, <1>3
    <2>3. \A s \in Stretches : s[2] <= n - 1 => s[2] <= n
      BY <1>3, StretchIs
    <2>4. b.best.windowMs \in Nat
          /\ \A s \in Stretches : s[2] <= n => LengthOf(s[1], s[2]) <= b.best.windowMs
      BY <2>1, <2>2, <1>2
    <2>5. b.best.windowMs > 0 =>
           \E s \in Stretches : /\ s[2] <= n /\ history[s[2]].tMs = b.best.toMs
                                /\ LengthOf(s[1], s[2]) = b.best.windowMs
      BY <2>1, <2>3, <1>2
    <2> QED BY <2>1, <2>4, <2>5, <1>3, <1>6 DEF Knows, b
  <1>7. CASE Held(history[n])
    <2>1. PICK i \in 1..n : /\ start = <<Began(i)>> /\ \A k \in i..n : Held(history[k])
                            /\ i > 1 => ~Held(history[i - 1])
      <3>1. CASE n - 1 # 0 /\ Held(history[n - 1])
        <4>1. PICK i \in 1..(n - 1) : /\ a.start = <<Began(i)>>
                                      /\ \A k \in i..(n - 1) : Held(history[k])
                                      /\ i > 1 => ~Held(history[i - 1])
          BY <3>1, <1>2
        <4>2. start = <<Began(i)>>
          BY <4>1
        <4>3. \A k \in i..n : k = n \/ k \in i..(n - 1)
          BY <1>3
        <4> QED BY <4>1, <4>2, <4>3, <1>3, <1>7
      <3>2. CASE n - 1 = 0 \/ ~Held(history[n - 1])
        <4>1. start = <<Began(n)>>
          BY <3>2, <1>2, <1>4
        <4>2. n > 1 => ~Held(history[n - 1])
          BY <3>2, <1>3
        <4>3. n \in 1..n /\ \A k \in n..n : k = n
          BY <1>3
        <4> QED BY <4>1, <4>2, <4>3, <1>7
      <3> QED BY <3>1, <3>2
    <2>2. i \in 1..Len(history) /\ i <= n /\ i \in Nat
      BY <1>3
    <2>3. start[1] = Began(i)
      BY <2>1
    <2>4. LengthOf(i, n) = t - Began(i)
      BY DEF LengthOf, Began
    <2>5. window.windowMs = LengthOf(i, n) /\ window.toMs = t
      BY <2>3, <2>4
    <2> DEFINE r == <<i, n>>
    <2>6. /\ r \in Stretches /\ r[1] = i /\ r[2] = n
          /\ LengthOf(i, n) \in Nat \ {0}
      <3>1. r \in Stretches
        BY <2>1, <2>2, StretchIs
      <3>2. r[1] = i /\ r[2] = n
        OBVIOUS
      <3> QED BY <3>1, <3>2, StretchIs
    <2>7. \A s \in Stretches : s[2] = n => LengthOf(s[1], s[2]) <= LengthOf(i, n)
      <3> SUFFICES ASSUME NEW s \in Stretches, s[2] = n
                   PROVE  LengthOf(s[1], s[2]) <= LengthOf(i, n)
        OBVIOUS
      <3>1. s[1] \in 1..Len(history) /\ s[1] <= n /\ \A k \in s[1]..n : Held(history[k])
        BY StretchIs
      <3>2. i <= s[1]
        <4> SUFFICES ASSUME ~(i <= s[1]) PROVE FALSE
          OBVIOUS
        <4>1. i - 1 \in s[1]..n /\ i > 1
          BY <3>1, <2>2, <1>3
        <4> QED BY <4>1, <3>1, <2>1
      <3>3. /\ Began(i) <= Began(s[1]) /\ Began(i) \in Int /\ Began(s[1]) \in Int /\ t \in Int
        BY <3>1, <3>2, <2>2, HistoryIs
      <3>4. LengthOf(s[1], s[2]) = t - Began(s[1])
        BY DEF LengthOf, Began
      <3> QED BY <3>3, <3>4, <2>4
    <2> DEFINE best == IF window.windowMs > a.best.windowMs THEN window ELSE a.best
    <2>8. b.start = start /\ b.previous = t /\ b.best = best
      BY <1>5, <1>7
    <2> HIDE DEF window, start, r, t
    <2>9. /\ best.windowMs \in Nat /\ a.best.windowMs <= best.windowMs
          /\ LengthOf(i, n) <= best.windowMs
      BY <2>5, <2>6, <1>2
    <2>10. \A s \in Stretches : s[2] <= n => LengthOf(s[1], s[2]) <= best.windowMs
      <3> TAKE s \in Stretches
      <3>1. LengthOf(s[1], s[2]) \in Nat /\ s[2] \in Nat
        BY StretchIs, HistoryIs
      <3>2. CASE s[2] = n
        <4>1. LengthOf(s[1], s[2]) <= LengthOf(i, n)
          BY <3>2, <2>7
        <4> QED BY <4>1, <3>1, <2>6, <2>9
      <3>3. CASE s[2] <= n - 1
        <4>1. LengthOf(s[1], s[2]) <= a.best.windowMs
          BY <3>3, <1>2
        <4> QED BY <4>1, <3>1, <2>9, <1>2
      <3> QED BY <3>1, <3>2, <3>3, <1>3
    <2>11. \E s \in Stretches : /\ s[2] <= n /\ history[s[2]].tMs = best.toMs
                                /\ LengthOf(s[1], s[2]) = best.windowMs
      <3>1. CASE window.windowMs > a.best.windowMs
        <4>1. best = window
          BY <3>1
        <4>2. /\ r[2] <= n /\ history[r[2]].tMs = best.toMs
              /\ LengthOf(r[1], r[2]) = best.windowMs
          BY <4>1, <2>5, <2>6, <1>3 DEF t
        <4> QED BY <4>2, <2>6
      <3>2. CASE ~(window.windowMs > a.best.windowMs)
        <4>1. best = a.best /\ a.best.windowMs > 0
          BY <3>2, <2>5, <2>6, <1>2
        <4>2. PICK s \in Stretches : /\ s[2] <= n - 1 /\ history[s[2]].tMs = a.best.toMs
                                     /\ LengthOf(s[1], s[2]) = a.best.windowMs
          BY <4>1, <1>2
        <4>3. s[2] <= n
          BY <4>2, <1>3, StretchIs, HistoryIs
        <4> HIDE DEF best
        <4> QED BY <4>1, <4>2, <4>3
      <3> QED BY <3>1, <3>2
    <2> HIDE DEF best
    <2>12. b.previous = history[n].tMs
      BY <2>8 DEF t
    <2>13. \E k \in 1..n : /\ b.start = <<Began(k)>> /\ \A l \in k..n : Held(history[l])
                           /\ k > 1 => ~Held(history[k - 1])
      BY <2>1, <2>8
    <2> QED BY <2>8, <2>9, <2>10, <2>11, <2>12, <2>13, <1>3, <1>7 DEF Knows, b
  <1> QED BY <1>6, <1>7

\* At the end of the walk it knows the longest of all.
LEMMA KnowsAll ==
  ASSUME TimelineAssumption, TimelineIInv, produced = Len(samples)
  PROVE  Knows(Len(history))
  <1> DEFINE Bad == {n \in 0..Len(history) : ~Knows(n)}
  <1>1. Len(history) \in Nat
    BY HistoryIs
  <1>2. Bad = {}
    <2> SUFFICES ASSUME Bad # {} PROVE FALSE
      OBVIOUS
    <2>1. PICK n \in Bad : \A k \in Bad : n <= k
      <3>1. Bad \in SUBSET Nat
        BY <1>1
      <3> HIDE DEF Bad
      <3> QED BY <3>1, NatMin
    <2>2. n \in 0..Len(history) /\ ~Knows(n)
      BY <2>1
    <2>3. n # 0
      <3>1. Followed[0] = Unmet
        BY FollowedIs, BufferIs, <1>1
      <3>2. \A s \in Stretches : ~(s[2] <= 0)
        BY StretchIs
      <3>3. Knows(0)
        BY <3>1, <3>2 DEF Knows, Unmet, NoWindow
      <3> QED BY <3>3, <2>2
    <2>4. n - 1 \in 0..Len(history) /\ ~(n <= n - 1) /\ n \in 1..Len(history)
      BY <2>2, <2>3, <1>1
    <2>5. Knows(n - 1)
      BY <2>1, <2>4
    <2> QED BY <2>2, <2>4, <2>5, KnowsNext
  <1> QED BY <1>1, <1>2

\* The rate of the highest sample so far.
Tops(n) ==
  /\ Highest[n].done \in Nat /\ Highest[n].span \in Nat \ {0}
  /\ \A i \in 1..n : AtLeast(Highest[n], history[i])

\* A sample more, and the highest rate is still of one of them.
LEMMA TopsNext ==
  ASSUME TimelineAssumption, TimelineIInv, produced = Len(samples),
         NEW n \in 1..Len(history), Tops(n - 1)
  PROVE  Tops(n)
  <1> DEFINE h == Highest[n - 1]
             s == history[n]
  <1>1. Highest[n] = HigherOf(s, h)
    <2>1. Len(samples) \in Nat /\ n \in 1..Len(samples) /\ samples[n] = history[n]
      BY BufferIs, HistoryIs
    <2> QED BY <2>1, HighestIs
  <1>2. h.done \in Nat /\ h.span \in Nat \ {0} /\ \A i \in 1..(n - 1) : AtLeast(h, history[i])
    BY DEF Tops
  <1>3. s.done \in Nat /\ s.span \in Nat \ {0} /\ n \in Nat
    BY HistoryIs
  <1>4. \A i \in 1..n : i = n \/ i \in 1..(n - 1)
    BY <1>3
  <1>5. \A i \in 1..n : history[i].done \in Nat /\ history[i].span \in Nat \ {0}
    BY HistoryIs
  <1> HIDE DEF s, h
  <1>6. AtLeast(s, s)
    BY <1>3 DEF AtLeast
  <1>7. \A x, y \in Nat : x * y \in Nat
    OBVIOUS
  <1>8. CASE AtLeast(s, h)
    <2>1. Highest[n] = s
      BY <1>1, <1>8 DEF HigherOf
    <2>2. ASSUME NEW i \in 1..(n - 1) PROVE AtLeast(s, history[i])
      <3>1. history[i].done \in Nat /\ history[i].span \in Nat
        BY <1>3, <1>5
      <3>2. s.done * h.span >= h.done * s.span
        BY <1>8 DEF AtLeast
      <3>3. h.done * history[i].span >= history[i].done * h.span
        BY <1>2 DEF AtLeast
      <3>4. s.done * history[i].span >= history[i].done * s.span
        <4>1. /\ s.done \in Nat /\ s.span \in Nat /\ h.done \in Nat /\ h.span \in Nat \ {0}
          BY <1>2, <1>3
        <4> DEFINE c == history[i].done
                   d == history[i].span
        <4>2. c \in Nat /\ d \in Nat /\ h.done * d >= c * h.span
          BY <3>1, <3>3
        <4> HIDE DEF c, d
        <4>3. s.done * d >= c * s.span
          BY <4>1, <4>2, <3>2, RateOrder
        <4> QED BY <4>3 DEF c, d
      <3> QED BY <3>4 DEF AtLeast
    <2>3. \A i \in 1..n : AtLeast(s, history[i])
      BY <2>2, <1>4, <1>6 DEF s
    <2> QED BY <2>1, <2>3, <1>3 DEF Tops
  <1>9. CASE ~AtLeast(s, h)
    <2>1. Highest[n] = h
      BY <1>1, <1>9 DEF HigherOf
    <2>2. AtLeast(h, s)
      <3>1. s.done * h.span \in Nat /\ h.done * s.span \in Nat
        BY <1>2, <1>3, <1>7
      <3>2. ~(s.done * h.span >= h.done * s.span)
        BY <1>9 DEF AtLeast
      <3>3. \A x, y \in Nat : ~(x >= y) => y >= x
        OBVIOUS
      <3>4. h.done * s.span >= s.done * h.span
        BY <3>1, <3>2, <3>3
      <3> QED BY <3>4 DEF AtLeast
    <2>3. \A i \in 1..n : AtLeast(h, history[i])
      BY <2>2, <1>2, <1>4 DEF s
    <2> QED BY <2>1, <2>3, <1>2 DEF Tops
  <1> QED BY <1>8, <1>9

\* At the end it is the highest of all.
LEMMA TopsAll ==
  ASSUME TimelineAssumption, TimelineIInv, produced = Len(samples)
  PROVE  Tops(Len(history))
  <1> DEFINE Bad == {n \in 0..Len(history) : ~Tops(n)}
  <1>1. Len(history) \in Nat
    BY HistoryIs
  <1>2. Bad = {}
    <2> SUFFICES ASSUME Bad # {} PROVE FALSE
      OBVIOUS
    <2>1. PICK n \in Bad : \A k \in Bad : n <= k
      <3>1. Bad \in SUBSET Nat
        BY <1>1
      <3> HIDE DEF Bad
      <3> QED BY <3>1, NatMin
    <2>2. n \in 0..Len(history) /\ ~Tops(n)
      BY <2>1
    <2>3. n # 0
      <3>1. Highest[0] = Lowest
        BY HighestIs, BufferIs, <1>1
      <3>2. Tops(0)
        BY <3>1 DEF Tops, Lowest
      <3> QED BY <3>2, <2>2
    <2>4. n - 1 \in 0..Len(history) /\ ~(n <= n - 1) /\ n \in 1..Len(history)
      BY <2>2, <2>3, <1>1
    <2>5. Tops(n - 1)
      BY <2>1, <2>4
    <2> QED BY <2>2, <2>4, <2>5, TopsNext
  <1> QED BY <1>1, <1>2

\* What is reported of the throughput is true of the history.
LEMMA TimelineTells ==
  ASSUME TimelineAssumption, TimelineIInv PROVE SustainedIsLongest
  <1> SUFFICES ASSUME produced = Len(samples), TargetRate > 0
               PROVE  /\ Sustained.windowMs = LongestStretch
                      /\ LongestStretch > 0 =>
                           \E s \in Stretches : /\ history[s[2]].tMs = Sustained.toMs
                                                /\ LengthOf(s[1], s[2]) = Sustained.windowMs
                      /\ \A i \in DOMAIN history : AtLeast(PeakRequestsPerMinute, history[i])
    BY DEF SustainedIsLongest
  <1>1. Len(history) \in Nat /\ DOMAIN history = 1..Len(history) /\ Len(samples) = Len(history)
    BY HistoryIs, BufferIs
  <1>2. TargetRate # 0
    BY DEF TimelineAssumption
  <1>3. Sustained = Followed[Len(history)].best
    BY <1>1, <1>2 DEF Sustained
  <1>4. /\ Sustained.windowMs \in Nat
        /\ \A s \in Stretches : s[2] <= Len(history) =>
             LengthOf(s[1], s[2]) <= Sustained.windowMs
        /\ Sustained.windowMs > 0 =>
             \E s \in Stretches : /\ s[2] <= Len(history) /\ history[s[2]].tMs = Sustained.toMs
                                  /\ LengthOf(s[1], s[2]) = Sustained.windowMs
    <2>1. Knows(Len(history))
      BY KnowsAll
    <2> QED BY <2>1, <1>3 DEF Knows
  <1>5. \A s \in Stretches : LengthOf(s[1], s[2]) <= Sustained.windowMs
                            /\ LengthOf(s[1], s[2]) \in Nat
    BY <1>1, <1>4, StretchIs
  <1> DEFINE L == {0} \cup {LengthOf(s[1], s[2]) : s \in Stretches}
  <1>6. L \in SUBSET Int /\ \A y \in L : y <= Sustained.windowMs
    BY <1>4, <1>5
  <1>7. Sustained.windowMs \in L
    <2>1. CASE Sustained.windowMs = 0
      BY <2>1
    <2>2. CASE Sustained.windowMs > 0
      BY <2>2, <1>4
    <2> QED BY <2>1, <2>2, <1>4
  <1> HIDE DEF L
  <1>8. Max(L) \in L /\ \A y \in L : y <= Max(L)
    BY <1>6, <1>7, MaxIs
  <1>9. Max(L) = Sustained.windowMs
    <2>1. Max(L) <= Sustained.windowMs /\ Sustained.windowMs <= Max(L)
      BY <1>6, <1>7, <1>8
    <2>2. Max(L) \in Int
      <3>1. L \subseteq Int /\ Max(L) \in L
        BY <1>6, <1>8
      <3> QED BY <3>1
    <2>3. Sustained.windowMs \in Int
      BY <1>4
    <2> QED BY <2>1, <2>2, <2>3
  <1>10. Sustained.windowMs = LongestStretch
    BY <1>9 DEF L, LongestStretch
  <1>11. \A i \in DOMAIN history : AtLeast(PeakRequestsPerMinute, history[i])
    BY <1>1, TopsAll DEF Tops, PeakRequestsPerMinute
  <1> QED BY <1>4, <1>10, <1>11

\* The invariant gives the types.
LEMMA TimelineTyped ==
  ASSUME TimelineAssumption, TimelineIInv PROVE TimelineTypeOK
  <1>1. /\ samples \in Seq(Sample) /\ history \in Seq(Sample)
        /\ Len(samples) \in Nat /\ Len(history) \in Nat /\ Len(samples) <= Len(history)
    BY LenProperties DEF TimelineIInv, TimelineTypes, Newest
  <1> DEFINE R == Reverse(samples)
             Q == Reverse(history)
  <1>2. /\ R \in Seq(Sample) /\ Len(R) = Len(samples)
        /\ \A i \in 1..Len(samples) : R[i] = samples[Len(samples) - i + 1]
    BY <1>1 DEF Reverse
  <1>3. /\ Q \in Seq(Sample) /\ Len(Q) = Len(history)
        /\ \A i \in 1..Len(history) : Q[i] = history[Len(history) - i + 1]
    BY <1>1 DEF Reverse
  <1> HIDE DEF R, Q
  <1>4. \A i \in 1..Len(R) : R[i] = Q[i]
    <2> TAKE i \in 1..Len(R)
    <2>1. Len(samples) - i + 1 \in 1..Len(samples) /\ i \in 1..Len(history)
      BY <1>1, <1>2
    <2>2. samples[Len(samples) - i + 1]
            = history[Len(history) - Len(samples) + (Len(samples) - i + 1)]
      BY <2>1 DEF TimelineIInv, Newest
    <2>3. Len(history) - Len(samples) + (Len(samples) - i + 1) = Len(history) - i + 1
      BY <2>1, <1>1
    <2> QED BY <2>1, <2>2, <2>3, <1>2, <1>3
  <1>5. SubSeq(R, 1, Len(R)) = SubSeq(Q, 1, Len(R))
    <2>1. /\ Len(R) \in Nat /\ Len(R) <= Len(Q)
      BY <1>1, <1>2, <1>3
    <2>2. /\ SubSeq(R, 1, Len(R)) \in Seq(Sample) /\ Len(SubSeq(R, 1, Len(R))) = Len(R)
          /\ \A i \in 1..Len(R) : SubSeq(R, 1, Len(R))[i] = R[i]
      BY <1>2, <2>1
    <2>3. /\ SubSeq(Q, 1, Len(R)) \in Seq(Sample) /\ Len(SubSeq(Q, 1, Len(R))) = Len(R)
          /\ \A i \in 1..Len(R) : SubSeq(Q, 1, Len(R))[i] = Q[i]
      BY <1>3, <2>1
    <2> QED BY <2>2, <2>3, <1>4, SeqEqual
  <1>6. IsSuffix(samples, history)
    BY <1>1, <1>2, <1>3, <1>5 DEF IsSuffix, IsPrefix, R, Q
  <1> QED BY <1>6 DEF TimelineIInv, TimelineTypes, TimelineTypeOK

\* The throughput a session reports is what it held, for every target, every size
\* of the buffer that nothing has been dropped from, and every series of samples.
THEOREM ThroughputIsTrue ==
  ASSUME TimelineAssumption
  PROVE  TimelineSpec => [](TimelineTypeOK /\ SustainedIsLongest)
  <1>1. TimelineInit => TimelineIInv
    BY TimelineInitIInv
  <1>2. TimelineIInv /\ [TimelineNext]_timelineVars => TimelineIInv'
    <2> SUFFICES ASSUME TimelineIInv, [TimelineNext]_timelineVars PROVE TimelineIInv'
      OBVIOUS
    <2>1. CASE UNCHANGED timelineVars
      BY <2>1 DEF timelineVars, TimelineIInv, TimelineTypes, Newest, Contiguous, Began
    <2> QED BY <2>1, WorkKeeps, SampleKeeps DEF TimelineNext
  <1>3. TimelineIInv => TimelineTypeOK /\ SustainedIsLongest
    BY TimelineTyped, TimelineTells
  <1> QED BY <1>1, <1>2, <1>3, PTL DEF TimelineSpec

-----------------------------------------------------------------------------
\* The samples placed at or before the one at i, and those at or below a value.
UpTo(s, i) == {j \in DOMAIN s : s[j] < s[i] \/ (s[j] = s[i] /\ j <= i)}
Below(s, v) == {i \in DOMAIN s : s[i] <= v}

\* How many samples there are, and that a place is the place of one of them.
LEMMA UpToIs ==
  ASSUME NEW s \in Seq(Nat)
  PROVE  /\ \A i \in DOMAIN s : /\ IsFiniteSet(UpTo(s, i)) /\ Place(s, i) = Cardinality(UpTo(s, i))
                               /\ Place(s, i) \in 1..Len(s) /\ i \in UpTo(s, i)
         /\ \A v : IsFiniteSet(Below(s, v)) /\ Cardinality(Below(s, v)) \in Nat
         /\ Len(s) \in Nat /\ DOMAIN s = 1..Len(s) /\ \A i \in DOMAIN s : s[i] \in Nat
  <1>1. Len(s) \in Nat /\ DOMAIN s = 1..Len(s) /\ \A i \in DOMAIN s : s[i] \in Nat
    BY LenProperties
  <1>2. IsFiniteSet(DOMAIN s) /\ Cardinality(DOMAIN s) = Len(s)
    <2>1. IsFiniteSet(1..Len(s)) /\ Cardinality(1..Len(s)) = IF 1 > Len(s) THEN 0 ELSE Len(s) - 1 + 1
      BY <1>1, FS_Interval
    <2> QED BY <1>1, <2>1
  <1>3. ASSUME NEW i \in DOMAIN s
        PROVE  /\ IsFiniteSet(UpTo(s, i)) /\ Place(s, i) = Cardinality(UpTo(s, i))
               /\ Place(s, i) \in 1..Len(s) /\ i \in UpTo(s, i)
    <2>1. UpTo(s, i) \subseteq DOMAIN s /\ i \in UpTo(s, i)
      BY <1>1 DEF UpTo
    <2>2. IsFiniteSet(UpTo(s, i)) /\ Cardinality(UpTo(s, i)) <= Len(s)
          /\ Cardinality(UpTo(s, i)) \in Nat
      BY <1>2, <2>1, FS_Subset, FS_CardinalityType
    <2>3. Cardinality(UpTo(s, i)) # 0
      BY <2>1, <2>2, FS_EmptySet
    <2>4. Place(s, i) = Cardinality(UpTo(s, i))
      BY DEF Place, UpTo
    <2> QED BY <1>1, <2>1, <2>2, <2>3, <2>4
  <1>4. \A v : IsFiniteSet(Below(s, v)) /\ Cardinality(Below(s, v)) \in Nat
    <2>1. \A v : Below(s, v) \subseteq DOMAIN s
      BY DEF Below
    <2> QED BY <1>2, <2>1, FS_Subset, FS_CardinalityType
  <1> QED BY <1>1, <1>3, <1>4

\* Two samples never have one place, and so every place is taken.
LEMMA PlacesRise ==
  ASSUME NEW s \in Seq(Nat), NEW i \in DOMAIN s, NEW k \in DOMAIN s,
         s[i] < s[k] \/ (s[i] = s[k] /\ i < k)
  PROVE  Place(s, i) < Place(s, k)
  <1>1. /\ i \in Int /\ k \in Int /\ \A j \in DOMAIN s : s[j] \in Int /\ j \in Int
    BY UpToIs
  <1>2. UpTo(s, i) \subseteq UpTo(s, k) /\ k \notin UpTo(s, i) /\ k \in UpTo(s, k)
    BY <1>1 DEF UpTo
  <1>3. /\ IsFiniteSet(UpTo(s, i)) /\ IsFiniteSet(UpTo(s, k))
        /\ Place(s, i) = Cardinality(UpTo(s, i)) /\ Place(s, k) = Cardinality(UpTo(s, k))
    BY UpToIs
  <1>4. /\ Cardinality(UpTo(s, i)) <= Cardinality(UpTo(s, k))
        /\ Cardinality(UpTo(s, i)) # Cardinality(UpTo(s, k))
    BY <1>2, <1>3, FS_Subset
  <1>5. Place(s, i) \in Int /\ Place(s, k) \in Int
    BY UpToIs
  <1> QED BY <1>3, <1>4, <1>5

\* Every place is a sample's.
LEMMA EveryPlace ==
  ASSUME NEW s \in Seq(Nat), NEW k \in DOMAIN s
  PROVE  \E i \in DOMAIN s : Place(s, i) = k
  <1> DEFINE D == DOMAIN s
             f == [i \in D |-> Place(s, i)]
  <1>1. D = 1..Len(s) /\ Len(s) \in Nat
    BY UpToIs
  <1>2. IsFiniteSet(D)
    BY <1>1, FS_Interval
  <1>3. f \in [D -> D]
    BY <1>1, UpToIs
  <1>4. \A i, j \in D : i # j => f[i] # f[j]
    <2> SUFFICES ASSUME NEW i \in D, NEW j \in D, i # j PROVE f[i] # f[j]
      OBVIOUS
    <2>1. s[i] \in Nat /\ s[j] \in Nat /\ i \in Int /\ j \in Int
      BY <1>1, UpToIs
    <2>2. \/ s[i] < s[j] \/ (s[i] = s[j] /\ i < j)
          \/ s[j] < s[i] \/ (s[j] = s[i] /\ j < i)
      BY <2>1
    <2>3. Place(s, i) < Place(s, j) \/ Place(s, j) < Place(s, i)
      BY <2>2, PlacesRise
    <2>4. Place(s, i) \in Int /\ Place(s, j) \in Int
      BY UpToIs
    <2> QED BY <2>3, <2>4
  <1> HIDE DEF f, D
  <1>5. f \in Injection(D, D)
    BY <1>3, <1>4 DEF Injection, IsInjective
  <1>6. f \in Surjection(D, D)
    BY <1>2, <1>5, FS_Injection
  <1>7. \E i \in D : f[i] = k
    BY <1>6 DEF Surjection, D
  <1> QED BY <1>7 DEF f, D

\* The percentiles are nearest-rank.
LEMMA PercentileIs ==
  ASSUME NEW s \in Seq(Nat), NEW p \in 1..100
  PROVE  NearestRank(Percentile(s, p), s, p)
  <1>1. CASE s = <<>>
    BY <1>1 DEF NearestRank, Percentile
  <1>2. CASE s # <<>>
    <2> DEFINE n == Len(s)
               q == p * Len(s)
               r == Rank(p, Len(s))
               v == Percentile(s, p)
    <2>1. /\ n \in Nat /\ DOMAIN s = 1..n /\ n # 0 /\ \A i \in DOMAIN s : s[i] \in Nat
      BY <1>2, UpToIs, EmptySeq
    <2>2. q \in Nat /\ 1 <= q /\ q <= 100 * n
      <3>1. \A x \in Nat : 1 <= x => 1 <= p * x /\ p * x <= 100 * x /\ p * x \in Nat
        OBVIOUS
      <3> QED BY <2>1, <3>1
    <2>3. r = (q + 99) \div 100
      BY DEF Rank
    <2> HIDE DEF n, q, r
    <2>4. r \in 1..n /\ q <= 100 * r /\ 100 * (r - 1) < q
      BY <2>1, <2>2, <2>3
    <2>5. PICK i \in DOMAIN s : Place(s, i) = r /\ v = s[i]
      <3>1. Max({1, r}) = r
        BY <2>4, <2>1, MaxOfTwo
      <3>2. Min({n, r}) = r
        BY <2>4, <2>1, MinOfTwo
      <3>3. v = Sorted(s)[r]
        BY <1>2, <3>1, <3>2 DEF Percentile, n, r
      <3>4. r \in DOMAIN s
        BY <2>1, <2>4
      <3>5. v = s[CHOOSE i \in DOMAIN s : Place(s, i) = r]
        BY <3>3, <3>4 DEF Sorted
      <3>6. \E i \in DOMAIN s : Place(s, i) = r
        BY <3>4, EveryPlace
      <3> QED BY <3>5, <3>6
    <2>6. /\ IsFiniteSet(UpTo(s, i)) /\ Cardinality(UpTo(s, i)) = r /\ i \in UpTo(s, i)
      BY <2>5, UpToIs
    <2>7. v \in Nat /\ v \in ToSet(s)
      BY <2>1, <2>5 DEF ToSet
    <2>8. 100 * Cardinality(Below(s, v)) >= q
      <3>1. UpTo(s, i) \subseteq Below(s, v)
        BY <2>1, <2>5 DEF UpTo, Below
      <3>2. IsFiniteSet(Below(s, v)) /\ Cardinality(Below(s, v)) \in Nat
        BY UpToIs
      <3>3. r <= Cardinality(Below(s, v))
        BY <3>1, <3>2, <2>6, FS_Subset
      <3> QED BY <3>2, <3>3, <2>2, <2>4
    <2> HIDE DEF v
    <2>9. ASSUME NEW w \in ToSet(s), 100 * Cardinality(Below(s, w)) >= q, ~(v <= w) PROVE FALSE
      <3>1. w \in Nat
        BY <2>1 DEF ToSet
      <3>2. Below(s, w) \subseteq UpTo(s, i) \ {i}
        BY <3>1, <2>1, <2>5, <2>9 DEF UpTo, Below
      <3>3. IsFiniteSet(UpTo(s, i) \ {i}) /\ Cardinality(UpTo(s, i) \ {i}) = r - 1
        BY <2>6, FS_RemoveElement
      <3>4. Cardinality(Below(s, w)) <= r - 1 /\ Cardinality(Below(s, w)) \in Nat
        BY <3>2, <3>3, FS_Subset, UpToIs
      <3> QED BY <3>4, <2>2, <2>4, <2>9
    <2>10. \A w \in ToSet(s) : 100 * Cardinality(Below(s, w)) >= q => v <= w
      BY <2>9
    <2> QED BY <1>2, <2>7, <2>8, <2>10 DEF NearestRank, Below, q, v
  <1> QED BY <1>1, <1>2

-----------------------------------------------------------------------------
(* The summaries.                                                             *)

\* A row has one of three statuses, so a breakdown adds up to three figures.
LEMMA StatusSum ==
  ASSUME NEW f, \A st \in RowStatuses : f[st] \in Int
  PROVE  SumFunctionOnSet(f, RowStatuses) = f["ok"] + f["not_found"] + f["error"]
  <1>1. SumFunctionOnSet(f, {} \cup {"ok"}) = SumFunctionOnSet(f, {}) + f["ok"]
    BY FS_EmptySet, SumAdd DEF RowStatuses
  <1>2. SumFunctionOnSet(f, {"ok"} \cup {"not_found"}) = SumFunctionOnSet(f, {"ok"}) + f["not_found"]
    <2>1. IsFiniteSet({"ok"})
      BY FS_Singleton
    <2> QED BY <2>1, SumAdd DEF RowStatuses
  <1>3. SumFunctionOnSet(f, {"ok", "not_found"} \cup {"error"})
          = SumFunctionOnSet(f, {"ok", "not_found"}) + f["error"]
    <2>1. IsFiniteSet({"ok"} \cup {"not_found"})
      BY FS_Singleton, FS_AddElement
    <2>2. {"ok", "not_found"} = {"ok"} \cup {"not_found"}
      OBVIOUS
    <2> QED BY <2>1, <2>2, SumAdd DEF RowStatuses
  <1>4. /\ {} \cup {"ok"} = {"ok"} /\ {"ok"} \cup {"not_found"} = {"ok", "not_found"}
        /\ {"ok", "not_found"} \cup {"error"} = RowStatuses
    BY DEF RowStatuses
  <1>5. f["ok"] \in Int /\ f["not_found"] \in Int /\ f["error"] \in Int
    BY DEF RowStatuses
  <1>6. SumFunctionOnSet(f, {}) = 0
    BY SumEmpty
  <1>7. SumFunctionOnSet(f, {"ok"}) = f["ok"]
    BY <1>1, <1>4, <1>5, <1>6
  <1>8. SumFunctionOnSet(f, {"ok", "not_found"}) = f["ok"] + f["not_found"]
    BY <1>2, <1>4, <1>7
  <1> QED BY <1>3, <1>4, <1>8

\* The outcomes of some cycles of a record, and those with one error code.
Out(rec, cs) == UNION {{<<c, i>> : i \in {j \in DOMAIN rec[c] : rec[c][j].errorCode # "cancelled"}} : c \in cs}
CodeIn(rec, done, code) == {d \in done : rec[d[1]][d[2]].errorCode = code}

\* An outcome is a cycle and a position in what it recorded.
LEMMA OutIs ==
  ASSUME NEW rec, NEW cs
  PROVE  /\ \A d : d \in Out(rec, cs) <=>
              /\ d = <<d[1], d[2]>> /\ d[1] \in cs /\ d[2] \in DOMAIN rec[d[1]]
              /\ rec[d[1]][d[2]].errorCode # "cancelled"
         /\ \A c, i : <<c, i>> \in Out(rec, cs) <=>
              c \in cs /\ i \in DOMAIN rec[c] /\ rec[c][i].errorCode # "cancelled"
  <1>1. \A d : d \in Out(rec, cs) <=>
          \E c \in cs : \E i \in {j \in DOMAIN rec[c] : rec[c][j].errorCode # "cancelled"} : d = <<c, i>>
    BY DEF Out
  <1> QED BY <1>1

\* The outcomes of some cycles are those of its parts.
LEMMA OutParts ==
  ASSUME NEW rec, NEW A, NEW B
  PROVE  /\ Out(rec, A \cup B) = Out(rec, A) \cup Out(rec, B)
         /\ A \cap B = {} => Out(rec, A) \cap Out(rec, B) = {}
         /\ A \subseteq B => Out(rec, A) \subseteq Out(rec, B)
         /\ Out(rec, {}) = {}
  <1>1. Out(rec, A \cup B) = Out(rec, A) \cup Out(rec, B)
    BY DEF Out
  <1>2. ASSUME A \cap B = {} PROVE Out(rec, A) \cap Out(rec, B) = {}
    BY <1>2, OutIs
  <1>3. ASSUME A \subseteq B PROVE Out(rec, A) \subseteq Out(rec, B)
    BY <1>3, OutIs
  <1>4. Out(rec, {}) = {}
    BY DEF Out
  <1> QED BY <1>1, <1>2, <1>3, <1>4

\* Two records that agree on some cycles have the same outcomes there.
LEMMA OutSame ==
  ASSUME NEW rec, NEW new, NEW cs, \A c \in cs : new[c] = rec[c]
  PROVE  /\ Out(new, cs) = Out(rec, cs)
         /\ \A code : \A done \in SUBSET Out(rec, cs) : CodeIn(new, done, code) = CodeIn(rec, done, code)
  <1>1. Out(new, cs) \subseteq Out(rec, cs) /\ Out(rec, cs) \subseteq Out(new, cs)
    <2>1. ASSUME NEW d, d = <<d[1], d[2]>>, d[1] \in cs
          PROVE  d \in Out(new, cs) <=> d \in Out(rec, cs)
      BY <2>1, OutIs
    <2>2. \A d : d \in Out(new, cs) \/ d \in Out(rec, cs) => d = <<d[1], d[2]>> /\ d[1] \in cs
      BY OutIs
    <2> QED BY <2>1, <2>2
  <1>2. ASSUME NEW done \in SUBSET Out(rec, cs), NEW code
        PROVE  CodeIn(new, done, code) = CodeIn(rec, done, code)
    <2>1. \A d \in done : d[1] \in cs
      BY OutIs
    <2> QED BY <2>1 DEF CodeIn
  <1> QED BY <1>1, <1>2

-----------------------------------------------------------------------------
\* A collector, and the figures of the cycles that have a summary.
Collector ==
  [totalRequests : Nat, platformHttpRequests : Nat, successful : Nat, failed : Nat,
   statusCounts : [RowStatuses -> Nat], errorCounts : [ErrorCodes -> Nat], retried : Nat,
   exhausted : Nat, latencies : Seq(Nat), proxyUsage : [Proxies -> Usage]]

Ended(cyc) == {k \in DOMAIN cyc : cyc[k] # Null}
Asked(cyc) == [k \in Ended(cyc) |-> cyc[k].requests]
Won(cyc) == [k \in Ended(cyc) |-> cyc[k].successes]
Lost(cyc) == [k \in Ended(cyc) |-> cyc[k].failures]
OfStatus(cyc, st) == [k \in Ended(cyc) |-> cyc[k].statusBreakdown[st]]
OfCode(cyc, c) == [k \in Ended(cyc) |-> cyc[k].errorBreakdown[c]]
OfProxy(cyc, p, c) == [k \in Ended(cyc) |-> cyc[k].perProxy[p].byErrorCode[c]]
Sum(cyc, f) == SumFunctionOnSet(f, Ended(cyc))
Merged(cyc, p) == [c \in ErrorCodes |-> Sum(cyc, OfProxy(cyc, p, c))]

\* The current run agrees with its own outcomes, the session with those of the
\* cycles that have a summary.
Agrees(m, rec, done) ==
  /\ m.totalRequests = Cardinality(done) /\ m.totalRequests = m.successful + m.failed
  /\ m.totalRequests = m.statusCounts["ok"] + m.statusCounts["not_found"] + m.statusCounts["error"]
  /\ m.successful = m.statusCounts["ok"]
  /\ \A c \in ErrorCodes : m.errorCounts[c] = Cardinality(CodeIn(rec, done, c))
TotalsAgree(cyc, rec, done) ==
  /\ Sum(cyc, Asked(cyc)) = Cardinality(done)
  /\ Sum(cyc, Asked(cyc)) = Sum(cyc, Won(cyc)) + Sum(cyc, Lost(cyc))
  /\ Sum(cyc, Asked(cyc)) = Sum(cyc, OfStatus(cyc, "ok")) + Sum(cyc, OfStatus(cyc, "not_found"))
                             + Sum(cyc, OfStatus(cyc, "error"))
  /\ Sum(cyc, Won(cyc)) = Sum(cyc, OfStatus(cyc, "ok"))
  /\ \A c \in ErrorCodes : Sum(cyc, OfCode(cyc, c)) = Cardinality(CodeIn(rec, done, c))

SummaryTypes ==
  /\ metrics \in Collector /\ pool \in [Proxies -> Usage] /\ running \in BOOLEAN
  /\ cycles \in Seq(RunSummary \cup {Null}) /\ latenciesMs \in Seq(Nat)
  /\ recorded \in Seq(Seq(Results))
  /\ Len(recorded) = Len(cycles) + (IF running THEN 1 ELSE 0) /\ Len(recorded) <= MaxCycles
  /\ \A p \in Proxies : \A c \in ErrorCodes : pool[p].byErrorCode[c] = 0
CurrentAgrees == running => Agrees(metrics, recorded, Out(recorded, {Len(recorded)}))
SessionAgrees == TotalsAgree(cycles, recorded, Out(recorded, Ended(cycles)))
Listed ==
  /\ IsFiniteSet(Out(recorded, DOMAIN recorded))
  /\ Len(latenciesMs) = Cardinality(Out(recorded, DOMAIN recorded))
Attributed ==
  \A p \in Proxies :
    SumFunctionOnSet(Merged(cycles, p), ErrorCodes)
      + (IF running THEN SumFunctionOnSet(metrics.proxyUsage[p].byErrorCode, ErrorCodes) ELSE 0)
      <= pool[p].requests
SummaryIInv == SummaryTypes /\ CurrentAgrees /\ SessionAgrees /\ Listed /\ Attributed

\* What has counted nothing has the types of what counts.
LEMMA NoUsageIs == NoUsage \in Usage
  BY DEF NoUsage, Usage

LEMMA EmptyIs == EmptyCollector \in Collector
  <1>1. [p \in Proxies |-> NoUsage] \in [Proxies -> Usage]
    BY NoUsageIs
  <1>2. /\ [s \in RowStatuses |-> 0] \in [RowStatuses -> Nat]
        /\ [c \in ErrorCodes |-> 0] \in [ErrorCodes -> Nat] /\ <<>> \in Seq(Nat)
    OBVIOUS
  <1> QED BY <1>1, <1>2 DEF EmptyCollector, Collector

\* A run that has recorded nothing agrees with no outcomes.
LEMMA EmptyAgrees == ASSUME NEW rec PROVE Agrees(EmptyCollector, rec, {})
  <1>1. \A c : CodeIn(rec, {}, c) = {}
    BY DEF CodeIn
  <1>2. Cardinality({}) = 0
    BY FS_EmptySet
  <1> QED BY <1>1, <1>2 DEF Agrees, EmptyCollector, RowStatuses

\* The invariant holds at first.
LEMMA SummaryInitIInv ==
  ASSUME SummaryAssumption, SummaryInit PROVE SummaryIInv
  <1>1. /\ metrics = EmptyCollector /\ pool = [p \in Proxies |-> NoUsage] /\ running = TRUE
        /\ cycles = <<>> /\ latenciesMs = <<>> /\ recorded = <<<<>>>>
    BY DEF SummaryInit
  <1>2. /\ recorded \in Seq(Seq(Results)) /\ Len(recorded) = 1 /\ DOMAIN recorded = {1}
        /\ recorded[1] = <<>> /\ DOMAIN recorded[1] = {}
    BY <1>1
  <1>3. Out(recorded, {1}) = {} /\ Out(recorded, {}) = {}
    BY <1>2, OutIs, OutParts
  <1>4. SummaryTypes
    <2>1. pool \in [Proxies -> Usage] /\ \A p \in Proxies : \A c \in ErrorCodes : pool[p].byErrorCode[c] = 0
      BY <1>1, NoUsageIs DEF NoUsage
    <2>2. cycles \in Seq(RunSummary \cup {Null}) /\ Len(cycles) = 0 /\ latenciesMs \in Seq(Nat)
      BY <1>1
    <2>3. Len(recorded) <= MaxCycles
      BY <1>2 DEF SummaryAssumption
    <2> QED BY <2>1, <2>2, <2>3, <1>1, <1>2, EmptyIs DEF SummaryTypes
  <1>5. CurrentAgrees
    BY <1>1, <1>2, <1>3, EmptyAgrees DEF CurrentAgrees
  <1>6. Ended(cycles) = {}
    BY <1>1 DEF Ended
  <1>7. \A f : Sum(cycles, f) = 0
    BY <1>6, SumEmpty DEF Sum
  <1>8. SessionAgrees
    <2>1. \A c : CodeIn(recorded, {}, c) = {}
      BY DEF CodeIn
    <2>2. Cardinality({}) = 0 /\ Out(recorded, Ended(cycles)) = {}
      BY <1>3, <1>6, FS_EmptySet
    <2> QED BY <2>1, <2>2, <1>7 DEF SessionAgrees, TotalsAgree
  <1>9. Listed
    BY <1>1, <1>2, <1>3, FS_EmptySet DEF Listed
  <1>10. Attributed
    <2> SUFFICES ASSUME NEW p \in Proxies
                 PROVE  SumFunctionOnSet(Merged(cycles, p), ErrorCodes)
                          + (IF running THEN SumFunctionOnSet(metrics.proxyUsage[p].byErrorCode, ErrorCodes) ELSE 0)
                          <= pool[p].requests
      BY DEF Attributed
    <2>1. IsFiniteSet(ErrorCodes)
      BY DEF SummaryAssumption
    <2>2. SumFunctionOnSet(Merged(cycles, p), ErrorCodes) = 0
      <3>1. \A c \in ErrorCodes : Merged(cycles, p)[c] = 0
        BY <1>7 DEF Merged
      <3> QED BY <3>1, <2>1, SumZero
    <2>3. SumFunctionOnSet(metrics.proxyUsage[p].byErrorCode, ErrorCodes) = 0
      <3>1. \A c \in ErrorCodes : metrics.proxyUsage[p].byErrorCode[c] = 0
        BY <1>1 DEF EmptyCollector, NoUsage
      <3> QED BY <3>1, <2>1, SumZero
    <2>4. pool[p].requests = 0
      BY <1>1 DEF NoUsage
    <2> QED BY <2>2, <2>3, <2>4
  <1> QED BY <1>4, <1>5, <1>8, <1>9, <1>10 DEF SummaryIInv

-----------------------------------------------------------------------------
\* One outcome more: one request, and at most one error code, more.
LEMMA TallyIs ==
  ASSUME SummaryAssumption, NEW u \in Usage, NEW outcome, NEW code \in ErrorCodes \cup {Null}
  PROVE  LET t == Tally(u, outcome, code)
         IN  /\ t \in Usage /\ t.requests = u.requests + 1
             /\ code = Null => t.byErrorCode = u.byErrorCode
             /\ SumFunctionOnSet(t.byErrorCode, ErrorCodes)
                  <= SumFunctionOnSet(u.byErrorCode, ErrorCodes) + 1
  <1> DEFINE b == IF code = Null THEN u.byErrorCode
                  ELSE [u.byErrorCode EXCEPT ![code] = @ + 1]
             t == [requests |-> u.requests + 1,
                   successes |-> u.successes + (IF outcome = "success" THEN 1 ELSE 0),
                   failures |-> u.failures + (IF outcome \in {"success", "neutral"} THEN 0 ELSE 1),
                   unsuitable |-> u.unsuitable + (IF outcome = "unsuitable" THEN 1 ELSE 0),
                   blocked |-> (u.blocked \/ outcome = "blocked"), byErrorCode |-> b]
  <1>1. /\ u.requests \in Nat /\ u.successes \in Nat /\ u.failures \in Nat
        /\ u.unsuitable \in Nat /\ u.byErrorCode \in [ErrorCodes -> Nat]
    BY DEF Usage
  <1>2. b \in [ErrorCodes -> Nat]
    BY <1>1
  <1>3. Tally(u, outcome, code) = t
    BY DEF Tally
  <1>4. t \in Usage
    <2>1. (u.blocked \/ outcome = "blocked") \in BOOLEAN
      OBVIOUS
    <2> HIDE DEF b
    <2> QED BY <2>1, <1>1, <1>2 DEF Usage
  <1>5. SumFunctionOnSet(b, ErrorCodes) <= SumFunctionOnSet(u.byErrorCode, ErrorCodes) + 1
    <2>1. IsFiniteSet(ErrorCodes) /\ \A y \in ErrorCodes : u.byErrorCode[y] \in Int
      BY <1>1 DEF SummaryAssumption
    <2>2. SumFunctionOnSet(u.byErrorCode, ErrorCodes) \in Int
      BY <2>1, SumType
    <2>3. CASE code = Null
      BY <2>2, <2>3
    <2>4. CASE code # Null
      <3>1. code \in ErrorCodes /\ b = [u.byErrorCode EXCEPT ![code] = @ + 1]
        BY <2>4
      <3>2. /\ b[code] = u.byErrorCode[code] + 1 /\ b[code] \in Int
            /\ \A y \in ErrorCodes \ {code} : b[y] = u.byErrorCode[y]
        BY <3>1, <1>1
      <3> HIDE DEF b
      <3>3. SumFunctionOnSet(b, ErrorCodes)
              = SumFunctionOnSet(u.byErrorCode, ErrorCodes) + b[code] - u.byErrorCode[code]
        <4> DEFINE f == u.byErrorCode
        <4>1. /\ IsFiniteSet(ErrorCodes) /\ code \in ErrorCodes /\ b[code] \in Int
              /\ \A y \in ErrorCodes : f[y] \in Int
              /\ \A y \in ErrorCodes \ {code} : b[y] = f[y]
          BY <2>1, <3>1, <3>2
        <4> HIDE DEF f
        <4>2. SumFunctionOnSet(b, ErrorCodes) = SumFunctionOnSet(f, ErrorCodes) + b[code] - f[code]
          BY <4>1, SumChange
        <4> QED BY <4>2 DEF f
      <3>4. u.byErrorCode[code] \in Int
        BY <2>1, <3>1
      <3> QED BY <2>2, <3>2, <3>3, <3>4
    <2> QED BY <2>3, <2>4
  <1>6. t.requests = u.requests + 1 /\ t.byErrorCode = b /\ (code = Null => b = u.byErrorCode)
    OBVIOUS
  <1> HIDE DEF b, t
  <1> QED BY <1>3, <1>4, <1>5, <1>6

\* The merged attribution of a proxy is a number per code.
LEMMA MergedIs ==
  ASSUME SummaryAssumption, NEW cyc \in Seq(RunSummary \cup {Null}), NEW p \in Proxies
  PROVE  /\ IsFiniteSet(Ended(cyc))
         /\ \A c \in ErrorCodes : Merged(cyc, p)[c] \in Nat
         /\ SumFunctionOnSet(Merged(cyc, p), ErrorCodes) \in Nat
  <1>1. IsFiniteSet(Ended(cyc)) /\ \A k \in Ended(cyc) : cyc[k] \in RunSummary
    <2>1. DOMAIN cyc = 1..Len(cyc) /\ Len(cyc) \in Nat
      BY LenProperties
    <2>2. IsFiniteSet(DOMAIN cyc)
      BY <2>1, FS_Interval
    <2> QED BY <2>1, <2>2, FS_Subset DEF Ended
  <1>2. \A c \in ErrorCodes : Merged(cyc, p)[c] \in Nat
    <2> SUFFICES ASSUME NEW c \in ErrorCodes PROVE Sum(cyc, OfProxy(cyc, p, c)) \in Nat
      BY DEF Merged
    <2>1. \A k \in Ended(cyc) : OfProxy(cyc, p, c)[k] \in Nat
      BY <1>1 DEF OfProxy, RunSummary, ProxyRow, Usage
    <2> QED BY <1>1, <2>1, SumType DEF Sum
  <1>3. SumFunctionOnSet(Merged(cyc, p), ErrorCodes) \in Nat
    <2>1. IsFiniteSet(ErrorCodes)
      BY DEF SummaryAssumption
    <2> QED BY <2>1, <1>2, SumType
  <1> QED BY <1>1, <1>2, <1>3

\* A lease that ends is counted by the collector and by the pool.
LEMMA LeaseKeeps ==
  ASSUME SummaryAssumption, SummaryIInv, NEW p \in Proxies, NEW outcome \in LeaseOutcomes,
         NEW code \in ErrorCodes \cup {Null}, LeaseEnds(p, outcome, code)
  PROVE  SummaryIInv'
  <1>1. /\ running /\ metrics' = [metrics EXCEPT !.proxyUsage[p] = Tally(@, outcome, code)]
        /\ pool' = [pool EXCEPT ![p] = Tally(@, outcome, Null)]
        /\ running' = running /\ cycles' = cycles /\ latenciesMs' = latenciesMs
        /\ recorded' = recorded
    BY DEF LeaseEnds
  <1>2. /\ metrics \in Collector /\ pool \in [Proxies -> Usage]
        /\ cycles \in Seq(RunSummary \cup {Null})
        /\ \A q \in Proxies : \A c \in ErrorCodes : pool[q].byErrorCode[c] = 0
    BY DEF SummaryIInv, SummaryTypes
  <1>3. metrics.proxyUsage \in [Proxies -> Usage]
    BY <1>2 DEF Collector
  <1> DEFINE u == metrics.proxyUsage[p]
             t == Tally(u, outcome, code)
             w == Tally(pool[p], outcome, Null)
  <1>4. u \in Usage /\ pool[p] \in Usage
    BY <1>2, <1>3
  <1>5. /\ t \in Usage
        /\ SumFunctionOnSet(t.byErrorCode, ErrorCodes)
             <= SumFunctionOnSet(u.byErrorCode, ErrorCodes) + 1
    BY <1>4, TallyIs
  <1>6. /\ w \in Usage /\ w.requests = pool[p].requests + 1 /\ w.byErrorCode = pool[p].byErrorCode
    BY <1>4, TallyIs
  <1> HIDE DEF t, w
  <1>7. /\ pool' \in [Proxies -> Usage] /\ pool'[p] = w
        /\ \A q \in Proxies \ {p} : pool'[q] = pool[q]
    BY <1>1, <1>2, <1>6 DEF w
  <1>8. /\ metrics' \in Collector /\ metrics'.proxyUsage[p] = t
        /\ \A q \in Proxies \ {p} : metrics'.proxyUsage[q] = metrics.proxyUsage[q]
        /\ metrics'.totalRequests = metrics.totalRequests /\ metrics'.successful = metrics.successful
        /\ metrics'.failed = metrics.failed /\ metrics'.statusCounts = metrics.statusCounts
        /\ metrics'.errorCounts = metrics.errorCounts
    <2>1. metrics' = [metrics EXCEPT !.proxyUsage = [metrics.proxyUsage EXCEPT ![p] = t]]
      BY <1>1 DEF t
    <2>2. [metrics.proxyUsage EXCEPT ![p] = t] \in [Proxies -> Usage]
      BY <1>3, <1>5
    <2>3. metrics'.proxyUsage = [metrics.proxyUsage EXCEPT ![p] = t]
      BY <2>1, <1>2 DEF Collector
    <2> QED BY <2>1, <2>2, <2>3, <1>2, <1>3 DEF Collector
  <1>9. SummaryTypes'
    <2>1. \A q \in Proxies : \A c \in ErrorCodes : pool'[q].byErrorCode[c] = 0
      BY <1>2, <1>6, <1>7
    <2> QED BY <2>1, <1>1, <1>7, <1>8 DEF SummaryIInv, SummaryTypes
  <1>10. CurrentAgrees'
    BY <1>1, <1>8 DEF SummaryIInv, CurrentAgrees, Agrees
  <1>11. SessionAgrees' /\ Listed'
    BY <1>1 DEF SummaryIInv, SessionAgrees, Listed
  <1>12. Attributed'
    <2> SUFFICES ASSUME NEW q \in Proxies
                 PROVE  SumFunctionOnSet(Merged(cycles, q), ErrorCodes)
                          + SumFunctionOnSet(metrics'.proxyUsage[q].byErrorCode, ErrorCodes)
                          <= pool'[q].requests
      BY <1>1 DEF Attributed
    <2>1. SumFunctionOnSet(Merged(cycles, q), ErrorCodes)
            + SumFunctionOnSet(metrics.proxyUsage[q].byErrorCode, ErrorCodes) <= pool[q].requests
      BY <1>1 DEF SummaryIInv, Attributed
    <2>2. CASE q # p
      BY <2>1, <2>2, <1>7, <1>8
    <2>3. CASE q = p
      <3>1. SumFunctionOnSet(Merged(cycles, p), ErrorCodes) \in Int
        <4>1. cycles \in Seq(RunSummary \cup {Null})
          BY <1>2
        <4>2. SumFunctionOnSet(Merged(cycles, p), ErrorCodes) \in Nat
          BY <4>1, MergedIs
        <4> QED BY <4>2
      <3>2. \A x \in Usage : SumFunctionOnSet(x.byErrorCode, ErrorCodes) \in Int
        <4> TAKE x \in Usage
        <4>1. IsFiniteSet(ErrorCodes) /\ \A c \in ErrorCodes : x.byErrorCode[c] \in Int
          BY DEF SummaryAssumption, Usage
        <4> QED BY <4>1, SumType
      <3>3. /\ SumFunctionOnSet(u.byErrorCode, ErrorCodes) \in Int
            /\ SumFunctionOnSet(t.byErrorCode, ErrorCodes) \in Int
        BY <3>2, <1>4, <1>5
      <3>4. pool[p].requests \in Int
        BY <1>4 DEF Usage
      <3> QED BY <2>1, <2>3, <3>1, <3>3, <3>4, <1>5, <1>6, <1>7, <1>8
    <2> QED BY <2>2, <2>3
  <1> QED BY <1>9, <1>10, <1>11, <1>12 DEF SummaryIInv

-----------------------------------------------------------------------------
Longer(rec, n, r) == [rec EXCEPT ![n] = Append(@, r)]

\* A record with one result more.
LEMMA LongerIs ==
  ASSUME NEW R, NEW rec \in Seq(Seq(R)), NEW n \in DOMAIN rec, NEW r \in R
  PROVE  LET new == Longer(rec, n, r)
         IN  /\ new \in Seq(Seq(R)) /\ Len(new) = Len(rec) /\ DOMAIN new = DOMAIN rec
             /\ \A c \in DOMAIN rec \ {n} : new[c] = rec[c]
             /\ new[n] = Append(rec[n], r)
  <1>1. rec[n] \in Seq(R) /\ n \in 1..Len(rec)
    BY LenProperties
  <1>2. Append(rec[n], r) \in Seq(R)
    BY <1>1, AppendProperties
  <1>3. Longer(rec, n, r) \in Seq(Seq(R)) /\ Len(Longer(rec, n, r)) = Len(rec)
    BY <1>1, <1>2, ExceptSeq DEF Longer
  <1>4. /\ DOMAIN Longer(rec, n, r) = DOMAIN rec
        /\ \A c \in DOMAIN rec \ {n} : Longer(rec, n, r)[c] = rec[c]
        /\ Longer(rec, n, r)[n] = Append(rec[n], r)
    BY DEF Longer
  <1> QED BY <1>3, <1>4

\* A result more is one outcome more, if it counts.
LEMMA OutGrows ==
  ASSUME NEW R, NEW rec \in Seq(Seq(R)), NEW n \in DOMAIN rec, NEW r \in R,
         NEW cs \in SUBSET DOMAIN rec, n \in cs
  PROVE  LET d == <<n, Len(rec[n]) + 1>>
             new == Longer(rec, n, r)
         IN  /\ r.errorCode # "cancelled" =>
                  /\ Out(new, cs) = Out(rec, cs) \cup {d} /\ d \notin Out(rec, cs)
                  /\ \A code : CodeIn(new, Out(new, cs), code)
                        = CodeIn(rec, Out(rec, cs), code) \cup (IF r.errorCode = code THEN {d} ELSE {})
             /\ r.errorCode = "cancelled" =>
                  /\ Out(new, cs) = Out(rec, cs)
                  /\ \A code : CodeIn(new, Out(new, cs), code) = CodeIn(rec, Out(rec, cs), code)
  <1> DEFINE L == Len(rec[n])
             d == <<n, L + 1>>
             new == Longer(rec, n, r)
  <1> HIDE DEF new
  <1>1. DOMAIN rec = 1..Len(rec) /\ rec[n] \in Seq(R) /\ L \in Nat /\ DOMAIN rec[n] = 1..L
    <2>1. rec[n] \in Seq(R)
      OBVIOUS
    <2> QED BY <2>1, LenProperties
  <1>2. /\ Append(rec[n], r) \in Seq(R) /\ Len(Append(rec[n], r)) = L + 1
        /\ \A i \in 1..L : Append(rec[n], r)[i] = rec[n][i]
        /\ Append(rec[n], r)[L + 1] = r
    BY <1>1, AppendProperties
  <1>3. /\ new \in Seq(Seq(R)) /\ Len(new) = Len(rec) /\ DOMAIN new = DOMAIN rec
        /\ \A c \in DOMAIN rec \ {n} : new[c] = rec[c]
        /\ new[n] = Append(rec[n], r)
    <2>1. new = [rec EXCEPT ![n] = Append(@, r)]
      BY DEF new, Longer
    <2>2. n \in 1..Len(rec)
      BY <1>1
    <2> HIDE DEF L
    <2>3. new \in Seq(Seq(R)) /\ Len(new) = Len(rec)
      BY <1>2, <2>1, <2>2, ExceptSeq
    <2>4. DOMAIN new = DOMAIN rec /\ (\A c \in DOMAIN rec \ {n} : new[c] = rec[c])
          /\ new[n] = Append(rec[n], r)
      BY <2>1
    <2> QED BY <2>3, <2>4
  <1>4. DOMAIN new[n] = 1..(L + 1) /\ new[n][L + 1] = r /\ \A i \in 1..L : new[n][i] = rec[n][i]
    BY <1>2, <1>3, LenProperties
  <1>5. \A i : i \in 1..(L + 1) <=> i \in 1..L \/ i = L + 1
    BY <1>1
  <1>6. L + 1 \notin 1..L
    BY <1>1
  <1> HIDE DEF L
  <1>7. d[1] = n /\ d[2] = L + 1
    OBVIOUS
  <1>8. \A e : e = <<e[1], e[2]>> /\ e[1] = n /\ e[2] = L + 1 => e = d
    OBVIOUS
  <1> HIDE DEF d
  <1>9. ASSUME NEW e, e # d, e = <<e[1], e[2]>>, e[1] \in cs
        PROVE  /\ e[2] \in DOMAIN new[e[1]] <=> e[2] \in DOMAIN rec[e[1]]
               /\ e[2] \in DOMAIN rec[e[1]] => new[e[1]][e[2]] = rec[e[1]][e[2]]
    <2>1. CASE e[1] = n
      <3>1. e[2] # L + 1
        BY <1>8, <1>9, <2>1
      <3> QED BY <3>1, <2>1, <1>1, <1>4, <1>5 DEF L
    <2>2. CASE e[1] # n
      <3>1. new[e[1]] = rec[e[1]]
        BY <2>2, <1>3, <1>9
      <3> QED BY <3>1
    <2> QED BY <2>1, <2>2
  <1>10. \A e : e # d => (e \in Out(new, cs) <=> e \in Out(rec, cs))
    <2> TAKE e
    <2> SUFFICES ASSUME e # d PROVE e \in Out(new, cs) <=> e \in Out(rec, cs)
      OBVIOUS
    <2>1. CASE e = <<e[1], e[2]>> /\ e[1] \in cs
      <3>1. /\ e[2] \in DOMAIN new[e[1]] <=> e[2] \in DOMAIN rec[e[1]]
            /\ e[2] \in DOMAIN rec[e[1]] => new[e[1]][e[2]] = rec[e[1]][e[2]]
        BY <2>1, <1>9
      <3>2. e \in Out(new, cs) <=> e[2] \in DOMAIN new[e[1]] /\ new[e[1]][e[2]].errorCode # "cancelled"
        BY <2>1, OutIs
      <3>3. e \in Out(rec, cs) <=> e[2] \in DOMAIN rec[e[1]] /\ rec[e[1]][e[2]].errorCode # "cancelled"
        BY <2>1, OutIs
      <3> QED BY <3>1, <3>2, <3>3
    <2>2. CASE ~(e = <<e[1], e[2]>> /\ e[1] \in cs)
      BY <2>2, OutIs
    <2> QED BY <2>1, <2>2
  <1>11. d \notin Out(rec, cs)
    BY <1>1, <1>6, <1>7, OutIs DEF L
  <1>12. d \in Out(new, cs) <=> r.errorCode # "cancelled"
    <2>1. d = <<n, L + 1>>
      BY DEF d
    <2>2. d \in Out(new, cs) <=>
            n \in cs /\ L + 1 \in DOMAIN new[n] /\ new[n][L + 1].errorCode # "cancelled"
      BY <2>1, OutIs
    <2>3. L + 1 \in DOMAIN new[n]
      BY <1>4, <1>5
    <2> QED BY <2>2, <2>3, <1>4
  <1>13. \A e \in Out(rec, cs) : new[e[1]][e[2]] = rec[e[1]][e[2]]
    <2> TAKE e \in Out(rec, cs)
    <2>1. e # d /\ e = <<e[1], e[2]>> /\ e[1] \in cs /\ e[2] \in DOMAIN rec[e[1]]
      BY <1>11, OutIs
    <2> QED BY <2>1, <1>9
  <1>14. new[d[1]][d[2]] = r
    BY <1>4, <1>7
  <1>15. CASE r.errorCode # "cancelled"
    <2>1. Out(new, cs) = Out(rec, cs) \cup {d}
      BY <1>10, <1>11, <1>12, <1>15
    <2>2. ASSUME NEW code
          PROVE  CodeIn(new, Out(new, cs), code)
                   = CodeIn(rec, Out(rec, cs), code) \cup (IF r.errorCode = code THEN {d} ELSE {})
      BY <2>1, <1>11, <1>13, <1>14 DEF CodeIn
    <2> QED BY <2>1, <2>2, <1>3, <1>11, <1>15 DEF d, L, new
  <1>16. CASE r.errorCode = "cancelled"
    <2>1. Out(new, cs) = Out(rec, cs)
      <3>1. \A e : e \in Out(new, cs) <=> e \in Out(rec, cs)
        BY <1>10, <1>11, <1>12, <1>16
      <3> QED BY <3>1
    <2>2. ASSUME NEW code
          PROVE  CodeIn(new, Out(new, cs), code) = CodeIn(rec, Out(rec, cs), code)
      BY <2>1, <1>13 DEF CodeIn
    <2> QED BY <2>1, <2>2, <1>3, <1>16 DEF new
  <1> QED BY <1>15, <1>16 DEF new

\* The collector counts a result, or only the calls of one that does not count.
LEMMA CountedIs ==
  ASSUME SummaryAssumption, NEW m \in Collector, NEW r \in Result
  PROVE  LET k == Counted(m, r)
         IN  /\ k \in Collector /\ k.proxyUsage = m.proxyUsage
             /\ r.errorCode = "cancelled" =>
                  /\ k.totalRequests = m.totalRequests /\ k.successful = m.successful
                  /\ k.failed = m.failed /\ k.statusCounts = m.statusCounts
                  /\ k.errorCounts = m.errorCounts
             /\ r.errorCode # "cancelled" =>
                  /\ k.totalRequests = m.totalRequests + 1
                  /\ k.successful = m.successful + (IF r.status = "ok" THEN 1 ELSE 0)
                  /\ k.failed = m.failed + (IF r.status = "ok" THEN 0 ELSE 1)
                  /\ k.statusCounts = [m.statusCounts EXCEPT ![r.status] = @ + 1]
                  /\ k.errorCounts = IF r.errorCode = Null THEN m.errorCounts
                                     ELSE [m.errorCounts EXCEPT ![r.errorCode] = @ + 1]
  <1> DEFINE k == Counted(m, r)
             t == m.totalRequests + (IF Counts(r) /\ TRUE THEN 1 ELSE 0)
             x == m.platformHttpRequests + r.platformHttpRequests
             o == m.successful + (IF Counts(r) /\ r.status = "ok" THEN 1 ELSE 0)
             f == m.failed + (IF Counts(r) /\ r.status # "ok" THEN 1 ELSE 0)
             re == m.retried + (IF Counts(r) /\ r.retries > 0 THEN 1 ELSE 0)
             ex == m.exhausted + (IF Counts(r) /\ r.exhausted THEN 1 ELSE 0)
             st == IF Counts(r) /\ r.status # Null THEN [m.statusCounts EXCEPT ![r.status] = @ + 1]
                   ELSE m.statusCounts
             er == IF Counts(r) /\ r.errorCode # Null
                   THEN [m.errorCounts EXCEPT ![r.errorCode] = @ + 1] ELSE m.errorCounts
             la == IF Counts(r) THEN Append(m.latencies, r.latencyMs) ELSE m.latencies
  <1>1. /\ r.status \in RowStatuses /\ r.errorCode \in ErrorCodes \cup {Null} /\ r.latencyMs \in Nat
        /\ r.platformHttpRequests \in Nat /\ r.status # Null
    BY DEF Result, SummaryAssumption
  <1>2. /\ m.totalRequests \in Nat /\ m.platformHttpRequests \in Nat /\ m.successful \in Nat
        /\ m.failed \in Nat /\ m.statusCounts \in [RowStatuses -> Nat]
        /\ m.errorCounts \in [ErrorCodes -> Nat] /\ m.retried \in Nat /\ m.exhausted \in Nat
        /\ m.latencies \in Seq(Nat) /\ m.proxyUsage \in [Proxies -> Usage]
    BY DEF Collector
  <1>3. k = [totalRequests |-> t, platformHttpRequests |-> x, successful |-> o, failed |-> f,
             statusCounts |-> st, errorCounts |-> er, retried |-> re, exhausted |-> ex,
             latencies |-> la, proxyUsage |-> m.proxyUsage]
    BY DEF Counted
  <1>4. st \in [RowStatuses -> Nat]
    <2>1. [m.statusCounts EXCEPT ![r.status] = @ + 1] \in [RowStatuses -> Nat]
      BY <1>1, <1>2
    <2> QED BY <2>1, <1>2
  <1>5. er \in [ErrorCodes -> Nat]
    <2>1. r.errorCode \in ErrorCodes => [m.errorCounts EXCEPT ![r.errorCode] = @ + 1] \in [ErrorCodes -> Nat]
      BY <1>2
    <2>2. r.errorCode # Null => r.errorCode \in ErrorCodes
      BY <1>1
    <2> QED BY <2>2, <2>1, <1>2
  <1>6. la \in Seq(Nat)
    BY <1>1, <1>2, AppendProperties
  <1>7. t \in Nat /\ x \in Nat /\ o \in Nat /\ f \in Nat /\ re \in Nat /\ ex \in Nat
    <2>1. x \in Nat
      BY <1>1, <1>2
    <2>2. t \in Nat /\ o \in Nat /\ f \in Nat
      BY <1>2
    <2>3. re \in Nat
      BY <1>2
    <2>4. ex \in Nat
      BY <1>2
    <2> QED BY <2>1, <2>2, <2>3, <2>4
  <1>8. r.errorCode = "cancelled" =>
          /\ t = m.totalRequests /\ o = m.successful /\ f = m.failed /\ st = m.statusCounts
          /\ er = m.errorCounts
    BY <1>2 DEF Counts
  <1>9. r.errorCode # "cancelled" =>
          /\ t = m.totalRequests + 1 /\ o = m.successful + (IF r.status = "ok" THEN 1 ELSE 0)
          /\ f = m.failed + (IF r.status = "ok" THEN 0 ELSE 1)
          /\ st = [m.statusCounts EXCEPT ![r.status] = @ + 1]
          /\ er = IF r.errorCode = Null THEN m.errorCounts
                  ELSE [m.errorCounts EXCEPT ![r.errorCode] = @ + 1]
    <2> SUFFICES ASSUME r.errorCode # "cancelled"
                 PROVE  /\ t = m.totalRequests + 1 /\ o = m.successful + (IF r.status = "ok" THEN 1 ELSE 0)
                        /\ f = m.failed + (IF r.status = "ok" THEN 0 ELSE 1)
                        /\ st = [m.statusCounts EXCEPT ![r.status] = @ + 1]
                        /\ er = IF r.errorCode = Null THEN m.errorCounts
                                ELSE [m.errorCounts EXCEPT ![r.errorCode] = @ + 1]
      OBVIOUS
    <2>1. Counts(r)
      BY DEF Counts
    <2>2. t = m.totalRequests + 1 /\ o = m.successful + (IF r.status = "ok" THEN 1 ELSE 0)
          /\ f = m.failed + (IF r.status = "ok" THEN 0 ELSE 1)
      BY <2>1
    <2>3. /\ st = [m.statusCounts EXCEPT ![r.status] = @ + 1]
          /\ er = IF r.errorCode = Null THEN m.errorCounts
                  ELSE [m.errorCounts EXCEPT ![r.errorCode] = @ + 1]
      BY <2>1, <1>1
    <2> QED BY <2>2, <2>3
  <1> HIDE DEF st, er, la, k, t, x, o, f, re, ex
  <1>10. k \in Collector
    BY <1>2, <1>3, <1>4, <1>5, <1>6, <1>7 DEF Collector
  <1>11. /\ k.proxyUsage = m.proxyUsage /\ k.totalRequests = t /\ k.successful = o /\ k.failed = f
         /\ k.statusCounts = st /\ k.errorCounts = er
    BY <1>3
  <1> QED BY <1>8, <1>9, <1>10, <1>11 DEF k

\* A result that counts, counted, agrees with one outcome more.
LEMMA AgreesNext ==
  ASSUME SummaryAssumption, NEW m \in Collector, NEW r \in Result, r.errorCode # "cancelled",
         NEW rec, NEW new, NEW done, IsFiniteSet(done), Agrees(m, rec, done),
         NEW d, d \notin done,
         \A code : CodeIn(new, done \cup {d}, code)
                   = CodeIn(rec, done, code) \cup (IF r.errorCode = code THEN {d} ELSE {})
  PROVE  Agrees(Counted(m, r), new, done \cup {d})
  <1> DEFINE k == Counted(m, r)
             more == done \cup {d}
  <1>1. /\ k.totalRequests = m.totalRequests + 1
        /\ k.successful = m.successful + (IF r.status = "ok" THEN 1 ELSE 0)
        /\ k.failed = m.failed + (IF r.status = "ok" THEN 0 ELSE 1)
        /\ k.statusCounts = [m.statusCounts EXCEPT ![r.status] = @ + 1]
        /\ k.errorCounts = IF r.errorCode = Null THEN m.errorCounts
                           ELSE [m.errorCounts EXCEPT ![r.errorCode] = @ + 1]
    BY CountedIs
  <1>2. /\ r.status \in RowStatuses /\ m.totalRequests \in Nat /\ m.successful \in Nat
        /\ m.failed \in Nat /\ m.statusCounts \in [RowStatuses -> Nat]
        /\ m.errorCounts \in [ErrorCodes -> Nat] /\ Null \notin ErrorCodes
    BY DEF Result, Collector, SummaryAssumption
  <1>3. /\ m.totalRequests = Cardinality(done) /\ m.totalRequests = m.successful + m.failed
        /\ m.totalRequests = m.statusCounts["ok"] + m.statusCounts["not_found"] + m.statusCounts["error"]
        /\ m.successful = m.statusCounts["ok"]
        /\ \A c \in ErrorCodes : m.errorCounts[c] = Cardinality(CodeIn(rec, done, c))
    BY DEF Agrees
  <1> HIDE DEF k
  <1>4. k.totalRequests = Cardinality(more)
    <2>1. Cardinality(more) = Cardinality(done) + 1
      BY FS_AddElement
    <2> QED BY <2>1, <1>1, <1>3
  <1>5. k.totalRequests = k.successful + k.failed
    <2>1. CASE r.status = "ok"
      BY <2>1, <1>1, <1>2, <1>3
    <2>2. CASE r.status # "ok"
      BY <2>2, <1>1, <1>2, <1>3
    <2> QED BY <2>1, <2>2
  <1>6. /\ k.statusCounts["ok"] = m.statusCounts["ok"] + (IF r.status = "ok" THEN 1 ELSE 0)
        /\ k.statusCounts["not_found"] = m.statusCounts["not_found"] + (IF r.status = "not_found" THEN 1 ELSE 0)
        /\ k.statusCounts["error"] = m.statusCounts["error"] + (IF r.status = "error" THEN 1 ELSE 0)
        /\ m.statusCounts["ok"] \in Nat /\ m.statusCounts["not_found"] \in Nat
        /\ m.statusCounts["error"] \in Nat
    BY <1>1, <1>2 DEF RowStatuses
  <1>7. r.status = "ok" \/ r.status = "not_found" \/ r.status = "error"
    BY <1>2 DEF RowStatuses
  <1>8. k.totalRequests = k.statusCounts["ok"] + k.statusCounts["not_found"] + k.statusCounts["error"]
    <2>1. CASE r.status = "ok"
      BY <2>1, <1>1, <1>2, <1>3, <1>6
    <2>2. CASE r.status = "not_found"
      BY <2>2, <1>1, <1>2, <1>3, <1>6
    <2>3. CASE r.status = "error"
      BY <2>3, <1>1, <1>2, <1>3, <1>6
    <2> QED BY <2>1, <2>2, <2>3, <1>7
  <1>9. k.successful = k.statusCounts["ok"]
    BY <1>1, <1>3, <1>6
  <1>10. ASSUME NEW c \in ErrorCodes PROVE k.errorCounts[c] = Cardinality(CodeIn(new, more, c))
    <2>1. IsFiniteSet(CodeIn(rec, done, c)) /\ d \notin CodeIn(rec, done, c)
      <3>1. CodeIn(rec, done, c) \subseteq done
        BY DEF CodeIn
      <3> QED BY <3>1, FS_Subset
    <2>2. m.errorCounts[c] = Cardinality(CodeIn(rec, done, c)) /\ m.errorCounts[c] \in Nat
      BY <1>2, <1>3
    <2>3. CASE r.errorCode = c
      <3>1. k.errorCounts[c] = m.errorCounts[c] + 1
        BY <2>3, <1>1, <1>2
      <3>2. CodeIn(new, more, c) = CodeIn(rec, done, c) \cup {d}
        BY <2>3
      <3> QED BY <3>1, <3>2, <2>1, <2>2, FS_AddElement
    <2>4. CASE r.errorCode # c
      <3>1. k.errorCounts[c] = m.errorCounts[c]
        BY <2>4, <1>1, <1>2
      <3>2. CodeIn(new, more, c) = CodeIn(rec, done, c)
        BY <2>4
      <3> QED BY <3>1, <3>2, <2>2
    <2> QED BY <2>3, <2>4
  <1> QED BY <1>4, <1>5, <1>8, <1>9, <1>10 DEF Agrees, k

\* A result that ends is recorded, counted, and timed, unless it was cancelled.
LEMMA EndsKeeps ==
  ASSUME SummaryAssumption, SummaryIInv, NEW r \in Results, Ends(r)
  PROVE  SummaryIInv'
  <1> DEFINE n == Len(recorded)
             ds == DOMAIN recorded
             d == <<Len(recorded), Len(recorded[Len(recorded)]) + 1>>
  <1>1. /\ running /\ metrics' = Counted(metrics, r)
        /\ latenciesMs' = IF r.errorCode = "cancelled" THEN latenciesMs
                          ELSE Append(latenciesMs, r.latencyMs)
        /\ recorded' = Longer(recorded, n, r)
        /\ pool' = pool /\ running' = running /\ cycles' = cycles
    BY DEF Ends, Longer
  <1>2. /\ metrics \in Collector /\ cycles \in Seq(RunSummary \cup {Null})
        /\ latenciesMs \in Seq(Nat) /\ recorded \in Seq(Seq(Results))
        /\ Len(recorded) = Len(cycles) + 1
    BY <1>1 DEF SummaryIInv, SummaryTypes
  <1>3. r \in Result /\ r.latencyMs \in Nat
    BY DEF SummaryAssumption, Result
  <1>4. /\ Len(cycles) \in Nat /\ DOMAIN cycles = 1..Len(cycles) /\ ds = 1..n /\ n \in ds /\ n \in Nat
    <2>1. Len(cycles) \in Nat /\ DOMAIN cycles = 1..Len(cycles) /\ ds = 1..n
      BY <1>2, LenProperties
    <2> QED BY <2>1, <1>2
  <1> HIDE DEF n, ds
  <1>5. /\ recorded' \in Seq(Seq(Results)) /\ Len(recorded') = n /\ DOMAIN recorded' = ds
        /\ \A c \in ds \ {n} : recorded'[c] = recorded[c]
    <2>1. recorded \in Seq(Seq(Results)) /\ n \in DOMAIN recorded
      BY <1>2, <1>4 DEF ds
    <2>2. LET new == Longer(recorded, n, r)
          IN  /\ new \in Seq(Seq(Results)) /\ Len(new) = Len(recorded) /\ DOMAIN new = DOMAIN recorded
              /\ \A c \in DOMAIN recorded \ {n} : new[c] = recorded[c]
      BY <2>1, LongerIs
    <2> QED BY <2>2, <1>1 DEF n, ds
  <1>6. \A cs \in {{n}, ds} :
          /\ r.errorCode # "cancelled" =>
               /\ Out(recorded', cs) = Out(recorded, cs) \cup {d} /\ d \notin Out(recorded, cs)
               /\ \A code : CodeIn(recorded', Out(recorded', cs), code)
                     = CodeIn(recorded, Out(recorded, cs), code)
                       \cup (IF r.errorCode = code THEN {d} ELSE {})
          /\ r.errorCode = "cancelled" =>
               /\ Out(recorded', cs) = Out(recorded, cs)
               /\ \A code : CodeIn(recorded', Out(recorded', cs), code)
                     = CodeIn(recorded, Out(recorded, cs), code)
    <2> TAKE cs \in {{n}, ds}
    <2>1. cs \subseteq DOMAIN recorded /\ n \in cs /\ n \in DOMAIN recorded
      BY <1>4 DEF ds
    <2>2. /\ recorded \in Seq(Seq(Results)) /\ recorded' = Longer(recorded, n, r)
          /\ d = <<n, Len(recorded[n]) + 1>>
      BY <1>1, <1>2 DEF n
    <2> HIDE DEF d
    <2>3. /\ r.errorCode # "cancelled" =>
               /\ Out(recorded', cs) = Out(recorded, cs) \cup {<<n, Len(recorded[n]) + 1>>}
               /\ <<n, Len(recorded[n]) + 1>> \notin Out(recorded, cs)
               /\ \A code : CodeIn(recorded', Out(recorded', cs), code)
                     = CodeIn(recorded, Out(recorded, cs), code)
                       \cup (IF r.errorCode = code THEN {<<n, Len(recorded[n]) + 1>>} ELSE {})
          /\ r.errorCode = "cancelled" =>
               /\ Out(recorded', cs) = Out(recorded, cs)
               /\ \A code : CodeIn(recorded', Out(recorded', cs), code)
                     = CodeIn(recorded, Out(recorded, cs), code)
      BY <2>1, <2>2, OutGrows
    <2> QED BY <2>2, <2>3
  <1>7. /\ IsFiniteSet(Out(recorded, ds)) /\ Len(latenciesMs) = Cardinality(Out(recorded, ds))
        /\ IsFiniteSet(Out(recorded, {n}))
    <2>1. Out(recorded, {n}) \subseteq Out(recorded, ds)
      BY <1>4, OutParts
    <2>2. IsFiniteSet(Out(recorded, ds)) /\ Len(latenciesMs) = Cardinality(Out(recorded, ds))
      BY DEF SummaryIInv, Listed, ds
    <2> QED BY <2>1, <2>2, FS_Subset
  <1> HIDE DEF d
  <1>8. SummaryTypes'
    <2>1. metrics' \in Collector
      BY <1>1, <1>2, <1>3, CountedIs
    <2>2. latenciesMs' \in Seq(Nat)
      BY <1>1, <1>2, <1>3, AppendProperties
    <2> QED BY <2>1, <2>2, <1>1, <1>5 DEF SummaryIInv, SummaryTypes, n
  <1>9. Listed'
    <2>1. CASE r.errorCode = "cancelled"
      BY <2>1, <1>1, <1>5, <1>6, <1>7 DEF Listed
    <2>2. CASE r.errorCode # "cancelled"
      <3>1. Len(latenciesMs') = Len(latenciesMs) + 1
        BY <2>2, <1>1, <1>2, <1>3, AppendProperties
      <3>2. /\ Out(recorded', ds) = Out(recorded, ds) \cup {d} /\ d \notin Out(recorded, ds)
        BY <2>2, <1>6
      <3>3. /\ IsFiniteSet(Out(recorded', ds))
            /\ Cardinality(Out(recorded', ds)) = Cardinality(Out(recorded, ds)) + 1
        BY <3>2, <1>7, FS_AddElement
      <3> QED BY <3>1, <3>3, <1>5, <1>7 DEF Listed
    <2> QED BY <2>1, <2>2
  <1>10. CurrentAgrees'
    <2>1. Agrees(metrics, recorded, Out(recorded, {n}))
      BY <1>1 DEF SummaryIInv, CurrentAgrees, n
    <2>2. Agrees(metrics', recorded', Out(recorded', {n}))
      <3>1. CASE r.errorCode = "cancelled"
        <4>1. /\ metrics'.totalRequests = metrics.totalRequests /\ metrics'.successful = metrics.successful
              /\ metrics'.failed = metrics.failed /\ metrics'.statusCounts = metrics.statusCounts
              /\ metrics'.errorCounts = metrics.errorCounts
          BY <3>1, <1>1, <1>2, <1>3, CountedIs
        <4>2. /\ Out(recorded', {n}) = Out(recorded, {n})
              /\ \A code : CodeIn(recorded', Out(recorded', {n}), code)
                           = CodeIn(recorded, Out(recorded, {n}), code)
          BY <3>1, <1>6
        <4> QED BY <4>1, <4>2, <2>1 DEF Agrees
      <3>2. CASE r.errorCode # "cancelled"
        <4>1. /\ Out(recorded', {n}) = Out(recorded, {n}) \cup {d} /\ d \notin Out(recorded, {n})
              /\ \A code : CodeIn(recorded', Out(recorded, {n}) \cup {d}, code)
                           = CodeIn(recorded, Out(recorded, {n}), code)
                             \cup (IF r.errorCode = code THEN {d} ELSE {})
          <5>1. {n} \in {{n}, ds}
            OBVIOUS
          <5>2. /\ Out(recorded', {n}) = Out(recorded, {n}) \cup {d} /\ d \notin Out(recorded, {n})
                /\ \A code : CodeIn(recorded', Out(recorded', {n}), code)
                             = CodeIn(recorded, Out(recorded, {n}), code)
                               \cup (IF r.errorCode = code THEN {d} ELSE {})
            BY <3>2, <5>1, <1>6
          <5> QED BY <5>2
        <4>2. Agrees(Counted(metrics, r), recorded', Out(recorded, {n}) \cup {d})
          BY <3>2, <4>1, <2>1, <1>2, <1>3, <1>7, AgreesNext
        <4> QED BY <4>1, <4>2, <1>1
      <3> QED BY <3>1, <3>2
    <2> QED BY <2>2, <1>5 DEF CurrentAgrees
  <1>11. SessionAgrees'
    <2>1. Ended(cycles) \subseteq ds \ {n}
      BY <1>2, <1>4 DEF Ended, n
    <2>2. \A c \in Ended(cycles) : recorded'[c] = recorded[c]
      BY <2>1, <1>5
    <2> DEFINE e == Ended(cycles)
    <2>3. /\ Out(recorded', e) = Out(recorded, e)
          /\ \A code : CodeIn(recorded', Out(recorded, e), code) = CodeIn(recorded, Out(recorded, e), code)
      <3>1. \A c \in e : recorded'[c] = recorded[c]
        BY <2>2
      <3> HIDE DEF e
      <3> QED BY <3>1, OutSame
    <2>4. TotalsAgree(cycles, recorded, Out(recorded, e))
      BY DEF SummaryIInv, SessionAgrees
    <2>5. TotalsAgree(cycles, recorded', Out(recorded', e))
      BY <2>3, <2>4 DEF TotalsAgree
    <2> QED BY <2>5, <1>1 DEF SessionAgrees
  <1>12. Attributed'
    <2>1. metrics'.proxyUsage = metrics.proxyUsage
      BY <1>1, <1>2, <1>3, CountedIs
    <2> QED BY <2>1, <1>1 DEF SummaryIInv, Attributed
  <1> QED BY <1>8, <1>9, <1>10, <1>11, <1>12 DEF SummaryIInv

-----------------------------------------------------------------------------
\* Figures of a set with one element more.
LEMMA SumGrows ==
  ASSUME NEW f, NEW g, NEW S, IsFiniteSet(S), NEW k, k \notin S, g[k] \in Nat,
         \A x \in S : f[x] \in Nat /\ g[x] = f[x]
  PROVE  /\ SumFunctionOnSet(g, S \cup {k}) = SumFunctionOnSet(f, S) + g[k]
         /\ SumFunctionOnSet(f, S) \in Nat
  <1>1. SumFunctionOnSet(g, S \cup {k}) = SumFunctionOnSet(g, S) + g[k]
    <2>1. \A y \in S \cup {k} : g[y] \in Int
      OBVIOUS
    <2> QED BY <2>1, SumAdd
  <1>2. SumFunctionOnSet(f, S) = SumFunctionOnSet(g, S)
    BY SumSame
  <1>3. SumFunctionOnSet(f, S) \in Nat
    BY SumType
  <1> QED BY <1>1, <1>2, <1>3

\* The cycles that have a summary, with one cycle more.
LEMMA EndedIs ==
  ASSUME SummaryAssumption, NEW cyc \in Seq(RunSummary \cup {Null}), NEW s \in RunSummary \cup {Null}
  PROVE  /\ Append(cyc, s) \in Seq(RunSummary \cup {Null}) /\ Len(Append(cyc, s)) = Len(cyc) + 1
         /\ s = Null => Ended(Append(cyc, s)) = Ended(cyc)
         /\ s # Null => Ended(Append(cyc, s)) = Ended(cyc) \cup {Len(cyc) + 1}
         /\ Len(cyc) + 1 \notin Ended(cyc) /\ Append(cyc, s)[Len(cyc) + 1] = s
         /\ \A j \in Ended(cyc) : Append(cyc, s)[j] = cyc[j] /\ cyc[j] \in RunSummary
         /\ IsFiniteSet(Ended(cyc)) /\ Ended(cyc) \subseteq 1..Len(cyc) /\ Len(cyc) \in Nat
  <1> DEFINE new == Append(cyc, s)
             L == Len(cyc)
  <1>1. L \in Nat /\ DOMAIN cyc = 1..L /\ \A j \in 1..L : cyc[j] \in RunSummary \cup {Null}
    BY LenProperties
  <1>2. /\ new \in Seq(RunSummary \cup {Null}) /\ Len(new) = L + 1
        /\ \A i \in 1..L : new[i] = cyc[i]
    BY AppendProperties
  <1>3. new[L + 1] = s
    BY AppendProperties
  <1>4. DOMAIN new = 1..(L + 1)
    BY <1>2, LenProperties
  <1> HIDE DEF new, L
  <1>5. (\A i : i \in 1..(L + 1) <=> i \in 1..L \/ i = L + 1) /\ L + 1 \notin 1..L
    BY <1>1
  <1>6. Ended(cyc) \subseteq 1..L
    BY <1>1 DEF Ended
  <1>7. IsFiniteSet(Ended(cyc))
    <2>1. IsFiniteSet(1..L)
      BY <1>1, FS_Interval
    <2> QED BY <2>1, <1>6, FS_Subset
  <1>8. \A j \in Ended(cyc) : new[j] = cyc[j] /\ cyc[j] \in RunSummary
    BY <1>1, <1>2, <1>6 DEF Ended
  <1>9. s = Null => Ended(new) = Ended(cyc)
    BY <1>1, <1>2, <1>3, <1>4, <1>5 DEF Ended
  <1>10. s # Null => Ended(new) = Ended(cyc) \cup {L + 1}
    <2>1. \A j \in 1..L : j \in Ended(new) <=> j \in Ended(cyc)
      BY <1>1, <1>2, <1>4, <1>5 DEF Ended
    <2>2. s # Null => L + 1 \in Ended(new)
      BY <1>1, <1>3, <1>4, <1>5 DEF Ended
    <2>3. \A j \in Ended(new) : j \in 1..L \/ j = L + 1
      BY <1>4, <1>5 DEF Ended
    <2> QED BY <2>1, <2>2, <2>3, <1>6
  <1>11. L + 1 \notin Ended(cyc)
    BY <1>5, <1>6
  <1> QED BY <1>1, <1>2, <1>3, <1>6, <1>7, <1>8, <1>9, <1>10, <1>11 DEF new, L

\* The totals over the cycles, with one cycle more: they grow by its summary.
LEMMA FiguresGrow ==
  ASSUME SummaryAssumption, NEW cyc \in Seq(RunSummary \cup {Null}), NEW s \in RunSummary
  PROVE  LET new == Append(cyc, s)
         IN  /\ Sum(new, Asked(new)) = Sum(cyc, Asked(cyc)) + s.requests
             /\ Sum(new, Won(new)) = Sum(cyc, Won(cyc)) + s.successes
             /\ Sum(new, Lost(new)) = Sum(cyc, Lost(cyc)) + s.failures
             /\ \A st \in RowStatuses : Sum(new, OfStatus(new, st))
                  = Sum(cyc, OfStatus(cyc, st)) + s.statusBreakdown[st]
             /\ \A c \in ErrorCodes : Sum(new, OfCode(new, c))
                  = Sum(cyc, OfCode(cyc, c)) + s.errorBreakdown[c]
             /\ \A p \in Proxies, c \in ErrorCodes : Merged(new, p)[c]
                  = Merged(cyc, p)[c] + s.perProxy[p].byErrorCode[c]
             /\ Sum(cyc, Asked(cyc)) \in Nat /\ Sum(cyc, Won(cyc)) \in Nat /\ Sum(cyc, Lost(cyc)) \in Nat
             /\ \A st \in RowStatuses : Sum(cyc, OfStatus(cyc, st)) \in Nat
             /\ \A c \in ErrorCodes : Sum(cyc, OfCode(cyc, c)) \in Nat
  <1> DEFINE new == Append(cyc, s)
             k == Len(cyc) + 1
             S == Ended(cyc)
  <1>1. s # Null
    BY DEF SummaryAssumption
  <1>2. /\ Ended(new) = S \cup {k} /\ k \notin S /\ new[k] = s /\ IsFiniteSet(S)
        /\ \A j \in S : new[j] = cyc[j] /\ cyc[j] \in RunSummary
    BY <1>1, EndedIs
  <1> HIDE DEF new, k, S
  <1>3. \A x \in RunSummary :
          /\ x.requests \in Nat /\ x.successes \in Nat /\ x.failures \in Nat
          /\ \A st \in RowStatuses : x.statusBreakdown[st] \in Nat
          /\ \A c \in ErrorCodes : x.errorBreakdown[c] \in Nat
          /\ \A p \in Proxies : \A c \in ErrorCodes : x.perProxy[p].byErrorCode[c] \in Nat
    <2> TAKE x \in RunSummary
    <2>1. /\ x.requests \in Nat /\ x.successes \in Nat /\ x.failures \in Nat
          /\ x.statusBreakdown \in [RowStatuses -> Nat] /\ x.errorBreakdown \in [ErrorCodes -> Nat]
          /\ x.perProxy \in [Proxies -> Usage]
      BY DEF RunSummary, ProxyRow
    <2>2. \A p \in Proxies : x.perProxy[p].byErrorCode \in [ErrorCodes -> Nat]
      BY <2>1 DEF Usage
    <2> QED BY <2>1, <2>2
  <1>4. /\ Sum(new, Asked(new)) = Sum(cyc, Asked(cyc)) + s.requests
        /\ Sum(cyc, Asked(cyc)) \in Nat
    <2> DEFINE f == Asked(cyc)  g == Asked(new)
    <2>1. /\ g[k] = s.requests /\ s.requests \in Nat
          /\ \A x \in S : f[x] \in Nat /\ g[x] = f[x]
      BY <1>2, <1>3 DEF Asked, S
    <2> HIDE DEF f, g
    <2>2. SumFunctionOnSet(g, S \cup {k}) = SumFunctionOnSet(f, S) + g[k] /\ SumFunctionOnSet(f, S) \in Nat
      BY <2>1, <1>2, SumGrows
    <2> QED BY <2>1, <2>2, <1>2 DEF Sum, f, g, S
  <1>5. /\ Sum(new, Won(new)) = Sum(cyc, Won(cyc)) + s.successes
        /\ Sum(cyc, Won(cyc)) \in Nat
    <2> DEFINE f == Won(cyc)  g == Won(new)
    <2>1. /\ g[k] = s.successes /\ s.successes \in Nat
          /\ \A x \in S : f[x] \in Nat /\ g[x] = f[x]
      BY <1>2, <1>3 DEF Won, S
    <2> HIDE DEF f, g
    <2>2. SumFunctionOnSet(g, S \cup {k}) = SumFunctionOnSet(f, S) + g[k] /\ SumFunctionOnSet(f, S) \in Nat
      BY <2>1, <1>2, SumGrows
    <2> QED BY <2>1, <2>2, <1>2 DEF Sum, f, g, S
  <1>6. /\ Sum(new, Lost(new)) = Sum(cyc, Lost(cyc)) + s.failures
        /\ Sum(cyc, Lost(cyc)) \in Nat
    <2> DEFINE f == Lost(cyc)  g == Lost(new)
    <2>1. /\ g[k] = s.failures /\ s.failures \in Nat
          /\ \A x \in S : f[x] \in Nat /\ g[x] = f[x]
      BY <1>2, <1>3 DEF Lost, S
    <2> HIDE DEF f, g
    <2>2. SumFunctionOnSet(g, S \cup {k}) = SumFunctionOnSet(f, S) + g[k] /\ SumFunctionOnSet(f, S) \in Nat
      BY <2>1, <1>2, SumGrows
    <2> QED BY <2>1, <2>2, <1>2 DEF Sum, f, g, S
  <1>7. ASSUME NEW st \in RowStatuses
        PROVE  /\ Sum(new, OfStatus(new, st)) = Sum(cyc, OfStatus(cyc, st)) + s.statusBreakdown[st]
               /\ Sum(cyc, OfStatus(cyc, st)) \in Nat
    <2> DEFINE f == OfStatus(cyc, st)  g == OfStatus(new, st)
    <2>1. /\ g[k] = s.statusBreakdown[st] /\ s.statusBreakdown[st] \in Nat
          /\ \A x \in S : f[x] \in Nat /\ g[x] = f[x]
      BY <1>2, <1>3 DEF OfStatus, S
    <2> HIDE DEF f, g
    <2>2. SumFunctionOnSet(g, S \cup {k}) = SumFunctionOnSet(f, S) + g[k] /\ SumFunctionOnSet(f, S) \in Nat
      BY <2>1, <1>2, SumGrows
    <2> QED BY <2>1, <2>2, <1>2 DEF Sum, f, g, S
  <1>8. ASSUME NEW c \in ErrorCodes
        PROVE  /\ Sum(new, OfCode(new, c)) = Sum(cyc, OfCode(cyc, c)) + s.errorBreakdown[c]
               /\ Sum(cyc, OfCode(cyc, c)) \in Nat
    <2> DEFINE f == OfCode(cyc, c)  g == OfCode(new, c)
    <2>1. /\ g[k] = s.errorBreakdown[c] /\ s.errorBreakdown[c] \in Nat
          /\ \A x \in S : f[x] \in Nat /\ g[x] = f[x]
      BY <1>2, <1>3 DEF OfCode, S
    <2> HIDE DEF f, g
    <2>2. SumFunctionOnSet(g, S \cup {k}) = SumFunctionOnSet(f, S) + g[k] /\ SumFunctionOnSet(f, S) \in Nat
      BY <2>1, <1>2, SumGrows
    <2> QED BY <2>1, <2>2, <1>2 DEF Sum, f, g, S
  <1>9. ASSUME NEW p \in Proxies, NEW c \in ErrorCodes
        PROVE  Merged(new, p)[c] = Merged(cyc, p)[c] + s.perProxy[p].byErrorCode[c]
    <2> DEFINE f == OfProxy(cyc, p, c)  g == OfProxy(new, p, c)
    <2>1. /\ g[k] = s.perProxy[p].byErrorCode[c] /\ s.perProxy[p].byErrorCode[c] \in Nat
          /\ \A x \in S : f[x] \in Nat /\ g[x] = f[x]
      BY <1>2, <1>3 DEF OfProxy, S
    <2> HIDE DEF f, g
    <2>2. SumFunctionOnSet(g, S \cup {k}) = SumFunctionOnSet(f, S) + g[k]
      BY <2>1, <1>2, SumGrows
    <2> QED BY <2>1, <2>2, <1>2 DEF Sum, Merged, f, g, S
  <1> QED BY <1>4, <1>5, <1>6, <1>7, <1>8, <1>9 DEF new

\* A total by status is a number.
LEMMA StatusTotals ==
  ASSUME SummaryAssumption, NEW cyc \in Seq(RunSummary \cup {Null}), NEW st \in RowStatuses
  PROVE  Sum(cyc, OfStatus(cyc, st)) \in Nat
  <1>1. /\ IsFiniteSet(Ended(cyc))
        /\ \A j \in Ended(cyc) : cyc[j] \in RunSummary
    BY EndedIs
  <1>2. \A j \in Ended(cyc) : OfStatus(cyc, st)[j] \in Nat
    BY <1>1 DEF OfStatus, RunSummary
  <1> QED BY <1>1, <1>2, SumType DEF Sum

\* A cycle that threw leaves every total as it is.
LEMMA FiguresStay ==
  ASSUME SummaryAssumption, NEW cyc \in Seq(RunSummary \cup {Null})
  PROVE  LET new == Append(cyc, Null)
         IN  /\ Ended(new) = Ended(cyc) /\ Asked(new) = Asked(cyc) /\ Won(new) = Won(cyc)
             /\ Lost(new) = Lost(cyc) /\ \A p : Merged(new, p) = Merged(cyc, p)
             /\ \A st : OfStatus(new, st) = OfStatus(cyc, st)
             /\ \A c : OfCode(new, c) = OfCode(cyc, c)
             /\ \A f : Sum(new, f) = Sum(cyc, f)
  <1> DEFINE new == Append(cyc, Null)
  <1>1. Ended(new) = Ended(cyc) /\ \A j \in Ended(cyc) : new[j] = cyc[j]
    BY EndedIs
  <1> HIDE DEF new
  <1>2. Asked(new) = Asked(cyc) /\ Won(new) = Won(cyc) /\ Lost(new) = Lost(cyc)
    BY <1>1 DEF Asked, Won, Lost
  <1>3. \A st : OfStatus(new, st) = OfStatus(cyc, st)
    BY <1>1 DEF OfStatus
  <1>4. \A c : OfCode(new, c) = OfCode(cyc, c)
    BY <1>1 DEF OfCode
  <1>5. \A f : Sum(new, f) = Sum(cyc, f)
    BY <1>1 DEF Sum
  <1>6. \A p, c : OfProxy(new, p, c) = OfProxy(cyc, p, c)
    BY <1>1 DEF OfProxy
  <1>7. \A p : Merged(new, p) = Merged(cyc, p)
    BY <1>5, <1>6 DEF Merged
  <1> QED BY <1>1, <1>2, <1>3, <1>4, <1>5, <1>7 DEF new

-----------------------------------------------------------------------------
\* The summary of a run is one.
LEMMA RunSummaryIs ==
  ASSUME SummaryAssumption, NEW m \in Collector, pool \in [Proxies -> Usage]
  PROVE  BuildRunSummary(m) \in RunSummary
  <1> DEFINE p50 == Percentile(m.latencies, 50)
             p95 == Percentile(m.latencies, 95)
             shown == PerProxy(m.proxyUsage)
             used == UsedOf(shown)
  <1>1. /\ m.totalRequests \in Nat /\ m.platformHttpRequests \in Nat /\ m.successful \in Nat
        /\ m.failed \in Nat /\ m.statusCounts \in [RowStatuses -> Nat]
        /\ m.errorCounts \in [ErrorCodes -> Nat] /\ m.retried \in Nat /\ m.exhausted \in Nat
        /\ m.latencies \in Seq(Nat) /\ m.proxyUsage \in [Proxies -> Usage]
    BY DEF Collector
  <1>2. \A p \in 1..100 : Percentile(m.latencies, p) \in Nat \cup {Null}
    <2> TAKE p \in 1..100
    <2>1. NearestRank(Percentile(m.latencies, p), m.latencies, p)
      BY <1>1, PercentileIs
    <2>2. ToSet(m.latencies) \subseteq Nat
      BY <1>1, LenProperties DEF ToSet
    <2> QED BY <2>1, <2>2 DEF NearestRank
  <1>3. p50 \in Nat \cup {Null} /\ p95 \in Nat \cup {Null}
    BY <1>2
  <1>4. shown \in [Proxies -> ProxyRow]
    BY <1>1 DEF PerProxy, ToRow, ProxyRow
  <1>5. used \in Nat
    <2>1. {p \in Proxies : shown[p].requests > 0} \subseteq Proxies /\ IsFiniteSet(Proxies)
      BY DEF SummaryAssumption
    <2> HIDE DEF shown
    <2> QED BY <2>1, FS_Subset, FS_CardinalityType DEF UsedOf
  <1>6. Len(m.latencies) \in Nat
    BY <1>1, LenProperties
  <1>7. BuildRunSummary(m) =
          [requests |-> m.totalRequests, platformHttpRequests |-> m.platformHttpRequests,
           successes |-> m.successful, failures |-> m.failed,
           statusBreakdown |-> m.statusCounts, errorBreakdown |-> m.errorCounts,
           retriedRequests |-> m.retried, exhaustedRequests |-> m.exhausted,
           latencyCount |-> Len(m.latencies), p50Ms |-> p50, p95Ms |-> p95,
           used |-> used, perProxy |-> shown]
    BY DEF BuildRunSummary
  <1> HIDE DEF p50, p95, shown, used
  <1> QED BY <1>1, <1>3, <1>4, <1>5, <1>6, <1>7 DEF RunSummary

\* Sets without a common element add up.
LEMMA Disjoint ==
  ASSUME NEW A, NEW B, IsFiniteSet(A), IsFiniteSet(B), A \cap B = {}
  PROVE  Cardinality(A \cup B) = Cardinality(A) + Cardinality(B)
  <1>1. Cardinality(A \cup B) = Cardinality(A) + Cardinality(B) - Cardinality(A \cap B)
    BY FS_Union
  <1>2. Cardinality(A) \in Nat /\ Cardinality(B) \in Nat /\ Cardinality({}) = 0
    BY FS_CardinalityType, FS_EmptySet
  <1>3. Cardinality(A \cap B) = 0
    BY <1>2
  <1>4. \A a, b, c : a \in Nat /\ b \in Nat /\ c = 0 => a + b - c = a + b
    OBVIOUS
  <1> QED BY <1>1, <1>2, <1>3, <1>4

\* A cycle that ends is one summary more, of outcomes no other cycle has.
LEMMA CycleEndsKeeps ==
  ASSUME SummaryAssumption, SummaryIInv, CycleEnds PROVE SummaryIInv'
  <1> DEFINE s == BuildRunSummary(metrics)
             new == Append(cycles, s)
             n == Len(recorded)
             E == Ended(cycles)
             A == Out(recorded, E)
             B == Out(recorded, {n})
  <1>1. /\ running /\ running' = FALSE /\ cycles' = new
        /\ metrics' = metrics /\ pool' = pool /\ latenciesMs' = latenciesMs /\ recorded' = recorded
    BY DEF CycleEnds, EndsCycleWith
  <1>2. /\ metrics \in Collector /\ pool \in [Proxies -> Usage]
        /\ cycles \in Seq(RunSummary \cup {Null}) /\ recorded \in Seq(Seq(Results))
        /\ n = Len(cycles) + 1 /\ n <= MaxCycles
        /\ \A p \in Proxies : \A c \in ErrorCodes : pool[p].byErrorCode[c] = 0
    BY <1>1 DEF SummaryIInv, SummaryTypes
  <1>3. s \in RunSummary /\ s # Null
    <2>1. s \in RunSummary
      BY <1>2, RunSummaryIs
    <2> QED BY <2>1 DEF SummaryAssumption
  <1>4. /\ s.requests = metrics.totalRequests /\ s.successes = metrics.successful
        /\ s.failures = metrics.failed /\ s.statusBreakdown = metrics.statusCounts
        /\ s.errorBreakdown = metrics.errorCounts
        /\ \A p \in Proxies : s.perProxy[p] = ToRow(metrics.proxyUsage[p], pool[p])
    BY DEF BuildRunSummary, PerProxy
  <1> HIDE DEF s
  <1>5. /\ new \in Seq(RunSummary \cup {Null}) /\ Len(new) = n
        /\ Ended(new) = E \cup {n} /\ n \notin E /\ E \subseteq 1..Len(cycles) /\ Len(cycles) \in Nat
    <2>1. cycles \in Seq(RunSummary \cup {Null}) /\ s \in RunSummary \cup {Null}
      BY <1>2, <1>3
    <2>2. /\ Append(cycles, s) \in Seq(RunSummary \cup {Null})
          /\ Len(Append(cycles, s)) = Len(cycles) + 1
          /\ Ended(Append(cycles, s)) = Ended(cycles) \cup {Len(cycles) + 1}
          /\ Len(cycles) + 1 \notin Ended(cycles)
          /\ Ended(cycles) \subseteq 1..Len(cycles) /\ Len(cycles) \in Nat
      BY <2>1, <1>3, EndedIs
    <2>3. n = Len(cycles) + 1
      BY <1>2
    <2> HIDE DEF n
    <2> QED BY <2>2, <2>3
  <1>6. /\ Out(recorded, E \cup {n}) = A \cup B /\ A \cap B = {}
        /\ IsFiniteSet(A) /\ IsFiniteSet(B)
    <2>1. E \cap {n} = {} /\ E \subseteq DOMAIN recorded /\ n \in DOMAIN recorded
      BY <1>2, <1>5, LenProperties
    <2>2. IsFiniteSet(Out(recorded, DOMAIN recorded))
      BY DEF SummaryIInv, Listed
    <2> HIDE DEF E, n
    <2>3. Out(recorded, E \cup {n}) = A \cup B /\ A \cap B = {}
      BY <2>1, OutParts
    <2>4. {n} \subseteq DOMAIN recorded
      BY <2>1
    <2>5. A \subseteq Out(recorded, DOMAIN recorded) /\ B \subseteq Out(recorded, DOMAIN recorded)
      BY <2>1, <2>4, OutParts
    <2> QED BY <2>2, <2>3, <2>5, FS_Subset
  <1>7. TotalsAgree(cycles, recorded, A) /\ Agrees(metrics, recorded, B)
    BY <1>1 DEF SummaryIInv, SessionAgrees, CurrentAgrees
  <1>8. LET w == Append(cycles, s)
        IN  /\ Sum(w, Asked(w)) = Sum(cycles, Asked(cycles)) + s.requests
            /\ Sum(w, Won(w)) = Sum(cycles, Won(cycles)) + s.successes
            /\ Sum(w, Lost(w)) = Sum(cycles, Lost(cycles)) + s.failures
            /\ \A st \in RowStatuses : Sum(w, OfStatus(w, st))
                 = Sum(cycles, OfStatus(cycles, st)) + s.statusBreakdown[st]
            /\ \A c \in ErrorCodes : Sum(w, OfCode(w, c))
                 = Sum(cycles, OfCode(cycles, c)) + s.errorBreakdown[c]
            /\ \A p \in Proxies, c \in ErrorCodes : Merged(w, p)[c]
                 = Merged(cycles, p)[c] + s.perProxy[p].byErrorCode[c]
            /\ Sum(cycles, Asked(cycles)) \in Nat /\ Sum(cycles, Won(cycles)) \in Nat
            /\ Sum(cycles, Lost(cycles)) \in Nat
            /\ \A st \in RowStatuses : Sum(cycles, OfStatus(cycles, st)) \in Nat
            /\ \A c \in ErrorCodes : Sum(cycles, OfCode(cycles, c)) \in Nat
    <2>1. cycles \in Seq(RunSummary \cup {Null})
      BY <1>2
    <2> QED BY <2>1, <1>3, FiguresGrow
  <1> HIDE DEF new, n, E, A, B
  <1>9. TotalsAgree(new, recorded, A \cup B)
    <2>1. /\ metrics.totalRequests \in Nat /\ metrics.successful \in Nat /\ metrics.failed \in Nat
          /\ metrics.statusCounts \in [RowStatuses -> Nat]
          /\ metrics.errorCounts \in [ErrorCodes -> Nat]
      BY <1>2 DEF Collector
    <2>2. "ok" \in RowStatuses /\ "not_found" \in RowStatuses /\ "error" \in RowStatuses
      BY DEF RowStatuses
    <2>3. Cardinality(A \cup B) = Cardinality(A) + Cardinality(B)
      BY <1>6, Disjoint
    <2>4. Sum(new, Asked(new)) = Cardinality(A \cup B)
      BY <1>4, <1>7, <1>8, <2>3 DEF TotalsAgree, Agrees, new
    <2>5. Sum(new, Asked(new)) = Sum(new, Won(new)) + Sum(new, Lost(new))
      BY <1>4, <1>7, <1>8, <2>1 DEF TotalsAgree, Agrees, new
    <2>6. Sum(new, Won(new)) = Sum(new, OfStatus(new, "ok"))
      BY <1>4, <1>7, <1>8, <2>2 DEF TotalsAgree, Agrees, new
    <2>7. Sum(new, Asked(new)) = Sum(new, OfStatus(new, "ok")) + Sum(new, OfStatus(new, "not_found"))
                                   + Sum(new, OfStatus(new, "error"))
      BY <1>4, <1>7, <1>8, <2>1, <2>2 DEF TotalsAgree, Agrees, new
    <2>8. ASSUME NEW c \in ErrorCodes
          PROVE  Sum(new, OfCode(new, c)) = Cardinality(CodeIn(recorded, A \cup B, c))
      <3>1. /\ CodeIn(recorded, A \cup B, c) = CodeIn(recorded, A, c) \cup CodeIn(recorded, B, c)
            /\ CodeIn(recorded, A, c) \cap CodeIn(recorded, B, c) = {}
            /\ CodeIn(recorded, A, c) \subseteq A /\ CodeIn(recorded, B, c) \subseteq B
        BY <1>6 DEF CodeIn
      <3>2. IsFiniteSet(CodeIn(recorded, A, c)) /\ IsFiniteSet(CodeIn(recorded, B, c))
        BY <3>1, <1>6, FS_Subset
      <3>3. Cardinality(CodeIn(recorded, A \cup B, c))
              = Cardinality(CodeIn(recorded, A, c)) + Cardinality(CodeIn(recorded, B, c))
        BY <3>1, <3>2, Disjoint
      <3> QED BY <3>3, <1>4, <1>7, <1>8 DEF TotalsAgree, Agrees, new
    <2> QED BY <2>4, <2>5, <2>6, <2>7, <2>8 DEF TotalsAgree
  <1>10. Attributed'
    <2> SUFFICES ASSUME NEW p \in Proxies
                 PROVE  SumFunctionOnSet(Merged(new, p), ErrorCodes) <= pool[p].requests
      <3>1. \A p \in Proxies : pool[p].requests \in Nat
        BY <1>2 DEF Usage
      <3>2. \A p \in Proxies : SumFunctionOnSet(Merged(new, p), ErrorCodes) \in Nat
        BY <1>5, MergedIs
      <3> QED BY <3>1, <3>2, <1>1 DEF Attributed
    <2> DEFINE u == metrics.proxyUsage[p]
               row == ToRow(u, pool[p])
               f == Merged(cycles, p)
               h == Merged(new, p)
    <2>1. u \in Usage /\ pool[p] \in Usage /\ IsFiniteSet(ErrorCodes)
      BY <1>2 DEF Collector, SummaryAssumption
    <2>2. \A x \in Usage : /\ SumFunctionOnSet(x.byErrorCode, ErrorCodes) \in Nat
                           /\ \A c \in ErrorCodes : x.byErrorCode[c] \in Nat
      <3> TAKE x \in Usage
      <3>1. \A c \in ErrorCodes : x.byErrorCode[c] \in Nat
        BY DEF Usage
      <3> QED BY <3>1, <2>1, SumType
    <2>3. row \in Usage
      BY <2>1 DEF ToRow
    <2>4. SumFunctionOnSet(row.byErrorCode, ErrorCodes) <= SumFunctionOnSet(u.byErrorCode, ErrorCodes)
      <3>1. CASE row = u
        BY <3>1, <2>1, <2>2
      <3>2. CASE row = pool[p]
        <4>1. SumFunctionOnSet(pool[p].byErrorCode, ErrorCodes) = 0
          BY <1>2, <2>1, SumZero
        <4> QED BY <4>1, <3>2, <2>1, <2>2
      <3> QED BY <3>1, <3>2 DEF ToRow
    <2>5. \A c \in ErrorCodes : f[c] \in Nat
      BY <1>2, MergedIs
    <2>6. SumFunctionOnSet(f, ErrorCodes) \in Nat
      BY <1>2, MergedIs
    <2>7. SumFunctionOnSet(f, ErrorCodes) + SumFunctionOnSet(u.byErrorCode, ErrorCodes)
            <= pool[p].requests
      BY <1>1 DEF SummaryIInv, Attributed
    <2>8. \A c \in ErrorCodes : h[c] = f[c] + row.byErrorCode[c]
      BY <1>4, <1>8 DEF new
    <2>9. pool[p].requests \in Nat
      BY <2>1 DEF Usage
    <2> DEFINE g == row.byErrorCode
    <2>10. \A c \in ErrorCodes : f[c] \in Int /\ g[c] \in Int /\ h[c] = f[c] + g[c]
      BY <2>2, <2>3, <2>5, <2>8
    <2>11. SumFunctionOnSet(g, ErrorCodes) \in Nat
      BY <2>2, <2>3
    <2>12. /\ SumFunctionOnSet(g, ErrorCodes) <= SumFunctionOnSet(u.byErrorCode, ErrorCodes)
           /\ SumFunctionOnSet(u.byErrorCode, ErrorCodes) \in Nat
      BY <2>1, <2>2, <2>4
    <2> HIDE DEF f, g, h, u, row
    <2>13. SumFunctionOnSet(h, ErrorCodes) = SumFunctionOnSet(f, ErrorCodes) + SumFunctionOnSet(g, ErrorCodes)
      BY <2>1, <2>10, SumPlus
    <2>14. SumFunctionOnSet(h, ErrorCodes) <= pool[p].requests
      BY <2>6, <2>7, <2>9, <2>11, <2>12, <2>13
    <2> QED BY <2>14 DEF h
  <1>11. SummaryTypes'
    <2>1. /\ pool \in [Proxies -> Usage] /\ latenciesMs \in Seq(Nat) /\ recorded \in Seq(Seq(Results))
          /\ metrics \in Collector /\ n <= MaxCycles
          /\ \A p \in Proxies : \A c \in ErrorCodes : pool[p].byErrorCode[c] = 0
      BY <1>2 DEF SummaryIInv, SummaryTypes
    <2>2. Len(recorded) = Len(new) + 0 /\ Len(recorded) <= MaxCycles
      BY <1>2, <1>5 DEF n
    <2> QED BY <2>1, <2>2, <1>1, <1>5 DEF SummaryTypes
  <1>12. SessionAgrees'
    BY <1>1, <1>5, <1>6, <1>9 DEF SessionAgrees
  <1>13. CurrentAgrees' /\ Listed'
    BY <1>1 DEF SummaryIInv, CurrentAgrees, Listed
  <1> QED BY <1>10, <1>11, <1>12, <1>13 DEF SummaryIInv

\* A cycle that throws leaves no summary, and its outcomes to the latencies.
LEMMA CycleThrowsKeeps ==
  ASSUME SummaryAssumption, SummaryIInv, CycleThrows PROVE SummaryIInv'
  <1>1. /\ running /\ running' = FALSE /\ cycles' = Append(cycles, Null)
        /\ metrics' = metrics /\ pool' = pool /\ latenciesMs' = latenciesMs /\ recorded' = recorded
    BY DEF CycleThrows, EndsCycleWith
  <1>2. /\ metrics \in Collector /\ pool \in [Proxies -> Usage]
        /\ cycles \in Seq(RunSummary \cup {Null}) /\ Len(recorded) = Len(cycles) + 1
    BY <1>1 DEF SummaryIInv, SummaryTypes
  <1> DEFINE new == Append(cycles, Null)
  <1>3. new \in Seq(RunSummary \cup {Null}) /\ Len(new) = Len(cycles) + 1
    BY <1>2, EndedIs
  <1>4. /\ Ended(new) = Ended(cycles) /\ Asked(new) = Asked(cycles) /\ Won(new) = Won(cycles)
        /\ Lost(new) = Lost(cycles) /\ \A p : Merged(new, p) = Merged(cycles, p)
        /\ \A st : OfStatus(new, st) = OfStatus(cycles, st)
        /\ \A c : OfCode(new, c) = OfCode(cycles, c)
        /\ \A f : Sum(new, f) = Sum(cycles, f)
    BY <1>2, FiguresStay
  <1> HIDE DEF new
  <1>5. SummaryTypes'
    <2>1. /\ latenciesMs \in Seq(Nat) /\ recorded \in Seq(Seq(Results)) /\ Len(recorded) <= MaxCycles
          /\ \A p \in Proxies : \A c \in ErrorCodes : pool[p].byErrorCode[c] = 0
      BY DEF SummaryIInv, SummaryTypes
    <2>2. Len(recorded) = Len(new) + 0
      <3>1. Len(cycles) \in Nat
        BY <1>2, LenProperties
      <3> QED BY <3>1, <1>2, <1>3
    <2> QED BY <2>1, <2>2, <1>1, <1>2, <1>3 DEF SummaryTypes, new
  <1>6. SessionAgrees'
    <2> DEFINE done == Out(recorded, Ended(cycles))
    <2>1. TotalsAgree(cycles, recorded, done) /\ done = Out(recorded, Ended(new))
      BY <1>4 DEF SummaryIInv, SessionAgrees
    <2> HIDE DEF done
    <2>2. TotalsAgree(new, recorded, done)
      BY <2>1, <1>4 DEF TotalsAgree
    <2> QED BY <2>1, <2>2, <1>1 DEF SessionAgrees, new
  <1>7. CurrentAgrees' /\ Listed'
    BY <1>1 DEF SummaryIInv, CurrentAgrees, Listed
  <1>8. Attributed'
    <2> SUFFICES ASSUME NEW p \in Proxies
                 PROVE  SumFunctionOnSet(Merged(new, p), ErrorCodes) <= pool[p].requests
      <3>1. \A p \in Proxies : pool[p].requests \in Nat
        BY <1>2 DEF Usage
      <3>2. \A p \in Proxies : SumFunctionOnSet(Merged(new, p), ErrorCodes) \in Nat
        BY <1>3, MergedIs
      <3> QED BY <3>1, <3>2, <1>1 DEF Attributed, new
    <2>1. /\ metrics.proxyUsage[p] \in Usage /\ IsFiniteSet(ErrorCodes) /\ pool[p].requests \in Nat
      BY <1>2 DEF Collector, SummaryAssumption, Usage
    <2> DEFINE g == metrics.proxyUsage[p].byErrorCode
    <2>2. \A c \in ErrorCodes : g[c] \in Nat
      BY <2>1 DEF Usage
    <2>3. SumFunctionOnSet(Merged(cycles, p), ErrorCodes) \in Nat
      BY <1>2, MergedIs
    <2>4. SumFunctionOnSet(Merged(cycles, p), ErrorCodes) + SumFunctionOnSet(g, ErrorCodes)
            <= pool[p].requests
      BY <1>1 DEF SummaryIInv, Attributed
    <2> HIDE DEF g
    <2>5. SumFunctionOnSet(g, ErrorCodes) \in Nat
      BY <2>1, <2>2, SumType
    <2> QED BY <2>1, <2>3, <2>4, <2>5, <1>4
  <1> QED BY <1>5, <1>6, <1>7, <1>8 DEF SummaryIInv

\* The next cycle counts from nothing, and its outcomes are none yet.
LEMMA CycleStartsKeeps ==
  ASSUME SummaryAssumption, SummaryIInv, CycleStarts PROVE SummaryIInv'
  <1> DEFINE new == Append(recorded, <<>>)
             n == Len(recorded) + 1
             ds == DOMAIN recorded
  <1>1. /\ ~running /\ Len(cycles) < MaxCycles /\ running' = TRUE /\ metrics' = EmptyCollector
        /\ recorded' = new /\ pool' = pool /\ cycles' = cycles /\ latenciesMs' = latenciesMs
    BY DEF CycleStarts
  <1>2. /\ metrics \in Collector /\ pool \in [Proxies -> Usage]
        /\ cycles \in Seq(RunSummary \cup {Null}) /\ recorded \in Seq(Seq(Results))
        /\ Len(recorded) = Len(cycles)
    <2>1. Len(cycles) \in Nat /\ Len(recorded) \in Nat
      BY LenProperties DEF SummaryIInv, SummaryTypes
    <2> QED BY <2>1, <1>1 DEF SummaryIInv, SummaryTypes
  <1>3. /\ Len(cycles) \in Nat /\ DOMAIN cycles = 1..Len(cycles) /\ ds = 1..Len(recorded)
    BY <1>2, LenProperties
  <1>4. /\ new \in Seq(Seq(Results)) /\ Len(new) = n /\ new[n] = <<>>
        /\ \A c \in ds : new[c] = recorded[c]
    <2>1. <<>> \in Seq(Results)
      OBVIOUS
    <2>2. /\ new \in Seq(Seq(Results)) /\ Len(new) = n /\ new[n] = <<>>
          /\ \A i \in 1..Len(recorded) : new[i] = recorded[i]
      BY <2>1, <1>2, AppendProperties
    <2> QED BY <2>2, <1>3
  <1>5. DOMAIN new = ds \cup {n} /\ n \notin ds
    <2>1. DOMAIN new = 1..n
      BY <1>4, LenProperties
    <2> QED BY <2>1, <1>2, <1>3
  <1> HIDE DEF new, n, ds
  <1>6. Out(new, {n}) = {}
    <2>1. DOMAIN <<>> = {}
      OBVIOUS
    <2>2. \A d \in Out(new, {n}) : d[1] \in {n} /\ d[2] \in DOMAIN new[d[1]]
      BY OutIs
    <2> QED BY <2>1, <2>2, <1>4
  <1>7. Out(new, DOMAIN new) = Out(recorded, ds)
    <2>1. Out(new, ds) = Out(recorded, ds)
      BY <1>4, OutSame
    <2>2. Out(new, ds \cup {n}) = Out(new, ds) \cup Out(new, {n})
      BY OutParts
    <2> QED BY <2>1, <2>2, <1>5, <1>6
  <1>8. SummaryTypes'
    <2>1. Len(new) <= MaxCycles /\ Len(new) = Len(cycles) + 1
      BY <1>1, <1>2, <1>3, <1>4 DEF SummaryAssumption, n
    <2> QED BY <2>1, <1>1, <1>2, <1>4, EmptyIs DEF SummaryIInv, SummaryTypes
  <1>9. CurrentAgrees'
    <2>1. Agrees(EmptyCollector, new, Out(new, {Len(new)}))
      BY <1>4, <1>6, EmptyAgrees
    <2> QED BY <2>1, <1>1 DEF CurrentAgrees
  <1>10. SessionAgrees'
    <2> DEFINE e == Ended(cycles)
    <2>1. \A c \in e : new[c] = recorded[c]
      BY <1>2, <1>3, <1>4 DEF Ended
    <2> HIDE DEF e
    <2>2. /\ Out(new, e) = Out(recorded, e)
          /\ \A code : CodeIn(new, Out(recorded, e), code) = CodeIn(recorded, Out(recorded, e), code)
      BY <2>1, OutSame
    <2>3. TotalsAgree(cycles, recorded, Out(recorded, e))
      BY DEF SummaryIInv, SessionAgrees, e
    <2>4. TotalsAgree(cycles, new, Out(new, e))
      BY <2>2, <2>3 DEF TotalsAgree
    <2> QED BY <2>4, <1>1 DEF SessionAgrees, e
  <1>11. Listed'
    BY <1>1, <1>7 DEF SummaryIInv, Listed, ds
  <1>12. Attributed'
    <2> SUFFICES ASSUME NEW p \in Proxies
                 PROVE  SumFunctionOnSet(Merged(cycles, p), ErrorCodes)
                          + SumFunctionOnSet(metrics'.proxyUsage[p].byErrorCode, ErrorCodes)
                          <= pool[p].requests
      BY <1>1 DEF Attributed
    <2>1. SumFunctionOnSet(metrics'.proxyUsage[p].byErrorCode, ErrorCodes) = 0
      <3>1. \A c \in ErrorCodes : metrics'.proxyUsage[p].byErrorCode[c] = 0
        BY <1>1 DEF EmptyCollector, NoUsage
      <3>2. IsFiniteSet(ErrorCodes)
        BY DEF SummaryAssumption
      <3> QED BY <3>1, <3>2, SumZero
    <2>2. SumFunctionOnSet(Merged(cycles, p), ErrorCodes) \in Nat
      BY <1>2, MergedIs
    <2>3. SumFunctionOnSet(Merged(cycles, p), ErrorCodes) + 0 <= pool[p].requests
      BY <1>1 DEF SummaryIInv, Attributed
    <2> QED BY <2>1, <2>2, <2>3
  <1> QED BY <1>8, <1>9, <1>10, <1>11, <1>12 DEF SummaryIInv

-----------------------------------------------------------------------------
\* The fields of the session's summary are the figures of the invariant.
LEMMA SessionIs ==
  ASSUME SummaryAssumption, SummaryIInv
  PROVE  LET s == SessionSummary
         IN  /\ s.requests = Sum(cycles, Asked(cycles)) /\ s.successes = Sum(cycles, Won(cycles))
             /\ s.failures = Sum(cycles, Lost(cycles))
             /\ \A st \in RowStatuses : s.statusBreakdown[st] = Sum(cycles, OfStatus(cycles, st))
             /\ \A c \in ErrorCodes : s.errorBreakdown[c] = Sum(cycles, OfCode(cycles, c))
             /\ s.latencyCount = Len(latenciesMs) /\ s.p50Ms = Percentile(latenciesMs, 50)
             /\ \A p \in Proxies : s.perProxy[p].byErrorCode = Merged(cycles, p)
  <1> DEFINE s == SessionSummary
  <1>1. CompletedCycles = Ended(cycles)
    BY DEF CompletedCycles, Ended
  <1>2. s.requests = Sum(cycles, Asked(cycles))
    <2>1. s.requests = SumFunctionOnSet([k \in CompletedCycles |-> cycles[k].requests], CompletedCycles)
      BY DEF SessionSummary, Total
    <2> QED BY <2>1, <1>1 DEF Sum, Asked
  <1>3. s.successes = Sum(cycles, Won(cycles))
    <2>1. s.successes = SumFunctionOnSet([k \in CompletedCycles |-> cycles[k].successes], CompletedCycles)
      BY DEF SessionSummary, Total
    <2> QED BY <2>1, <1>1 DEF Sum, Won
  <1>4. s.failures = Sum(cycles, Lost(cycles))
    <2>1. s.failures = SumFunctionOnSet([k \in CompletedCycles |-> cycles[k].failures], CompletedCycles)
      BY DEF SessionSummary, Total
    <2> QED BY <2>1, <1>1 DEF Sum, Lost
  <1>5. ASSUME NEW st \in RowStatuses
        PROVE  s.statusBreakdown[st] = Sum(cycles, OfStatus(cycles, st))
    <2>1. s.statusBreakdown[st]
            = SumFunctionOnSet([k \in CompletedCycles |-> cycles[k].statusBreakdown[st]], CompletedCycles)
      BY DEF SessionSummary, Total
    <2> QED BY <2>1, <1>1 DEF Sum, OfStatus
  <1>6. ASSUME NEW c \in ErrorCodes
        PROVE  s.errorBreakdown[c] = Sum(cycles, OfCode(cycles, c))
    <2>1. s.errorBreakdown[c]
            = SumFunctionOnSet([k \in CompletedCycles |-> cycles[k].errorBreakdown[c]], CompletedCycles)
      BY DEF SessionSummary, Total
    <2> QED BY <2>1, <1>1 DEF Sum, OfCode
  <1>7. s.latencyCount = Len(latenciesMs) /\ s.p50Ms = Percentile(latenciesMs, 50)
    BY DEF SessionSummary
  <1>8. ASSUME NEW p \in Proxies PROVE s.perProxy[p].byErrorCode = Merged(cycles, p)
    <2>1. s.perProxy[p] = [pool[p] EXCEPT !.byErrorCode = MergedCodes(p)]
      BY DEF SessionSummary, SessionProxies
    <2>2. pool[p] \in Usage
      BY DEF SummaryIInv, SummaryTypes
    <2>3. s.perProxy[p].byErrorCode = MergedCodes(p)
      BY <2>1, <2>2 DEF Usage
    <2>4. \A c \in ErrorCodes : MergedCodes(p)[c] = Merged(cycles, p)[c]
      <3> TAKE c \in ErrorCodes
      <3>1. MergedCodes(p)[c] = SumFunctionOnSet(
              [k \in CompletedCycles |-> cycles[k].perProxy[p].byErrorCode[c]], CompletedCycles)
        BY DEF MergedCodes, Total
      <3> QED BY <3>1, <1>1 DEF Merged, Sum, OfProxy
    <2>5. MergedCodes(p) = [c \in ErrorCodes |-> MergedCodes(p)[c]]
      BY DEF MergedCodes
    <2>6. Merged(cycles, p) = [c \in ErrorCodes |-> Merged(cycles, p)[c]]
      BY DEF Merged
    <2> QED BY <2>3, <2>4, <2>5, <2>6
  <1> QED BY <1>2, <1>3, <1>4, <1>5, <1>6, <1>7, <1>8

\* The invariant is what the summaries promise.
LEMMA SummaryPromise ==
  ASSUME SummaryAssumption, SummaryIInv PROVE SummaryTypeOK /\ SummariesAddUp
  <1> DEFINE current == BuildRunSummary(metrics)
             session == SessionSummary
             thrown == (DOMAIN cycles) \ CompletedCycles
             E == Ended(cycles)
             n == Len(recorded)
  <1>1. /\ metrics \in Collector /\ pool \in [Proxies -> Usage]
        /\ cycles \in Seq(RunSummary \cup {Null}) /\ latenciesMs \in Seq(Nat)
        /\ recorded \in Seq(Seq(Results))
        /\ n = Len(cycles) + (IF running THEN 1 ELSE 0) /\ running \in BOOLEAN
    BY DEF SummaryIInv, SummaryTypes
  <1>2. \A cs : Outcome(cs) = Out(recorded, cs)
    BY DEF Outcome, Out
  <1>3. CompletedCycles = E
    BY DEF CompletedCycles, Ended
  <1>4. /\ session.requests = Sum(cycles, Asked(cycles)) /\ session.successes = Sum(cycles, Won(cycles))
        /\ session.failures = Sum(cycles, Lost(cycles))
        /\ \A st \in RowStatuses : session.statusBreakdown[st] = Sum(cycles, OfStatus(cycles, st))
        /\ \A c \in ErrorCodes : session.errorBreakdown[c] = Sum(cycles, OfCode(cycles, c))
        /\ session.latencyCount = Len(latenciesMs) /\ session.p50Ms = Percentile(latenciesMs, 50)
        /\ \A p \in Proxies : session.perProxy[p].byErrorCode = Merged(cycles, p)
    BY SessionIs
  <1>5. /\ current.requests = metrics.totalRequests /\ current.successes = metrics.successful
        /\ current.failures = metrics.failed /\ current.statusBreakdown = metrics.statusCounts
        /\ current.errorBreakdown = metrics.errorCounts
        /\ current.p95Ms = Percentile(metrics.latencies, 95)
    BY DEF BuildRunSummary
  <1>6. "ok" \in RowStatuses /\ "not_found" \in RowStatuses /\ "error" \in RowStatuses
    BY DEF RowStatuses
  <1> HIDE DEF current, session, thrown, E, n
  <1>7. ASSUME running
        PROVE  /\ Reconciles(current, Outcome({n}))
               /\ NearestRank(current.p95Ms, metrics.latencies, 95)
    <2> DEFINE done == Out(recorded, {n})
    <2>1. Agrees(metrics, recorded, done)
      BY <1>7 DEF SummaryIInv, CurrentAgrees, n
    <2>2. metrics.statusCounts \in [RowStatuses -> Nat] /\ metrics.latencies \in Seq(Nat)
      BY <1>1 DEF Collector
    <2> HIDE DEF done
    <2>3. SumFunctionOnSet(current.statusBreakdown, RowStatuses)
            = metrics.statusCounts["ok"] + metrics.statusCounts["not_found"] + metrics.statusCounts["error"]
      <3>1. \A st \in RowStatuses : metrics.statusCounts[st] \in Int
        BY <2>2
      <3> QED BY <3>1, <1>5, StatusSum
    <2>4. Reconciles(current, done)
      BY <2>1, <2>3, <1>5 DEF Reconciles, Agrees, CodeIn
    <2>5. NearestRank(current.p95Ms, metrics.latencies, 95)
      BY <2>2, <1>5, PercentileIs
    <2> QED BY <2>4, <2>5, <1>2 DEF done
  <1>8. Reconciles(session, Outcome(CompletedCycles))
    <2> DEFINE done == Out(recorded, E)
    <2>1. TotalsAgree(cycles, recorded, done)
      BY DEF SummaryIInv, SessionAgrees, E
    <2> HIDE DEF done
    <2>2. \A st \in RowStatuses : session.statusBreakdown[st] \in Int
      <3>1. \A st \in RowStatuses : Sum(cycles, OfStatus(cycles, st)) \in Nat
        BY <1>1, StatusTotals
      <3> QED BY <3>1, <1>4
    <2>3. SumFunctionOnSet(session.statusBreakdown, RowStatuses)
            = session.statusBreakdown["ok"] + session.statusBreakdown["not_found"]
              + session.statusBreakdown["error"]
      BY <2>2, StatusSum
    <2>4. /\ session.requests = Cardinality(done)
          /\ session.requests = session.successes + session.failures
          /\ session.successes = session.statusBreakdown["ok"]
          /\ session.requests = session.statusBreakdown["ok"] + session.statusBreakdown["not_found"]
                                + session.statusBreakdown["error"]
          /\ \A c \in ErrorCodes : session.errorBreakdown[c] = Cardinality(CodeIn(recorded, done, c))
      BY <2>1, <1>4, <1>6 DEF TotalsAgree
    <2>5. Reconciles(session, done)
      BY <2>3, <2>4 DEF Reconciles, CodeIn
    <2> QED BY <2>5, <1>2, <1>3 DEF done
  <1>9. ASSUME ~running
        PROVE  session.latencyCount = session.requests + Cardinality(Outcome(thrown))
    <2>1. DOMAIN recorded = E \cup thrown /\ E \cap thrown = {}
      <3>1. DOMAIN recorded = 1..Len(recorded) /\ DOMAIN cycles = 1..Len(cycles) /\ Len(cycles) \in Nat
        BY <1>1, LenProperties
      <3>2. E \subseteq DOMAIN cycles
        BY DEF E, Ended
      <3> QED BY <3>1, <3>2, <1>1, <1>3, <1>9 DEF thrown, n
    <2>2. /\ Out(recorded, DOMAIN recorded) = Out(recorded, E) \cup Out(recorded, thrown)
          /\ Out(recorded, E) \cap Out(recorded, thrown) = {}
      BY <2>1, OutParts
    <2>3. /\ IsFiniteSet(Out(recorded, DOMAIN recorded))
          /\ Len(latenciesMs) = Cardinality(Out(recorded, DOMAIN recorded))
      BY DEF SummaryIInv, Listed
    <2>4. IsFiniteSet(Out(recorded, E)) /\ IsFiniteSet(Out(recorded, thrown))
      BY <2>2, <2>3, FS_Subset
    <2>5. Cardinality(Out(recorded, DOMAIN recorded))
            = Cardinality(Out(recorded, E)) + Cardinality(Out(recorded, thrown))
      BY <2>2, <2>4, Disjoint
    <2>6. session.requests = Cardinality(Out(recorded, E))
      BY <1>4 DEF SummaryIInv, SessionAgrees, TotalsAgree, E
    <2> QED BY <2>3, <2>5, <2>6, <1>2, <1>4
  <1>10. NearestRank(session.p50Ms, latenciesMs, 50)
    BY <1>1, <1>4, PercentileIs
  <1>11. ASSUME NEW p \in Proxies
         PROVE  SumFunctionOnSet(session.perProxy[p].byErrorCode, ErrorCodes) <= pool[p].requests
    <2>1. /\ SumFunctionOnSet(Merged(cycles, p), ErrorCodes)
               + (IF running THEN SumFunctionOnSet(metrics.proxyUsage[p].byErrorCode, ErrorCodes) ELSE 0)
               <= pool[p].requests
      BY DEF SummaryIInv, Attributed
    <2>2. SumFunctionOnSet(Merged(cycles, p), ErrorCodes) \in Nat
      BY <1>1, MergedIs
    <2>3. SumFunctionOnSet(metrics.proxyUsage[p].byErrorCode, ErrorCodes) \in Nat
      <3>1. metrics.proxyUsage[p].byErrorCode \in [ErrorCodes -> Nat] /\ IsFiniteSet(ErrorCodes)
        BY <1>1 DEF Collector, Usage, SummaryAssumption
      <3> QED BY <3>1, SumType
    <2>4. pool[p].requests \in Nat
      BY <1>1 DEF Usage
    <2>5. SumFunctionOnSet(Merged(cycles, p), ErrorCodes) <= pool[p].requests
      BY <2>1, <2>2, <2>3, <2>4
    <2> QED BY <2>5, <1>4
  <1>12. SummariesAddUp
    BY <1>7, <1>8, <1>9, <1>10, <1>11 DEF SummariesAddUp, current, session, thrown, n
  <1>13. SummaryTypeOK
    <2>1. \A i \in DOMAIN cycles : cycles[i] \in RunSummary \cup {Null}
      BY <1>1, LenProperties
    <2> QED BY <2>1, <1>1 DEF SummaryTypeOK, SummaryIInv, SummaryTypes
  <1> QED BY <1>12, <1>13

(* What a run and a session report of their results adds up.                  *)
THEOREM SummariesAreTrue ==
  ASSUME SummaryAssumption
  PROVE  SummarySpec => [](SummaryTypeOK /\ SummariesAddUp)
  <1>1. SummaryInit => SummaryIInv
    BY SummaryInitIInv
  <1>2. SummaryIInv /\ [SummaryNext]_summaryVars => SummaryIInv'
    <2> SUFFICES ASSUME SummaryIInv, [SummaryNext]_summaryVars PROVE SummaryIInv'
      OBVIOUS
    <2>1. ASSUME NEW p \in Proxies, NEW outcome \in LeaseOutcomes, NEW code \in ErrorCodes \cup {Null},
                 LeaseEnds(p, outcome, code)
          PROVE  SummaryIInv'
      BY <2>1, LeaseKeeps
    <2>2. ASSUME NEW r \in Results, Ends(r) PROVE SummaryIInv'
      BY <2>2, EndsKeeps
    <2>3. CASE CycleEnds
      BY <2>3, CycleEndsKeeps
    <2>4. CASE CycleThrows
      BY <2>4, CycleThrowsKeeps
    <2>5. CASE CycleStarts
      BY <2>5, CycleStartsKeeps
    <2>6. CASE UNCHANGED summaryVars
      BY <2>6 DEF summaryVars, SummaryIInv, SummaryTypes, CurrentAgrees, SessionAgrees, Listed, Attributed
    <2> QED BY <2>1, <2>2, <2>3, <2>4, <2>5, <2>6 DEF SummaryNext
  <1>3. SummaryIInv => SummaryTypeOK /\ SummariesAddUp
    BY SummaryPromise
  <1> QED BY <1>1, <1>2, <1>3, PTL DEF SummarySpec

-----------------------------------------------------------------------------
(* What a session reports can be reconciled with what happened: its totals,   *)
(* its throughput while nothing has been dropped, and its diagnosis.          *)
THEOREM ReportsAreTrue ==
  ASSUME SummaryAssumption, TimelineAssumption, DiagnosisAssumption
  PROVE  SummarySpec /\ TimelineSpec /\ DiagnosisSpec => []ReportsReconcile
  <1>1. SummaryTypeOK /\ SummariesAddUp /\ TimelineTypeOK /\ SustainedIsLongest /\ DiagnosisHolds
          => ReportsReconcile
    BY DEF ReportsReconcile
  <1>2. SummarySpec => [](SummaryTypeOK /\ SummariesAddUp)
    BY SummariesAreTrue
  <1>3. TimelineSpec => [](TimelineTypeOK /\ SustainedIsLongest)
    BY ThroughputIsTrue
  <1>4. DiagnosisSpec => []DiagnosisHolds
    BY DiagnosisIsTrue
  <1> QED BY <1>1, <1>2, <1>3, <1>4, PTL
=============================================================================
