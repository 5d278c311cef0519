------------------------------- MODULE Reports -------------------------------
(* What a session reports when it ends, from three components that share no   *)
(* state: its totals, the throughput it held, and the diagnosis of what kept  *)
(* its concurrency down.                                                      *)
EXTENDS Summaries, Throughput, Diagnostics

(* What a session reports can be reconciled with what happened: its totals,   *)
(* its throughput while nothing has been dropped, and its diagnosis.          *)
ReportsReconcile ==
  /\ SummaryTypeOK /\ SummariesAddUp
  /\ TimelineTypeOK /\ SustainedIsLongest
  /\ DiagnosisHolds
=============================================================================
