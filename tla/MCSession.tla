------------------------------ MODULE MCSession ------------------------------
(* Instances of Session for TLC.                                            *)
EXTENDS Session

Plan(interval, duration, cyclesAtMost) ==
  [intervalMs |-> interval, durationMs |-> duration, maxCycles |-> cyclesAtMost]

\* Back to back, for two cycles; on an interval that a cycle may overrun, until
\* a deadline.
Plans == {Plan(0, Null, 2), Plan(1, 2, Null)}
=============================================================================
