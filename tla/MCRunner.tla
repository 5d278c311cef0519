------------------------------ MODULE MCRunner ------------------------------
(* Instances of the runner for TLC.                                         *)
EXTENDS Runner

Plain   == [kind |-> "ready", resolved |-> 0]
Short   == [kind |-> "ready", resolved |-> 1]
Broken  == [kind |-> "failure", resolved |-> 2]
Unknown == [kind |-> "unsupported", resolved |-> 0]

\* Two records to scrape around one that only has a row to write, and one
\* left for the queue.
MixedBatch == <<Plain, Broken, Short, Plain>>
ShortLinks == <<Short, Plain, Unknown>>
=============================================================================
