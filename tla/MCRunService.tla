----------------------------- MODULE MCRunService -----------------------------
(* Two runs, the first of which is a session, and room for one.  Whether the  *)
(* page is used is chosen at the start, so that the run is the sum of two     *)
(* instances and not their product: without it the runs are started and       *)
(* cancelled by others and end in every way; with it the page alone starts    *)
(* them, and the session takes no sample while an earlier call polls on.      *)
EXTENDS RunService

CONSTANT Sessions

MCRuns == 1 .. 2
MCContinuous == 1 .. Sessions
MCPolls == 1 .. 2

VARIABLE watched   \* whether the page is used

MCInit == Init /\ watched \in BOOLEAN
MCNext ==
  /\ UNCHANGED watched
  /\ IF watched
     THEN /\ Next /\ UNCHANGED <<aborted, fatal>>
          /\ Started' # Started => loop' # loop
          /\ alone \/ UNCHANGED lineVars
     ELSE Next /\ UNCHANGED pageVars

MCSpec == MCInit /\ [][MCNext]_<<vars, watched>> /\ Fairness
=============================================================================
