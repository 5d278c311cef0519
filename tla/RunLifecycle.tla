----------------------------- MODULE RunLifecycle -----------------------------
(***************************************************************************)
(* What the dashboard may rely on about one run, whatever carries it out:  *)
(* it moves between a few states, its cycles begin and end one at a time,  *)
(* a cancelled run begins no further cycle, and once it has ended nothing  *)
(* about it changes any more.                                              *)
(***************************************************************************)
EXTENDS Integers

VARIABLES
  status,     \* what the dashboard shows
  cancelled,  \* whether the operator has asked it to stop
  begun,      \* cycles begun so far
  ended       \* cycles ended so far

vars == <<status, cancelled, begun, ended>>

Active == {"preparing", "running", "waiting"}
Final  == {"completed", "failed"}

Init == /\ status \in Active
        /\ cancelled = FALSE
        /\ begun = 0 /\ ended = 0

Show == /\ status \in Active
        /\ status' \in Active \ {"preparing"}
        /\ UNCHANGED <<cancelled, begun, ended>>

Cancel == /\ status \in Active
          /\ cancelled' = TRUE
          /\ UNCHANGED <<status, begun, ended>>

BeginCycle == /\ status \in Active /\ ~cancelled /\ begun = ended
              /\ begun' = begun + 1
              /\ UNCHANGED <<status, cancelled, ended>>

\* A cycle ends, and the next may begin in the same instant.
EndCycle == /\ status \in Active /\ begun = ended + 1
            /\ ended' = ended + 1
            /\ \/ begun' = begun
               \/ ~cancelled /\ begun' = begun + 1
            /\ UNCHANGED <<status, cancelled>>

\* A run ends between cycles, and for good.
End == /\ status \in Active /\ begun = ended
       /\ status' \in Final
       /\ UNCHANGED <<cancelled, begun, ended>>

Next == Show \/ Cancel \/ BeginCycle \/ EndCycle \/ End

Spec == Init /\ [][Next]_vars
=============================================================================
