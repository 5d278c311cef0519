------------------------------- MODULE Absent -------------------------------
(* undefined and null, which the code tells from every value it computes with. *)
CONSTANT Null
=============================================================================
