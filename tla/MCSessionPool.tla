--------------------------- MODULE MCSessionPool ---------------------------
(* Instances of the session pool for TLC.                                   *)
EXTENDS SessionPool, TLC

CONSTANTS s1, s2, s3, direct, gateway

\* Two sessions compete for the direct route, one is pinned to a proxy.
Binding == (s1 :> direct) @@ (s2 :> direct) @@ (s3 :> gateway)
=============================================================================
