--------------------------- MODULE MCProxySource ---------------------------
(* Instances of the source and its pool for TLC.                            *)
EXTENDS ProxySource, TLC
=============================================================================
