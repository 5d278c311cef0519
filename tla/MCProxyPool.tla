---------------------------- MODULE MCProxyPool ----------------------------
(* Instances of the proxy pool for TLC.                                     *)
EXTENDS ProxyPool, TLC

\* Jobs are interchangeable, and so are proxies: any set of them may be the
\* configured one.
Symmetry == Permutations(Jobs) \cup Permutations(Proxies)
=============================================================================
