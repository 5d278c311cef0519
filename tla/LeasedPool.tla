----------------------------- MODULE LeasedPool -----------------------------
(***************************************************************************)
(* What the proxy pool promises its callers, without saying how: who may   *)
(* hold which proxy, and when a proxy is in or out of rotation.  There is  *)
(* no clock, no counter and no waiting here; ProxyPool implements it.      *)
(***************************************************************************)
EXTENDS Integers, FiniteSets

CONSTANTS Proxies, Jobs, MaxConcurrentPerProxy

VARIABLES
  standing,  \* "out" of the roster, "in" rotation, "benched" or "retired"
  holders    \* the jobs holding a lease on each proxy

leasedVars == <<standing, holders>>

LeasedInit ==
  /\ standing \in [Proxies -> {"in", "out"}]
  /\ holders = [p \in Proxies |-> {}]

\* A job without a lease takes one on a proxy in rotation and below its ceiling.
Take(j, p) ==
  /\ standing[p] = "in"
  /\ \A q \in Proxies : j \notin holders[q]
  /\ MaxConcurrentPerProxy > 0 => Cardinality(holders[p]) < MaxConcurrentPerProxy
  /\ holders' = [holders EXCEPT ![p] = @ \cup {j}]
  /\ UNCHANGED standing

\* Giving a lease back may bench or retire a proxy that is in rotation, and
\* can never bring one back.
GiveBack(j, p) ==
  /\ j \in holders[p]
  /\ holders' = [holders EXCEPT ![p] = @ \ {j}]
  /\ \/ UNCHANGED standing
     \/ /\ standing[p] = "in"
        /\ \E s \in {"benched", "retired"} : standing' = [standing EXCEPT ![p] = s]

\* Time ends benches, of any number of proxies at once.
EndBenches ==
  /\ \E S \in SUBSET {p \in Proxies : standing[p] = "benched"} :
       standing' = [p \in Proxies |-> IF p \in S THEN "in" ELSE standing[p]]
  /\ UNCHANGED holders

Join(targets) ==
  /\ \A p \in targets : standing[p] = "out"
  /\ standing' = [p \in Proxies |-> IF p \in targets THEN "in" ELSE standing[p]]
  /\ UNCHANGED holders

Leave(targets) ==
  /\ \A p \in targets : holders[p] = {}
  /\ standing' = [p \in Proxies |-> IF p \in targets THEN "out" ELSE standing[p]]
  /\ UNCHANGED holders

LeasedNext ==
  \/ \E j \in Jobs, p \in Proxies : Take(j, p) \/ GiveBack(j, p)
  \/ EndBenches
  \/ \E targets \in SUBSET Proxies : Join(targets) \/ Leave(targets)

LeasedSpec == LeasedInit /\ [][LeasedNext]_leasedVars
=============================================================================
