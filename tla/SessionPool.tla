----------------------------- MODULE SessionPool -----------------------------
(***************************************************************************)
(* The pool of logged-in identities (infrastructure/session/               *)
(* in-memory-session-pool.ts) as the runner's attempts use it: acquire a   *)
(* session bound to the proxy the attempt has leased, then report what the *)
(* attempt said about the session, if it was used, and release it.         *)
(*                                                                         *)
(* Unlike the proxy pool this one never waits, does not count leases and   *)
(* does not mark them with a generation.  One platform is modelled: the    *)
(* sessions of two platforms never meet.  The request and failure totals   *)
(* of the statistics are left out.                                         *)
(***************************************************************************)
EXTENDS Integers, Absent

CONSTANTS
  Sessions,                \* the configured identities
  Jobs,                    \* concurrent attempts
  Routes,                  \* proxies an attempt may have leased, or direct
  BoundTo,                 \* the one route each session is bound to
  MaxConsecutiveFailures,  \* failures in a row before a bench
  CooldownMs,              \* length of a bench, in ticks
  MaxStreak,               \* BOUND: no lease of a session that failed so often
  MaxTime                  \* BOUND: the last tick of the clock

ASSUME SessionAssumption ==
  /\ BoundTo \in [Sessions -> Routes]
  /\ MaxConsecutiveFailures \in Nat \ {0}
  /\ CooldownMs \in Nat
  /\ MaxStreak \in Nat /\ MaxTime \in Nat
  /\ Null \notin Nat /\ Null \notin Sessions

VARIABLES
  now,    \* the clock the pool reads
  entry,  \* health and use of each session
  held    \* the session each job holds, or Null

vars == <<now, entry, held>>

Entry == [consecutiveFailures : Nat, blocked : BOOLEAN,
          cooldownUntil : Nat \cup {Null}, inUse : BOOLEAN, lastUsedAt : Nat]

Init ==
  /\ now = 1
  /\ entry = [s \in Sessions |-> [consecutiveFailures |-> 0, blocked |-> FALSE,
                                  cooldownUntil |-> Null, inUse |-> FALSE,
                                  lastUsedAt |-> 0]]
  /\ held = [j \in Jobs |-> Null]

IsUsable(s) == entry[s].cooldownUntil = Null \/ entry[s].cooldownUntil <= now

\* Sessions that may be leased next to `route`, whether in use already or not.
Usable(route) == {s \in Sessions : BoundTo[s] = route /\ IsUsable(s)}

\* The sessions unused for longest; ties, which the code settles by the order of
\* configuration, are left open.
LeastRecent(S) == {s \in S : \A t \in S : entry[s].lastUsedAt <= entry[t].lastUsedAt}

Acquire(j, route) ==
  /\ held[j] = Null
  /\ \E s \in LeastRecent(Usable(route)) :
       /\ entry[s].consecutiveFailures < MaxStreak
       /\ entry' = [entry EXCEPT ![s].inUse = TRUE, ![s].lastUsedAt = now]
       /\ held' = [held EXCEPT ![j] = s]
  /\ UNCHANGED now

\* With no usable session the attempt goes on anonymously and holds nothing.
Anonymous(j, route) == held[j] = Null /\ Usable(route) = {} /\ UNCHANGED vars

\* Mutation: success lifts the bench and leaves the streak.
ReportSuccessKeepsStreak(e) == [e EXCEPT !.cooldownUntil = Null]
ReportSuccess(e) == [e EXCEPT !.consecutiveFailures = 0, !.cooldownUntil = Null]

ReportFailure(e) ==
  [e EXCEPT !.consecutiveFailures = @ + 1,
            !.cooldownUntil = IF e.consecutiveFailures + 1 >= MaxConsecutiveFailures
                              THEN now + CooldownMs ELSE @]

MarkBlocked(e) ==
  [e EXCEPT !.consecutiveFailures = @ + 1, !.blocked = TRUE,
            !.cooldownUntil = now + CooldownMs]

\* What the runner reports for an attempt: nothing when the session was not
\* used or the run was cancelled.
Reported(e, outcome) ==
  CASE outcome = "success" -> ReportSuccess(e)
    [] outcome = "failure" -> ReportFailure(e)
    [] outcome = "blocked" -> MarkBlocked(e)
    [] OTHER               -> e

Outcomes == {"success", "failure", "blocked", "unused"}

\* Mutation: the flag is only cleared when the session was not used.
ReleasedIfUnused(e, outcome) == [Reported(e, outcome) EXCEPT !.inUse = outcome # "unused"]
Released(e, outcome) == [Reported(e, outcome) EXCEPT !.inUse = FALSE]

Release(j, outcome) ==
  /\ held[j] # Null
  /\ entry' = [entry EXCEPT ![held[j]] = Released(@, outcome)]
  /\ held' = [held EXCEPT ![j] = Null]
  /\ UNCHANGED now

Tick == /\ now < MaxTime
        /\ now' = now + 1
        /\ UNCHANGED <<entry, held>>

\* The run is over.
Finished == now = MaxTime /\ (\A j \in Jobs : held[j] = Null) /\ UNCHANGED vars

Next ==
  \/ \E j \in Jobs : \/ \E route \in Routes : Acquire(j, route) \/ Anonymous(j, route)
                     \/ \E outcome \in Outcomes : Release(j, outcome)
  \/ Tick \/ Finished

Spec == Init /\ [][Next]_vars

-----------------------------------------------------------------------------
(* Properties.                                                              *)

TypeOK == /\ now \in Nat
          /\ entry \in [Sessions -> Entry]
          /\ held \in [Jobs -> Sessions \cup {Null}]

\* However the reports of concurrent holders are ordered, a session that has
\* failed too often in a row carries a bench: no success can clear one and
\* leave the other.
StreakIsBenched ==
  \A s \in Sessions :
    entry[s].consecutiveFailures >= MaxConsecutiveFailures
      => entry[s].cooldownUntil # Null

\* The statistics never show a session in use that nobody holds, although the
\* first of several holders to release it clears the flag for all of them.
InUseHasHolder ==
  \A s \in Sessions : entry[s].inUse => \E j \in Jobs : held[j] = s

\* What the class comment promises, the proxy pool's cooldown model: a bench is
\* served in full, whatever attempts that were already out come back with.
BenchServedInFull ==
  [][\A s \in Sessions :
       entry[s].cooldownUntil # Null /\ entry[s].cooldownUntil > now
         => /\ entry'[s].cooldownUntil # Null
            /\ entry'[s].cooldownUntil >= entry[s].cooldownUntil]_vars
=============================================================================
