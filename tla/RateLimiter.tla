------------------------------ MODULE RateLimiter ------------------------------
(***************************************************************************)
(* The egress ceiling: RateLimitedHttpClient keeps one bucket per host,    *)
(* TokenBucketRateLimiter hands out its tokens in order of arrival.        *)
(*                                                                         *)
(* A bucket is kept in units: Cost units make a token and Rate units       *)
(* arrive per tick, so that the Math.ceil of a sleep is the ceiling it is  *)
(* in the code.  A waiter takes its turn when the one before it has left,  *)
(* a sleeper when its timer has fired, at most Late ticks after it is due; *)
(* time does not pass over either.  An abort is noticed at a turn only.    *)
(* What the request does once it is let through is Transport.  The mapping *)
(* of a host to its platform's ceiling and the report of the time waited   *)
(* are left out.                                                           *)
(***************************************************************************)
EXTENDS Integers, Sequences, FiniteSets, SequencesExt

CONSTANTS
  Requests,   \* the requests of the run
  Hosts,      \* the hosts they go to
  Rate,       \* [Hosts -> Nat]: units a bucket gains per tick, 0 for no ceiling
  Cost,       \* units one request costs
  Burst,      \* requests an idle bucket can serve at once
  MaxWait,    \* [Hosts -> Nat]: ticks a request may wait, 0 for any number
  Late,       \* ticks a timer may fire late
  LastEntry,  \* bound: no request is made after this tick
  MaxClock,   \* bound: where the clock stops
  None

RateLimiterAssumption ==
  /\ Rate \in [Hosts -> Nat] /\ MaxWait \in [Hosts -> Nat]
  /\ Cost \in Nat \ {0} /\ Burst \in Nat \ {0}
  /\ Late \in Nat /\ LastEntry \in Nat /\ MaxClock \in Nat
  /\ None \notin [tokens : Nat, at : Nat]

VARIABLES
  clock,    \* the clock
  buckets,  \* the bucket of each host, None until its first request
  chain,    \* the requests inside acquire, per host, in order of arrival
  req,      \* where each request is
  grants    \* history: when each host's tokens were handed out

limiterVars == <<clock, buckets, chain, req, grants>>

Phases == {"new", "queued", "asleep", "sent", "throttled", "aborted"}
Idle   == [phase |-> "new", host |-> None, since |-> 0, until |-> 0, aborted |-> FALSE]

Limited(h)  == Rate[h] > 0
Capacity    == Burst * Cost
Waiting(r)  == req[r].phase \in {"queued", "asleep"}
Lower(a, b) == IF a < b THEN a ELSE b

LimiterInit ==
  /\ clock = 0
  /\ buckets = [h \in Hosts |-> None]
  /\ chain = [h \in Hosts |-> <<>>]
  /\ req = [r \in Requests |-> Idle]
  /\ grants = [h \in Hosts |-> <<>>]

(* A request enters: the limiter of its host is made on first use, and is  *)
(* full; one without a ceiling lets the request pass, aborted or not.      *)
Enter(r, h) ==
  /\ req[r].phase = "new" /\ clock <= LastEntry
  /\ req' = [req EXCEPT ![r] = [Idle EXCEPT !.phase = IF Limited(h) THEN "queued" ELSE "sent",
                                            !.host = h, !.since = clock]]
  /\ IF Limited(h)
       THEN /\ chain' = [chain EXCEPT ![h] = Append(@, r)]
            /\ buckets' = IF buckets[h] # None THEN buckets
                          ELSE [buckets EXCEPT ![h] = [tokens |-> Capacity, at |-> clock]]
       ELSE UNCHANGED <<chain, buckets>>
  /\ UNCHANGED <<clock, grants>>

(* The caller's signal aborts: a cancelled run, or an attempt out of time. *)
Abort(r) ==
  /\ Waiting(r) /\ ~req[r].aborted
  /\ req' = [req EXCEPT ![r].aborted = TRUE]
  /\ UNCHANGED <<clock, buckets, chain, grants>>

(* Mutation: an idle bucket fills beyond its burst.                         *)
RefilledUncapped(b, h) == [tokens |-> b.tokens + (clock - b.at) * Rate[h], at |-> clock]

Refilled(b, h) == [tokens |-> Lower(Capacity, b.tokens + (clock - b.at) * Rate[h]), at |-> clock]

SleepFor(b, h) == (Cost - b.tokens + Rate[h] - 1) \div Rate[h]

(* Turned away for the time it would wake at, before it sleeps.            *)
TooLong(r, h, sleep) == MaxWait[h] > 0 /\ clock - req[r].since + sleep > MaxWait[h]

(* Mutation: a request that fails does not let the next one in line go.    *)
LeftWhenSent(h, how) == IF how = "sent" THEN [chain EXCEPT ![h] = Tail(@)] ELSE chain

(* Leaving, however it ends, lets the next one in line have its turn.      *)
LeftBy(h, how) == [chain EXCEPT ![h] = Tail(@)]

Leaves(r, how) == /\ req' = [req EXCEPT ![r].phase = how]
                  /\ chain' = LeftBy(req[r].host, how)

AtTurn(r) == /\ Waiting(r) /\ Head(chain[req[r].host]) = r
             /\ req[r].phase = "asleep" => clock >= req[r].until

TurnAborted(r) ==
  /\ AtTurn(r) /\ req[r].aborted
  /\ Leaves(r, "aborted") /\ UNCHANGED <<clock, buckets, grants>>

(* One pass of the loop of acquire: a token, a rejection that costs none,  *)
(* or a sleep until the token is there.                                    *)
Turn(r) ==
  LET h == req[r].host
      b == Refilled(buckets[h], h)
      sleep == SleepFor(b, h)
  IN /\ AtTurn(r) /\ ~req[r].aborted
     /\ buckets' = [buckets EXCEPT ![h] = IF b.tokens >= Cost THEN [b EXCEPT !.tokens = @ - Cost]
                                          ELSE b]
     /\ \/ /\ b.tokens >= Cost
           /\ Leaves(r, "sent") /\ grants' = [grants EXCEPT ![h] = Append(@, clock)]
        \/ /\ b.tokens < Cost /\ TooLong(r, h, sleep)
           /\ Leaves(r, "throttled") /\ UNCHANGED grants
        \/ /\ b.tokens < Cost /\ ~TooLong(r, h, sleep)
           /\ req' = [req EXCEPT ![r].phase = "asleep", ![r].until = clock + sleep]
           /\ UNCHANGED <<chain, grants>>
     /\ UNCHANGED clock

(* Time passes, but over no turn that is due.                              *)
Due(r) == AtTurn(r) /\ (req[r].phase = "asleep" => clock >= req[r].until + Late)
TimePasses ==
  /\ clock < MaxClock /\ \A r \in Requests : ~Due(r)
  /\ clock' = clock + 1
  /\ UNCHANGED <<buckets, chain, req, grants>>

LimiterNext ==
  \/ \E r \in Requests : \/ \E h \in Hosts : Enter(r, h)
                         \/ Abort(r) \/ TurnAborted(r) \/ Turn(r)
  \/ TimePasses

(* Turns are promises and timers of the runtime.                           *)
LimiterFairness == /\ WF_limiterVars(TimePasses)
            /\ \A r \in Requests : WF_limiterVars(Turn(r) \/ TurnAborted(r))
LimiterSpec == LimiterInit /\ [][LimiterNext]_limiterVars /\ LimiterFairness
-------------------------------------------------------------------------------
(* Types; a bucket never holds more than its burst or less than nothing,   *)
(* and who waits for a host stands in its line exactly once.               *)
LimiterTypeOK ==
  /\ clock \in 0 .. MaxClock
  /\ \A h \in Hosts : \/ buckets[h] = None
                      \/ buckets[h].tokens \in 0 .. Capacity /\ buckets[h].at \in 0 .. clock
  /\ \A r \in Requests : req[r].phase \in Phases
  /\ \A h \in Hosts : /\ IsInjective(chain[h])
                      /\ ToSet(chain[h]) = {r \in Requests : Waiting(r) /\ req[r].host = h}

(* No host is asked more than its ceiling allows: over any stretch of time *)
(* the tokens handed out are at most one burst and what arrived meanwhile, *)
(* whatever idle periods, early leavers and late timers there were; the    *)
(* reason the limiter is a bucket and not a fixed window.                  *)
WithinRate ==
  \A h \in Hosts : \A i, j \in DOMAIN grants[h] :
    i <= j => (j - i + 1) * Cost <= Capacity + (grants[h][j] - grants[h][i]) * Rate[h]

(* No request waits for its token longer than its budget, but for the      *)
(* lateness of a timer, though only the first in line ever looks at the    *)
(* time: who is in front arrived earlier and leaves by its own budget.     *)
WaitWithinBudget ==
  \A r \in Requests : Waiting(r) /\ MaxWait[req[r].host] > 0 =>
    clock - req[r].since <= MaxWait[req[r].host] + Late

(* All of it: no host is asked more than allowed, nobody waits too long.   *)
EgressKept == LimiterTypeOK /\ WithinRate /\ WaitWithinBudget

(* What comes to hold for good: every request that was made is back, also  *)
(* those behind one that was turned away or aborted in the line.           *)
RequestsSettled == \A r \in Requests : ~Waiting(r)
=============================================================================
