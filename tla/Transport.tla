------------------------------- MODULE Transport -------------------------------
(***************************************************************************)
(* The wire below the egress ceiling: the connection pools that a session  *)
(* keeps from cycle to cycle (createManagedHttpTransport), the requests of *)
(* FetchHttpClient over them, and the interceptor that counts what each    *)
(* transfer moved for the BandwidthAggregator of the cycle.                *)
(*                                                                         *)
(* The library is its callbacks: a transfer gets a connection, answers,    *)
(* ends or fails.  One unit stands for the bytes of a request and one for  *)
(* those of an answer.  A cycle ends when its requests have settled, as    *)
(* the runner awaits every scrape.  Header rendering, the text of errors   *)
(* and the host of a sample are left out.                                  *)
(***************************************************************************)
EXTENDS Integers, FiniteSets, Functions, Absent

CONSTANTS
  Calls,          \* the requests of the session
  Gateways,       \* proxies, and the direct way out
  Supported,      \* those whose protocol the transport speaks
  MaxHops,        \* bound: transfers of one request, redirects followed included
  MaxAggregators  \* bound: cycles of the session

TransportAssumption ==
  /\ IsFiniteSet(Calls) /\ IsFiniteSet(Gateways) /\ Supported \subseteq Gateways
  /\ MaxHops \in Nat \ {0} /\ MaxAggregators \in Nat \ {0}

VARIABLES
  cycle,   \* the cycle whose aggregator clientFor installed last, 0 before any
  closed,  \* whether close has been called
  agents,  \* proxies an agent has been made for
  wire,    \* where each request is
  ledger,  \* transfers and bytes each cycle's aggregator has per exit
  moved    \* history: what each request has moved, and in which cycle

wireVars == <<cycle, closed, agents, wire, ledger, moved>>

Cycles      == 1 .. MaxAggregators
Reasons     == {"cancelled", "timeout"}
Errors      == {"refused", "connect_timeout", "reset", "request_timeout"}
Settlements == {"response", "network_error", "unknown"} \cup Reasons
Unsent      == [phase |-> "new", exit |-> Null, reason |-> Null, outcome |-> Null,
                up |-> 0, down |-> 0, hops |-> 0]

OnWire(r) == wire[r].phase = "wire"

WireInit ==
  /\ cycle = 0 /\ closed = FALSE /\ agents = {}
  /\ wire = [r \in Calls |-> Unsent]
  /\ ledger = [c \in Cycles |-> [x \in Gateways |-> [requests |-> 0, bytes |-> 0]]]
  /\ moved = [r \in Calls |-> [cycle |-> 0, transfers |-> 0, bytes |-> 0]]

(* clientFor: the aggregator of the next cycle takes over all dispatchers. *)
ClientFor ==
  /\ ~closed /\ cycle < MaxAggregators /\ \A r \in Calls : ~OnWire(r)
  /\ cycle' = cycle + 1
  /\ UNCHANGED <<closed, agents, wire, ledger, moved>>

(* close may come while requests are under way; it waits for them.         *)
CloseTransport ==
  /\ ~closed /\ closed' = TRUE
  /\ UNCHANGED <<cycle, agents, wire, ledger, moved>>

(* A request through exit x, with a signal that may have aborted already:  *)
(* dispatcherFactory throws for a protocol it does not speak, and fetch    *)
(* rejects an aborted signal before it connects.                           *)
Send(r, x, reason) ==
  /\ wire[r].phase = "new" /\ cycle > 0 /\ ~closed
  /\ LET e == [Unsent EXCEPT !.exit = x, !.reason = reason] IN
     wire' = [wire EXCEPT ![r] =
       IF x \notin Supported THEN [e EXCEPT !.phase = "done", !.outcome = "unknown"]
       ELSE IF reason # Null THEN [e EXCEPT !.phase = "done", !.outcome = reason]
       ELSE [e EXCEPT !.phase = "wire", !.hops = 1]]
  /\ agents' = IF x \in Supported THEN agents \cup {x} ELSE agents
  /\ moved' = [moved EXCEPT ![r].cycle = cycle]
  /\ UNCHANGED <<cycle, closed, ledger>>

(* The transfer has a connection to start on: what was planned now counts. *)
RequestStart(r) ==
  /\ OnWire(r) /\ wire[r].up = 0
  /\ wire' = [wire EXCEPT ![r].up = 1]
  /\ moved' = [moved EXCEPT ![r].bytes = @ + 1, ![r].transfers = @ + 1]
  /\ UNCHANGED <<cycle, closed, agents, ledger>>

ResponseData(r) ==
  /\ OnWire(r) /\ wire[r].up > 0 /\ wire[r].down = 0
  /\ wire' = [wire EXCEPT ![r].down = 1]
  /\ moved' = [moved EXCEPT ![r].bytes = @ + 1]
  /\ UNCHANGED <<cycle, closed, agents, ledger>>

(* BandwidthAggregator.record, through the sink in use at this moment.     *)
Booked(e) == [ledger EXCEPT ![cycle][e.exit] =
                [requests |-> @.requests + 1, bytes |-> @.bytes + e.up + e.down]]

(* Mutation: what a failed transfer sent counts only if it was answered.    *)
BookedIfAnswered(e) == IF e.down > 0 THEN Booked(e) ELSE ledger

(* A transfer that failed is recorded if it moved anything at all.         *)
BookedOnError(e) == IF e.up > 0 \/ e.down > 0 THEN Booked(e) ELSE ledger

Reset(e)   == [e EXCEPT !.up = 0, !.down = 0]
Over(e, o) == [Reset(e) EXCEPT !.phase = "done", !.outcome = o]

(* A transfer ends well: a redirect is followed inside fetch, with another *)
(* transfer, and anything else is the response.                            *)
ResponseEnd(r) ==
  /\ OnWire(r) /\ wire[r].down > 0
  /\ ledger' = Booked(wire[r])
  /\ \/ wire' = [wire EXCEPT ![r] = Over(@, "response")]
     \/ /\ wire[r].hops < MaxHops
        /\ wire' = [wire EXCEPT ![r] = [Reset(@) EXCEPT !.hops = wire[r].hops + 1]]
  /\ UNCHANGED <<cycle, closed, agents, moved>>

(* toHttpError, walking to the terminal cause of the failure.              *)
ToHttpError(error) ==
  IF error \in {"connect_timeout", "request_timeout"} THEN "timeout" ELSE "network_error"

ResponseError(r, error) ==
  /\ OnWire(r) /\ (error \in {"refused", "connect_timeout"} => wire[r].up = 0)
  /\ wire' = [wire EXCEPT ![r] = Over(@, ToHttpError(error))]
  /\ ledger' = BookedOnError(wire[r])
  /\ UNCHANGED <<cycle, closed, agents, moved>>

(* The caller's signal aborts; its reason reaches the caller as it is.     *)
WireAborts(r, reason) ==
  /\ OnWire(r)
  /\ wire' = [wire EXCEPT ![r] = Over([@ EXCEPT !.reason = reason], reason)]
  /\ ledger' = BookedOnError(wire[r])
  /\ UNCHANGED <<cycle, closed, agents, moved>>

WireNext ==
  \/ ClientFor \/ CloseTransport
  \/ \E r \in Calls :
       \/ \E x \in Gateways, reason \in Reasons \cup {Null} : Send(r, x, reason)
       \/ RequestStart(r) \/ ResponseData(r) \/ ResponseEnd(r)
       \/ \E error \in Errors : ResponseError(r, error)
       \/ \E reason \in Reasons : WireAborts(r, reason)

WireSpec == WireInit /\ [][WireNext]_wireVars
-------------------------------------------------------------------------------
WireTypeOK ==
  /\ cycle \in 0 .. MaxAggregators /\ closed \in BOOLEAN /\ agents \subseteq Supported
  /\ \A r \in Calls : /\ wire[r].phase \in {"new", "wire", "done"}
                      /\ wire[r].outcome \in Settlements \cup {Null}
                      /\ OnWire(r) => wire[r].exit \in agents

InCycle(c) == {r \in Calls : moved[r].cycle = c}

(* What each cycle reports as its bandwidth is what its own requests       *)
(* moved: every transfer is recorded once, with all its bytes, whether it  *)
(* ended, was one hop of a redirect, failed or was aborted half way; a     *)
(* connection that was refused costs nothing.                              *)
BytesAccounted ==
  /\ WireTypeOK
  /\ \A c \in Cycles :
       /\ SumFunctionOnSet([x \in Gateways |-> ledger[c][x].bytes], Gateways)
            + SumFunctionOnSet([r \in Calls |-> wire[r].up + wire[r].down], InCycle(c))
          = SumFunctionOnSet([r \in Calls |-> moved[r].bytes], InCycle(c))
       /\ SumFunctionOnSet([x \in Gateways |-> ledger[c][x].requests], Gateways)
            + SumFunctionOnSet([r \in Calls |-> wire[r].up], InCycle(c))
          = SumFunctionOnSet([r \in Calls |-> moved[r].transfers], InCycle(c))
=============================================================================
