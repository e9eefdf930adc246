--------------------------- MODULE OrderExecution ---------------------------
(***************************************************************************)
(* From an approved signal to a broker position and back:                  *)
(* ExecutionService (execution_service.py) retrying over MT5Connector      *)
(* (mt5_connector.py), the HTTP gateway (mt5_gateway/agent.py) with the    *)
(* broker behind it, and the OrderStateMachine that records tickets.       *)
(* A call is a coroutine: it may be interleaved with others at every await.*)
(* A request that the caller gave up on may still reach the gateway.       *)
(***************************************************************************)
EXTENDS Integers, Sequences, FiniteSets

CONSTANTS Signals,          \* calls of execute(), one per signal
          Closers,          \* calls of close()
          MaxRetries,       \* _MAX_RETRIES
          MaxTickets,       \* capacity of the order state machine
          MaxPositions      \* bound: positions the broker ever opens

Callers == Signals \cup Closers
Tickets == 1..MaxPositions

ASSUME ExecutionAssumption ==
    /\ Signals \cap Closers = {}
    /\ MaxRetries \in Nat \ {0}
    /\ MaxTickets \in Nat \ {0}
    /\ MaxPositions \in Nat

VARIABLES
    pc,         \* where each call stands
    attempt,    \* loop counter of each call, 0 before the first attempt
    target,     \* ticket a close() call was given
    net,        \* net[c][n]: fate of the request sent by attempt n of call c
    connected,  \* MT5Connector._connected
    wired,      \* a KillSwitch was passed to the service when it was built
    fills,      \* fills[t]: the request that opened position t, in order
    live,       \* positions open at the broker
    order, state, stale, sweeping, due      \* the order state machine

OSM == INSTANCE OrderStateMachine

callVars   == <<pc, attempt, target>>
linkVars   == <<connected, wired>>
brokerVars == <<fills, live>>
osmVars    == <<order, state, stale, sweeping, due>>
vars       == <<callVars, net, linkVars, brokerVars, osmVars>>

Running  == {"waiting", "backoff", "opened"}
Finished == {"succeeded", "failed", "raised"}

(* "done", "refused", "doubted" and "unconfirmed" are answers on their way *)
(* back: 200, a refusal before anything was sent to the broker, and a 502  *)
(* after order_send() whose deal the broker has not or has executed; the   *)
(* caller cannot tell these three from each other.  "acked" was read.      *)
Fates == {"unsent", "sent", "done", "refused", "doubted", "unconfirmed", "acked", "lost"}
Errors == {"refused", "doubted", "unconfirmed"}

Request == [by : Callers, n : 1..MaxRetries]

TypeOK == /\ pc \in [Callers -> {"idle"} \cup Running \cup Finished]
          /\ attempt \in [Callers -> 0..MaxRetries]
          /\ target \in [Closers -> Tickets \cup {0}]
          /\ net \in [Callers -> [1..MaxRetries -> Fates]]
          /\ connected \in BOOLEAN
          /\ wired \in BOOLEAN
          /\ fills \in Seq(Request)
          /\ Len(fills) <= MaxPositions
          /\ live \subseteq 1..Len(fills)
          /\ OSM!TypeOK

Init == /\ pc = [c \in Callers |-> "idle"]
        /\ attempt = [c \in Callers |-> 0]
        /\ target = [c \in Closers |-> 0]
        /\ net = [c \in Callers |-> [n \in 1..MaxRetries |-> "unsent"]]
        /\ connected = FALSE
        /\ wired \in BOOLEAN
        /\ fills = <<>>
        /\ live = {}
        /\ OSM!Init
-----------------------------------------------------------------------------
(* The retry loop, the same in execute() and close().                      *)

Fate(c) == net[c][attempt[c]]

(* What except Exception does after attempt n: back off, or give up.       *)
AfterFailure(n) == IF n < MaxRetries THEN "backoff" ELSE "failed"

(* One pass of the loop: _require_connected() raises at once, else the     *)
(* request goes out and the call waits for its answer.                     *)
Attempt(c) ==
    LET n == attempt[c] + 1
    IN  /\ attempt' = [attempt EXCEPT ![c] = n]
        /\ IF connected
           THEN /\ net' = [net EXCEPT ![c][n] = "sent"]
                /\ pc' = [pc EXCEPT ![c] = "waiting"]
           ELSE /\ pc' = [pc EXCEPT ![c] = AfterFailure(n)]
                /\ UNCHANGED net
        /\ UNCHANGED <<linkVars, brokerVars, osmVars>>

Execute(s) ==
    /\ pc[s] = "idle"
    /\ ~wired
    /\ Attempt(s)
    /\ UNCHANGED target

(* volume <= 0 is refused before anything is sent.                         *)
ExecuteInvalid(s) ==
    /\ pc[s] = "idle"
    /\ ~wired
    /\ pc' = [pc EXCEPT ![s] = "failed"]
    /\ UNCHANGED <<attempt, target, net, linkVars, brokerVars, osmVars>>

(* KillSwitch.is_active is a property: is_active() calls a bool.           *)
ExecuteWithKillSwitch(s) ==
    /\ pc[s] = "idle"
    /\ wired
    /\ pc' = [pc EXCEPT ![s] = "raised"]
    /\ UNCHANGED <<attempt, target, net, linkVars, brokerVars, osmVars>>

Close(c, t) ==
    /\ pc[c] = "idle"
    /\ target' = [target EXCEPT ![c] = t]
    /\ Attempt(c)

Retry(c) == /\ pc[c] = "backoff"
            /\ Attempt(c)
            /\ UNCHANGED target

AttemptFails(c) ==
    /\ pc' = [pc EXCEPT ![c] = AfterFailure(attempt[c])]
    /\ UNCHANGED <<attempt, target, brokerVars, osmVars>>

(* aiohttp.ClientError: the connector marks itself disconnected.           *)
NetworkError(c) ==
    /\ pc[c] = "waiting"
    /\ connected' = FALSE
    /\ AttemptFails(c)
    /\ UNCHANGED <<net, wired>>

(* asyncio.TimeoutError is no ClientError: the connector stays connected.  *)
Timeout(c) ==
    /\ pc[c] = "waiting"
    /\ AttemptFails(c)
    /\ UNCHANGED <<net, linkVars>>

\* close() records the ticket before it knows the outcome
MutReadRefusal(c) ==
    /\ pc[c] = "waiting"
    /\ Fate(c) \in Errors
    /\ pc' = [pc EXCEPT ![c] = AfterFailure(attempt[c])]
    /\ IF c \in Closers THEN OSM!Transition(target[c], "CLOSING") ELSE UNCHANGED osmVars
    /\ UNCHANGED <<attempt, target, brokerVars, net, linkVars>>

(* HTTP status >= 400.                                                     *)
ReadRefusal(c) ==
    /\ pc[c] = "waiting"
    /\ Fate(c) \in Errors
    /\ AttemptFails(c)
    /\ UNCHANGED <<net, linkVars>>
-----------------------------------------------------------------------------
TicketOf(c) == CHOOSE t \in 1..Len(fills) : fills[t] = [by |-> c, n |-> attempt[c]]

(* execute() has its OrderResult: record the ticket as OPEN, swallowing    *)
(* what the state machine raises, then persist.                            *)
ReadOpened(s) ==
    /\ pc[s] = "waiting"
    /\ Fate(s) = "done"
    /\ net' = [net EXCEPT ![s][attempt[s]] = "acked"]
    /\ OSM!Transition(TicketOf(s), "OPEN")
    /\ pc' = [pc EXCEPT ![s] = "opened"]
    /\ UNCHANGED <<attempt, target, linkVars, brokerVars>>

(* After _persist() the result is built from order.open_price, which the   *)
(* connector's OrderResult does not have: AttributeError.                  *)
FinishExecute(s) ==
    /\ pc[s] = "opened"
    /\ pc' = [pc EXCEPT ![s] = "raised"]
    /\ UNCHANGED <<attempt, target, net, linkVars, brokerVars, osmVars>>

(* close() has its answer; a refused transition to CLOSED is raised inside *)
(* the loop and counts as a failed attempt.                                *)
ReadClosed(c) ==
    /\ pc[c] = "waiting"
    /\ Fate(c) = "done"
    /\ net' = [net EXCEPT ![c][attempt[c]] = "acked"]
    /\ OSM!Transition(target[c], "CLOSED")
    /\ pc' = [pc EXCEPT ![c] = IF OSM!Accepts(target[c], "CLOSED")
                               THEN "succeeded" ELSE AfterFailure(attempt[c])]
    /\ UNCHANGED <<attempt, target, linkVars, brokerVars>>
-----------------------------------------------------------------------------
(* The network, the gateway and the broker.                                *)

(* What an answer turns into when the broker executes the request: 200, or *)
(* a 502 that was sent before (retcode PLACED) or instead of it (None).    *)
Settled(f) == IF f = "doubted" THEN "unconfirmed" ELSE "done"

\* the gateway may send an order twice when its result is slow
MutGatewayOpens(s, n) ==
    /\ net[s][n] \in {"sent", "doubted"}
    /\ Len(fills) < MaxPositions
    /\ net' = [net EXCEPT ![s][n] = Settled(@)]
    /\ fills' \in {Append(fills, [by |-> s, n |-> n]),
                   Append(Append(fills, [by |-> s, n |-> n]), [by |-> s, n |-> n])}
    /\ Len(fills') <= MaxPositions
    /\ live' = live \cup {Len(fills) + 1}
    /\ UNCHANGED <<callVars, linkVars, osmVars>>

(* The broker opens a position for a request, at the latest after the      *)
(* gateway has answered that it does not know.                             *)
GatewayOpens(s, n) ==
    /\ net[s][n] \in {"sent", "doubted"}
    /\ Len(fills) < MaxPositions
    /\ net' = [net EXCEPT ![s][n] = Settled(@)]
    /\ fills' = Append(fills, [by |-> s, n |-> n])
    /\ live' = live \cup {Len(fills) + 1}
    /\ UNCHANGED <<callVars, linkVars, osmVars>>

\* the gateway answers before the broker has closed the position
MutGatewayCloses(c, n) ==
    /\ net[c][n] \in {"sent", "doubted"}
    /\ target[c] \in live
    /\ net' = [net EXCEPT ![c][n] = Settled(@)]
    /\ UNCHANGED <<callVars, linkVars, brokerVars, osmVars>>

(* The broker closes the position a request names.                         *)
GatewayCloses(c, n) ==
    /\ net[c][n] \in {"sent", "doubted"}
    /\ target[c] \in live
    /\ net' = [net EXCEPT ![c][n] = Settled(@)]
    /\ live' = live \ {target[c]}
    /\ UNCHANGED <<callVars, linkVars, fills, osmVars>>

Answer(c, n, f) ==
    /\ net[c][n] = "sent"
    /\ net' = [net EXCEPT ![c][n] = f]
    /\ UNCHANGED <<callVars, linkVars, brokerVars, osmVars>>

(* No terminal, no such symbol or position, no price: nothing was sent.    *)
GatewayRefuses(c, n) == Answer(c, n, "refused")

(* order_send() was called and its result is None or not RETCODE_DONE: 502 *)
(* whether the broker has rejected the deal, has it in hand or made part.  *)
GatewayDoubts(c, n) ==
    /\ c \in Closers => target[c] \in live
    /\ Answer(c, n, "doubted")

RequestLost(c, n) == Answer(c, n, "lost")

(* Stop loss, take profit or a manual close at the terminal.               *)
BrokerCloses(t) == /\ t \in live
                   /\ live' = live \ {t}
                   /\ UNCHANGED <<callVars, net, linkVars, fills, osmVars>>

(* connect() pings the gateway.                                            *)
Connect == /\ connected' \in BOOLEAN
           /\ UNCHANGED <<callVars, net, wired, brokerVars, osmVars>>

(* The registry's own life beside the calls: time and its expiry sweep.    *)
RegistrySweep == /\ OSM!Elapse \/ OSM!SweepReadsClock \/ OSM!SweepExpires
                 /\ UNCHANGED <<callVars, net, linkVars, brokerVars>>
-----------------------------------------------------------------------------
CallStep(c) == \/ Retry(c) \/ NetworkError(c) \/ Timeout(c) \/ ReadRefusal(c)
               \/ c \in Signals /\ (ReadOpened(c) \/ FinishExecute(c))
               \/ c \in Closers /\ ReadClosed(c)

Next == \/ \E s \in Signals : Execute(s) \/ ExecuteInvalid(s) \/ ExecuteWithKillSwitch(s)
        \/ \E c \in Closers, t \in Tickets : Close(c, t)
        \/ \E c \in Callers : CallStep(c)
        \/ \E n \in 1..MaxRetries :
              \/ \E s \in Signals : GatewayOpens(s, n)
              \/ \E c \in Closers : GatewayCloses(c, n)
              \/ \E c \in Callers :
                    GatewayRefuses(c, n) \/ GatewayDoubts(c, n) \/ RequestLost(c, n)
        \/ \E t \in Tickets : BrokerCloses(t)
        \/ Connect
        \/ RegistrySweep

Spec == Init /\ [][Next]_vars
-----------------------------------------------------------------------------
Opened(s) == {t \in 1..Len(fills) : fills[t].by = s}

(* Requests executed at the broker of whose execution the caller was never *)
(* told: the answer came after the caller had moved on, or it was a 502.   *)
Unreported(c) == {n \in 1..MaxRetries :
                     \/ net[c][n] = "done" /\ (n < attempt[c] \/ pc[c] # "waiting")
                     \/ net[c][n] = "unconfirmed"}

(* execute() was told of a position: the answer it went on with.           *)
WasTold(s) == pc[s] \in {"opened", "raised"} /\ attempt[s] > 0

(* The positions of a signal are the one its caller was told of and one    *)
(* for each executed request whose answer was lost or denied it (the retry *)
(* loop of execute(), lines 103-128, over open_order() of the gateway,     *)
(* agent.py:262-308): there is no other way to a position, nor to a second.*)
DuplicateNeedsLostAnswer ==
    \A s \in Signals :
        pc[s] # "waiting" =>
            Cardinality(Opened(s)) = Cardinality(Unreported(s)) + (IF WasTold(s) THEN 1 ELSE 0)

(* The registry holds only tickets the broker issued - close() of an       *)
(* unknown number never enters one - and while it has room it holds every  *)
(* order its caller was told of, whatever state sweeps and refused moves   *)
(* have left it in (transition() enters an unknown ticket before it looks  *)
(* at the move, order_state_machine.py:76-96; execute() swallows what it   *)
(* raises, execution_service.py:133-136).                                  *)
RegistryMatchesBroker ==
    /\ TypeOK
    /\ OSM!Tracked \subseteq 1..Len(fills)
    /\ Len(fills) <= MaxTickets =>
          \A s \in Signals : WasTold(s) => state[TicketOf(s)] # OSM!Absent

(* A close() the gateway confirmed once leaves no position, whatever the   *)
(* call reports and however often it retries.                              *)
ConfirmedCloseIsFlat ==
    \A c \in Closers :
        (\E n \in 1..MaxRetries : net[c][n] = "acked") => target[c] \notin live

-----------------------------------------------------------------------------
(* Statements of the repository the code does not meet.                    *)

(* test_critical_fixes.py, FIX-1: no duplicate order after a retry.        *)
OnePositionPerSignal == \A s \in Signals : Cardinality(Opened(s)) <= 1

(* close(), line 155: "Close an open position and advance its state to     *)
(* CLOSED": once the gateway has confirmed it, the ticket is CLOSED.       *)
CloseAdvances ==
    \A c \in Closers :
        (\E n \in 1..MaxRetries : net[c][n] = "acked") =>
            state[target[c]] \in {"CLOSED", OSM!Absent}
=============================================================================
