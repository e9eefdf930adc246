------------------------ MODULE OrderExecutionProofs ------------------------
(***************************************************************************)
(* Proofs about OrderExecution, for any callers, retries, capacity and     *)
(* number of positions: what a caller knows of the broker, and what the    *)
(* registry knows of both.  The facts about the registry itself are those  *)
(* of OrderStateMachineProofs.                                             *)
(***************************************************************************)
EXTENDS OrderExecution, SequenceTheorems, FiniteSetTheorems, TLAPS

Store == INSTANCE OrderStateMachineProofs

(* How far a call is: what it sent belongs to the attempts it has made.    *)
CallOK(c) ==
    /\ pc[c] = "idle" => attempt[c] = 0
    /\ pc[c] \in {"waiting", "opened"} => attempt[c] > 0
    /\ pc[c] = "backoff" => attempt[c] < MaxRetries
    /\ \A n \in 1..MaxRetries : n > attempt[c] => net[c][n] = "unsent"

(* execute() read an answer exactly if it is past recording it.            *)
SignalOK(s) ==
    /\ \A n \in 1..MaxRetries :
          net[s][n] = "acked" => n = attempt[s] /\ pc[s] \in {"opened", "raised"}
    /\ pc[s] \in {"opened", "raised"} /\ attempt[s] > 0 => net[s][attempt[s]] = "acked"

CallsOK == /\ \A c \in Callers : CallOK(c)
           /\ \A s \in Signals : SignalOK(s)

Executed(c, n) == net[c][n] \in {"done", "acked", "unconfirmed"}

(* The broker's positions are the executed requests, one each.             *)
BrokerOK ==
    /\ \A t \in 1..Len(fills) : fills[t].by \in Signals
    /\ \A t, u \in 1..Len(fills) : fills[t] = fills[u] => t = u
    /\ \A s \in Signals, n \in 1..MaxRetries :
          Executed(s, n) <=> \E t \in 1..Len(fills) : fills[t] = [by |-> s, n |-> n]

(* What the gateway closed stays closed: a ticket is never issued twice.   *)
ClosedOK ==
    \A c \in Closers, n \in 1..MaxRetries :
        Executed(c, n) => target[c] \in 1..Len(fills) /\ target[c] \notin live

(* The caller was told of position t.                                      *)
Told(t) == net[fills[t].by][fills[t].n] = "acked"

RegistryOK ==
    /\ OSM!StoreOK
    /\ OSM!Tracked \subseteq 1..Len(fills)
    /\ Len(fills) <= MaxTickets =>
          \A t \in 1..Len(fills) : Told(t) => state[t] # OSM!Absent

ExecutionInv == TypeOK /\ CallsOK /\ BrokerOK /\ ClosedOK /\ RegistryOK

-----------------------------------------------------------------------------
(* The registry, seen through the instance that carries its proofs.        *)
LEMMA SameRegistry ==
    /\ OSM!TypeOK <=> Store!TypeOK
    /\ OSM!StoreOK <=> Store!StoreOK
    /\ OSM!Absent = Store!Absent
    /\ OSM!States = Store!States
    /\ OSM!Init <=> Store!Init
BY Zenon
DEF OSM!TypeOK, Store!TypeOK, OSM!StoreOK, Store!StoreOK, OSM!Init, Store!Init,
    OSM!Absent, Store!Absent, OSM!States, Store!States,
    OSM!Lifecycle!Absent, Store!Lifecycle!Absent,
    OSM!Lifecycle!States, Store!Lifecycle!States,
    OSM!Lifecycle!Live, Store!Lifecycle!Live,
    OSM!Lifecycle!Terminal, Store!Lifecycle!Terminal

LEMMA SameAccepts ==
    \A t, s : OSM!Accepts(t, s) <=> Store!Accepts(t, s)
BY Zenon
DEF OSM!Accepts, Store!Accepts, OSM!Current, Store!Current, OSM!Absent, Store!Absent,
    OSM!Lifecycle!Absent, Store!Lifecycle!Absent,
    OSM!Transitions, Store!Transitions,
    OSM!Lifecycle!Transitions, Store!Lifecycle!Transitions,
    OSM!Lifecycle!States, Store!Lifecycle!States,
    OSM!Lifecycle!Live, Store!Lifecycle!Live,
    OSM!Lifecycle!Terminal, Store!Lifecycle!Terminal

LEMMA SameVictims ==
    OSM!VictimAt = Store!VictimAt /\ OSM!Victims = Store!Victims
BY Zenon
DEF OSM!VictimAt, Store!VictimAt, OSM!Victims, Store!Victims, OSM!TerminalAt, Store!TerminalAt,
    OSM!Oldest, Store!Oldest, OSM!Terminal, Store!Terminal,
    OSM!Lifecycle!Terminal, Store!Lifecycle!Terminal

LEMMA SameTransition ==
    ASSUME NEW t, NEW s
    PROVE  OSM!Transition(t, s) <=> Store!Transition(t, s)
<1>1. ASSUME NEW r PROVE OSM!Insert(t, r) <=> Store!Insert(t, r)
  BY SameRegistry, SameVictims, Zenon
     DEF OSM!Insert, Store!Insert, OSM!RemoveAt, Store!RemoveAt
<1>2. OSM!Current(t) = Store!Current(t)
  BY SameRegistry, Zenon DEF OSM!Current, Store!Current
<1> QED BY <1>1, <1>2, SameAccepts, SameRegistry, Zenon DEF OSM!Transition, Store!Transition

LEMMA Names == /\ OSM!Absent = "ABSENT"
               /\ "PENDING" \in OSM!States /\ "OPEN" \in OSM!States /\ "CLOSED" \in OSM!States
               /\ OSM!Absent \notin OSM!States
BY DEF OSM!Absent, OSM!States, OSM!Lifecycle!Absent, OSM!Lifecycle!States,
       OSM!Lifecycle!Live, OSM!Lifecycle!Terminal

(* The two calls of transition() this module makes keep the registry sound *)
(* and enter t; another ticket keeps its state or goes to make room for t. *)
LEMMA RegistryStep ==
    ASSUME OSM!TypeOK, OSM!StoreOK,
           NEW t \in Tickets, NEW s \in {"OPEN", "CLOSED"}, OSM!Transition(t, s)
    PROVE  /\ OSM!TypeOK' /\ OSM!StoreOK'
           /\ state'[t] # OSM!Absent
           /\ \A u \in Tickets \ {t} :
                 \/ state'[u] = state[u]
                 \/ /\ state'[u] = OSM!Absent
                    /\ state[t] = OSM!Absent
                    /\ Len(order) = MaxTickets
<1> DEFINE result == IF OSM!Accepts(t, s) THEN s ELSE OSM!Current(t)
<1>1. result # OSM!Absent
  BY Names DEF OSM!Current
<1>2. OSM!TypeOK' /\ OSM!StoreOK'
  <2>1. Store!IInv
    BY SameRegistry DEF Store!IInv
  <2>2. s \in Store!States
    BY Names, SameRegistry
  <2>3. Store!Transition(t, s)
    BY SameTransition
  <2>4. Store!Next
    BY <2>2, <2>3 DEF Store!Next
  <2>5. Store!IInv'
    BY <2>1, <2>4, ExecutionAssumption, Store!Inductive
  <2>6. (OSM!TypeOK <=> Store!TypeOK)' /\ (OSM!StoreOK <=> Store!StoreOK)'
    BY SameRegistry, PTL
  <2> QED BY <2>5, <2>6 DEF Store!IInv
<1>3. CASE state[t] = OSM!Absent
  <2>1. OSM!Insert(t, result)
    BY <1>3 DEF OSM!Transition
  <2>2. state' = [u \in Tickets |-> IF u = t THEN result
                                    ELSE IF u \in OSM!Victims THEN OSM!Absent ELSE state[u]]
    BY <2>1 DEF OSM!Insert
  <2>3. OSM!Victims # {} => Len(order) = MaxTickets
    BY ExecutionAssumption, LenProperties DEF OSM!Victims, OSM!StoreOK, OSM!TypeOK
  <2> HIDE DEF result
  <2> QED BY <1>1, <1>2, <1>3, <2>2, <2>3
<1>4. CASE state[t] # OSM!Absent
  <2>1. state' = [state EXCEPT ![t] = result]
    BY <1>4 DEF OSM!Transition
  <2> HIDE DEF result
  <2> QED BY <1>1, <1>2, <2>1 DEF OSM!TypeOK
<1> QED BY <1>3, <1>4

(* Time and the expiry sweep keep the registry sound and forget no ticket. *)
LEMMA SweepStep ==
    ASSUME OSM!TypeOK, OSM!StoreOK, OSM!Elapse \/ OSM!SweepReadsClock \/ OSM!SweepExpires
    PROVE  /\ OSM!TypeOK' /\ OSM!StoreOK'
           /\ \A t \in Tickets : state'[t] = OSM!Absent <=> state[t] = OSM!Absent
<1>1. OSM!TypeOK' /\ OSM!StoreOK'
  <2>1. Store!IInv
    BY SameRegistry DEF Store!IInv
  <2>2. Store!Elapse \/ Store!SweepReadsClock \/ Store!SweepExpires
    BY Zenon DEF OSM!Elapse, OSM!SweepReadsClock, OSM!SweepExpires, OSM!Overdue, OSM!Expirable,
          OSM!Live, OSM!Lifecycle!Live, Store!Elapse, Store!SweepReadsClock,
          Store!SweepExpires, Store!Overdue, Store!Expirable, Store!Live,
          Store!Lifecycle!Live
  <2>3. Store!Next
    BY <2>2 DEF Store!Next
  <2>4. Store!IInv'
    BY <2>1, <2>3, ExecutionAssumption, Store!Inductive
  <2>5. (OSM!TypeOK <=> Store!TypeOK)' /\ (OSM!StoreOK <=> Store!StoreOK)'
    BY SameRegistry, PTL
  <2> QED BY <2>4, <2>5 DEF Store!IInv
<1>2. CASE OSM!Elapse \/ OSM!SweepReadsClock
  BY <1>1, <1>2 DEF OSM!Elapse, OSM!SweepReadsClock
<1>3. CASE OSM!SweepExpires
  <2>1. \A t \in Tickets : state'[t] = IF t \in due /\ state[t] \in OSM!Expirable
                                      THEN "ERROR" ELSE state[t]
    BY <1>3 DEF OSM!SweepExpires
  <2>2. OSM!Absent # "ERROR" /\ OSM!Absent \notin OSM!Expirable
    BY DEF OSM!Absent, OSM!Expirable, OSM!Live, OSM!Lifecycle!Absent, OSM!Lifecycle!Live
  <2> QED BY <1>1, <2>1, <2>2
<1> QED BY <1>2, <1>3

-----------------------------------------------------------------------------
(* What a step must leave alone for each part of the invariant to stay.    *)
LEMMA CallsFrame ==
    ASSUME CallsOK, TypeOK, UNCHANGED <<pc, attempt>>,
           \A c \in Callers, n \in 1..MaxRetries :
              net'[c][n] # net[c][n] => /\ net[c][n] \in {"sent", "doubted"}
                                        /\ net'[c][n] # "acked"
    PROVE  CallsOK'
<1>1. ASSUME NEW c \in Callers PROVE CallOK(c)'
  <2>1. CallOK(c)
    BY DEF CallsOK
  <2> QED BY <2>1 DEF CallOK
<1>2. ASSUME NEW s \in Signals PROVE SignalOK(s)'
  <2>1. SignalOK(s) /\ s \in Callers /\ attempt[s] \in 0..MaxRetries
    BY DEF CallsOK, Callers, TypeOK
  <2> QED BY <2>1, ExecutionAssumption DEF SignalOK
<1> QED BY <1>1, <1>2 DEF CallsOK

LEMMA BrokerFrame ==
    ASSUME BrokerOK, UNCHANGED fills,
           \A s \in Signals, n \in 1..MaxRetries : Executed(s, n)' <=> Executed(s, n)
    PROVE  BrokerOK'
BY DEF BrokerOK

LEMMA ClosedFrame ==
    ASSUME ClosedOK, UNCHANGED fills, live' \subseteq live,
           \A c \in Closers, n \in 1..MaxRetries :
              Executed(c, n)' => Executed(c, n) /\ target'[c] = target[c]
    PROVE  ClosedOK'
BY DEF ClosedOK

LEMMA Requests ==
    ASSUME TypeOK, BrokerOK, NEW t \in 1..Len(fills)
    PROVE  /\ fills[t].by \in Signals /\ fills[t].n \in 1..MaxRetries
           /\ fills[t] = [by |-> fills[t].by, n |-> fills[t].n]
<1>1. fills[t] \in Request
  BY ElementOfSeq DEF TypeOK
<1> QED BY <1>1 DEF BrokerOK, Request

LEMMA RegistryFrame ==
    ASSUME TypeOK, BrokerOK, RegistryOK, UNCHANGED osmVars, UNCHANGED fills,
           \A s \in Signals, n \in 1..MaxRetries : net'[s][n] = "acked" => net[s][n] = "acked"
    PROVE  RegistryOK' /\ OSM!TypeOK'
<1>1. OSM!TypeOK' /\ OSM!StoreOK'
  BY DEF osmVars, TypeOK, RegistryOK, OSM!TypeOK, OSM!StoreOK
<1>2. \A t \in 1..Len(fills) : Told(t)' => Told(t)
  BY Requests DEF Told
<1> QED BY <1>1, <1>2 DEF RegistryOK, OSM!Tracked, osmVars

-----------------------------------------------------------------------------
LEMMA Rest == ExecutionInv /\ UNCHANGED vars => ExecutionInv'
<1> SUFFICES ASSUME ExecutionInv, UNCHANGED vars PROVE ExecutionInv'
  OBVIOUS
<1>1. UNCHANGED <<pc, attempt, target, net, connected, wired, fills, live>> /\ UNCHANGED osmVars
  BY DEF vars, callVars, linkVars, brokerVars, osmVars
<1>2. RegistryOK' /\ OSM!TypeOK'
  BY <1>1, RegistryFrame DEF ExecutionInv
<1>3. CallsOK' /\ BrokerOK' /\ ClosedOK'
  BY <1>1, CallsFrame, BrokerFrame, ClosedFrame DEF ExecutionInv, Executed
<1> QED BY <1>1, <1>2, <1>3 DEF ExecutionInv, TypeOK

(* One pass of the loop sends at most the request of its own attempt,      *)
(* which was never sent before.                                            *)
LEMMA AttemptKeeps ==
    ASSUME ExecutionInv, NEW c \in Callers, pc[c] \in {"idle", "backoff"}, Attempt(c),
           target' \in [Closers -> Tickets \cup {0}],
           \A d \in Closers : target'[d] = target[d] \/ (d = c /\ pc[c] = "idle")
    PROVE  ExecutionInv'
<1> DEFINE n == attempt[c] + 1
<1>0. /\ CallOK(c)
      /\ n \in 1..MaxRetries
      /\ \A m \in 1..MaxRetries : m >= n => net[c][m] = "unsent"
  <2>1. CallOK(c) /\ attempt[c] \in 0..MaxRetries
    BY DEF ExecutionInv, CallsOK, TypeOK
  <2> QED BY <2>1, ExecutionAssumption DEF CallOK
<1>1. /\ attempt' = [attempt EXCEPT ![c] = n]
      /\ connected => /\ net' = [net EXCEPT ![c][n] = "sent"]
                      /\ pc' = [pc EXCEPT ![c] = "waiting"]
      /\ ~connected => pc' = [pc EXCEPT ![c] = AfterFailure(n)] /\ net' = net
      /\ UNCHANGED <<connected, wired, fills, live>> /\ UNCHANGED osmVars
  BY DEF Attempt, linkVars, brokerVars, osmVars
<1> HIDE DEF n
<1>2. /\ net' \in [Callers -> [1..MaxRetries -> Fates]]
      /\ \A d \in Callers, m \in 1..MaxRetries :
            net'[d][m] = net[d][m] \/ (d = c /\ m = n /\ net[d][m] = "unsent" /\ net'[d][m] = "sent")
  <2>1. CASE connected
    <3>1. "sent" \in Fates
      BY DEF Fates
    <3>2. net \in [Callers -> [1..MaxRetries -> Fates]]
      BY DEF ExecutionInv, TypeOK
    <3>3. net' = [net EXCEPT ![c][n] = "sent"] /\ n \in 1..MaxRetries /\ net[c][n] = "unsent"
      BY <1>0, <1>1, <2>1
    <3>4. /\ net' \in [Callers -> [1..MaxRetries -> Fates]]
          /\ \A d \in Callers, m \in 1..MaxRetries :
                net'[d][m] = IF d = c /\ m = n THEN "sent" ELSE net[d][m]
      BY <3>1, <3>2, <3>3
    <3> QED BY <3>3, <3>4
  <2>2. CASE ~connected
    BY <1>1, <2>2 DEF ExecutionInv, TypeOK
  <2> QED BY <2>1, <2>2
<1>3. /\ pc' \in [Callers -> {"idle"} \cup Running \cup Finished]
      /\ pc'[c] \in {"waiting", "backoff", "failed"}
      /\ pc'[c] = "backoff" => n < MaxRetries
      /\ \A d \in Callers : d # c => pc'[d] = pc[d]
  BY <1>1 DEF ExecutionInv, TypeOK, AfterFailure, Running, Finished
<1>4. RegistryOK' /\ OSM!TypeOK'
  BY <1>1, <1>2, RegistryFrame DEF ExecutionInv, Callers
<1>5. TypeOK'
  BY <1>0, <1>1, <1>2, <1>3, <1>4 DEF ExecutionInv, TypeOK
<1>6. BrokerOK'
  BY <1>1, <1>2, BrokerFrame DEF ExecutionInv, Executed, Callers
<1>7. ClosedOK'
  <2>1. ASSUME NEW d \in Closers, NEW m \in 1..MaxRetries, Executed(d, m)'
        PROVE  Executed(d, m) /\ target'[d] = target[d]
    <3>1. Executed(d, m)
      BY <1>2, <2>1 DEF Executed, Callers
    <3>2. ~(d = c /\ pc[c] = "idle")
      BY <1>0, <3>1, ExecutionAssumption DEF CallOK, Executed
    <3> QED BY <3>1, <3>2
  <2> QED BY <1>1, <2>1, ClosedFrame DEF ExecutionInv
<1>8. ASSUME NEW d \in Callers PROVE CallOK(d)'
  <2>1. CallOK(d) /\ attempt[d] \in 0..MaxRetries
    BY DEF ExecutionInv, CallsOK, TypeOK
  <2>2. CASE d # c
    BY <1>1, <1>2, <1>3, <2>1, <2>2 DEF CallOK, ExecutionInv, TypeOK
  <2>3. CASE d = c
    BY <1>0, <1>1, <1>2, <1>3, <2>3 DEF CallOK, ExecutionInv, TypeOK
  <2> QED BY <2>2, <2>3
<1>9. ASSUME NEW s \in Signals PROVE SignalOK(s)'
  <2>1. SignalOK(s) /\ attempt[s] \in 0..MaxRetries /\ s \in Callers
    BY DEF ExecutionInv, CallsOK, TypeOK, Callers
  <2>2. CASE s # c
    BY <1>1, <1>2, <1>3, <2>1, <2>2 DEF SignalOK, ExecutionInv, TypeOK
  <2>3. CASE s = c
    BY <1>0, <1>1, <1>2, <1>3, <2>1, <2>3 DEF SignalOK
  <2> QED BY <2>2, <2>3
<1> QED BY <1>4, <1>5, <1>6, <1>7, <1>8, <1>9 DEF ExecutionInv, CallsOK

(* A step of one call that sends and reads nothing: validation, the kill   *)
(* switch, a failed attempt and the end of execute().                      *)
LEMMA PcKeeps ==
    ASSUME ExecutionInv, NEW c \in Callers, NEW p \in {"backoff", "failed", "raised"},
           pc' = [pc EXCEPT ![c] = p],
           UNCHANGED <<attempt, target, net, wired, fills, live>>, UNCHANGED osmVars,
           connected' \in BOOLEAN,
           \/ pc[c] = "idle" /\ p # "backoff"
           \/ pc[c] = "waiting" /\ p = AfterFailure(attempt[c])
           \/ pc[c] = "opened" /\ p = "raised"
    PROVE  ExecutionInv'
<1>1. RegistryOK' /\ OSM!TypeOK'
  BY RegistryFrame DEF ExecutionInv
<1>2. BrokerOK' /\ ClosedOK'
  BY BrokerFrame, ClosedFrame DEF ExecutionInv, Executed
<1>3. TypeOK'
  BY <1>1 DEF ExecutionInv, TypeOK, Running, Finished
<1>4. /\ pc'[c] = p
      /\ \A d \in Callers : d # c => pc'[d] = pc[d]
      /\ p = "backoff" => attempt[c] < MaxRetries
  BY DEF ExecutionInv, TypeOK, AfterFailure
<1>5. ASSUME NEW d \in Callers PROVE CallOK(d)'
  <2>1. CallOK(d)
    BY DEF ExecutionInv, CallsOK
  <2> QED BY <1>4, <2>1 DEF CallOK
<1>6. ASSUME NEW s \in Signals PROVE SignalOK(s)'
  <2>1. SignalOK(s) /\ CallOK(s) /\ s \in Callers /\ attempt[s] \in 0..MaxRetries
    BY DEF ExecutionInv, CallsOK, Callers, TypeOK
  <2>2. CASE s # c
    BY <1>4, <2>1, <2>2 DEF SignalOK
  <2>3. CASE s = c
    BY <1>4, <2>1, <2>3 DEF SignalOK, CallOK, AfterFailure
  <2> QED BY <2>2, <2>3
<1> QED BY <1>1, <1>2, <1>3, <1>5, <1>6 DEF ExecutionInv, CallsOK

(* A request on its way is refused, left in doubt or lost.                 *)
LEMMA DroppedKeeps ==
    ASSUME ExecutionInv, NEW c \in Callers, NEW n \in 1..MaxRetries, net[c][n] = "sent",
           NEW v \in {"refused", "doubted", "lost"}, net' = [net EXCEPT ![c][n] = v],
           UNCHANGED <<callVars, linkVars, brokerVars, osmVars>>
    PROVE  ExecutionInv'
<1>1. UNCHANGED <<pc, attempt, target, connected, wired, fills, live>> /\ UNCHANGED osmVars
  BY DEF callVars, linkVars, brokerVars, osmVars
<1>2. /\ net' \in [Callers -> [1..MaxRetries -> Fates]]
      /\ \A d \in Callers, m \in 1..MaxRetries :
            net'[d][m] = IF d = c /\ m = n THEN v ELSE net[d][m]
  <2>1. v \in Fates
    BY DEF Fates
  <2>2. net \in [Callers -> [1..MaxRetries -> Fates]]
    BY DEF ExecutionInv, TypeOK
  <2> QED BY <2>1, <2>2
<1>3. RegistryOK' /\ OSM!TypeOK'
  BY <1>1, <1>2, RegistryFrame DEF ExecutionInv, Callers
<1>4. CallsOK'
  BY <1>1, <1>2, CallsFrame DEF ExecutionInv
<1>5. BrokerOK'
  BY <1>1, <1>2, BrokerFrame DEF ExecutionInv, Executed, Callers
<1>6. ClosedOK'
  BY <1>1, <1>2, ClosedFrame DEF ExecutionInv, Executed, Callers
<1> QED BY <1>1, <1>2, <1>3, <1>4, <1>5, <1>6 DEF ExecutionInv, TypeOK

(* The broker opens a position for a request it has not executed before.   *)
LEMMA OpensKeeps ==
    ASSUME ExecutionInv, NEW s \in Signals, NEW n \in 1..MaxRetries, GatewayOpens(s, n)
    PROVE  ExecutionInv'
<1> DEFINE new == Len(fills) + 1
           r == [by |-> s, n |-> n]
<1>1. /\ UNCHANGED <<pc, attempt, target, connected, wired>> /\ UNCHANGED osmVars
      /\ net[s][n] \in {"sent", "doubted"} /\ Len(fills) < MaxPositions
      /\ fills' = Append(fills, r) /\ live' = live \cup {new}
      /\ net' = [net EXCEPT ![s][n] = Settled(@)]
  BY DEF GatewayOpens, callVars, linkVars, osmVars
<1>s. Settled(net[s][n]) \in {"done", "unconfirmed"}
  BY DEF Settled
<1>2. /\ net' \in [Callers -> [1..MaxRetries -> Fates]]
      /\ \A d \in Callers, m \in 1..MaxRetries :
            net'[d][m] = IF d = s /\ m = n THEN Settled(net[s][n]) ELSE net[d][m]
  <2>1. Settled(net[s][n]) \in Fates /\ s \in Callers
    BY <1>s DEF Fates, Callers
  <2>2. net \in [Callers -> [1..MaxRetries -> Fates]]
    BY DEF ExecutionInv, TypeOK
  <2> QED BY <1>1, <2>1, <2>2
<1>3. /\ Len(fills) \in Nat /\ fills \in Seq(Request) /\ r \in Request
      /\ fills' \in Seq(Request) /\ Len(fills') = new
      /\ fills'[new] = r
      /\ \A t \in 1..Len(fills) : fills'[t] = fills[t]
  <2>1. r \in Request /\ fills \in Seq(Request)
    BY DEF Request, Callers, ExecutionInv, TypeOK
  <2> QED BY <1>1, <2>1, AppendProperties, LenProperties
<1> HIDE DEF r
<1>r. r.by = s /\ r.n = n /\ r = [by |-> s, n |-> n]
  BY DEF r
<1>4. OSM!TypeOK' /\ OSM!StoreOK'
  BY <1>1 DEF osmVars, ExecutionInv, TypeOK, RegistryOK, OSM!TypeOK, OSM!StoreOK
<1>5. TypeOK'
  <2>1. live \subseteq 1..Len(fills) /\ MaxPositions \in Nat
    BY ExecutionAssumption DEF ExecutionInv, TypeOK
  <2>2. Len(fills') <= MaxPositions /\ 1..Len(fills') = 1..Len(fills) \cup {new}
    BY <1>1, <1>3, <2>1
  <2>3. live' \subseteq 1..Len(fills')
    BY <1>1, <2>1, <2>2
  <2> QED BY <1>1, <1>2, <1>3, <1>4, <2>2, <2>3 DEF ExecutionInv, TypeOK
<1>6. CallsOK'
  BY <1>1, <1>2, <1>s, CallsFrame DEF ExecutionInv
<1>7. BrokerOK'
  <2>1. \A t \in 1..Len(fills) : fills[t] # r
    BY <1>1, <1>r DEF ExecutionInv, BrokerOK, Executed
  <2>2. \A t \in 1..new : t \in 1..Len(fills) \/ t = new
    BY <1>3
  <2>3. (\A t \in 1..Len(fills) : fills[t].by \in Signals)'
    BY <1>3, <1>r, <2>2 DEF ExecutionInv, BrokerOK
  <2>4. (\A t, u \in 1..Len(fills) : fills[t] = fills[u] => t = u)'
    BY <1>3, <2>1, <2>2 DEF ExecutionInv, BrokerOK
  <2>5. ASSUME NEW q \in Signals, NEW m \in 1..MaxRetries
        PROVE  Executed(q, m)' <=> \E t \in 1..Len(fills') : fills'[t] = [by |-> q, n |-> m]
    <3>1. CASE q = s /\ m = n
      <4>1. Executed(q, m)'
        BY <1>2, <1>s, <3>1 DEF Executed, Callers
      <4>2. new \in 1..Len(fills') /\ fills'[new] = [by |-> q, n |-> m]
        BY <1>3, <1>r, <3>1
      <4> QED BY <4>1, <4>2
    <3>2. CASE ~(q = s /\ m = n)
      <4>1. Executed(q, m)' <=> Executed(q, m)
        BY <1>2, <3>2 DEF Executed, Callers
      <4>2. r # [by |-> q, n |-> m]
        BY <1>r, <3>2
      <4>3. (\E t \in 1..Len(fills') : fills'[t] = [by |-> q, n |-> m])
              <=> \E t \in 1..Len(fills) : fills[t] = [by |-> q, n |-> m]
        BY <1>3, <2>2, <4>2
      <4> QED BY <4>1, <4>3 DEF ExecutionInv, BrokerOK
    <3> QED BY <3>1, <3>2
  <2> QED BY <2>3, <2>4, <2>5 DEF BrokerOK
<1>8. ClosedOK'
  <2> SUFFICES ASSUME NEW c \in Closers, NEW m \in 1..MaxRetries, Executed(c, m)'
               PROVE  target'[c] \in 1..Len(fills') /\ target'[c] \notin live'
    BY DEF ClosedOK
  <2>1. Executed(c, m)
    BY <1>2, ExecutionAssumption DEF Executed, Callers
  <2>2. target[c] \in 1..Len(fills) /\ target[c] \notin live
    BY <2>1 DEF ExecutionInv, ClosedOK
  <2> QED BY <1>1, <1>3, <2>2
<1>9. RegistryOK'
  <2>1. UNCHANGED <<order, state, stale, sweeping, due>>
    BY <1>1 DEF osmVars
  <2>2. ASSUME NEW t \in 1..Len(fills'), Told(t)' PROVE t \in 1..Len(fills) /\ Told(t)
    <3>1. t \in 1..Len(fills) \/ t = new
      BY <1>3
    <3>2. t # new
      BY <1>2, <1>s, <1>3, <1>r, <2>2 DEF Told, Callers
    <3>3. t \in 1..Len(fills) /\ fills'[t] = fills[t]
      BY <1>3, <3>1, <3>2
    <3>4. fills[t].by \in Callers /\ fills[t].n \in 1..MaxRetries
      BY <3>3, Requests DEF ExecutionInv, Callers
    <3> QED BY <1>2, <1>s, <2>2, <3>3, <3>4 DEF Told
  <2>3. OSM!Tracked' \subseteq 1..Len(fills')
    BY <1>3, <2>1 DEF ExecutionInv, RegistryOK, OSM!Tracked
  <2>4. Len(fills') <= MaxTickets => Len(fills) <= MaxTickets
    BY <1>3, ExecutionAssumption
  <2> QED BY <1>4, <2>1, <2>2, <2>3, <2>4 DEF ExecutionInv, RegistryOK
<1> QED BY <1>5, <1>6, <1>7, <1>8, <1>9 DEF ExecutionInv

(* The broker closes a position, for a request or on its own.              *)
LEMMA ClosesKeeps ==
    ASSUME ExecutionInv, UNCHANGED <<callVars, linkVars, fills, osmVars>>, live' \subseteq live,
           \/ UNCHANGED net
           \/ \E c \in Closers, n \in 1..MaxRetries : GatewayCloses(c, n)
    PROVE  ExecutionInv'
<1>1. UNCHANGED <<pc, attempt, target, connected, wired, fills>> /\ UNCHANGED osmVars
  BY DEF callVars, linkVars, osmVars
<1>2. CASE UNCHANGED net
  <2>1. RegistryOK' /\ OSM!TypeOK'
    BY <1>1, <1>2, RegistryFrame DEF ExecutionInv
  <2>2. CallsOK' /\ BrokerOK' /\ ClosedOK'
    BY <1>1, <1>2, CallsFrame, BrokerFrame, ClosedFrame DEF ExecutionInv, Executed
  <2> QED BY <1>1, <1>2, <2>1, <2>2 DEF ExecutionInv, TypeOK
<1>3. ASSUME NEW c \in Closers, NEW n \in 1..MaxRetries, GatewayCloses(c, n)
      PROVE  ExecutionInv'
  <2>1. /\ net[c][n] \in {"sent", "doubted"} /\ target[c] \in live
        /\ live' = live \ {target[c]}
        /\ net' = [net EXCEPT ![c][n] = Settled(@)]
    BY <1>3 DEF GatewayCloses
  <2>s. Settled(net[c][n]) \in {"done", "unconfirmed"}
    BY DEF Settled
  <2>2. /\ net' \in [Callers -> [1..MaxRetries -> Fates]]
        /\ \A d \in Callers, m \in 1..MaxRetries :
              net'[d][m] = IF d = c /\ m = n THEN Settled(net[c][n]) ELSE net[d][m]
    <3>1. Settled(net[c][n]) \in Fates /\ c \in Callers
      BY <2>s DEF Fates, Callers
    <3>2. net \in [Callers -> [1..MaxRetries -> Fates]]
      BY DEF ExecutionInv, TypeOK
    <3> QED BY <2>1, <3>1, <3>2
  <2>3. \A s \in Signals, m \in 1..MaxRetries : net'[s][m] = net[s][m]
    BY <2>2, ExecutionAssumption DEF Callers
  <2>4. RegistryOK' /\ OSM!TypeOK'
    BY <1>1, <2>3, RegistryFrame DEF ExecutionInv
  <2>5. CallsOK'
    BY <1>1, <2>1, <2>2, <2>s, CallsFrame DEF ExecutionInv
  <2>6. BrokerOK'
    BY <1>1, <2>3, BrokerFrame DEF ExecutionInv, Executed
  <2>7. ClosedOK'
    <3> SUFFICES ASSUME NEW d \in Closers, NEW m \in 1..MaxRetries, Executed(d, m)'
                 PROVE  target'[d] \in 1..Len(fills') /\ target'[d] \notin live'
      BY DEF ClosedOK
    <3>1. CASE d = c /\ m = n
      BY <1>1, <2>1, <3>1 DEF ExecutionInv, TypeOK
    <3>2. CASE ~(d = c /\ m = n)
      <4>1. Executed(d, m)
        BY <2>2, <3>2 DEF Executed, Callers
      <4> QED BY <1>1, <2>1, <4>1 DEF ExecutionInv, ClosedOK
    <3> QED BY <3>1, <3>2
  <2> QED BY <1>1, <2>1, <2>2, <2>4, <2>5, <2>6, <2>7 DEF ExecutionInv, TypeOK
<1> QED BY <1>2, <1>3

-----------------------------------------------------------------------------
(* The ticket execute() reads from its answer is the one its request       *)
(* opened.                                                                 *)
LEMMA TicketOfIs ==
    ASSUME TypeOK, BrokerOK, NEW s \in Signals, attempt[s] \in 1..MaxRetries,
           Executed(s, attempt[s])
    PROVE  /\ TicketOf(s) \in 1..Len(fills)
           /\ fills[TicketOf(s)] = [by |-> s, n |-> attempt[s]]
<1>1. \E t \in 1..Len(fills) : fills[t] = [by |-> s, n |-> attempt[s]]
  BY DEF BrokerOK
<1> QED BY <1>1 DEF TicketOf

LEMMA CountTo == \A k \in Nat : IsFiniteSet(1..k) /\ Cardinality(1..k) = k
<1>1. ASSUME NEW k \in Nat PROVE IsFiniteSet(1..k) /\ Cardinality(1..k) = k
  <2>1. IsFiniteSet(1..k) /\ Cardinality(1..k) = IF 1 > k THEN 0 ELSE k - 1 + 1
    BY FS_Interval
  <2> QED BY <2>1
<1> QED BY <1>1

(* A store without room for a ticket of the broker lists MaxTickets others *)
(* of them.                                                                *)
LEMMA StoreHasRoom ==
    ASSUME TypeOK, RegistryOK, Len(order) = MaxTickets,
           NEW t \in 1..Len(fills), state[t] = OSM!Absent
    PROVE  Len(fills) > MaxTickets
<1> DEFINE others == (1..Len(fills)) \ {t}
<1>1. /\ Len(order) \in Nat /\ order \in [1..Len(order) -> Tickets]
      /\ Len(fills) \in Nat /\ Len(fills) <= MaxPositions
  BY LenProperties DEF TypeOK, OSM!TypeOK
<1>2. \A i \in 1..Len(order) : order[i] \in others
  BY <1>1 DEF RegistryOK, OSM!StoreOK, OSM!Tracked
<1>3. order \in Injection(1..Len(order), others)
  <2>1. order \in [1..Len(order) -> others]
    BY <1>1, <1>2
  <2> QED BY <2>1 DEF Injection, IsInjective, RegistryOK, OSM!StoreOK
<1>4. /\ IsFiniteSet(1..Len(fills)) /\ Cardinality(1..Len(fills)) = Len(fills)
      /\ Cardinality(1..Len(order)) = Len(order)
  BY <1>1, CountTo
<1>5. IsFiniteSet(others) /\ Cardinality(others) = Len(fills) - 1
  BY <1>4, FS_RemoveElement
<1>6. Cardinality(1..Len(order)) <= Cardinality(others)
  BY <1>3, <1>5, FS_Injection
<1> QED BY <1>1, <1>4, <1>5, <1>6, ExecutionAssumption

LEMMA ReadOpenedKeeps ==
    ASSUME ExecutionInv, NEW s \in Signals, ReadOpened(s)
    PROVE  ExecutionInv'
<1> DEFINE n == attempt[s]
           k == TicketOf(s)
<1>1. /\ UNCHANGED <<attempt, target, connected, wired, fills, live>>
      /\ pc[s] = "waiting" /\ net[s][n] = "done"
      /\ net' = [net EXCEPT ![s][n] = "acked"]
      /\ OSM!Transition(k, "OPEN")
      /\ pc' = [pc EXCEPT ![s] = "opened"]
  BY DEF ReadOpened, Fate, linkVars, brokerVars
<1>2. /\ s \in Callers /\ CallOK(s) /\ SignalOK(s)
      /\ n \in 1..MaxRetries
  <2>1. s \in Callers /\ CallOK(s) /\ SignalOK(s) /\ n \in 0..MaxRetries
    BY DEF ExecutionInv, CallsOK, Callers, TypeOK
  <2> QED BY <1>1, <2>1 DEF CallOK
<1>3. /\ k \in 1..Len(fills) /\ fills[k] = [by |-> s, n |-> n]
      /\ Len(fills) \in Nat /\ k \in Tickets
  <2>1. k \in 1..Len(fills) /\ fills[k] = [by |-> s, n |-> n]
    BY <1>1, <1>2, TicketOfIs DEF ExecutionInv, Executed
  <2>2. Len(fills) \in Nat /\ Len(fills) <= MaxPositions
    BY LenProperties DEF ExecutionInv, TypeOK
  <2> QED BY <2>1, <2>2, ExecutionAssumption DEF Tickets
<1> HIDE DEF n, k
<1>4. /\ net' \in [Callers -> [1..MaxRetries -> Fates]]
      /\ \A d \in Callers, m \in 1..MaxRetries :
            net'[d][m] = IF d = s /\ m = n THEN "acked" ELSE net[d][m]
  <2>1. "acked" \in Fates
    BY DEF Fates
  <2>2. net \in [Callers -> [1..MaxRetries -> Fates]]
    BY DEF ExecutionInv, TypeOK
  <2> QED BY <1>1, <1>2, <2>1, <2>2
<1>5. /\ OSM!TypeOK' /\ OSM!StoreOK'
      /\ state'[k] # OSM!Absent
      /\ \A u \in Tickets \ {k} :
            \/ state'[u] = state[u]
            \/ /\ state'[u] = OSM!Absent
               /\ state[k] = OSM!Absent
               /\ Len(order) = MaxTickets
  BY <1>1, <1>3, RegistryStep DEF ExecutionInv, TypeOK, RegistryOK
<1>6. TypeOK'
  BY <1>1, <1>4, <1>5 DEF ExecutionInv, TypeOK, Running
<1>7. CallsOK'
  <2>1. pc'[s] = "opened" /\ \A d \in Callers : d # s => pc'[d] = pc[d]
    BY <1>1, <1>2 DEF ExecutionInv, TypeOK
  <2>2. ASSUME NEW d \in Callers PROVE CallOK(d)'
    <3>1. CallOK(d) /\ attempt[d] \in 0..MaxRetries
      BY DEF ExecutionInv, CallsOK, TypeOK
    <3>2. CASE d = s
      BY <1>1, <1>2, <1>4, <2>1, <3>1, <3>2 DEF CallOK, n
    <3>3. CASE d # s
      BY <1>1, <1>4, <2>1, <3>1, <3>3 DEF CallOK
    <3> QED BY <3>2, <3>3
  <2>3. ASSUME NEW q \in Signals PROVE SignalOK(q)'
    <3>1. SignalOK(q) /\ q \in Callers /\ attempt[q] \in 0..MaxRetries
      BY DEF ExecutionInv, CallsOK, Callers, TypeOK
    <3>2. CASE q = s
      <4>1. \A m \in 1..MaxRetries : net[s][m] # "acked"
        BY <1>1, <1>2 DEF SignalOK
      <4> QED BY <1>1, <1>2, <1>4, <2>1, <3>2, <4>1 DEF SignalOK, n
    <3>3. CASE q # s
      BY <1>1, <1>4, <2>1, <3>1, <3>3 DEF SignalOK
    <3> QED BY <3>2, <3>3
  <2> QED BY <2>2, <2>3 DEF CallsOK
<1>8. BrokerOK'
  BY <1>1, <1>4, BrokerFrame DEF ExecutionInv, Executed, Callers
<1>9. ClosedOK'
  BY <1>1, <1>4, ClosedFrame, ExecutionAssumption DEF ExecutionInv, Executed, Callers
<1>10. RegistryOK'
  <2>1. OSM!Tracked' \subseteq 1..Len(fills')
    BY <1>1, <1>3, <1>5 DEF ExecutionInv, RegistryOK, OSM!Tracked
  <2>2. ASSUME Len(fills') <= MaxTickets, NEW t \in 1..Len(fills'), Told(t)'
        PROVE  state'[t] # OSM!Absent
    <3>1. CASE t = k
      BY <1>5, <3>1
    <3>2. CASE t # k
      <4>1. t \in 1..Len(fills) /\ fills'[t] = fills[t] /\ Len(fills) <= MaxTickets
        BY <1>1, <2>2
      <4>2. fills[t] # fills[k]
        BY <1>3, <3>2, <4>1 DEF ExecutionInv, BrokerOK
      <4>3. /\ fills[t].by \in Callers /\ fills[t].n \in 1..MaxRetries
            /\ fills[t] = [by |-> fills[t].by, n |-> fills[t].n]
        BY <4>1, Requests DEF ExecutionInv, Callers
      <4>4. ~(fills[t].by = s /\ fills[t].n = n)
        BY <1>3, <4>2, <4>3
      <4>5. Told(t)
        BY <1>4, <2>2, <4>1, <4>3, <4>4 DEF Told
      <4>6. state[t] # OSM!Absent
        BY <4>1, <4>5 DEF ExecutionInv, RegistryOK
      <4>7. ~(state[k] = OSM!Absent /\ Len(order) = MaxTickets)
        <5>1. ~(Len(fills) > MaxTickets)
          BY <1>3, <4>1, ExecutionAssumption
        <5> QED BY <1>3, <5>1, StoreHasRoom DEF ExecutionInv
      <4>8. t \in Tickets
        BY <1>3, <4>1, LenProperties, ExecutionAssumption DEF ExecutionInv, TypeOK, Tickets
      <4> QED BY <1>5, <3>2, <4>6, <4>7, <4>8
    <3> QED BY <3>1, <3>2
  <2> QED BY <1>5, <2>1, <2>2 DEF RegistryOK
<1> QED BY <1>6, <1>7, <1>8, <1>9, <1>10 DEF ExecutionInv

LEMMA ReadClosedKeeps ==
    ASSUME ExecutionInv, NEW c \in Closers, ReadClosed(c)
    PROVE  ExecutionInv'
<1> DEFINE n == attempt[c]
           k == target[c]
           p == IF OSM!Accepts(k, "CLOSED") THEN "succeeded" ELSE AfterFailure(n)
<1>1. /\ UNCHANGED <<attempt, target, connected, wired, fills, live>>
      /\ pc[c] = "waiting" /\ net[c][n] = "done"
      /\ net' = [net EXCEPT ![c][n] = "acked"]
      /\ OSM!Transition(k, "CLOSED")
      /\ pc' = [pc EXCEPT ![c] = p]
  BY DEF ReadClosed, Fate, linkVars, brokerVars
<1>2. /\ c \in Callers /\ c \notin Signals /\ CallOK(c)
      /\ n \in 1..MaxRetries
  <2>1. c \in Callers /\ CallOK(c) /\ n \in 0..MaxRetries
    BY DEF ExecutionInv, CallsOK, Callers, TypeOK
  <2> QED BY <1>1, <2>1, ExecutionAssumption DEF CallOK
<1>3. /\ k \in 1..Len(fills) /\ k \notin live
      /\ Len(fills) \in Nat /\ k \in Tickets
  <2>1. k \in 1..Len(fills) /\ k \notin live
    BY <1>1, <1>2 DEF ExecutionInv, ClosedOK, Executed
  <2>2. Len(fills) \in Nat /\ Len(fills) <= MaxPositions
    BY LenProperties DEF ExecutionInv, TypeOK
  <2> QED BY <2>1, <2>2, ExecutionAssumption DEF Tickets
<1>p. p \in {"succeeded", "backoff", "failed"} /\ (p = "backoff" => n < MaxRetries)
  BY DEF AfterFailure
<1> HIDE DEF n, k, p
<1>4. /\ net' \in [Callers -> [1..MaxRetries -> Fates]]
      /\ \A d \in Callers, m \in 1..MaxRetries :
            net'[d][m] = IF d = c /\ m = n THEN "acked" ELSE net[d][m]
  <2>1. "acked" \in Fates
    BY DEF Fates
  <2>2. net \in [Callers -> [1..MaxRetries -> Fates]]
    BY DEF ExecutionInv, TypeOK
  <2> QED BY <1>1, <1>2, <2>1, <2>2
<1>5. /\ OSM!TypeOK' /\ OSM!StoreOK'
      /\ state'[k] # OSM!Absent
      /\ \A u \in Tickets \ {k} :
            \/ state'[u] = state[u]
            \/ /\ state'[u] = OSM!Absent
               /\ state[k] = OSM!Absent
               /\ Len(order) = MaxTickets
  BY <1>1, <1>3, RegistryStep DEF ExecutionInv, TypeOK, RegistryOK
<1>6. /\ pc' = [pc EXCEPT ![c] = p]
      /\ pc'[c] = p /\ \A d \in Callers : d # c => pc'[d] = pc[d]
  BY <1>1, <1>2 DEF ExecutionInv, TypeOK
<1>7. TypeOK'
  BY <1>1, <1>4, <1>5, <1>6, <1>p DEF ExecutionInv, TypeOK, Running, Finished
<1>8. CallsOK'
  <2>1. ASSUME NEW d \in Callers PROVE CallOK(d)'
    <3>1. CallOK(d) /\ attempt[d] \in 0..MaxRetries
      BY DEF ExecutionInv, CallsOK, TypeOK
    <3>2. CASE d = c
      BY <1>1, <1>2, <1>4, <1>6, <1>p, <3>1, <3>2 DEF CallOK, n
    <3>3. CASE d # c
      BY <1>1, <1>4, <1>6, <3>1, <3>3 DEF CallOK
    <3> QED BY <3>2, <3>3
  <2>2. ASSUME NEW s \in Signals PROVE SignalOK(s)'
    <3>1. SignalOK(s) /\ s \in Callers /\ attempt[s] \in 0..MaxRetries /\ s # c
      BY <1>2 DEF ExecutionInv, CallsOK, Callers, TypeOK
    <3> QED BY <1>1, <1>4, <1>6, <3>1 DEF SignalOK
  <2> QED BY <2>1, <2>2 DEF CallsOK
<1>9. BrokerOK'
  BY <1>1, <1>2, <1>4, BrokerFrame DEF ExecutionInv, Executed, Callers
<1>10. ClosedOK'
  <2>1. \A d \in Closers, m \in 1..MaxRetries : Executed(d, m)' => Executed(d, m)
    BY <1>1, <1>2, <1>4 DEF Executed, Callers
  <2> QED BY <1>1, <2>1, ClosedFrame DEF ExecutionInv
<1>11. RegistryOK'
  <2>1. OSM!Tracked' \subseteq 1..Len(fills')
    BY <1>1, <1>3, <1>5 DEF ExecutionInv, RegistryOK, OSM!Tracked
  <2>2. ASSUME Len(fills') <= MaxTickets, NEW t \in 1..Len(fills'), Told(t)'
        PROVE  state'[t] # OSM!Absent
    <3>1. CASE t = k
      BY <1>5, <3>1
    <3>2. CASE t # k
      <4>1. t \in 1..Len(fills) /\ fills'[t] = fills[t] /\ Len(fills) <= MaxTickets
        BY <1>1, <2>2
      <4>2. fills[t].by \in Signals /\ fills[t].n \in 1..MaxRetries
        BY <4>1, Requests DEF ExecutionInv
      <4>3. Told(t)
        BY <1>2, <1>4, <2>2, <4>1, <4>2 DEF Told, Callers
      <4>4. state[t] # OSM!Absent
        BY <4>1, <4>3 DEF ExecutionInv, RegistryOK
      <4>5. ~(state[k] = OSM!Absent /\ Len(order) = MaxTickets)
        <5>1. ~(Len(fills) > MaxTickets)
          BY <1>3, <4>1, ExecutionAssumption
        <5> QED BY <1>3, <5>1, StoreHasRoom DEF ExecutionInv
      <4>6. t \in Tickets
        BY <1>3, <4>1, ExecutionAssumption DEF ExecutionInv, TypeOK, Tickets
      <4> QED BY <1>5, <3>2, <4>4, <4>5, <4>6
    <3> QED BY <3>1, <3>2
  <2> QED BY <1>5, <2>1, <2>2 DEF RegistryOK
<1> QED BY <1>7, <1>8, <1>9, <1>10, <1>11 DEF ExecutionInv

-----------------------------------------------------------------------------
LEMMA ExecutionStarts == Init => ExecutionInv
<1> SUFFICES ASSUME Init PROVE ExecutionInv
  OBVIOUS
<1>1. OSM!TypeOK /\ OSM!StoreOK
  <2>1. Store!Init
    BY SameRegistry DEF Init
  <2>2. Store!IInv
    BY <2>1, ExecutionAssumption, Store!InitIInv
  <2> QED BY <2>2, SameRegistry DEF Store!IInv
<1>2. /\ fills = <<>> /\ Len(fills) = 0 /\ fills \in Seq(Request)
      /\ state = [t \in Tickets |-> OSM!Absent]
  BY DEF Init, OSM!Init
<1>3. TypeOK
  <2>1. /\ pc \in [Callers -> {"idle"} \cup Running \cup Finished]
        /\ target \in [Closers -> Tickets \cup {0}]
        /\ net \in [Callers -> [1..MaxRetries -> Fates]]
        /\ connected \in BOOLEAN /\ wired \in BOOLEAN
        /\ live \subseteq 1..Len(fills)
    BY DEF Init, Fates
  <2>2. attempt \in [Callers -> 0..MaxRetries] /\ Len(fills) <= MaxPositions
    BY <1>2, ExecutionAssumption DEF Init
  <2> QED BY <1>1, <1>2, <2>1, <2>2 DEF TypeOK
<1>4. CallsOK
  BY DEF Init, CallsOK, CallOK, SignalOK, Callers
<1>5. BrokerOK /\ ClosedOK
  BY <1>2 DEF Init, BrokerOK, ClosedOK, Executed, Callers
<1>6. RegistryOK
  BY <1>1, <1>2 DEF RegistryOK, OSM!Tracked
<1> QED BY <1>3, <1>4, <1>5, <1>6 DEF ExecutionInv

LEMMA ExecutionKeeps == ExecutionInv /\ [Next]_vars => ExecutionInv'
<1> SUFFICES ASSUME ExecutionInv, [Next]_vars PROVE ExecutionInv'
  OBVIOUS
<1>t. target \in [Closers -> Tickets \cup {0}] /\ connected \in BOOLEAN
  BY DEF ExecutionInv, TypeOK
<1>1. ASSUME NEW s \in Signals, Execute(s) PROVE ExecutionInv'
  BY <1>1, <1>t, AttemptKeeps DEF Execute, Callers
<1>2. ASSUME NEW s \in Signals, ExecuteInvalid(s) \/ ExecuteWithKillSwitch(s) PROVE ExecutionInv'
  BY <1>2, <1>t, PcKeeps
     DEF ExecuteInvalid, ExecuteWithKillSwitch, Callers, linkVars, brokerVars, osmVars
<1>3. ASSUME NEW c \in Closers, NEW t \in Tickets, Close(c, t) PROVE ExecutionInv'
  <2>1. /\ target' \in [Closers -> Tickets \cup {0}]
        /\ \A d \in Closers : target'[d] = target[d] \/ (d = c /\ pc[c] = "idle")
    BY <1>3, <1>t DEF Close
  <2> QED BY <1>3, <2>1, AttemptKeeps DEF Close, Callers
<1>4. ASSUME NEW c \in Callers, CallStep(c) PROVE ExecutionInv'
  <2>1. CASE Retry(c)
    BY <1>t, <2>1, AttemptKeeps DEF Retry
  <2>2. CASE NetworkError(c) \/ Timeout(c) \/ ReadRefusal(c)
    <3>1. /\ pc[c] = "waiting" /\ pc' = [pc EXCEPT ![c] = AfterFailure(attempt[c])]
          /\ UNCHANGED <<attempt, target, net, wired, fills, live>> /\ UNCHANGED osmVars
          /\ connected' \in BOOLEAN
      BY <1>t, <2>2 DEF NetworkError, Timeout, ReadRefusal, AttemptFails, linkVars,
                        brokerVars, osmVars
    <3>2. AfterFailure(attempt[c]) \in {"backoff", "failed", "raised"}
      BY DEF AfterFailure
    <3> QED BY <3>1, <3>2, PcKeeps
  <2>3. CASE c \in Signals /\ ReadOpened(c)
    BY <2>3, ReadOpenedKeeps
  <2>4. CASE c \in Signals /\ FinishExecute(c)
    BY <1>t, <2>4, PcKeeps DEF FinishExecute, linkVars, brokerVars, osmVars
  <2>5. CASE c \in Closers /\ ReadClosed(c)
    BY <2>5, ReadClosedKeeps
  <2> QED BY <1>4, <2>1, <2>2, <2>3, <2>4, <2>5 DEF CallStep
<1>5. ASSUME NEW n \in 1..MaxRetries, NEW s \in Signals, GatewayOpens(s, n)
      PROVE  ExecutionInv'
  BY <1>5, OpensKeeps
<1>6. ASSUME NEW n \in 1..MaxRetries, NEW c \in Closers, GatewayCloses(c, n)
      PROVE  ExecutionInv'
  BY <1>6, ClosesKeeps DEF GatewayCloses
<1>7. ASSUME NEW n \in 1..MaxRetries, NEW c \in Callers, GatewayRefuses(c, n) \/ GatewayDoubts(c, n) \/ RequestLost(c, n)
      PROVE  ExecutionInv'
  BY <1>7, DroppedKeeps DEF GatewayRefuses, GatewayDoubts, RequestLost, Answer
<1>8. ASSUME NEW t \in Tickets, BrokerCloses(t) PROVE ExecutionInv'
  BY <1>8, ClosesKeeps DEF BrokerCloses
<1>9. CASE Connect
  <2>1. UNCHANGED <<pc, attempt, target, net, wired, fills, live>> /\ UNCHANGED osmVars
        /\ connected' \in BOOLEAN
    BY <1>9 DEF Connect, callVars, brokerVars, osmVars
  <2>2. RegistryOK' /\ OSM!TypeOK'
    BY <2>1, RegistryFrame DEF ExecutionInv
  <2>3. CallsOK' /\ BrokerOK' /\ ClosedOK'
    BY <2>1, CallsFrame, BrokerFrame, ClosedFrame DEF ExecutionInv, Executed
  <2> QED BY <2>1, <2>2, <2>3 DEF ExecutionInv, TypeOK
<1>10. CASE RegistrySweep
  <2>1. /\ UNCHANGED <<pc, attempt, target, net, connected, wired, fills, live>>
        /\ OSM!Elapse \/ OSM!SweepReadsClock \/ OSM!SweepExpires
    BY <1>10 DEF RegistrySweep, callVars, linkVars, brokerVars
  <2>2. CallsOK' /\ BrokerOK' /\ ClosedOK'
    BY <2>1, CallsFrame, BrokerFrame, ClosedFrame DEF ExecutionInv, Executed
  <2>3. /\ OSM!TypeOK' /\ OSM!StoreOK'
        /\ \A t \in Tickets : state'[t] = OSM!Absent <=> state[t] = OSM!Absent
    BY <2>1, SweepStep DEF ExecutionInv, TypeOK, RegistryOK
  <2>4. 1..Len(fills) \subseteq Tickets
    BY ExecutionAssumption, LenProperties DEF ExecutionInv, TypeOK, Tickets
  <2>5. RegistryOK'
    BY <2>1, <2>3, <2>4 DEF ExecutionInv, RegistryOK, OSM!Tracked, Told
  <2> QED BY <2>1, <2>2, <2>3, <2>5 DEF ExecutionInv, TypeOK
<1>11. CASE UNCHANGED vars
  BY <1>11, Rest
<1> QED BY <1>1, <1>2, <1>3, <1>4, <1>5, <1>6, <1>7, <1>8, <1>9, <1>10, <1>11 DEF Next

THEOREM ExecutionInvariant == Spec => []ExecutionInv
BY ExecutionStarts, ExecutionKeeps, PTL DEF Spec

-----------------------------------------------------------------------------
(* The registry holds only the broker's tickets, and forgets none its      *)
(* caller was told of while it has room for all, whatever is swept or      *)
(* refused meanwhile.                                                      *)
THEOREM RegistryIsTheBrokers == Spec => []RegistryMatchesBroker
<1>1. ExecutionInv => RegistryMatchesBroker
  <2> SUFFICES ASSUME ExecutionInv PROVE RegistryMatchesBroker
    OBVIOUS
  <2>1. ASSUME Len(fills) <= MaxTickets, NEW s \in Signals, WasTold(s)
        PROVE  state[TicketOf(s)] # OSM!Absent
    <3>1. attempt[s] \in 1..MaxRetries /\ net[s][attempt[s]] = "acked"
      BY <2>1, ExecutionAssumption
         DEF ExecutionInv, CallsOK, SignalOK, TypeOK, Callers, WasTold
    <3>2. /\ TicketOf(s) \in 1..Len(fills)
          /\ fills[TicketOf(s)] = [by |-> s, n |-> attempt[s]]
      BY <3>1, TicketOfIs DEF ExecutionInv, Executed
    <3>3. Told(TicketOf(s))
      BY <3>1, <3>2 DEF Told
    <3> QED BY <2>1, <3>2, <3>3 DEF ExecutionInv, RegistryOK
  <2> QED BY <2>1 DEF RegistryMatchesBroker, ExecutionInv, RegistryOK
<1> QED BY <1>1, ExecutionInvariant, PTL

(* Whatever is retried or lost: what the gateway confirmed closed is not   *)
(* open.                                                                   *)
THEOREM ConfirmedClosesAreFlat == Spec => []ConfirmedCloseIsFlat
<1>1. ExecutionInv => ConfirmedCloseIsFlat
  BY DEF ExecutionInv, ClosedOK, Executed, ConfirmedCloseIsFlat
<1> QED BY <1>1, ExecutionInvariant, PTL

(* A signal has exactly the positions of its executed requests.            *)
LEMMA OpenedByExecuted ==
    ASSUME TypeOK, BrokerOK, NEW s \in Signals
    PROVE  LET requests == {n \in 1..MaxRetries : Executed(s, n)}
           IN  IsFiniteSet(requests) /\ Cardinality(Opened(s)) = Cardinality(requests)
<1> DEFINE requests == {n \in 1..MaxRetries : Executed(s, n)}
           f == [t \in Opened(s) |-> fills[t].n]
<1>1. IsFiniteSet(1..MaxRetries) /\ IsFiniteSet(1..Len(fills))
  BY CountTo, LenProperties, ExecutionAssumption DEF TypeOK
<1>2. IsFiniteSet(requests)
  <2>1. requests \in SUBSET (1..MaxRetries)
    OBVIOUS
  <2> QED BY <1>1, <2>1, FS_Subset
<1>3. \A t \in Opened(s) : /\ t \in 1..Len(fills) /\ fills[t].n \in 1..MaxRetries
                           /\ fills[t] = [by |-> s, n |-> fills[t].n]
  BY Requests DEF Opened
<1>4. f \in [Opened(s) -> requests]
  BY <1>3 DEF BrokerOK
<1>5. f \in Injection(Opened(s), requests)
  <2>1. \A t, u \in Opened(s) : fills[t].n = fills[u].n => t = u
    <3> SUFFICES ASSUME NEW t \in Opened(s), NEW u \in Opened(s), fills[t].n = fills[u].n
                 PROVE  t = u
      OBVIOUS
    <3>1. fills[t] = [by |-> s, n |-> fills[u].n] /\ t \in 1..Len(fills)
      BY <1>3, Zenon
    <3>2. fills[u] = [by |-> s, n |-> fills[u].n] /\ u \in 1..Len(fills)
      BY <1>3, Zenon
    <3>3. fills[t] = fills[u]
      BY <3>1, <3>2, Zenon
    <3> QED BY <3>1, <3>2, <3>3, Zenon DEF BrokerOK
  <2>2. IsInjective(f)
    BY <2>1 DEF IsInjective
  <2> HIDE DEF f, requests
  <2> QED BY <1>4, <2>2 DEF Injection
<1>6. f \in Surjection(Opened(s), requests)
  <2>1. ASSUME NEW n \in requests PROVE \E t \in Opened(s) : f[t] = n
    <3>1. PICK t \in 1..Len(fills) : fills[t] = [by |-> s, n |-> n]
      BY DEF BrokerOK
    <3> QED BY <3>1 DEF Opened
  <2> QED BY <1>4, <2>1 DEF Surjection
<1> HIDE DEF f, requests
<1>7. Cardinality(Opened(s)) = Cardinality(requests)
  BY <1>2, <1>5, <1>6, FS_Injection
<1> QED BY <1>2, <1>7 DEF requests

(* The positions of a signal are the one its caller was told of and one    *)
(* for each executed request whose answer was lost or denied it.           *)
THEOREM DuplicatesAreLostAnswers == Spec => []DuplicateNeedsLostAnswer
<1>1. ExecutionInv => DuplicateNeedsLostAnswer
  <2> SUFFICES ASSUME ExecutionInv, NEW s \in Signals, pc[s] # "waiting"
               PROVE  Cardinality(Opened(s)) =
                        Cardinality(Unreported(s)) + (IF WasTold(s) THEN 1 ELSE 0)
    BY DEF DuplicateNeedsLostAnswer
  <2> DEFINE requests == {n \in 1..MaxRetries : Executed(s, n)}
  <2>1. IsFiniteSet(requests) /\ Cardinality(Opened(s)) = Cardinality(requests)
    BY OpenedByExecuted DEF ExecutionInv
  <2>2. SignalOK(s) /\ attempt[s] \in 0..MaxRetries
    BY DEF ExecutionInv, CallsOK, TypeOK, Callers
  <2>3. Unreported(s) = {n \in 1..MaxRetries : net[s][n] \in {"done", "unconfirmed"}}
    BY DEF Unreported
  <2>4. CASE WasTold(s)
    <3>1. attempt[s] \in requests /\ Unreported(s) = requests \ {attempt[s]}
      BY <2>2, <2>3, <2>4, ExecutionAssumption DEF SignalOK, Executed, WasTold
    <3> HIDE DEF requests
    <3>2. Cardinality(Unreported(s)) = Cardinality(requests) - 1
      BY <2>1, <3>1, FS_RemoveElement
    <3> QED BY <2>1, <2>4, <3>2, FS_CardinalityType
  <2>5. CASE ~WasTold(s)
    <3>1. Unreported(s) = requests
      BY <2>2, <2>3, <2>5, ExecutionAssumption DEF SignalOK, Executed, WasTold
    <3> HIDE DEF requests
    <3> QED BY <2>1, <2>5, <3>1, FS_CardinalityType
  <2> QED BY <2>4, <2>5
<1> QED BY <1>1, ExecutionInvariant, PTL
=============================================================================
