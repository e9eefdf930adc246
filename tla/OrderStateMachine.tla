------------------------- MODULE OrderStateMachine -------------------------
(***************************************************************************)
(* backend/execution/order_state_machine.py: the in-memory registry of the *)
(* state of every ticket.  Each public method holds the lock for its whole *)
(* body and is one action, except expire_stale_tickets(), which reads the  *)
(* clock before it takes the lock.  The history list of a ticket is a log  *)
(* of the same moves and is abstracted.                                    *)
(***************************************************************************)
EXTENDS Integers, Sequences, SequencesExt

CONSTANTS Tickets,      \* ticket numbers callers may use
          MaxTickets    \* max_tickets, the capacity of the store

ASSUME MaxTicketsAssumption == MaxTickets \in Nat \ {0}

VARIABLES
    order,      \* keys of the OrderedDict _store, oldest registration first
    state,      \* state[t]: the first component of _store[t]
    stale,      \* how many of the oldest entries are older than the TTL
    sweeping,   \* expire_stale_tickets() has read the clock, not the lock
    due         \* entries older than the TTL when the sweep read the clock

osmVars == <<order, state, stale, sweeping, due>>

Lifecycle == INSTANCE OrderLifecycle WITH Tickets <- Tickets, state <- state

Absent      == Lifecycle!Absent
Terminal    == Lifecycle!Terminal
Live        == Lifecycle!Live
States      == Lifecycle!States
Transitions == Lifecycle!Transitions

Tracked == {t \in Tickets : state[t] # Absent}

TypeOK == /\ order \in Seq(Tickets)
          /\ state \in [Tickets -> States \cup {Absent}]
          /\ stale \in 0..Len(order)
          /\ sweeping \in BOOLEAN
          /\ due \in SUBSET Tickets

Init == /\ order = <<>>
        /\ state = [t \in Tickets |-> Absent]
        /\ stale = 0
        /\ sweeping = FALSE
        /\ due = {}
-----------------------------------------------------------------------------
(* _evict_if_full: positions in order of the entries that may be evicted.  *)
TerminalAt == {i \in 1..Len(order) : state[order[i]] \in Terminal}

Oldest(I) == CHOOSE i \in I : \A j \in I : i <= j

\* the oldest entry goes whether or not it is terminal
MutVictimAt == 1

VictimAt == IF TerminalAt # {} THEN Oldest(TerminalAt) ELSE 1

\* eviction counts a full store as one that still has room
MutVictims == IF Len(order) <= MaxTickets THEN {} ELSE {order[VictimAt]}

Victims == IF Len(order) < MaxTickets THEN {} ELSE {order[VictimAt]}

(* A new entry for t in state s, after making room for it.                 *)
Insert(t, s) ==
    /\ state' = [u \in Tickets |-> IF u = t THEN s
                                   ELSE IF u \in Victims THEN Absent
                                   ELSE state[u]]
    /\ IF Victims = {}
       THEN /\ order' = Append(order, t)
            /\ stale' = stale
       ELSE /\ order' = Append(RemoveAt(order, VictimAt), t)
            /\ stale' = IF VictimAt <= stale THEN stale - 1 ELSE stale
    /\ due' = due \ Victims
    /\ UNCHANGED sweeping

Register(t) == IF state[t] = Absent
               THEN Insert(t, "PENDING")
               ELSE UNCHANGED osmVars

(* The state transition() starts from: an unknown ticket becomes PENDING.  *)
Current(t) == IF state[t] = Absent THEN "PENDING" ELSE state[t]

\* transition() validates nothing
MutAccepts(t, s) == TRUE

Accepts(t, s) == s = Current(t) \/ s \in Transitions[Current(t)]

(* transition(t, s).  A refused move raises ValueError, after the unknown  *)
(* ticket has been entered.                                                *)
Transition(t, s) ==
    LET result == IF Accepts(t, s) THEN s ELSE Current(t)
    IN  IF state[t] = Absent
        THEN Insert(t, result)
        ELSE /\ state' = [state EXCEPT ![t] = result]
             /\ UNCHANGED <<order, stale, sweeping, due>>

(* Time passes: registration order is age order, so a prefix grows stale.  *)
Elapse == /\ stale < Len(order)
          /\ stale' \in (stale + 1)..Len(order)
          /\ UNCHANGED <<order, state, sweeping, due>>

\* every entry is taken to be older than the TTL
MutOverdue == {order[i] : i \in 1..Len(order)}

(* The entries older than the TTL now, as stale_tickets() would list them. *)
Overdue == {order[i] : i \in 1..stale}

SweepReadsClock == /\ ~sweeping
                   /\ sweeping' = TRUE
                   /\ due' = Overdue
                   /\ UNCHANGED <<order, state, stale>>

(* What the sweep may expire: neither terminal nor already in ERROR.       *)
Expirable == Live

SweepExpires == /\ sweeping
                /\ state' = [t \in Tickets |->
                                IF t \in due /\ state[t] \in Expirable
                                THEN "ERROR" ELSE state[t]]
                /\ sweeping' = FALSE
                /\ due' = {}
                /\ UNCHANGED <<order, stale>>

Next == \/ \E t \in Tickets : Register(t)
        \/ \E t \in Tickets, s \in States : Transition(t, s)
        \/ Elapse
        \/ SweepReadsClock
        \/ SweepExpires

Spec == Init /\ [][Next]_osmVars
-----------------------------------------------------------------------------
(* The store lists exactly the tracked tickets, each once, and never more  *)
(* than its capacity; what a pending sweep will expire is still in it and  *)
(* old enough (OrderedDict and _evict_if_full, lines 58-68 and 165-174).   *)
StoreOK == /\ Len(order) <= MaxTickets
           /\ \A i, j \in 1..Len(order) : order[i] = order[j] => i = j
           /\ \A t \in Tickets : state[t] # Absent <=> \E i \in 1..Len(order) : order[i] = t
           /\ \A t \in due : \E i \in 1..stale : order[i] = t

(* A ticket in a terminal state leaves it only by being evicted, and it is *)
(* evicted only to make room for a ticket that was not in the store.       *)
TerminalIsFinal ==
    [][\A t \in Tickets :
          state[t] \in Terminal /\ state'[t] # state[t] =>
              /\ state'[t] = Absent
              /\ Len(order) = MaxTickets
              /\ \E u \in Tickets : state[u] = Absent /\ state'[u] # Absent
      ]_osmVars

(* A live ticket is forgotten only when nothing terminal could be evicted  *)
(* instead, and then it is the oldest one (_evict_if_full, lines 165-174). *)
LiveEvictedLast ==
    [][\A t \in Tickets :
          state[t] \notin Terminal \cup {Absent} /\ state'[t] = Absent =>
              /\ \A u \in Tickets : state[u] \notin Terminal
              /\ t = order[1]
      ]_osmVars

(* Only an entry older than the TTL is moved to ERROR from a state whose   *)
(* row of the table does not lead there, even when the ticket was evicted  *)
(* and entered again after the sweep read the clock (lines 141-154).       *)
FreshNeverExpires ==
    [][\A t \in Tickets :
          /\ state[t] \in {"PENDING", "SUBMITTED"}
          /\ state'[t] = "ERROR"
          => \E i \in 1..stale : order[i] = t
      ]_osmVars

(* Every ticket lives the life OrderLifecycle allows.                      *)
ImplementsLifecycle == Lifecycle!Spec
=============================================================================
