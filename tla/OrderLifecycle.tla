--------------------------- MODULE OrderLifecycle ---------------------------
(***************************************************************************)
(* What a caller of the order state machine may rely on for one ticket:    *)
(* the life it can lead as observed through get_state().  Many tickets may *)
(* move in one step (the TTL sweep), each of them along one of these edges.*)
(***************************************************************************)
CONSTANT Tickets

VARIABLE state      \* state[t]: what get_state(t) returns, Absent for None

Absent   == "ABSENT"
Terminal == {"CLOSED", "REJECTED", "CANCELLED"}
Live     == {"PENDING", "SUBMITTED", "OPEN", "CLOSING"}
States   == Live \cup Terminal \cup {"ERROR"}

(* _TRANSITIONS: the moves transition() accepts. *)
Transitions ==
    [s \in States |->
        CASE s = "PENDING"   -> {"SUBMITTED", "CANCELLED", "REJECTED"}
          [] s = "SUBMITTED" -> {"OPEN", "REJECTED", "CANCELLED"}
          [] s = "OPEN"      -> {"CLOSING", "CLOSED", "ERROR"}
          [] s = "CLOSING"   -> {"CLOSED", "ERROR"}
          [] s = "ERROR"     -> {"PENDING"}
          [] OTHER           -> {}]

(* A ticket enters as PENDING, or directly as a successor of PENDING.      *)
Enter(s) == s \in {"PENDING"} \cup Transitions["PENDING"]

Edge(from, to) ==
    \/ from = Absent /\ Enter(to)
    \/ from \in States /\ to \in Transitions[from]
    \/ from \in Live /\ to = "ERROR"            \* time to live exceeded
    \/ to = Absent                              \* evicted from a full store

Init == state = [t \in Tickets |-> Absent]

Next == /\ state' \in [Tickets -> States \cup {Absent}]
        /\ \A t \in Tickets : state'[t] = state[t] \/ Edge(state[t], state'[t])

Spec == Init /\ [][Next]_state
=============================================================================
