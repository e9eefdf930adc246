---------------------- MODULE OrderStateMachineProofs ----------------------
(***************************************************************************)
(* Proofs about OrderStateMachine, for any set of tickets and any capacity.*)
(* TypeOK /\ StoreOK is inductive; the action properties and the           *)
(* refinement of OrderLifecycle follow from it.                            *)
(***************************************************************************)
EXTENDS OrderStateMachine, SequenceTheorems, WellFoundedInduction, TLAPS

USE MaxTicketsAssumption

IInv == TypeOK /\ StoreOK

(* States and transitions are those of OrderLifecycle, made explicit.      *)
LEMMA StateNames ==
    /\ Absent = "ABSENT"
    /\ Terminal = {"CLOSED", "REJECTED", "CANCELLED"}
    /\ Live = {"PENDING", "SUBMITTED", "OPEN", "CLOSING"}
    /\ States = Live \cup Terminal \cup {"ERROR"}
    /\ Absent \notin States
  BY DEF Absent, Terminal, Live, States, Lifecycle!Absent, Lifecycle!Terminal,
         Lifecycle!Live, Lifecycle!States

LEMMA TransitionsType ==
    /\ \A s \in States : Transitions[s] \subseteq States
    /\ \A s \in Terminal : Transitions[s] = {}
  <1>1. Transitions = [s \in States |->
           CASE s = "PENDING"   -> {"SUBMITTED", "CANCELLED", "REJECTED"}
             [] s = "SUBMITTED" -> {"OPEN", "REJECTED", "CANCELLED"}
             [] s = "OPEN"      -> {"CLOSING", "CLOSED", "ERROR"}
             [] s = "CLOSING"   -> {"CLOSED", "ERROR"}
             [] s = "ERROR"     -> {"PENDING"}
             [] OTHER           -> {}]
    BY DEF Transitions, States, Lifecycle!Transitions
  <1> QED BY <1>1, StateNames

(* The CHOOSE in Oldest has a witness: a set of positions has a least one. *)
LEMMA OldestIsLeast ==
    ASSUME NEW I \in SUBSET Nat, I # {}
    PROVE  Oldest(I) \in I /\ \A j \in I : Oldest(I) <= j
  <1>1. PICK x \in I : \A y \in I : ~ (<<y, x>> \in OpToRel(<, Nat))
    BY NatLessThanWellFounded, WFMin
  <1>2. OpToRel(<, Nat) = {p \in Nat \X Nat : p[1] < p[2]}
    BY DEF OpToRel
  <1>3. ASSUME NEW y \in I, y < x PROVE FALSE
    <2>1. <<y, x>> \in {p \in Nat \X Nat : p[1] < p[2]}
      BY <1>3
    <2> QED BY <1>1, <1>2, <2>1, Zenon
  <1>4. \A y \in I : x <= y
    BY <1>3
  <1> QED BY <1>4 DEF Oldest

LEMMA RemoveAtFacts ==
    ASSUME NEW S, NEW s \in Seq(S), NEW i \in 1..Len(s)
    PROVE  /\ RemoveAt(s, i) \in Seq(S)
           /\ Len(RemoveAt(s, i)) = Len(s) - 1
           /\ \A j \in 1..(Len(s) - 1) :
                 RemoveAt(s, i)[j] = IF j < i THEN s[j] ELSE s[j + 1]
  <1> DEFINE a == SubSeq(s, 1, i - 1)
             b == SubSeq(s, i + 1, Len(s))
  <1>0. Len(s) \in Nat
    BY LenProperties
  <1>1. /\ a \in Seq(S)
        /\ Len(a) = i - 1
        /\ \A j \in 1..(i - 1) : a[j] = s[j]
    BY <1>0, ElementOfSeq, SubSeqProperties
  <1>2. /\ b \in Seq(S)
        /\ Len(b) = Len(s) - i
        /\ \A j \in 1..(Len(s) - i) : b[j] = s[i + j]
    <2>1. \A j \in (i + 1)..Len(s) : s[j] \in S
      BY <1>0, ElementOfSeq
    <2> QED BY <1>0, <2>1, SubSeqProperties
  <1>3. RemoveAt(s, i) = a \o b
    BY DEF RemoveAt
  <1> HIDE DEF a, b
  <1>4. \A u, v \in Seq(S) :
           /\ u \o v \in Seq(S)
           /\ Len(u \o v) = Len(u) + Len(v)
           /\ \A j \in 1..(Len(u) + Len(v)) :
                 (u \o v)[j] = IF j <= Len(u) THEN u[j] ELSE v[j - Len(u)]
    BY ConcatProperties
  <1>4a. PICK r \in Seq(S) :
           /\ r = RemoveAt(s, i)
           /\ Len(r) = Len(a) + Len(b)
           /\ \A j \in 1..(Len(a) + Len(b)) :
                 r[j] = IF j <= Len(a) THEN a[j] ELSE b[j - Len(a)]
    BY <1>1, <1>2, <1>3, <1>4, Zenon
  <1>5. ASSUME NEW j \in 1..(Len(s) - 1), j < i
        PROVE  r[j] = s[j]
    BY <1>0, <1>1, <1>2, <1>4a, <1>5
  <1>6. ASSUME NEW j \in 1..(Len(s) - 1), ~(j < i)
        PROVE  r[j] = s[j + 1]
    <2>1. /\ j \in Int /\ i \in Int
          /\ j - (i - 1) \in 1..(Len(s) - i)
          /\ ~(j <= i - 1)
          /\ i + (j - (i - 1)) = j + 1
      BY <1>0, <1>6
    <2>2. r[j] = b[j - (i - 1)]
      <3>1. Len(a) = i - 1 /\ j \in 1..(Len(a) + Len(b)) /\ ~(j <= Len(a))
        BY <1>0, <1>1, <1>2, <2>1
      <3>2. r[j] = b[j - Len(a)]
        BY <1>4a, <3>1, Zenon
      <3> QED BY <3>1, <3>2, Zenon
    <2>3. b[j - (i - 1)] = s[i + (j - (i - 1))]
      BY <1>2, <2>1
    <2> QED BY <2>1, <2>2, <2>3
  <1>7. \A j \in 1..(Len(s) - 1) : r[j] = IF j < i THEN s[j] ELSE s[j + 1]
    BY <1>5, <1>6
  <1> QED BY <1>0, <1>1, <1>2, <1>4a, <1>7

-----------------------------------------------------------------------------
(* Where the evicted entry sits: a position of the store, and the first of *)
(* the terminal ones when there is one.                                    *)
LEMMA VictimFacts ==
    ASSUME TypeOK, Len(order) # 0
    PROVE  /\ VictimAt \in 1..Len(order)
           /\ TerminalAt # {} => state[order[VictimAt]] \in Terminal
           /\ TerminalAt = {} => VictimAt = 1
  <1>0. Len(order) \in Nat
    BY LenProperties DEF TypeOK
  <1>1. TerminalAt \in SUBSET Nat /\ TerminalAt \subseteq 1..Len(order)
    BY <1>0 DEF TerminalAt
  <1>2. CASE TerminalAt = {}
    BY <1>0, <1>2 DEF VictimAt
  <1>3. CASE TerminalAt # {}
    <2>1. VictimAt = Oldest(TerminalAt)
      BY <1>3 DEF VictimAt
    <2>2. VictimAt \in TerminalAt
      BY <1>1, <1>3, <2>1, OldestIsLeast
    <2> QED BY <1>1, <1>3, <2>2 DEF TerminalAt
  <1> QED BY <1>2, <1>3

(* What the sequence looks like after Insert: t at the end, everything but *)
(* the victim before it in the old order.                                  *)
LEMMA InsertOrder ==
    ASSUME IInv, NEW t \in Tickets, NEW s \in States, Insert(t, s)
    PROVE  /\ order' \in Seq(Tickets)
           /\ Victims = {} =>
                 /\ Len(order) < MaxTickets
                 /\ Len(order') = Len(order) + 1
                 /\ order'[Len(order) + 1] = t
                 /\ \A j \in 1..Len(order) : order'[j] = order[j]
           /\ Victims # {} =>
                 /\ Len(order) = MaxTickets
                 /\ Victims = {order[VictimAt]}
                 /\ VictimAt \in 1..Len(order)
                 /\ Len(order') = Len(order)
                 /\ order'[Len(order)] = t
                 /\ \A j \in 1..(Len(order) - 1) :
                       order'[j] = IF j < VictimAt THEN order[j] ELSE order[j + 1]
  <1>0. Len(order) \in Nat /\ order \in Seq(Tickets) /\ Len(order) <= MaxTickets
    BY LenProperties DEF IInv, TypeOK, StoreOK
  <1>1. CASE Victims = {}
    <2>1. order' = Append(order, t) /\ Len(order) < MaxTickets
      BY <1>1 DEF Insert, Victims
    <2> QED BY <1>0, <1>1, <2>1
  <1>2. CASE Victims # {}
    <2>1. /\ order' = Append(RemoveAt(order, VictimAt), t)
          /\ ~(Len(order) < MaxTickets)
          /\ Victims = {order[VictimAt]}
      BY <1>2 DEF Insert, Victims
    <2>2. Len(order) = MaxTickets /\ Len(order) # 0
      BY <1>0, <2>1
    <2>3. VictimAt \in 1..Len(order)
      BY <2>2, VictimFacts DEF IInv
    <2>4. PICK r \in Seq(Tickets) :
             /\ r = RemoveAt(order, VictimAt)
             /\ Len(r) = Len(order) - 1
             /\ \A j \in 1..(Len(order) - 1) :
                   r[j] = IF j < VictimAt THEN order[j] ELSE order[j + 1]
      BY <1>0, <2>3, RemoveAtFacts
    <2>5. order' = Append(r, t)
      BY <2>1, <2>4
    <2>6. /\ order' \in Seq(Tickets)
          /\ Len(order') = Len(order)
          /\ order'[Len(order)] = t
          /\ \A j \in 1..(Len(order) - 1) : order'[j] = r[j]
      BY <1>0, <2>4, <2>5
    <2> QED BY <1>2, <2>1, <2>2, <2>3, <2>4, <2>6
  <1> QED BY <1>1, <1>2

LEMMA InsertPreserves ==
    ASSUME IInv, NEW t \in Tickets, state[t] = Absent, NEW s \in States, Insert(t, s)
    PROVE  IInv'
  <1>0. /\ Len(order) \in Nat /\ order \in Seq(Tickets) /\ Len(order) <= MaxTickets
        /\ \A i \in 1..Len(order) : order[i] \in Tickets /\ order[i] # t
        /\ stale \in 0..Len(order)
        /\ s # Absent
    BY LenProperties, ElementOfSeq, StateNames DEF IInv, TypeOK, StoreOK
  <1>1. /\ state' = [u \in Tickets |-> IF u = t THEN s
                                       ELSE IF u \in Victims THEN Absent ELSE state[u]]
        /\ due' = due \ Victims
        /\ sweeping' = sweeping
    BY DEF Insert
  <1>2. CASE Victims = {}
    <2>1. /\ order' \in Seq(Tickets)
          /\ Len(order) < MaxTickets
          /\ Len(order') = Len(order) + 1
          /\ order'[Len(order) + 1] = t
          /\ \A j \in 1..Len(order) : order'[j] = order[j]
          /\ stale' = stale
      BY <1>2, InsertOrder DEF Insert
    <2>2. TypeOK'
      BY <1>0, <1>1, <2>1 DEF IInv, TypeOK
    <2>3. (Len(order) <= MaxTickets)'
      BY <1>0, <2>1
    <2>4. (\A i, j \in 1..Len(order) : order[i] = order[j] => i = j)'
      BY <1>0, <2>1 DEF IInv, StoreOK
    <2>5. (\A u \in Tickets : state[u] # Absent <=> \E i \in 1..Len(order) : order[i] = u)'
      <3> SUFFICES ASSUME NEW u \in Tickets
                   PROVE  state'[u] # Absent <=> \E i \in 1..Len(order') : order'[i] = u
        BY StateNames
      <3>1. CASE u = t
        BY <1>0, <1>1, <2>1, <3>1
      <3>2. CASE u # t
        <4>1. state'[u] = state[u]
          BY <1>1, <1>2, <3>2
        <4>2. (\E i \in 1..Len(order') : order'[i] = u) <=> \E i \in 1..Len(order) : order[i] = u
          BY <1>0, <2>1, <3>2
        <4> QED BY <4>1, <4>2 DEF IInv, StoreOK
      <3> QED BY <3>1, <3>2
    <2>6. (\A u \in due : \E i \in 1..stale : order[i] = u)'
      BY <1>0, <1>1, <1>2, <2>1 DEF IInv, StoreOK
    <2> QED BY <2>2, <2>3, <2>4, <2>5, <2>6 DEF IInv, StoreOK
  <1>3. CASE Victims # {}
    <2> DEFINE v == VictimAt
    <2>1. /\ order' \in Seq(Tickets)
          /\ Len(order) = MaxTickets
          /\ Victims = {order[v]}
          /\ v \in 1..Len(order)
          /\ Len(order') = Len(order)
          /\ order'[Len(order)] = t
          /\ \A j \in 1..(Len(order) - 1) :
                order'[j] = IF j < v THEN order[j] ELSE order[j + 1]
          /\ stale' = IF v <= stale THEN stale - 1 ELSE stale
      BY <1>3, InsertOrder DEF Insert
    <2> HIDE DEF v
    <2>2. TypeOK'
      BY <1>0, <1>1, <2>1 DEF IInv, TypeOK
    <2>3. (Len(order) <= MaxTickets)'
      BY <1>0, <2>1
    <2>inj. \A i, j \in 1..Len(order) : order[i] = order[j] => i = j
      BY DEF IInv, StoreOK
    <2>back. \A j \in 1..(Len(order) - 1) : \E k \in 1..Len(order) :
                /\ k # v /\ order'[j] = order[k]
                /\ k = IF j < v THEN j ELSE j + 1
      BY <1>0, <2>1
    <2>forth. \A k \in 1..Len(order) : k # v =>
                \E j \in 1..(Len(order) - 1) :
                   /\ order'[j] = order[k]
                   /\ j = IF k < v THEN k ELSE k - 1
      BY <1>0, <2>1
    <2>4. (\A i, j \in 1..Len(order) : order[i] = order[j] => i = j)'
      <3> SUFFICES ASSUME NEW i \in 1..Len(order), NEW j \in 1..Len(order),
                          order'[i] = order'[j]
                   PROVE  i = j
        BY <2>1
      <3>1. CASE i # Len(order) /\ j # Len(order)
        <4>1. PICK k \in 1..Len(order) :
                 k # v /\ order'[i] = order[k] /\ k = IF i < v THEN i ELSE i + 1
          BY <1>0, <2>back, <3>1
        <4>2. PICK l \in 1..Len(order) :
                 l # v /\ order'[j] = order[l] /\ l = IF j < v THEN j ELSE j + 1
          BY <1>0, <2>back, <3>1
        <4>3. k = l
          BY <2>inj, <4>1, <4>2
        <4> QED BY <1>0, <2>1, <4>1, <4>2, <4>3
      <3>2. CASE i = Len(order) \/ j = Len(order)
        BY <1>0, <2>1, <2>back, <3>2
      <3> QED BY <3>1, <3>2
    <2>5. (\A u \in Tickets : state[u] # Absent <=> \E i \in 1..Len(order) : order[i] = u)'
      <3> SUFFICES ASSUME NEW u \in Tickets
                   PROVE  state'[u] # Absent <=> \E i \in 1..Len(order') : order'[i] = u
        BY StateNames
      <3>1. CASE u = t
        BY <1>0, <1>1, <2>1, <3>1
      <3>2. CASE u = order[v]
        <4>1. state'[u] = Absent
          BY <1>0, <1>1, <2>1, <3>2
        <4>2. ~ \E i \in 1..Len(order) : order'[i] = u
          BY <1>0, <2>1, <2>inj, <2>back, <3>2
        <4> QED BY <2>1, <4>1, <4>2
      <3>3. CASE u # t /\ u # order[v]
        <4>1. state'[u] = state[u]
          BY <1>1, <2>1, <3>3
        <4>2. (\E i \in 1..Len(order) : order[i] = u) => \E i \in 1..Len(order) : order'[i] = u
          <5> SUFFICES ASSUME NEW k \in 1..Len(order), order[k] = u
                       PROVE  \E i \in 1..Len(order) : order'[i] = u
            OBVIOUS
          <5>1. PICK j \in 1..(Len(order) - 1) : order'[j] = order[k]
            BY <2>forth, <3>3
          <5> QED BY <1>0, <5>1
        <4>3. (\E i \in 1..Len(order) : order'[i] = u) => \E i \in 1..Len(order) : order[i] = u
          BY <1>0, <2>1, <2>back, <3>3
        <4> QED BY <2>1, <4>1, <4>2, <4>3 DEF IInv, StoreOK
      <3> QED BY <3>1, <3>2, <3>3
    <2>6. (\A u \in due : \E i \in 1..stale : order[i] = u)'
      <3> SUFFICES ASSUME NEW u \in due, u # order[v]
                   PROVE  \E j \in 1..stale' : order'[j] = u
        BY <1>1, <2>1
      <3>1. PICK k \in 1..stale : order[k] = u
        BY DEF IInv, StoreOK
      <3>2. k \in 1..Len(order) /\ k # v
        BY <1>0, <3>1
      <3>3. PICK j \in 1..(Len(order) - 1) :
                /\ order'[j] = u
                /\ j = IF k < v THEN k ELSE k - 1
        BY <2>forth, <3>1, <3>2
      <3>4. j \in 1..stale'
        BY <1>0, <2>1, <3>1, <3>2, <3>3
      <3> QED BY <3>3, <3>4
    <2> QED BY <2>2, <2>3, <2>4, <2>5, <2>6 DEF IInv, StoreOK
  <1> QED BY <1>2, <1>3

-----------------------------------------------------------------------------
(* What transition() leaves a ticket in: the new state or the one it had.  *)
LEMMA ResultType ==
    ASSUME TypeOK, NEW t \in Tickets, NEW s \in States
    PROVE  /\ Current(t) \in States
           /\ (IF Accepts(t, s) THEN s ELSE Current(t)) \in States
  <1>1. Current(t) \in States
    BY StateNames DEF TypeOK, Current
  <1> QED BY <1>1

(* The type invariant and the store invariant are inductive together.      *)
LEMMA Inductive == IInv /\ [Next]_osmVars => IInv'
  <1> SUFFICES ASSUME IInv, [Next]_osmVars
               PROVE  IInv'
    OBVIOUS
  <1>0. Len(order) \in Nat /\ order \in Seq(Tickets) /\ stale \in 0..Len(order)
    BY LenProperties DEF IInv, TypeOK
  <1>1. ASSUME NEW t \in Tickets, Register(t) PROVE IInv'
    <2>1. CASE state[t] = Absent
      <3>1. Insert(t, "PENDING") /\ "PENDING" \in States
        BY <1>1, <2>1, StateNames DEF Register
      <3> QED BY <2>1, <3>1, InsertPreserves
    <2>2. CASE state[t] # Absent
      BY <1>1, <2>2 DEF Register, osmVars, IInv, TypeOK, StoreOK
    <2> QED BY <2>1, <2>2
  <1>2. ASSUME NEW t \in Tickets, NEW s \in States, Transition(t, s) PROVE IInv'
    <2> DEFINE result == IF Accepts(t, s) THEN s ELSE Current(t)
    <2>0. result \in States
      BY ResultType DEF IInv
    <2> HIDE DEF result
    <2>1. CASE state[t] = Absent
      <3>1. Insert(t, result)
        BY <1>2, <2>1 DEF Transition, result
      <3> QED BY <2>0, <2>1, <3>1, InsertPreserves
    <2>2. CASE state[t] # Absent
      <3>1. /\ state' = [state EXCEPT ![t] = result]
            /\ UNCHANGED <<order, stale, sweeping, due>>
        BY <1>2, <2>2 DEF Transition, result
      <3>2. TypeOK'
        BY <2>0, <3>1 DEF IInv, TypeOK
      <3>3. \A u \in Tickets : state'[u] # Absent <=> state[u] # Absent
        BY <2>0, <2>2, <3>1, StateNames DEF IInv, TypeOK
      <3> QED BY <3>1, <3>2, <3>3, StateNames DEF IInv, StoreOK
    <2> QED BY <2>1, <2>2
  <1>3. CASE Elapse
    <2>1. TypeOK'
      BY <1>0, <1>3 DEF IInv, TypeOK, Elapse
    <2>2. stale' \in Nat /\ stale < stale'
      BY <1>0, <1>3 DEF Elapse
    <2> QED BY <1>0, <1>3, <2>1, <2>2, StateNames DEF IInv, StoreOK, Elapse
  <1>4. CASE SweepReadsClock
    <2>1. \A i \in 1..stale : order[i] \in Tickets
      BY <1>0, ElementOfSeq
    <2>2. TypeOK'
      BY <1>4, <2>1 DEF IInv, TypeOK, SweepReadsClock, Overdue
    <2> QED BY <1>4, <2>2, StateNames DEF IInv, StoreOK, SweepReadsClock, Overdue
  <1>5. CASE SweepExpires
    <2>1. TypeOK'
      BY <1>5, StateNames DEF IInv, TypeOK, SweepExpires, Expirable
    <2>2. \A u \in Tickets : state'[u] # Absent <=> state[u] # Absent
      BY <1>5, StateNames DEF SweepExpires, Expirable
    <2> QED BY <1>5, <2>1, <2>2, StateNames DEF IInv, StoreOK, SweepExpires
  <1>6. CASE UNCHANGED osmVars
    BY <1>6 DEF osmVars, IInv, TypeOK, StoreOK
  <1> QED BY <1>1, <1>2, <1>3, <1>4, <1>5, <1>6 DEF Next

LEMMA InitIInv == Init => IInv
  <1> SUFFICES ASSUME Init PROVE IInv
    OBVIOUS
  <1>1. order = <<>> /\ Len(order) = 0 /\ order \in Seq(Tickets)
    BY EmptySeq DEF Init
  <1>2. TypeOK
    <2>1. state \in [Tickets -> States \cup {Absent}] /\ due \in SUBSET Tickets
      BY DEF Init
    <2>2. stale \in 0..Len(order) /\ sweeping \in BOOLEAN
      <3>1. Len(order) = 0
        BY <1>1
      <3>2. stale = 0
        BY DEF Init
      <3>3. stale \in 0..Len(order)
        BY <3>1, <3>2
      <3> QED BY <3>3, Zenon DEF Init
    <2> QED BY <1>1, <2>1, <2>2 DEF TypeOK
  <1>3. StoreOK
    BY <1>1 DEF Init, StoreOK
  <1> QED BY <1>2, <1>3 DEF IInv

THEOREM InductiveInvariant == Spec => []IInv
  BY InitIInv, Inductive, PTL DEF Spec

(* The store never holds more than max_tickets entries, lists each tracked *)
(* ticket once and in age order, and a pending sweep refers only to        *)
(* entries it still holds.                                                 *)
THEOREM StoreCorrect == Spec => [](TypeOK /\ StoreOK)
  BY InductiveInvariant, PTL DEF IInv

-----------------------------------------------------------------------------
(* Everything that can happen to one ticket in one step.                   *)
Entered(t) == state[t] = Absent /\ state'[t] \in States /\ Accepts(t, state'[t])
Moved(t)   == state[t] \in States /\ state'[t] \in Transitions[state[t]]
Expired(t) == t \in due /\ state[t] \in Live /\ state'[t] = "ERROR"
Evicted(t) == /\ state'[t] = Absent
              /\ Len(order) = MaxTickets
              /\ VictimAt \in 1..Len(order)
              /\ t = order[VictimAt]
              /\ \E u \in Tickets : state[u] = Absent /\ state'[u] # Absent

LEMMA InsertStep ==
    ASSUME IInv, NEW u \in Tickets, state[u] = Absent,
           NEW s \in States, Accepts(u, s), Insert(u, s), NEW t \in Tickets
    PROVE  state'[t] = state[t] \/ Entered(t) \/ Evicted(t)
  <1>1. state'[u] = s /\ s # Absent
    BY StateNames DEF Insert
  <1>2. CASE t = u
    BY <1>1, <1>2 DEF Entered
  <1>3. CASE t # u /\ t \in Victims
    <2>1. state'[t] = Absent
      BY <1>3 DEF Insert
    <2>2. Len(order) = MaxTickets /\ VictimAt \in 1..Len(order) /\ t = order[VictimAt]
      BY <1>3, InsertOrder
    <2> QED BY <1>1, <2>1, <2>2 DEF Evicted
  <1>4. CASE t # u /\ t \notin Victims
    BY <1>4 DEF Insert
  <1> QED BY <1>2, <1>3, <1>4

LEMMA StepCases ==
    ASSUME IInv, [Next]_osmVars, NEW t \in Tickets
    PROVE  state'[t] = state[t] \/ Entered(t) \/ Moved(t) \/ Expired(t) \/ Evicted(t)
  <1>1. ASSUME NEW u \in Tickets, Register(u)
        PROVE  state'[t] = state[t] \/ Entered(t) \/ Evicted(t)
    <2>1. CASE state[u] = Absent
      <3>1. Insert(u, "PENDING") /\ "PENDING" \in States /\ Accepts(u, "PENDING")
        BY <1>1, <2>1, StateNames DEF Register, Accepts, Current
      <3> QED BY <2>1, <3>1, InsertStep
    <2>2. CASE state[u] # Absent
      BY <1>1, <2>2 DEF Register, osmVars
    <2> QED BY <2>1, <2>2
  <1>2. ASSUME NEW u \in Tickets, NEW s \in States, Transition(u, s)
        PROVE  state'[t] = state[t] \/ Entered(t) \/ Moved(t) \/ Evicted(t)
    <2> DEFINE result == IF Accepts(u, s) THEN s ELSE Current(u)
    <2>0. result \in States /\ Accepts(u, result)
      BY ResultType DEF IInv, Accepts
    <2>a. result = Current(u) \/ result \in Transitions[Current(u)]
      BY <2>0 DEF Accepts
    <2> HIDE DEF result
    <2>1. CASE state[u] = Absent
      <3>1. Insert(u, result)
        BY <1>2, <2>1 DEF Transition, result
      <3> QED BY <2>0, <2>1, <3>1, InsertStep
    <2>2. CASE state[u] # Absent
      <3>1. state' = [state EXCEPT ![u] = result]
        BY <1>2, <2>2 DEF Transition, result
      <3>2. Current(u) = state[u] /\ state[u] \in States
        BY <2>2 DEF Current, IInv, TypeOK
      <3>3. CASE t = u
        BY <2>a, <3>1, <3>2, <3>3 DEF Moved, IInv, TypeOK
      <3>4. CASE t # u
        BY <3>1, <3>4 DEF IInv, TypeOK
      <3> QED BY <3>3, <3>4
    <2> QED BY <2>1, <2>2
  <1>3. CASE Elapse \/ SweepReadsClock \/ UNCHANGED osmVars
    BY <1>3 DEF Elapse, SweepReadsClock, osmVars
  <1>4. CASE SweepExpires
    BY <1>4 DEF SweepExpires, Expirable, Expired
  <1> QED BY <1>1, <1>2, <1>3, <1>4 DEF Next

(* An ended ticket is never revived: it leaves its terminal state only by  *)
(* eviction, and only when a new ticket needs the room.                    *)
THEOREM TerminalTicketsAreFinal == Spec => TerminalIsFinal
  <1> DEFINE A == \A t \in Tickets :
                    state[t] \in Terminal /\ state'[t] # state[t] =>
                       /\ state'[t] = Absent
                       /\ Len(order) = MaxTickets
                       /\ \E u \in Tickets : state[u] = Absent /\ state'[u] # Absent
  <1>1. ASSUME IInv, [Next]_osmVars PROVE A
    <2> SUFFICES ASSUME NEW t \in Tickets, state[t] \in Terminal, state'[t] # state[t]
                 PROVE  Evicted(t)
      BY DEF Evicted
    <2>1. ~Entered(t) /\ ~Expired(t)
      BY StateNames DEF Entered, Expired
    <2>2. ~Moved(t)
      BY StateNames, TransitionsType DEF Moved
    <2> QED BY <1>1, <2>1, <2>2, StepCases
  <1> HIDE DEF A
  <1>2. IInv /\ [Next]_osmVars => [A]_osmVars
    BY <1>1
  <1>3. Spec => [][A]_osmVars
    BY <1>2, InductiveInvariant, PTL DEF Spec
  <1> QED BY <1>3 DEF TerminalIsFinal, A

(* The store forgets a live ticket only when it holds no ended one, and    *)
(* then the one registered first.                                          *)
THEOREM LiveTicketsEvictedLast == Spec => LiveEvictedLast
  <1> DEFINE A == \A t \in Tickets :
                    state[t] \notin Terminal \cup {Absent} /\ state'[t] = Absent =>
                       /\ \A u \in Tickets : state[u] \notin Terminal
                       /\ t = order[1]
  <1>1. ASSUME IInv, [Next]_osmVars PROVE A
    <2> SUFFICES ASSUME NEW t \in Tickets, state[t] \notin Terminal \cup {Absent},
                        state'[t] = Absent
                 PROVE  (\A u \in Tickets : state[u] \notin Terminal) /\ t = order[1]
      OBVIOUS
    <2>1. Evicted(t)
      <3>1. ~Entered(t) /\ ~Expired(t)
        BY StateNames DEF Entered, Expired
      <3>2. ~Moved(t)
        BY StateNames, TransitionsType DEF Moved
      <3> QED BY <1>1, <3>1, <3>2, StepCases
    <2>2. TerminalAt = {}
      <3>1. Len(order) # 0
        BY <2>1 DEF Evicted
      <3> QED BY <1>1, <2>1, <3>1, VictimFacts DEF Evicted, IInv
    <2>3. t = order[1]
      BY <2>1, <2>2 DEF Evicted, VictimAt
    <2>4. ASSUME NEW u \in Tickets, state[u] \in Terminal PROVE FALSE
      <3>1. PICK i \in 1..Len(order) : order[i] = u
        BY <1>1, <2>4, StateNames DEF IInv, StoreOK
      <3> QED BY <2>2, <2>4, <3>1 DEF TerminalAt
    <2> QED BY <2>3, <2>4
  <1> HIDE DEF A
  <1>2. IInv /\ [Next]_osmVars => [A]_osmVars
    BY <1>1
  <1>3. Spec => [][A]_osmVars
    BY <1>2, InductiveInvariant, PTL DEF Spec
  <1> QED BY <1>3 DEF LiveEvictedLast, A

(* A ticket that never opened is put in ERROR only by a sweep, and only if *)
(* its entry is older than the TTL.                                        *)
THEOREM FreshTicketsNeverExpire == Spec => FreshNeverExpires
  <1> DEFINE A == \A t \in Tickets :
                    /\ state[t] \in {"PENDING", "SUBMITTED"}
                    /\ state'[t] = "ERROR"
                    => \E i \in 1..stale : order[i] = t
  <1>1. ASSUME IInv, [Next]_osmVars PROVE A
    <2> SUFFICES ASSUME NEW t \in Tickets, state[t] \in {"PENDING", "SUBMITTED"},
                        state'[t] = "ERROR"
                 PROVE  \E i \in 1..stale : order[i] = t
      OBVIOUS
    <2>1. ~Entered(t) /\ ~Evicted(t)
      BY StateNames DEF Entered, Evicted
    <2>2. ~Moved(t)
      BY StateNames DEF Moved, Transitions, Lifecycle!Transitions, States
    <2>3. t \in due
      BY <1>1, <2>1, <2>2, StepCases, StateNames DEF Expired
    <2> QED BY <1>1, <2>3 DEF IInv, StoreOK
  <1> HIDE DEF A
  <1>2. IInv /\ [Next]_osmVars => [A]_osmVars
    BY <1>1
  <1>3. Spec => [][A]_osmVars
    BY <1>2, InductiveInvariant, PTL DEF Spec
  <1> QED BY <1>3 DEF FreshNeverExpires, A

(* Seen one ticket at a time, the registry is the life cycle.              *)
THEOREM RefinesLifecycle == Spec => ImplementsLifecycle
  <1>1. Init => Lifecycle!Init
    BY DEF Init, Lifecycle!Init, Absent
  <1>2. ASSUME IInv, IInv', [Next]_osmVars PROVE [Lifecycle!Next]_state
    <2>1. state' \in [Tickets -> States \cup {Absent}]
      BY <1>2 DEF IInv, TypeOK
    <2>2. ASSUME NEW t \in Tickets
          PROVE  state'[t] = state[t] \/ Lifecycle!Edge(state[t], state'[t])
      <3>1. CASE Entered(t)
        <4>1. state'[t] \in {"PENDING"} \cup Transitions["PENDING"]
          BY <3>1 DEF Entered, Accepts, Current
        <4> QED BY <3>1, <4>1
                DEF Entered, Lifecycle!Edge, Lifecycle!Enter, Absent, Transitions
      <3>2. CASE Moved(t)
        BY <3>2 DEF Moved, Lifecycle!Edge, States, Transitions
      <3>3. CASE Expired(t)
        BY <3>3 DEF Expired, Lifecycle!Edge, Live
      <3>4. CASE Evicted(t)
        BY <3>4 DEF Evicted, Lifecycle!Edge, Absent
      <3> QED BY <1>2, <3>1, <3>2, <3>3, <3>4, StepCases
    <2>3. Lifecycle!Next
      BY <2>1, <2>2 DEF Lifecycle!Next, States, Absent
    <2> QED BY <2>3
  <1> QED BY <1>1, <1>2, InductiveInvariant, PTL DEF Spec, ImplementsLifecycle, Lifecycle!Spec
=============================================================================
