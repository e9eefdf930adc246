---------------------------- MODULE LedgersProofs ----------------------------
(***************************************************************************)
(* Proofs about Billing, for any users, plans, provider, bounds and size   *)
(* of the nonce store: the accounts agree with what was paid, and a        *)
(* revoked subscription stays revoked.  And about Ledgers: it keeps what   *)
(* is proved of its three parts.                                           *)
(***************************************************************************)
EXTENDS Ledgers, OrderStateMachineProofs, FailureRecoveryProofs,
        SequenceTheorems, FiniteSetTheorems, TLAPS

(* Bounds are numbers.                                                     *)
LEMMA Numbers == /\ NonceMax \in Nat /\ MaxHours \in Nat /\ MaxInvoices \in Nat
                 /\ MaxEvents \in Nat /\ MaxDunning \in Nat
BY BillingAssumption

(* The types of what the engine owns.                                      *)
EngineType == /\ inv \in Seq(Invoice)
              /\ Len(inv) <= MaxInvoices
              /\ sub \in [Users -> Subscription \cup {NoSubscription}]
              /\ grants \in [1..MaxInvoices -> Nat]
              /\ failed \in [Users -> SUBSET (1..MaxEvents)]

(* An invoice that does not exist yet has granted nothing.                 *)
GrantsOK == /\ GrantedOncePerPayment
            /\ \A i \in 1..MaxInvoices : i > Len(inv) => grants[i] = 0

EventsOK == /\ Len(events) <= MaxEvents
            /\ \A k \in 1..Len(events) : events[k].invoice \in 1..Len(inv)

NonceOfEvent(k) == [of |-> "event", n |-> k]

(* While every event came with its id and the store has room for all, each *)
(* counted failure is remembered, and nothing but events is.               *)
SeenOK ==
    /\ IsFiniteSet(seen)
    /\ ~anonymous /\ NonceMax >= MaxEvents =>
          /\ seen \subseteq {NonceOfEvent(k) : k \in 1..Len(events)}
          /\ \A u \in Users : \A k \in failed[u] : NonceOfEvent(k) \in seen

(* What DunningCountsFailures says of one user.                            *)
FailuresCounted(u) == sub[u] # NoSubscription => sub[u].dunning <= Cardinality(failed[u])

BillingInv == BillingTypeOK /\ GrantsOK /\ EventsOK /\ SeenOK /\ DunningCountsFailures

-----------------------------------------------------------------------------
(* Statuses of the state machine: where a renewal and a failure lead.      *)
LEMMA Statuses ==
    /\ DOMAIN SUB_FSM = {"TRIAL", "ACTIVE", "PAST_DUE", "SUSPENDED", "EXPIRED",
                         "CANCELLED", "REVOKED"}
    /\ \A s \in DOMAIN SUB_FSM : SUB_FSM[s] \subseteq DOMAIN SUB_FSM
    /\ SUB_FSM["REVOKED"] = {}
    /\ \A s \in DOMAIN SUB_FSM : Renewed(s) \in DOMAIN SUB_FSM
    /\ \A s \in DOMAIN SUB_FSM, d \in Nat : AfterFailure(s, d) \in DOMAIN SUB_FSM
    /\ Renewed("REVOKED") = "REVOKED"
    /\ \A d \in Nat : AfterFailure("REVOKED", d) = "REVOKED"
<1>1. DOMAIN SUB_FSM = {"TRIAL", "ACTIVE", "PAST_DUE", "SUSPENDED", "EXPIRED",
                        "CANCELLED", "REVOKED"}
  BY DEF SUB_FSM
<1>2. /\ SUB_FSM["REVOKED"] = {}
      /\ \A s \in DOMAIN SUB_FSM : SUB_FSM[s] \subseteq DOMAIN SUB_FSM
  BY <1>1 DEF SUB_FSM
<1>3. /\ \A s \in DOMAIN SUB_FSM : Renewed(s) \in DOMAIN SUB_FSM
      /\ Renewed("REVOKED") = "REVOKED"
  BY <1>1, <1>2 DEF Renewed
<1>4. \A d \in Nat : AfterFailure("REVOKED", d) = "REVOKED"
  BY DEF AfterFailure
<1>5. \A s \in DOMAIN SUB_FSM, d \in Nat : AfterFailure(s, d) \in DOMAIN SUB_FSM
  BY <1>1 DEF AfterFailure
<1> QED BY <1>1, <1>2, <1>3, <1>4, <1>5

(* Invoice i gets status o.                                                *)
Marked(i, o) == inv' = [inv EXCEPT ![i].status = o]

LEMMA InvoiceAt ==
    ASSUME inv \in Seq(Invoice), NEW i \in 1..Len(inv),
           NEW o \in {"PENDING", "SUCCEEDED", "FAILED", "REFUNDED"},
           Marked(i, o)
    PROVE  /\ inv' \in Seq(Invoice) /\ Len(inv') = Len(inv)
           /\ \A j \in 1..Len(inv) :
                 /\ inv'[j].user = inv[j].user /\ inv'[j].plan = inv[j].plan
                 /\ inv'[j].status = IF j = i THEN o ELSE inv[j].status
<1> DEFINE e == [inv[i] EXCEPT !.status = o]
<1>1. inv[i] \in Invoice
  BY ElementOfSeq
<1>2. /\ e \in Invoice
      /\ e.user = inv[i].user /\ e.plan = inv[i].plan /\ e.status = o
  BY <1>1 DEF Invoice
<1>3. inv' = [inv EXCEPT ![i] = e]
  BY Zenon DEF Marked
<1> HIDE DEF e
<1>4. /\ inv' \in Seq(Invoice) /\ Len(inv') = Len(inv)
      /\ \A j \in 1..Len(inv) : inv'[j] = IF j = i THEN e ELSE inv[j]
  BY <1>2, <1>3, ExceptSeq
<1> QED BY <1>2, <1>4

LEMMA FailuresFinite ==
    ASSUME failed \in [Users -> SUBSET (1..MaxEvents)], NEW u \in Users
    PROVE  IsFiniteSet(failed[u]) /\ Cardinality(failed[u]) \in Nat
<1>1. IsFiniteSet(1..MaxEvents)
  BY Numbers, FS_Interval
<1> QED BY <1>1, FS_Subset, FS_CardinalityType

-----------------------------------------------------------------------------
(* What a call of the engine keeps, whoever makes it; K holds the event it *)
(* may count as a failure.                                                 *)
Revoked(u) == sub[u] # NoSubscription /\ sub[u].status = "REVOKED"

EngineKeeps(K) ==
    /\ EngineType' /\ GrantsOK' /\ Len(inv') = Len(inv)
    /\ \A u \in Users : failed'[u] \subseteq failed[u] \cup K
    /\ \A u \in Users : FailuresCounted(u) /\ failed[u] \cap K = {} => FailuresCounted(u)'
    /\ \A u \in Users : Revoked(u) => Revoked(u)'

(* A payment is confirmed: by an event or by an administrator.             *)
LEMMA PaidKeeps ==
    ASSUME EngineType, GrantsOK, NEW i \in 1..Len(inv), inv[i].status # "SUCCEEDED",
           Marked(i, "SUCCEEDED"), Activate(i), NEW K
    PROVE  EngineKeeps(K)
<1> DEFINE w == inv[i].user
           p == inv[i].plan
           r == [status  |-> IF sub[w] # NoSubscription THEN Renewed(sub[w].status)
                             ELSE IF p = "trial" THEN "TRIAL" ELSE "ACTIVE",
                 plan    |-> p,
                 dunning |-> 0]
<1>1. /\ inv' \in Seq(Invoice) /\ Len(inv') = Len(inv) /\ Len(inv) \in Nat
      /\ \A j \in 1..Len(inv) :
            /\ inv'[j].user = inv[j].user /\ inv'[j].plan = inv[j].plan
            /\ inv'[j].status = IF j = i THEN "SUCCEEDED" ELSE inv[j].status
  BY InvoiceAt, LenProperties DEF EngineType
<1>2. w \in Users /\ p \in Plans
  <2>1. inv[i] \in Invoice
    BY ElementOfSeq DEF EngineType
  <2> QED BY <2>1 DEF Invoice
<1>3. /\ sub' = [sub EXCEPT ![w] = r]
      /\ grants' = [grants EXCEPT ![i] = @ + 1]
      /\ failed' = [failed EXCEPT ![w] = {}]
  BY Zenon DEF Activate
<1>4. /\ r \in Subscription /\ r.plan = p /\ r.dunning = 0
      /\ sub[w] # NoSubscription => r.status = Renewed(sub[w].status)
  <2>1. sub[w] # NoSubscription => sub[w].status \in DOMAIN SUB_FSM
    BY <1>2 DEF EngineType, Subscription
  <2>2. (IF sub[w] # NoSubscription THEN Renewed(sub[w].status)
         ELSE IF p = "trial" THEN "TRIAL" ELSE "ACTIVE") \in DOMAIN SUB_FSM
    BY <2>1, Statuses
  <2> QED BY <1>2, <2>2 DEF Subscription
<1>5. r # NoSubscription
  BY <1>4, NoneAssumption
<1> HIDE DEF w, p, r
<1>6. i \in 1..MaxInvoices
  BY <1>1, Numbers DEF EngineType
<1>7. EngineType'
  BY <1>1, <1>2, <1>3, <1>4, <1>6 DEF EngineType
<1>8. GrantsOK'
  <2>1. ASSUME NEW u \in Users, sub'[u] # NoSubscription
        PROVE  \E j \in 1..Len(inv') : /\ inv'[j].user = u /\ inv'[j].plan = sub'[u].plan
                                       /\ inv'[j].status = "SUCCEEDED"
    <3>1. CASE u = w
      <4>1. inv'[i].user = u /\ inv'[i].plan = sub'[u].plan /\ inv'[i].status = "SUCCEEDED"
        BY <1>1, <1>2, <1>3, <1>4, <3>1 DEF EngineType, w, p
      <4> QED BY <1>1, <4>1
    <3>2. CASE u # w
      <4>1. sub'[u] = sub[u]
        BY <1>3, <3>2 DEF EngineType
      <4>2. PICK j \in 1..Len(inv) : /\ inv[j].user = u /\ inv[j].plan = sub[u].plan
                                     /\ inv[j].status = "SUCCEEDED"
        BY <2>1, <4>1 DEF GrantsOK, GrantedOncePerPayment
      <4> QED BY <1>1, <4>1, <4>2
    <3> QED BY <3>1, <3>2
  <2>2. \A j \in 1..MaxInvoices : grants'[j] = IF j = i THEN grants[i] + 1 ELSE grants[j]
    BY <1>3, <1>6 DEF EngineType
  <2>3. \A j \in 1..Len(inv) : j \in 1..MaxInvoices
    BY <1>1, Numbers DEF EngineType
  <2>4. \A j \in 1..Len(inv') : grants'[j] = IF inv'[j].status = "SUCCEEDED" THEN 1 ELSE 0
    BY <1>1, <2>2, <2>3 DEF GrantsOK, GrantedOncePerPayment
  <2>5. \A j \in 1..MaxInvoices : j > Len(inv') => grants'[j] = 0
    BY <1>1, <1>6, <2>2 DEF GrantsOK
  <2> QED BY <2>1, <2>4, <2>5 DEF GrantsOK, GrantedOncePerPayment
<1>9. ASSUME NEW u \in Users PROVE failed'[u] \subseteq failed[u] \cup K
  BY <1>3 DEF EngineType
<1>10. ASSUME NEW u \in Users, FailuresCounted(u) PROVE FailuresCounted(u)'
  <2>1. CASE u = w
    <3>1. sub'[u].dunning = 0 /\ failed'[u] = {}
      BY <1>3, <1>4, <2>1 DEF EngineType
    <3> QED BY <3>1, FS_EmptySet DEF FailuresCounted
  <2>2. CASE u # w
    BY <1>3, <1>10, <2>2 DEF EngineType, FailuresCounted
  <2> QED BY <2>1, <2>2
<1>11. ASSUME NEW u \in Users, Revoked(u) PROVE Revoked(u)'
  <2>1. CASE u = w
    <3>1. sub'[u] = r
      BY <1>3, <2>1 DEF EngineType
    <3>2. r.status = "REVOKED"
      BY <1>4, <1>11, <2>1, Statuses DEF Revoked
    <3> QED BY <1>5, <3>1, <3>2 DEF Revoked
  <2>2. CASE u # w
    BY <1>3, <1>11, <2>2 DEF EngineType, Revoked
  <2> QED BY <2>1, <2>2
<1> QED BY <1>1, <1>7, <1>8, <1>9, <1>10, <1>11 DEF EngineKeeps

(* Any other status: nothing is granted, subscriptions change but for      *)
(* their plan.                                                             *)
LEMMA UnpaidKeeps ==
    ASSUME EngineType, GrantsOK, NEW i \in 1..Len(inv), inv[i].status # "SUCCEEDED",
           NEW o \in {"PENDING", "FAILED", "REFUNDED"},
           Marked(i, o), UNCHANGED grants,
           sub' \in [Users -> Subscription \cup {NoSubscription}],
           \A u \in Users : sub'[u] # NoSubscription => sub[u] # NoSubscription /\ sub'[u].plan = sub[u].plan
    PROVE  GrantsOK' /\ inv' \in Seq(Invoice) /\ Len(inv') = Len(inv)
<1>1. /\ inv' \in Seq(Invoice) /\ Len(inv') = Len(inv) /\ Len(inv) \in Nat
      /\ \A j \in 1..Len(inv) :
            /\ inv'[j].user = inv[j].user /\ inv'[j].plan = inv[j].plan
            /\ inv'[j].status = IF j = i THEN o ELSE inv[j].status
  <2>1. inv \in Seq(Invoice) /\ Len(inv) \in Nat
    BY LenProperties DEF EngineType
  <2>2. o \in {"PENDING", "SUCCEEDED", "FAILED", "REFUNDED"}
    OBVIOUS
  <2>3. /\ inv' \in Seq(Invoice) /\ Len(inv') = Len(inv)
        /\ \A j \in 1..Len(inv) :
              /\ inv'[j].user = inv[j].user /\ inv'[j].plan = inv[j].plan
              /\ inv'[j].status = IF j = i THEN o ELSE inv[j].status
    BY <2>1, <2>2, InvoiceAt
  <2> QED BY <2>1, <2>3
<1>2. \A j \in 1..Len(inv) : inv'[j].status = "SUCCEEDED" <=> inv[j].status = "SUCCEEDED"
  BY <1>1
<1>3. ASSUME NEW u \in Users, sub'[u] # NoSubscription
      PROVE  \E j \in 1..Len(inv') : /\ inv'[j].user = u /\ inv'[j].plan = sub'[u].plan
                                     /\ inv'[j].status = "SUCCEEDED"
  <2>1. PICK j \in 1..Len(inv) : /\ inv[j].user = u /\ inv[j].plan = sub[u].plan
                                 /\ inv[j].status = "SUCCEEDED"
    BY <1>3 DEF GrantsOK, GrantedOncePerPayment
  <2> QED BY <1>1, <1>2, <1>3, <2>1
<1> QED BY <1>1, <1>2, <1>3 DEF GrantsOK, GrantedOncePerPayment

LEMMA FailureKeeps ==
    ASSUME EngineType, GrantsOK, NEW i \in 1..Len(inv), inv[i].status # "SUCCEEDED",
           Marked(i, "FAILED"),
           NEW k \in 1..MaxEvents, CountFailure(i, k)
    PROVE  EngineKeeps({k})
<1> DEFINE w == inv[i].user
           old == sub[w]
           new == Failing(old)
<1>1. w \in Users
  <2>1. inv[i] \in Invoice
    BY ElementOfSeq DEF EngineType
  <2> QED BY <2>1 DEF Invoice
<1>2. /\ sub' = [sub EXCEPT ![w] = IF old = NoSubscription THEN NoSubscription ELSE new]
      /\ failed' = [failed EXCEPT ![w] = IF old = NoSubscription THEN @ ELSE @ \cup {k}]
      /\ UNCHANGED grants
  BY Zenon DEF CountFailure
<1>3. old # NoSubscription =>
        /\ old \in Subscription
        /\ new \in Subscription /\ new # NoSubscription
        /\ new.plan = old.plan /\ new.dunning = old.dunning + 1
        /\ new.status = AfterFailure(old.status, old.dunning + 1)
  <2> SUFFICES ASSUME old # NoSubscription
               PROVE  /\ old \in Subscription
                      /\ new \in Subscription /\ new # NoSubscription
                      /\ new.plan = old.plan /\ new.dunning = old.dunning + 1
                      /\ new.status = AfterFailure(old.status, old.dunning + 1)
    OBVIOUS
  <2>1. old \in Subscription
    BY <1>1 DEF EngineType
  <2> HIDE DEF old, w
  <2>2. AfterFailure(old.status, old.dunning + 1) \in DOMAIN SUB_FSM
    BY <2>1, Statuses DEF Subscription
  <2>3. /\ new \in Subscription
        /\ new.plan = old.plan /\ new.dunning = old.dunning + 1
        /\ new.status = AfterFailure(old.status, old.dunning + 1)
    BY <2>1, <2>2 DEF Subscription, Failing
  <2> QED BY <2>1, <2>3, NoneAssumption
<1> HIDE DEF w, old, new
<1>o. old = sub[w]
  BY DEF old
<1>4. /\ sub' \in [Users -> Subscription \cup {NoSubscription}]
      /\ failed' \in [Users -> SUBSET (1..MaxEvents)]
      /\ \A u \in Users : u # w \/ old = NoSubscription => sub'[u] = sub[u] /\ failed'[u] = failed[u]
      /\ old # NoSubscription => sub'[w] = new /\ failed'[w] = failed[w] \cup {k}
  BY <1>1, <1>2, <1>3, <1>o DEF EngineType
<1>5. GrantsOK' /\ inv' \in Seq(Invoice) /\ Len(inv') = Len(inv)
  BY <1>2, <1>3, <1>4, <1>o, UnpaidKeeps
<1>6. EngineType'
  BY <1>2, <1>4, <1>5 DEF EngineType
<1>7. ASSUME NEW u \in Users, FailuresCounted(u), failed[u] \cap {k} = {} PROVE FailuresCounted(u)'
  <2>1. CASE u = w /\ old # NoSubscription
    <3>1. /\ IsFiniteSet(failed[u]) /\ Cardinality(failed[u]) \in Nat
          /\ k \notin failed[u]
      BY <1>7, FailuresFinite DEF EngineType
    <3>2. Cardinality(failed'[u]) = Cardinality(failed[u]) + 1
      <4>1. failed'[u] = failed[u] \cup {k}
        BY <1>4, <2>1
      <4>2. Cardinality(failed[u] \cup {k}) = Cardinality(failed[u]) + 1
        BY <3>1, FS_AddElement
      <4> QED BY <4>1, <4>2
    <3>3. sub'[u].dunning = sub[u].dunning + 1 /\ sub[u].dunning \in Nat
      BY <1>3, <1>4, <1>o, <2>1 DEF Subscription
    <3>4. sub[u].dunning <= Cardinality(failed[u])
      BY <1>7, <1>o, <2>1 DEF FailuresCounted
    <3> QED BY <3>1, <3>2, <3>3, <3>4 DEF FailuresCounted
  <2>2. CASE ~(u = w /\ old # NoSubscription)
    BY <1>4, <1>7, <2>2 DEF FailuresCounted
  <2> QED BY <2>1, <2>2
<1>8. ASSUME NEW u \in Users, Revoked(u) PROVE Revoked(u)'
  <2>1. CASE u = w /\ old # NoSubscription
    <3>1. old.dunning + 1 \in Nat /\ old.status = "REVOKED"
      BY <1>3, <1>8, <1>o, <2>1 DEF Subscription, Revoked
    <3>2. new.status = "REVOKED" /\ new # NoSubscription
      BY <1>3, <2>1, <3>1, Statuses
    <3> QED BY <1>4, <2>1, <3>2 DEF Revoked
  <2>2. CASE ~(u = w /\ old # NoSubscription)
    BY <1>4, <1>8, <2>2 DEF Revoked
  <2> QED BY <2>1, <2>2
<1> QED BY <1>1, <1>4, <1>5, <1>6, <1>7, <1>8 DEF EngineKeeps

LEMMA RefundKeeps ==
    ASSUME EngineType, GrantsOK, NEW i \in 1..Len(inv), inv[i].status # "SUCCEEDED",
           Marked(i, "REFUNDED"), Refund(i), NEW K
    PROVE  EngineKeeps(K)
<1> DEFINE w == inv[i].user
           old == sub[w]
           new == [old EXCEPT !.status = "SUSPENDED"]
<1>1. w \in Users
  <2>1. inv[i] \in Invoice
    BY ElementOfSeq DEF EngineType
  <2> QED BY <2>1 DEF Invoice
<1>2. /\ sub' = [sub EXCEPT ![w] = IF old # NoSubscription /\ old.status = "ACTIVE" THEN new ELSE old]
      /\ UNCHANGED <<grants, failed>>
  BY Zenon DEF Refund
<1>3. old # NoSubscription =>
        /\ old \in Subscription /\ new \in Subscription /\ new # NoSubscription
        /\ new.plan = old.plan /\ new.dunning = old.dunning
  <2> SUFFICES ASSUME old # NoSubscription
               PROVE  /\ old \in Subscription /\ new \in Subscription /\ new # NoSubscription
                      /\ new.plan = old.plan /\ new.dunning = old.dunning
    OBVIOUS
  <2>1. old \in Subscription
    BY <1>1 DEF EngineType
  <2> HIDE DEF old, w
  <2>2. new \in Subscription /\ new.plan = old.plan /\ new.dunning = old.dunning
    BY <2>1, Statuses DEF Subscription
  <2> QED BY <2>1, <2>2, NoneAssumption
<1> HIDE DEF w, old, new
<1>o. old = sub[w]
  BY DEF old
<1>4. /\ sub' \in [Users -> Subscription \cup {NoSubscription}]
      /\ \A u \in Users : \/ sub'[u] = sub[u]
                          \/ /\ u = w /\ old # NoSubscription /\ old.status = "ACTIVE"
                             /\ sub'[u] = new
  BY <1>1, <1>2, <1>3, <1>o DEF EngineType
<1>5. GrantsOK' /\ inv' \in Seq(Invoice) /\ Len(inv') = Len(inv)
  BY <1>2, <1>3, <1>4, <1>o, UnpaidKeeps
<1>6. EngineType'
  BY <1>2, <1>4, <1>5 DEF EngineType
<1>7. ASSUME NEW u \in Users, FailuresCounted(u) PROVE FailuresCounted(u)'
  BY <1>2, <1>3, <1>4, <1>7, <1>o DEF FailuresCounted
<1>8. ASSUME NEW u \in Users, Revoked(u) PROVE Revoked(u)'
  BY <1>4, <1>8, <1>o DEF Revoked
<1>9. \A u \in Users : failed'[u] \subseteq failed[u] \cup K
  BY <1>2
<1> QED BY <1>5, <1>6, <1>7, <1>8, <1>9 DEF EngineKeeps

LEMMA ConfirmKeeps ==
    ASSUME EngineType, GrantsOK, NEW i \in 1..Len(inv), NEW k \in 1..MaxEvents,
           NEW o \in {"PENDING", "SUCCEEDED", "FAILED", "REFUNDED"}, Confirm(i, o, k)
    PROVE  EngineKeeps({k})
<1>1. CASE inv[i].status = "SUCCEEDED"
  <2>1. UNCHANGED <<inv, sub, grants, failed>>
    BY <1>1 DEF Confirm, engineVars
  <2>2. EngineType' /\ GrantsOK'
    BY <2>1 DEF EngineType, GrantsOK, GrantedOncePerPayment
  <2> QED BY <2>1, <2>2 DEF EngineKeeps, FailuresCounted, Revoked
<1>2. CASE inv[i].status # "SUCCEEDED"
  <2>0. Marked(i, o)
    BY <1>2, Zenon DEF Confirm, Marked
  <2>1. CASE o = "SUCCEEDED"
    <3>1. Activate(i)
      BY <1>2, <2>1 DEF Confirm
    <3> QED BY <1>2, <2>0, <2>1, <3>1, PaidKeeps
  <2>2. CASE o = "FAILED"
    <3>1. CountFailure(i, k)
      BY <1>2, <2>2 DEF Confirm
    <3> QED BY <1>2, <2>0, <2>2, <3>1, FailureKeeps
  <2>3. CASE o = "REFUNDED"
    <3>1. Refund(i)
      BY <1>2, <2>3 DEF Confirm
    <3> QED BY <1>2, <2>0, <2>3, <3>1, RefundKeeps
  <2>4. CASE o = "PENDING"
    <3>1. UNCHANGED <<sub, grants, failed>>
      BY <1>2, <2>4 DEF Confirm
    <3>2. GrantsOK' /\ inv' \in Seq(Invoice) /\ Len(inv') = Len(inv)
      BY <1>2, <2>0, <2>4, <3>1, UnpaidKeeps DEF EngineType
    <3>3. EngineType'
      BY <3>1, <3>2 DEF EngineType
    <3> QED BY <3>1, <3>2, <3>3 DEF EngineKeeps, FailuresCounted, Revoked
  <2> QED BY <2>1, <2>2, <2>3, <2>4
<1> QED BY <1>1, <1>2

-----------------------------------------------------------------------------
(* A call of the engine that is not about an event.                        *)
LEMMA EngineStep ==
    ASSUME BillingInv, EngineKeeps({}), UNCHANGED <<hour, seen, events, anonymous>>
    PROVE  BillingInv'
<1>1. BillingTypeOK'
  BY DEF BillingInv, BillingTypeOK, EngineKeeps, EngineType
<1>2. EventsOK'
  BY DEF BillingInv, EventsOK, EngineKeeps
<1>3. SeenOK'
  <2>1. \A u \in Users : failed'[u] \subseteq failed[u]
    BY DEF EngineKeeps
  <2> QED BY <2>1 DEF BillingInv, SeenOK
<1>4. DunningCountsFailures'
  <2>1. \A u \in Users : FailuresCounted(u) => FailuresCounted(u)'
    BY DEF EngineKeeps
  <2> QED BY <2>1 DEF BillingInv, DunningCountsFailures, FailuresCounted
<1> QED BY <1>1, <1>2, <1>3, <1>4 DEF BillingInv, EngineKeeps

(* A new event has room in the store: what it remembers are other events.  *)
LEMMA RoomForEvents ==
    ASSUME NEW L \in Nat, NEW k \in 1..L, IsFiniteSet(seen),
           seen \subseteq {NonceOfEvent(j) : j \in 1..L}, NonceOfEvent(k) \notin seen
    PROVE  Cardinality(seen) < L
<1> DEFINE N == {NonceOfEvent(j) : j \in 1..L}
           f == [j \in 1..L |-> NonceOfEvent(j)]
<1>1. IsFiniteSet(1..L) /\ Cardinality(1..L) = L
  <2>1. IsFiniteSet(1..L) /\ Cardinality(1..L) = IF 1 > L THEN 0 ELSE L - 1 + 1
    BY FS_Interval
  <2> QED BY <2>1
<1>2. f \in Surjection(1..L, N)
  BY DEF Surjection
<1>3. NonceOfEvent(k) \in N
  OBVIOUS
<1> HIDE DEF N, f
<1>4. IsFiniteSet(N) /\ Cardinality(N) <= L /\ Cardinality(N) \in Nat
  BY <1>1, <1>2, FS_Surjection, FS_CardinalityType
<1>5. IsFiniteSet(N \ {NonceOfEvent(k)}) /\ Cardinality(N \ {NonceOfEvent(k)}) = Cardinality(N) - 1
  BY <1>3, <1>4, FS_RemoveElement
<1>6. seen \in SUBSET (N \ {NonceOfEvent(k)})
  BY DEF N
<1>7. Cardinality(seen) <= Cardinality(N \ {NonceOfEvent(k)}) /\ Cardinality(seen) \in Nat
  BY <1>5, <1>6, FS_Subset, FS_CardinalityType
<1> QED BY <1>4, <1>5, <1>7

RevokedStay == \A u \in Users : Revoked(u) => Revoked(u)'

LEMMA ProcessKeeps ==
    ASSUME BillingInv, NEW k \in 1..Len(events), NEW id \in BOOLEAN, Process(k, id)
    PROVE  BillingInv' /\ RevokedStay
<1> DEFINE i == events[k].invoice
           o == events[k].outcome
           nonce == NonceOf(k, id)
<1>1. /\ Len(events) \in Nat /\ Len(events) <= MaxEvents /\ k \in 1..MaxEvents
      /\ i \in 1..Len(inv) /\ i \in Nat
      /\ o \in {"PENDING", "SUCCEEDED", "FAILED", "REFUNDED"}
  <2>1. Len(events) \in Nat /\ events[k] \in Event
    BY LenProperties, ElementOfSeq DEF BillingInv, BillingTypeOK
  <2>2. Len(events) <= MaxEvents /\ i \in 1..Len(inv)
    BY DEF BillingInv, EventsOK
  <2> QED BY <2>1, <2>2, Numbers DEF Event
<1>2. EngineType /\ GrantsOK
  BY DEF BillingInv, BillingTypeOK, EngineType
<1>3. EngineKeeps({k})
  BY <1>1, <1>2, ConfirmKeeps DEF Process
<1>4. /\ UNCHANGED <<hour, events>> /\ anonymous' = (anonymous \/ ~id)
      /\ seen' = IF Cardinality(seen) < NonceMax THEN seen \cup {nonce} ELSE seen
      /\ id => nonce = NonceOfEvent(k) /\ nonce \notin seen
      /\ nonce \in Nonce
  BY <1>1 DEF Process, Remember, NonceOf, NonceOfEvent, Nonce
<1> HIDE DEF i, o, nonce
<1>5. IsFiniteSet(seen') /\ Cardinality(seen') <= NonceMax
  <2>1. IsFiniteSet(seen) /\ Cardinality(seen) <= NonceMax /\ Cardinality(seen) \in Nat
    BY FS_CardinalityType DEF BillingInv, BillingTypeOK, SeenOK
  <2>2. /\ IsFiniteSet(seen \cup {nonce})
        /\ Cardinality(seen \cup {nonce}) = Cardinality(seen)
              \/ Cardinality(seen \cup {nonce}) = Cardinality(seen) + 1
    BY <2>1, FS_AddElement
  <2> QED BY <1>4, <2>1, <2>2, Numbers
<1>6. BillingTypeOK'
  <2>1. seen' \subseteq Nonce /\ anonymous' \in BOOLEAN
    BY <1>4 DEF BillingInv, BillingTypeOK
  <2> QED BY <1>3, <1>4, <1>5, <2>1 DEF BillingInv, BillingTypeOK, EngineKeeps, EngineType
<1>7. EventsOK'
  BY <1>3, <1>4 DEF BillingInv, EventsOK, EngineKeeps
<1>8. ASSUME ~anonymous', NonceMax >= MaxEvents
      PROVE  /\ seen' = seen \cup {NonceOfEvent(k)}
             /\ seen \subseteq {NonceOfEvent(j) : j \in 1..Len(events)}
             /\ \A u \in Users : \A j \in failed[u] : NonceOfEvent(j) \in seen
             /\ NonceOfEvent(k) \notin seen
             /\ ~anonymous
  <2>1. id /\ ~anonymous
    BY <1>4, <1>8
  <2>2. /\ seen \subseteq {NonceOfEvent(j) : j \in 1..Len(events)}
        /\ \A u \in Users : \A j \in failed[u] : NonceOfEvent(j) \in seen
        /\ IsFiniteSet(seen)
    BY <1>8, <2>1 DEF BillingInv, SeenOK
  <2>3. Cardinality(seen) < Len(events)
    BY <1>1, <1>4, <2>1, <2>2, RoomForEvents
  <2>4. Cardinality(seen) < NonceMax
    BY <1>1, <1>8, <2>2, <2>3, Numbers, FS_CardinalityType
  <2> QED BY <1>4, <2>1, <2>2, <2>4
<1>9. SeenOK'
  <2>1. ASSUME ~anonymous', NonceMax >= MaxEvents
        PROVE  /\ seen' \subseteq {NonceOfEvent(j) : j \in 1..Len(events')}
               /\ \A u \in Users : \A j \in failed'[u] : NonceOfEvent(j) \in seen'
    <3>1. \A u \in Users : failed'[u] \subseteq failed[u] \cup {k}
      BY <1>3 DEF EngineKeeps
    <3> QED BY <1>4, <1>8, <2>1, <3>1
  <2> QED BY <1>5, <2>1 DEF SeenOK
<1>10. DunningCountsFailures'
  <2>1. ASSUME ~anonymous', NonceMax >= MaxEvents, NEW u \in Users PROVE FailuresCounted(u)'
    <3>1. failed[u] \cap {k} = {}
      BY <1>8, <2>1
    <3>2. FailuresCounted(u)
      BY <1>8, <2>1 DEF BillingInv, DunningCountsFailures, FailuresCounted
    <3> QED BY <1>3, <3>1, <3>2 DEF EngineKeeps
  <2> QED BY <2>1 DEF DunningCountsFailures, FailuresCounted
<1> QED BY <1>3, <1>6, <1>7, <1>9, <1>10 DEF BillingInv, EngineKeeps, RevokedStay

(* An administrator moves a subscription, or revokes it.                   *)
LEMMA StatusKeeps ==
    ASSUME BillingInv, NEW u \in Users, sub[u] # NoSubscription, NEW s \in DOMAIN SUB_FSM,
           sub[u].status = "REVOKED" => s = "REVOKED",
           sub' = [sub EXCEPT ![u].status = s],
           UNCHANGED <<hour, inv, grants, failed, seen, events, anonymous>>
    PROVE  BillingInv' /\ RevokedStay
<1> DEFINE new == [sub[u] EXCEPT !.status = s]
<1>1. sub' = [sub EXCEPT ![u] = new]
  BY Zenon
<1>2. sub[u] \in Subscription /\ sub \in [Users -> Subscription \cup {NoSubscription}]
  BY DEF BillingInv, BillingTypeOK
<1>3. /\ new \in Subscription
      /\ new.plan = sub[u].plan /\ new.dunning = sub[u].dunning /\ new.status = s
  BY <1>2 DEF Subscription
<1>4. new # NoSubscription
  BY <1>3, NoneAssumption
<1> HIDE DEF new
<1>5. /\ sub' \in [Users -> Subscription \cup {NoSubscription}]
      /\ \A w \in Users : sub'[w] = IF w = u THEN new ELSE sub[w]
  BY <1>1, <1>2, <1>3
<1>6. EngineType' /\ GrantsOK'
  <2>1. \A w \in Users : sub'[w] # NoSubscription => sub[w] # NoSubscription /\ sub'[w].plan = sub[w].plan
    BY <1>3, <1>5
  <2> QED BY <1>5, <2>1
          DEF BillingInv, BillingTypeOK, EngineType, GrantsOK, GrantedOncePerPayment
<1>7. \A w \in Users : (FailuresCounted(w) => FailuresCounted(w)') /\ (Revoked(w) => Revoked(w)')
  BY <1>3, <1>4, <1>5 DEF FailuresCounted, Revoked
<1>8. EngineKeeps({})
  BY <1>6, <1>7 DEF EngineKeeps
<1> QED BY <1>7, <1>8, EngineStep DEF RevokedStay

LEMMA CheckoutKeeps ==
    ASSUME BillingInv, NEW u \in Users, NEW p \in Plans, Checkout(u, p)
    PROVE  BillingInv' /\ RevokedStay
<1> DEFINE r == [user |-> u, plan |-> p, hour |-> hour, status |-> "PENDING"]
           new == Len(inv) + 1
<1>1. /\ inv \in Seq(Invoice) /\ Len(inv) \in Nat /\ r \in Invoice
      /\ Len(inv) < MaxInvoices /\ inv' = Append(inv, r)
      /\ UNCHANGED <<hour, sub, grants, failed, seen, events, anonymous>>
  BY LenProperties DEF BillingInv, BillingTypeOK, Checkout, Invoice
<1>r. r.status = "PENDING"
  OBVIOUS
<1> HIDE DEF r
<1>2. /\ inv' \in Seq(Invoice) /\ Len(inv') = new /\ inv'[new] = r
      /\ \A j \in 1..Len(inv) : inv'[j] = inv[j]
  BY <1>1, AppendProperties
<1>3. BillingTypeOK'
  BY <1>1, <1>2, Numbers DEF BillingInv, BillingTypeOK
<1>4. GrantsOK'
  <2>1. \A j \in 1..new : j \in 1..Len(inv) \/ j = new
    BY <1>1
  <2>2. new \in 1..MaxInvoices /\ grants[new] = 0
    BY <1>1, Numbers DEF BillingInv, GrantsOK
  <2>3. \A j \in 1..Len(inv') : grants'[j] = IF inv'[j].status = "SUCCEEDED" THEN 1 ELSE 0
    BY <1>1, <1>2, <1>r, <2>1, <2>2 DEF BillingInv, GrantsOK, GrantedOncePerPayment
  <2>4. \A w \in Users : sub'[w] # NoSubscription =>
           \E j \in 1..Len(inv') :
              inv'[j].user = w /\ inv'[j].plan = sub'[w].plan /\ inv'[j].status = "SUCCEEDED"
    BY <1>1, <1>2 DEF BillingInv, GrantsOK, GrantedOncePerPayment
  <2>5. \A j \in 1..MaxInvoices : j > Len(inv') => grants'[j] = 0
    BY <1>1, <1>2 DEF BillingInv, GrantsOK
  <2> QED BY <2>3, <2>4, <2>5 DEF GrantsOK, GrantedOncePerPayment
<1>5. EventsOK'
  BY <1>1, <1>2 DEF BillingInv, EventsOK
<1>6. SeenOK' /\ DunningCountsFailures'
  BY <1>1 DEF BillingInv, SeenOK, DunningCountsFailures
<1>7. RevokedStay
  BY <1>1 DEF RevokedStay, Revoked
<1> QED BY <1>3, <1>4, <1>5, <1>6, <1>7 DEF BillingInv

LEMMA EmitKeeps ==
    ASSUME BillingInv, NEW i \in 1..Len(inv), NEW report \in {"payment", "failure", "refund"},
           Emit(i, report)
    PROVE  BillingInv' /\ RevokedStay
<1>1. UNCHANGED <<hour, inv, sub, grants, failed, seen, anonymous>> /\ Len(events) < MaxEvents
  BY DEF Emit, engineVars
<1>2. PICK o \in Outcomes(report) :
          events' = Append(events, [invoice |-> i, reports |-> report, outcome |-> o])
  BY DEF Emit
<1> DEFINE e == [invoice |-> i, reports |-> report, outcome |-> o]
<1>3. /\ e \in Event /\ e.invoice = i
      /\ events \in Seq(Event) /\ Len(events) \in Nat
  <2>1. o \in {"PENDING", "SUCCEEDED", "FAILED", "REFUNDED"}
    BY <1>2 DEF Outcomes
  <2>2. i \in 1..MaxInvoices
    BY LenProperties, Numbers DEF BillingInv, BillingTypeOK
  <2> QED BY <2>1, <2>2, LenProperties DEF BillingInv, BillingTypeOK, Event
<1> HIDE DEF e
<1>4. /\ events' \in Seq(Event) /\ Len(events') = Len(events) + 1
      /\ events'[Len(events) + 1] = e
      /\ \A k \in 1..Len(events) : events'[k] = events[k]
  BY <1>2, <1>3, AppendProperties DEF e
<1>5. BillingTypeOK'
  BY <1>1, <1>4 DEF BillingInv, BillingTypeOK
<1>6. GrantsOK' /\ DunningCountsFailures'
  BY <1>1 DEF BillingInv, GrantsOK, GrantedOncePerPayment, DunningCountsFailures
<1>7. EventsOK'
  <2>1. Len(events') <= MaxEvents
    BY <1>1, <1>3, <1>4, Numbers
  <2>2. \A k \in 1..Len(events') : k \in 1..Len(events) \/ k = Len(events) + 1
    BY <1>3, <1>4
  <2> QED BY <1>1, <1>3, <1>4, <2>1, <2>2 DEF BillingInv, EventsOK
<1>8. SeenOK'
  <2>1. {NonceOfEvent(k) : k \in 1..Len(events)} \subseteq {NonceOfEvent(k) : k \in 1..Len(events')}
    <3>1. 1..Len(events) \subseteq 1..Len(events')
      BY <1>3, <1>4
    <3> QED BY <3>1
  <2> QED BY <1>1, <2>1 DEF BillingInv, SeenOK
<1>9. RevokedStay
  BY <1>1 DEF RevokedStay, Revoked
<1> QED BY <1>5, <1>6, <1>7, <1>8, <1>9 DEF BillingInv

-----------------------------------------------------------------------------
LEMMA BillingStarts == BillingInit => BillingInv
<1> SUFFICES ASSUME BillingInit PROVE BillingInv
  OBVIOUS
<1>1. /\ inv = <<>> /\ Len(inv) = 0 /\ inv \in Seq(Invoice)
      /\ events = <<>> /\ Len(events) = 0 /\ events \in Seq(Event)
  BY DEF BillingInit
<1>2. IsFiniteSet(seen) /\ Cardinality(seen) = 0 /\ seen = {}
  BY FS_EmptySet DEF BillingInit
<1>3. BillingTypeOK
  <2>1. /\ sub \in [Users -> Subscription \cup {NoSubscription}]
        /\ failed \in [Users -> SUBSET (1..MaxEvents)]
        /\ grants \in [1..MaxInvoices -> Nat]
        /\ anonymous \in BOOLEAN
    BY DEF BillingInit
  <2>2. hour \in 0..MaxHours /\ Len(inv) <= MaxInvoices /\ Cardinality(seen) <= NonceMax
    BY <1>1, <1>2, Numbers DEF BillingInit
  <2> QED BY <1>1, <1>2, <2>1, <2>2 DEF BillingTypeOK
<1>4. GrantsOK /\ DunningCountsFailures
  BY <1>1 DEF BillingInit, GrantsOK, GrantedOncePerPayment, DunningCountsFailures
<1>5. EventsOK
  BY <1>1, Numbers DEF EventsOK
<1>6. SeenOK
  BY <1>2 DEF BillingInit, SeenOK
<1> QED BY <1>3, <1>4, <1>5, <1>6 DEF BillingInv

LEMMA BillingKeeps == BillingInv /\ [BillingNext]_billingVars => BillingInv' /\ RevokedStay
<1> SUFFICES ASSUME BillingInv, [BillingNext]_billingVars PROVE BillingInv' /\ RevokedStay
  OBVIOUS
<1>1. ASSUME NEW u \in Users, NEW p \in Plans, Checkout(u, p)
      PROVE  BillingInv' /\ RevokedStay
  BY <1>1, CheckoutKeeps
<1>2. ASSUME NEW u \in Users, Cancel(u) \/ Suspend(u) PROVE BillingInv' /\ RevokedStay
  <2>1. PICK s \in {"CANCELLED", "SUSPENDED"} : Move(u, s)
    BY <1>2 DEF Cancel, Suspend
  <2>2. sub[u] \in Subscription /\ s \in DOMAIN SUB_FSM /\ sub[u].status # "REVOKED"
    <3>1. sub[u] \in Subscription /\ s \in SUB_FSM[sub[u].status]
      BY <2>1 DEF BillingInv, BillingTypeOK, Move
    <3> QED BY <3>1, Statuses DEF Subscription
  <2> QED BY <2>1, <2>2, StatusKeeps DEF Move
<1>3. ASSUME NEW u \in Users, Revoke(u) PROVE BillingInv' /\ RevokedStay
  BY <1>3, Statuses, StatusKeeps DEF Revoke
<1>4. ASSUME NEW i \in 1..Len(inv), AdminConfirm(i) PROVE BillingInv' /\ RevokedStay
  <2>1. EngineType /\ GrantsOK
    BY DEF BillingInv, BillingTypeOK, EngineType
  <2>2. Marked(i, "SUCCEEDED")
    BY <1>4, Zenon DEF AdminConfirm, Marked
  <2>3. EngineKeeps({})
    BY <1>4, <2>1, <2>2, PaidKeeps DEF AdminConfirm
  <2>4. UNCHANGED <<hour, seen, events, anonymous>>
    BY <1>4, Zenon DEF AdminConfirm
  <2> QED BY <2>3, <2>4, EngineStep DEF EngineKeeps, RevokedStay
<1>5. ASSUME NEW i \in 1..Len(inv), NEW r \in {"payment", "failure", "refund"}, Emit(i, r)
      PROVE  BillingInv' /\ RevokedStay
  BY <1>5, EmitKeeps
<1>6. ASSUME NEW k \in 1..Len(events), NEW id \in BOOLEAN, Deliver(k, id)
      PROVE  BillingInv' /\ RevokedStay
  BY <1>6, ProcessKeeps DEF Deliver
<1>7. CASE HourPasses \/ UNCHANGED billingVars
  <2>1. UNCHANGED <<inv, sub, grants, failed, seen, events, anonymous>>
    BY <1>7 DEF HourPasses, billingVars, engineVars
  <2>2. hour' \in 0..MaxHours
    BY <1>7, Numbers DEF HourPasses, billingVars, BillingInv, BillingTypeOK
  <2>3. BillingTypeOK'
    BY <2>1, <2>2 DEF BillingInv, BillingTypeOK
  <2>4. GrantsOK' /\ EventsOK' /\ SeenOK' /\ DunningCountsFailures' /\ RevokedStay
    BY <2>1 DEF BillingInv, GrantsOK, GrantedOncePerPayment, EventsOK, SeenOK,
                DunningCountsFailures, RevokedStay, Revoked
  <2> QED BY <2>3, <2>4 DEF BillingInv
<1> QED BY <1>1, <1>2, <1>3, <1>4, <1>5, <1>6, <1>7 DEF BillingNext

THEOREM BillingInvariant == BillingSpec => []BillingInv
BY BillingStarts, BillingKeeps, PTL DEF BillingSpec

-----------------------------------------------------------------------------
(* Whatever is delivered late, twice, out of order or by hand: a           *)
(* subscription rests on a paid invoice, an invoice grants once, and       *)
(* dunning never counts a failure twice while ids come and fit.            *)
THEOREM AccountsAlwaysAgree == BillingSpec => []AccountsAgree
<1>1. BillingInv => AccountsAgree
  BY DEF BillingInv, GrantsOK, AccountsAgree
<1> QED BY <1>1, BillingInvariant, PTL

(* A revoked subscription stays revoked, whatever arrives for it.          *)
THEOREM RevokedStaysRevoked == BillingSpec => RevokedIsTerminal
<1> DEFINE A == \A u \in Users : sub[u] # NoSubscription /\ sub[u].status = "REVOKED" =>
                   sub'[u] # NoSubscription /\ sub'[u].status = "REVOKED"
<1>1. BillingInv /\ [BillingNext]_billingVars => [A]_billingVars
  BY BillingKeeps DEF RevokedStay, Revoked
<1> HIDE DEF A
<1>2. BillingSpec => [][A]_billingVars
  BY <1>1, BillingInvariant, PTL DEF BillingSpec
<1> QED BY <1>2 DEF RevokedIsTerminal, A
-----------------------------------------------------------------------------
(* The composition: to each ledger a behaviour of Ledgers is one of its    *)
(* own, in which it may also rest.                                         *)
THEOREM LedgersRunEach == LedgersSpec => Spec /\ RecoverySpec /\ BillingSpec
<1>1. LedgersInit => Init /\ RecoveryInit /\ BillingInit
  BY DEF LedgersInit
<1>2. [LedgersNext]_ledgersVars =>
        [Next]_osmVars /\ [RecoveryNext]_recoveryVars /\ [BillingNext]_billingVars
  <2> SUFFICES ASSUME [LedgersNext]_ledgersVars
               PROVE  [Next]_osmVars /\ [RecoveryNext]_recoveryVars /\ [BillingNext]_billingVars
    OBVIOUS
  <2>1. ASSUME NEW p \in Parts, Turn(p)
        PROVE  /\ p = "registry" \/ UNCHANGED osmVars
               /\ p = "recovery" \/ UNCHANGED recoveryVars
               /\ p = "billing" \/ UNCHANGED billingVars
    BY <2>1, Zenon DEF Turn
  <2>2. UNCHANGED ledgersVars =>
           UNCHANGED osmVars /\ UNCHANGED recoveryVars /\ UNCHANGED billingVars
    BY Zenon DEF ledgersVars
  <2> QED BY <2>1, <2>2 DEF LedgersNext, Parts
<1> QED BY <1>1, <1>2, PTL DEF LedgersSpec, Spec, RecoverySpec, BillingSpec

(* So the composition keeps every safety property of its parts: what the   *)
(* run of Ledgers checks holds for any constants.                          *)
THEOREM LedgersAreSafe ==
    LedgersSpec => /\ []StoreOK /\ LiveEvictedLast /\ FreshNeverExpires /\ ImplementsLifecycle
                   /\ []OnePlace /\ LostOnlyByStopOrOverflow
                   /\ []AccountsAgree /\ RevokedIsTerminal
BY LedgersRunEach, StoreCorrect, LiveTicketsEvictedLast, FreshTicketsNeverExpire, RefinesLifecycle,
   OrdersAreInOnePlace, OrdersAreNotForgotten, AccountsAlwaysAgree, RevokedStaysRevoked, PTL
=============================================================================
