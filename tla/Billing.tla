------------------------------ MODULE Billing ------------------------------
(***************************************************************************)
(* backend/billing: the BillingEngine, the WebhookProcessor in front of it *)
(* and a payment provider that reports every payment by events it may      *)
(* deliver late, repeatedly and in any order.  The engine's methods are    *)
(* synchronous, so each call is one step.  Size, timestamp and signature   *)
(* checks only turn a delivery away; a refused delivery is one that did    *)
(* not happen.                                                             *)
(***************************************************************************)
EXTENDS Integers, Sequences, FiniteSets

CONSTANTS Users,
          Provider,         \* "stripe", "zarinpal" or "manual" (no webhook)
          NonceMax,         \* NONCE_STORE_MAX
          Plans,            \* PLANS; "trial" among them starts as a trial
          MaxHours, MaxInvoices, MaxEvents, MaxDunning,     \* bounds
          NoSubscription

DunningThreshold == 3

ASSUME BillingAssumption ==
    /\ Provider \in {"stripe", "zarinpal", "manual"}
    /\ {NonceMax, MaxHours, MaxInvoices, MaxEvents, MaxDunning} \subseteq Nat
    /\ "trial" \in Plans

VARIABLES
    hour,       \* the current idempotency window
    inv,        \* _invoices, in order of creation
    sub,        \* _subscriptions
    seen,       \* _seen_ids
    events,     \* events the provider has emitted
    grants,     \* calls of on_license_activate made for each invoice
    failed,     \* failures reported to each user since the last activation
    anonymous   \* an event was delivered without its id

engineVars  == <<inv, sub, grants, failed>>
billingVars == <<hour, engineVars, seen, events, anonymous>>

SUB_FSM ==
    [TRIAL     |-> {"ACTIVE", "EXPIRED", "CANCELLED"},
     ACTIVE    |-> {"PAST_DUE", "EXPIRED", "CANCELLED", "SUSPENDED"},
     PAST_DUE  |-> {"ACTIVE", "SUSPENDED", "EXPIRED", "CANCELLED"},
     SUSPENDED |-> {"ACTIVE", "REVOKED", "CANCELLED"},
     EXPIRED   |-> {"ACTIVE"},
     CANCELLED |-> {"ACTIVE"},
     REVOKED   |-> {}]

Invoice      == [user : Users, plan : Plans, hour : 0..MaxHours,
                 status : {"PENDING", "SUCCEEDED", "FAILED", "REFUNDED"}]
Subscription == [status : DOMAIN SUB_FSM, plan : Plans, dunning : Nat]
ASSUME NoneAssumption == NoSubscription \notin Subscription

Event        == [invoice : 1..MaxInvoices, reports : {"payment", "failure", "refund"},
                 outcome : {"PENDING", "SUCCEEDED", "FAILED", "REFUNDED"}]
Nonce        == [of : {"event", "invoice"}, n : Nat]

BillingTypeOK == /\ hour \in 0..MaxHours
                 /\ inv \in Seq(Invoice)
                 /\ Len(inv) <= MaxInvoices
                 /\ sub \in [Users -> Subscription \cup {NoSubscription}]
                 /\ seen \subseteq Nonce
                 /\ Cardinality(seen) <= NonceMax
                 /\ events \in Seq(Event)
                 /\ grants \in [1..MaxInvoices -> Nat]
                 /\ failed \in [Users -> SUBSET (1..MaxEvents)]
                 /\ anonymous \in BOOLEAN

BillingInit == /\ hour = 0
               /\ inv = <<>>
               /\ sub = [u \in Users |-> NoSubscription]
               /\ seen = {}
               /\ events = <<>>
               /\ grants = [i \in 1..MaxInvoices |-> 0]
               /\ failed = [u \in Users |-> {}]
               /\ anonymous = FALSE
-----------------------------------------------------------------------------
(* The payment provider.                                                   *)

(* What confirm_payment() makes of an event.  Stripe's status is looked up *)
(* at the top of the event, where it may be missing: PENDING.  A refund's  *)
(* status is filled in by _dispatch().                                     *)
Outcomes(report) ==
    CASE report = "payment" -> {"SUCCEEDED"} \cup (IF Provider = "stripe" THEN {"PENDING"} ELSE {})
      [] report = "failure" -> {"FAILED"} \cup (IF Provider = "stripe" THEN {"PENDING"} ELSE {})
      [] report = "refund"  -> {"REFUNDED"}

Reported(i) == {events[k].reports : k \in {k \in 1..Len(events) : events[k].invoice = i}}

(* Payments may fail several times before one succeeds; only Stripe has a  *)
(* refund event.                                                           *)
Emit(i, report) ==
    /\ Provider # "manual"
    /\ Len(events) < MaxEvents
    /\ CASE report \in {"payment", "failure"} -> "payment" \notin Reported(i)
         [] report = "refund" -> /\ Provider = "stripe"
                                 /\ "payment" \in Reported(i)
                                 /\ "refund" \notin Reported(i)
    /\ \E o \in Outcomes(report) :
          events' = Append(events, [invoice |-> i, reports |-> report, outcome |-> o])
    /\ UNCHANGED <<hour, engineVars, seen, anonymous>>
-----------------------------------------------------------------------------
(* The billing engine.                                                     *)

(* checkout() in a window that has none of this user and plan yet; a later *)
(* one returns the same invoice.                                           *)
Checkout(u, p) ==
    /\ Len(inv) < MaxInvoices
    /\ \A i \in 1..Len(inv) :
          ~(inv[i].user = u /\ inv[i].plan = p /\ inv[i].hour = hour)
    /\ inv' = Append(inv, [user |-> u, plan |-> p, hour |-> hour, status |-> "PENDING"])
    /\ UNCHANGED <<hour, sub, grants, failed, seen, events, anonymous>>

\* activation does not look at the status
MutRenewed(s) == "ACTIVE"

Renewed(s) == IF "ACTIVE" \in SUB_FSM[s] THEN "ACTIVE" ELSE s

(* _activate(): on_license_activate is called whatever the status.         *)
Activate(i) ==
    LET u == inv[i].user
        p == inv[i].plan
    IN  /\ sub' = [sub EXCEPT ![u] =
                     [status  |-> IF @ # NoSubscription THEN Renewed(@.status)
                                  ELSE IF p = "trial" THEN "TRIAL" ELSE "ACTIVE",
                      plan    |-> p,
                      dunning |-> 0]]
        /\ grants' = [grants EXCEPT ![i] = @ + 1]
        /\ failed' = [failed EXCEPT ![u] = {}]

AfterFailure(s, dunning) ==
    CASE s = "ACTIVE" -> "PAST_DUE"
      [] s = "PAST_DUE" /\ dunning >= DunningThreshold -> "SUSPENDED"
      [] OTHER -> s

(* The subscription after one more failed payment.                       *)
Failing(s) == [status  |-> AfterFailure(s.status, s.dunning + 1),
               plan    |-> s.plan,
               dunning |-> s.dunning + 1]

(* _handle_payment_failure(), for event k.                                 *)
CountFailure(i, k) ==
    LET u == inv[i].user
    IN  /\ sub' = [sub EXCEPT ![u] = IF @ = NoSubscription THEN NoSubscription ELSE Failing(@)]
        /\ failed' = [failed EXCEPT ![u] = IF sub[u] = NoSubscription THEN @ ELSE @ \cup {k}]
        /\ UNCHANGED grants

(* _handle_refund()                                                        *)
Refund(i) ==
    LET u == inv[i].user
    IN  /\ sub' = [sub EXCEPT ![u] =
                     IF @ # NoSubscription /\ @.status = "ACTIVE"
                     THEN [@ EXCEPT !.status = "SUSPENDED"] ELSE @]
        /\ UNCHANGED <<grants, failed>>

\* confirms whatever the invoice's status
MutConfirm(i, outcome, k) ==
    /\ inv' = [inv EXCEPT ![i].status = outcome]
    /\ CASE outcome = "SUCCEEDED" -> Activate(i)
         [] outcome = "FAILED"    -> CountFailure(i, k)
         [] outcome = "REFUNDED"  -> Refund(i)
         [] OTHER                 -> UNCHANGED <<sub, grants, failed>>

(* confirm_from_webhook(): nothing happens to an invoice that succeeded.   *)
Confirm(i, outcome, k) ==
    IF inv[i].status = "SUCCEEDED"
    THEN UNCHANGED engineVars
    ELSE /\ inv' = [inv EXCEPT ![i].status = outcome]
         /\ CASE outcome = "SUCCEEDED" -> Activate(i)
              [] outcome = "FAILED"    -> CountFailure(i, k)
              [] outcome = "REFUNDED"  -> Refund(i)
              [] OTHER                 -> UNCHANGED <<sub, grants, failed>>

AdminConfirm(i) ==
    /\ inv[i].status # "SUCCEEDED"
    /\ inv' = [inv EXCEPT ![i].status = "SUCCEEDED"]
    /\ Activate(i)
    /\ UNCHANGED <<hour, seen, events, anonymous>>

(* cancel() and suspend(): a move the table does not allow raises.         *)
Move(u, s) ==
    /\ sub[u] # NoSubscription
    /\ s \in SUB_FSM[sub[u].status]
    /\ sub' = [sub EXCEPT ![u].status = s]
    /\ UNCHANGED <<hour, inv, grants, failed, seen, events, anonymous>>

Cancel(u)  == Move(u, "CANCELLED")
Suspend(u) == Move(u, "SUSPENDED")

(* revoke() suspends first where it must and can.                          *)
Revoke(u) ==
    /\ sub[u] # NoSubscription
    /\ \/ sub[u].status = "SUSPENDED"
       \/ "SUSPENDED" \in SUB_FSM[sub[u].status]
    /\ sub' = [sub EXCEPT ![u].status = "REVOKED"]
    /\ UNCHANGED <<hour, inv, grants, failed, seen, events, anonymous>>
-----------------------------------------------------------------------------
(* The webhook processor.                                                  *)

\* the caller of process() may pass no event id
NonceOf(k, id) == IF id THEN [of |-> "event", n |-> k]
                  ELSE [of |-> "invoice", n |-> events[k].invoice]

\* nothing is remembered
MutRemember(nonce) == seen' = seen

Remember(nonce) == seen' = IF Cardinality(seen) < NonceMax THEN seen \cup {nonce} ELSE seen

\* an event for an invoice that has failed before is skipped
MutProcess(k, id) ==
    /\ ~(id /\ NonceOf(k, id) \in seen)
    /\ Remember(NonceOf(k, id))
    /\ IF inv[events[k].invoice].status = "FAILED"
       THEN UNCHANGED engineVars
       ELSE Confirm(events[k].invoice, events[k].outcome, k)
    /\ anonymous' = (anonymous \/ ~id)
    /\ UNCHANGED <<hour, events>>

(* process() of event k, which is remembered before it is dispatched; a    *)
(* duplicate is accepted and skipped.                                      *)
Process(k, id) ==
    /\ ~(id /\ NonceOf(k, id) \in seen)
    /\ Remember(NonceOf(k, id))
    /\ Confirm(events[k].invoice, events[k].outcome, k)
    /\ anonymous' = (anonymous \/ ~id)
    /\ UNCHANGED <<hour, events>>

(* Bound: without its id a failure can be delivered for ever.              *)
Deliver(k, id) ==
    /\ Process(k, id)
    /\ \A u \in Users : sub'[u] # NoSubscription => sub'[u].dunning <= MaxDunning

HourPasses ==
    /\ hour < MaxHours
    /\ hour' = hour + 1
    /\ UNCHANGED <<engineVars, seen, events, anonymous>>

BillingNext == \/ \E u \in Users, p \in Plans : Checkout(u, p)
               \/ \E u \in Users : Cancel(u) \/ Suspend(u) \/ Revoke(u)
               \/ \E i \in 1..Len(inv) : AdminConfirm(i)
               \/ \E i \in 1..Len(inv), r \in {"payment", "failure", "refund"} : Emit(i, r)
               \/ \E k \in 1..Len(events) : Deliver(k, TRUE) \/ Deliver(k, FALSE)
               \/ HourPasses

BillingSpec == BillingInit /\ [][BillingNext]_billingVars

(* The provider delivers every event at least once, with its id.           *)
BillingFairness == \A k \in 1..MaxEvents : WF_billingVars(k <= Len(events) /\ Deliver(k, TRUE))

FairBillingSpec == BillingSpec /\ BillingFairness
-----------------------------------------------------------------------------
(* A subscription rests on a paid invoice of its user for the plan it      *)
(* grants, and an invoice grants a licence once, when it is paid, however  *)
(* often its events arrive and whoever confirms it.                        *)
GrantedOncePerPayment ==
    /\ \A u \in Users : sub[u] # NoSubscription =>
          \E i \in 1..Len(inv) :
             inv[i].user = u /\ inv[i].plan = sub[u].plan /\ inv[i].status = "SUCCEEDED"
    /\ \A i \in 1..Len(inv) : grants[i] = IF inv[i].status = "SUCCEEDED" THEN 1 ELSE 0

(* No payment, failure, refund or admin action changes the status of a     *)
(* revoked subscription.                                                   *)
RevokedIsTerminal ==
    [][\A u \in Users : sub[u] # NoSubscription /\ sub[u].status = "REVOKED" =>
          sub'[u] # NoSubscription /\ sub'[u].status = "REVOKED"]_billingVars

(* While events come with their ids, and there is room to remember them,   *)
(* a redelivered failure counts once: dunning never runs ahead of the      *)
(* failures that happened.                                                 *)
DunningCountsFailures ==
    ~anonymous /\ NonceMax >= MaxEvents =>
        \A u \in Users : sub[u] # NoSubscription => sub[u].dunning <= Cardinality(failed[u])

(* Grants and dunning follow what happened at the provider.                *)
AccountsAgree == BillingTypeOK /\ GrantedOncePerPayment /\ DunningCountsFailures

(* A reported payment whose status confirm_payment() can read is credited, *)
(* in whatever order failures, duplicates and refunds arrive.              *)
PaymentIsCredited ==
    \A i \in 1..MaxInvoices :
        (\E k \in 1..Len(events) : events[k].invoice = i /\ events[k].outcome = "SUCCEEDED")
            ~> (i <= Len(inv) /\ inv[i].status = "SUCCEEDED")
-----------------------------------------------------------------------------
(* A statement of the repository the code does not meet.                   *)

(* test_refund_suspends_subscription: a refund that was processed leaves   *)
(* its invoice refunded.                                                   *)
RefundTakesEffect ==
    \A k \in 1..Len(events) :
        events[k].reports = "refund" /\ [of |-> "event", n |-> k] \in seen =>
            inv[events[k].invoice].status # "SUCCEEDED"
=============================================================================
