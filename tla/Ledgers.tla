------------------------------ MODULE Ledgers -------------------------------
(***************************************************************************)
(* The parts that keep books of what was promised and share no state: the  *)
(* order registry, the retry queue of failed orders, and billing.  As in   *)
(* Services, each behaviour exercises one of them, part, while the others  *)
(* rest in their initial states.                                           *)
(***************************************************************************)
EXTENDS OrderStateMachine, FailureRecovery, Billing

VARIABLE part

ledgersVars == <<part, osmVars, recoveryVars, billingVars>>

Parts == {"registry", "recovery", "billing"}

LedgersInit == /\ part \in Parts
               /\ Init /\ RecoveryInit /\ BillingInit

(* p's turn: nothing else moves.                                           *)
Turn(p) == /\ part = p
           /\ UNCHANGED part
           /\ IF p = "registry" THEN TRUE ELSE UNCHANGED osmVars
           /\ IF p = "recovery" THEN TRUE ELSE UNCHANGED recoveryVars
           /\ IF p = "billing" THEN TRUE ELSE UNCHANGED billingVars

LedgersNext == \/ Turn("registry") /\ Next
               \/ Turn("recovery") /\ RecoveryNext
               \/ Turn("billing") /\ BillingNext

(* The fairness of the retry loops and of the provider, as their modules   *)
(* justify it.                                                             *)
LedgersFairness ==
    /\ \A l \in Loops : WF_ledgersVars(Turn("recovery") /\ LoopStep(l))
    /\ \A k \in 1..MaxEvents :
          WF_ledgersVars(Turn("billing") /\ k <= Len(events) /\ Deliver(k, TRUE))

LedgersSpec == LedgersInit /\ [][LedgersNext]_ledgersVars /\ LedgersFairness
=============================================================================
