----------------------------- MODULE Safeguards -----------------------------
(***************************************************************************)
(* The parts that protect the account and the service and share no state:  *)
(* equity protection, incident response, refresh tokens and signing keys.  *)
(* As in Services, each behaviour exercises one of them, part, while the   *)
(* others rest in their initial states.                                    *)
(***************************************************************************)
EXTENDS EquityProtection, IncidentResponse, RefreshRotation, KeyRotation

VARIABLE part

safeguardsVars == <<part, vars, responseVars, refreshVars, keyVars>>

Parts == {"equity", "response", "sessions", "signing"}

SafeguardsInit == /\ part \in Parts
                  /\ Init /\ ResponseInit /\ RefreshInit /\ KeyInit

(* p's turn: nothing else moves.                                           *)
Turn(p) == /\ part = p
           /\ UNCHANGED part
           /\ IF p = "equity" THEN TRUE ELSE UNCHANGED vars
           /\ IF p = "response" THEN TRUE ELSE UNCHANGED responseVars
           /\ IF p = "sessions" THEN TRUE ELSE UNCHANGED refreshVars
           /\ IF p = "signing" THEN TRUE ELSE UNCHANGED keyVars

SafeguardsNext == \/ Turn("equity") /\ Next
                  \/ Turn("response") /\ ResponseNext
                  \/ Turn("sessions") /\ RefreshNext
                  \/ Turn("signing") /\ KeyNext

(* The escalation loop's fairness, as IncidentResponse justifies it.       *)
SafeguardsFairness ==
    /\ WF_safeguardsVars(Turn("response") /\ BeginPass)
    /\ WF_safeguardsVars(Turn("response") /\ PassStep)
    /\ WF_safeguardsVars(Turn("response") /\ ResponseTick)

SafeguardsSpec == SafeguardsInit /\ [][SafeguardsNext]_safeguardsVars /\ SafeguardsFairness
=============================================================================
