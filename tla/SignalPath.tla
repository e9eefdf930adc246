----------------------------- MODULE SignalPath -----------------------------
(***************************************************************************)
(* The two ends of a signal's way: the price action it starts from and the *)
(* calls that turn it into a position.  They share no state; as in         *)
(* Services, each behaviour exercises one of them, part, while the other   *)
(* rests in its initial states.                                            *)
(***************************************************************************)
EXTENDS MCPriceAction, OrderExecution

VARIABLE part

pathVars == <<part, actionVars, vars>>

(* Of the states a part may begin in, one is enough while it rests.        *)
OneMarket  == /\ window = CHOOSE w \in Windows : TRUE
              /\ context = CHOOSE ctx \in Contexts : TRUE
OneService == ~wired

PathInit == /\ part \in {"analysis", "execution"}
            /\ ActionInit /\ (part = "execution" => OneMarket)
            /\ Init /\ (part = "analysis" => OneService)

PathNext == \/ part = "analysis" /\ ActionNext /\ UNCHANGED <<part, vars>>
            \/ part = "execution" /\ Next /\ UNCHANGED <<part, actionVars>>

PathSpec == PathInit /\ [][PathNext]_pathVars
=============================================================================
