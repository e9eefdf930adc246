----------------------- MODULE PositionReconciliation -----------------------
(***************************************************************************)
(* backend/execution/position_reconciliation.py: every interval a task     *)
(* reads the broker's open tickets, then those of the order registry, and  *)
(* repairs the registry ticket by ticket.  Each read and each repair is an *)
(* await, between which positions open, close and get registered.  Both    *)
(* auto_ flags are on, as by default.                                      *)
(***************************************************************************)
EXTENDS FiniteSets

CONSTANT Tickets        \* position numbers, each given out once

VARIABLES
    unused,     \* tickets the broker has not given out yet
    broker,     \* positions open at the broker
    registry,   \* what osm.get_open_tickets() returns
    unwell,     \* broker and registry may fail to answer
    phase,      \* where run() stands
    mt5Tickets, \* what this run read at the broker
    ghosts,     \* ghosts not repaired yet
    orphans,    \* orphans not repaired yet
    openThen    \* what was open when this run read the broker, {} when that failed

worldVars == <<unused, broker, registry, unwell>>
runVars   == <<phase, mt5Tickets, ghosts, orphans, openThen>>
reconVars == <<worldVars, runVars>>

ReconTypeOK ==
    /\ {unused, broker, registry, mt5Tickets, ghosts, orphans, openThen} \subseteq SUBSET Tickets
    /\ unwell \in BOOLEAN
    /\ phase \in {"sleep", "registry", "repair"}
    /\ unused \cap (broker \cup registry) = {}

ReconInit ==
    /\ unused = Tickets
    /\ broker = {} /\ registry = {}
    /\ unwell = FALSE
    /\ phase = "sleep"
    /\ mt5Tickets = {} /\ ghosts = {} /\ orphans = {} /\ openThen = {}
-----------------------------------------------------------------------------
(* The world of the reconciler.                                            *)

Fill(t) == /\ t \in unused
           /\ unused' = unused \ {t}
           /\ broker' = broker \cup {t}
           /\ UNCHANGED <<registry, unwell, runVars>>

RegisterFill(t) == /\ t \in broker \ registry
                   /\ registry' = registry \cup {t}
                   /\ UNCHANGED <<unused, broker, unwell, runVars>>

ClosePosition(t) == /\ t \in broker
                    /\ broker' = broker \ {t}
                    /\ UNCHANGED <<unused, registry, unwell, runVars>>

Weather == /\ unwell' = ~unwell
           /\ UNCHANGED <<unused, broker, registry, runVars>>
-----------------------------------------------------------------------------
(* run()                                                                   *)

(* Whatever goes wrong in a read, its answer is the empty set.             *)
Answers(set) == IF unwell THEN {set, {}} ELSE {set}

ReadBroker ==
    /\ phase = "sleep"
    /\ mt5Tickets' \in Answers(broker)
    /\ openThen' = IF mt5Tickets' = broker THEN broker ELSE {}
    /\ phase' = "registry"
    /\ UNCHANGED <<worldVars, ghosts, orphans>>

\* ghosts and orphans are told apart by the positions open now
MutReadRegistry ==
    /\ phase = "registry"
    /\ \E osmTickets \in Answers(registry) :
          /\ ghosts' = mt5Tickets \ osmTickets
          /\ orphans' = osmTickets \ mt5Tickets
    /\ phase' = "repair"
    /\ UNCHANGED <<worldVars, mt5Tickets, openThen>>

ReadRegistry ==
    /\ phase = "registry"
    /\ \E osmTickets \in Answers(registry) :
          /\ ghosts' = osmTickets \ mt5Tickets
          /\ orphans' = mt5Tickets \ osmTickets
    /\ phase' = "repair"
    /\ UNCHANGED <<worldVars, mt5Tickets, openThen>>

(* A repair that raises is logged and the next ticket taken.               *)
RejectGhost(t) ==
    /\ phase = "repair"
    /\ t \in ghosts
    /\ ghosts' = ghosts \ {t}
    /\ \/ registry' = registry \ {t}
       \/ unwell /\ UNCHANGED registry
    /\ UNCHANGED <<unused, broker, unwell, phase, mt5Tickets, orphans, openThen>>

\* the orphans are only counted
MutRegisterOrphan(t) ==
    /\ phase = "repair"
    /\ ghosts = {}
    /\ t \in orphans
    /\ orphans' = orphans \ {t}
    /\ UNCHANGED <<worldVars, phase, mt5Tickets, ghosts, openThen>>

RegisterOrphan(t) ==
    /\ phase = "repair"
    /\ ghosts = {}
    /\ t \in orphans
    /\ orphans' = orphans \ {t}
    /\ \/ registry' = registry \cup {t}
       \/ unwell /\ UNCHANGED registry
    /\ UNCHANGED <<unused, broker, unwell, phase, mt5Tickets, ghosts, openThen>>

RunEnds == /\ phase = "repair"
           /\ ghosts = {} /\ orphans = {}
           /\ phase' = "sleep"
           /\ UNCHANGED <<worldVars, mt5Tickets, ghosts, orphans, openThen>>

ReconcilerStep == \/ ReadBroker \/ ReadRegistry \/ RunEnds
                  \/ \E t \in Tickets : RejectGhost(t) \/ RegisterOrphan(t)

ReconNext == \/ \E t \in Tickets : Fill(t) \/ RegisterFill(t) \/ ClosePosition(t)
             \/ Weather
             \/ ReconcilerStep

ReconSpec == ReconInit /\ [][ReconNext]_reconVars
-----------------------------------------------------------------------------
(* The ticket of an open position is taken off the registry only when the  *)
(* run failed to read the broker, or the position was filled after that    *)
(* read (position_reconciliation.py:72-91).                                *)
OpenIsRejectedOnlyBlind ==
    [][\A t \in (registry \cap broker) \ registry' : t \notin openThen]_reconVars

(* When orders stop and both sides answer, the registry soon lists exactly *)
(* the open positions, whatever earlier runs took away or made up.         *)
RegistryConverges == <>[]~unwell => <>[](registry = broker)
=============================================================================
