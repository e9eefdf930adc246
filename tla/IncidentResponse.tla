-------------------------- MODULE IncidentResponse --------------------------
(***************************************************************************)
(* backend/core/incident.py: kill switches on a device, a user ... or on   *)
(* everything, the incidents that may throw them, and the policy that      *)
(* escalates an incident nobody acknowledges.  Switch and incident         *)
(* operations hold their object's lock throughout and are one step each;   *)
(* the escalation pass walks the manager's dict under a lock of its own,   *)
(* so incidents come and change between two of its steps.                  *)
(***************************************************************************)
EXTENDS Integers, Sequences, FiniteSets

CONSTANTS Switches,     \* the ids that activations draw
          Devices,      \* targets of switches other than GLOBAL
          Global,       \* the GLOBAL target
          Incidents,    \* the ids that open_incident() draws
          Ttl,          \* ttl_seconds of the switches that have one, in ticks
          Sla           \* SEVERITY_SLA_SECONDS, in ticks

ASSUME ResponseAssumption == Ttl \in Nat \ {0} /\ Sla \in Nat

VARIABLES
    entries,        \* ids in _entries
    target, left,   \* target[k], and the ticks left of k's ttl
    byTarget,       \* _by_target
    globalActive,   \* _global_active
    incidents,      \* _incidents in the dict's order
    stage, openFor,     \* stage[i] and openFor[i] of an incident
    escalated,      \* _escalated
    pass,           \* check_escalations(): incidents passed, and the size at its start
    stands          \* switches thrown and neither reset nor run out

switchVars   == <<entries, target, left, byTarget, globalActive, stands>>
incidentVars == <<incidents, stage, openFor>>
policyVars   == <<escalated, pass>>
responseVars == <<switchVars, incidentVars, policyVars>>

Targets == Devices \cup {Global}
Forever == Ttl + 1
NoPass  == [next |-> 0, size |-> 0]
Stages  == {"open", "acknowledged", "contained", "resolved", "closed", "false_alarm"}

ResponseTypeOK ==
    /\ entries \subseteq Switches /\ stands \subseteq Switches
    /\ target \in [Switches -> Targets] /\ left \in [Switches -> 0..Forever]
    /\ byTarget \in [Targets -> SUBSET Switches]
    /\ globalActive \in BOOLEAN
    /\ \A n \in DOMAIN incidents : incidents[n] \in Incidents
    /\ stage \in [Incidents -> Stages] /\ openFor \in [Incidents -> 0..(Sla + 1)]
    /\ escalated \subseteq Incidents
    /\ pass.next \in 0..(Len(incidents) + 1) /\ pass.size \in 0..Len(incidents)

ResponseInit ==
    /\ entries = {} /\ stands = {} /\ globalActive = FALSE
    /\ target = [k \in Switches |-> Global] /\ left = [k \in Switches |-> Forever]
    /\ byTarget = [t \in Targets |-> {}]
    /\ incidents = <<>>
    /\ stage = [i \in Incidents |-> "open"] /\ openFor = [i \in Incidents |-> 0]
    /\ escalated = {} /\ pass = NoPass
-----------------------------------------------------------------------------
Expired(k) == left[k] = 0

AnyGlobal(ks) == \E k \in ks : target[k] = Global /\ ~Expired(k)

(* KillSwitchV22.activate; its alert is left out.  A uuid is drawn once:   *)
(* left and target tell a new k.                                           *)
Activate(k, t, ttl) ==
    /\ k \notin entries /\ left[k] = Forever /\ target[k] = Global
    /\ entries' = entries \cup {k}
    /\ target' = [target EXCEPT ![k] = t] /\ left' = [left EXCEPT ![k] = ttl]
    /\ byTarget' = [byTarget EXCEPT ![t] = @ \cup {k}]
    /\ globalActive' = (globalActive \/ t = Global)
    /\ stands' = stands \cup {k}

Throw(k, t, ttl) == Activate(k, t, ttl) /\ UNCHANGED <<incidentVars, policyVars>>

(* A mutant: a reset clears the target instead of discarding one id.       *)
MutForget(ks) ==
    /\ entries' = entries \ ks
    /\ left' = [k \in Switches |-> IF k \in ks THEN 0 ELSE left[k]]
    /\ byTarget' = [t \in Targets |-> IF \E k \in ks : target[k] = t THEN {} ELSE byTarget[t]]

(* Taking ks out of _entries and out of the index of their targets.  What  *)
(* is out keeps left at 0 here, so that its id is not drawn again.         *)
Forget(ks) ==
    /\ entries' = entries \ ks
    /\ left' = [k \in Switches |-> IF k \in ks THEN 0 ELSE left[k]]
    /\ byTarget' = [t \in Targets |-> byTarget[t] \ {k \in ks : target[k] = t}]

(* reset() and reset_all(), which resets every id of the target.           *)
Reset(ks) ==
    /\ ks # {} /\ ks \subseteq entries
    /\ Forget(ks)
    /\ globalActive' = IF \E k \in ks : target[k] = Global
                       THEN AnyGlobal(entries \ ks) ELSE globalActive
    /\ stands' = stands \ ks
    /\ UNCHANGED <<target, incidentVars, policyVars>>

ResetOne(k) == Reset({k})
ResetAll(t) == Reset(byTarget[t])

(* _purge_expired(), which check(), list_active() and active_count() do    *)
(* before they look.                                                       *)
Purge ==
    /\ Forget({k \in entries : Expired(k)})
    /\ globalActive' = AnyGlobal(entries)
    /\ UNCHANGED <<target, stands, incidentVars, policyVars>>

(* What check(t) says, after its purge.                                    *)
Blocks(t) == \/ AnyGlobal(entries)
             \/ \E k \in byTarget[t] : k \in entries /\ ~Expired(k)
-----------------------------------------------------------------------------
(* open_incident, with auto_kill's switch inside the same lock, or without *)
(* one.  That switch has no ttl.                                           *)
Record(i) == /\ \A n \in DOMAIN incidents : incidents[n] # i
             /\ incidents' = Append(incidents, i)
             /\ UNCHANGED <<stage, openFor, policyVars>>

OpenIncident(i) == Record(i) /\ UNCHANGED switchVars

OpenAndKill(i, k, t) == Record(i) /\ Activate(k, t, Forever)

ValidTransitions == {<<"open", "acknowledged">>, <<"open", "false_alarm">>,
                     <<"acknowledged", "contained">>, <<"acknowledged", "false_alarm">>,
                     <<"contained", "resolved">>, <<"resolved", "closed">>}

(* transition: closing an incident leaves its kill switches thrown.        *)
Transition(i, s) ==
    /\ \E n \in DOMAIN incidents : incidents[n] = i
    /\ <<stage[i], s>> \in ValidTransitions
    /\ stage' = [stage EXCEPT ![i] = s]
    /\ UNCHANGED <<incidents, openFor, switchVars, policyVars>>
-----------------------------------------------------------------------------
(* check_escalations: the for loop over _incidents.values().  When the     *)
(* dict has grown since the pass began, the iterator raises and the pass   *)
(* is over, with what it has marked so far; a later call begins again.     *)
BeginPass ==
    /\ pass = NoPass /\ incidents # <<>>
    /\ pass' = [next |-> 1, size |-> Len(incidents)]
    /\ UNCHANGED <<escalated, switchVars, incidentVars>>

Overdue(i) == stage[i] = "open" /\ i \notin escalated /\ openFor[i] > Sla

(* A mutant: the lock is not released when the iterator raises.            *)
MutPassStep ==
    /\ pass # NoPass /\ Len(incidents) = pass.size
    /\ IF pass.next > pass.size
       THEN pass' = NoPass /\ UNCHANGED escalated
       ELSE /\ pass' = [pass EXCEPT !.next = @ + 1]
            /\ escalated' = escalated \cup {i \in {incidents[pass.next]} : Overdue(i)}
    /\ UNCHANGED <<switchVars, incidentVars>>

PassStep ==
    /\ pass # NoPass
    /\ IF Len(incidents) # pass.size \/ pass.next > pass.size
       THEN pass' = NoPass /\ UNCHANGED escalated
       ELSE /\ pass' = [pass EXCEPT !.next = @ + 1]
            /\ escalated' = escalated \cup {i \in {incidents[pass.next]} : Overdue(i)}
    /\ UNCHANGED <<switchVars, incidentVars>>

(* The clock, while something still ages.                                  *)
ResponseTick ==
    /\ left' = [k \in Switches |-> IF left[k] \in 1..Ttl THEN left[k] - 1 ELSE left[k]]
    /\ stands' = {k \in stands : left'[k] # 0}
    /\ openFor' = [i \in Incidents |->
                 IF openFor[i] <= Sla /\ \E n \in DOMAIN incidents : incidents[n] = i
                 THEN openFor[i] + 1 ELSE openFor[i]]
    /\ UNCHANGED <<entries, target, byTarget, globalActive, incidents, stage, policyVars>>

ResponseNext ==
    \/ \E k \in Switches, t \in Targets, ttl \in {Ttl, Forever} : Throw(k, t, ttl)
    \/ \E k \in Switches : ResetOne(k)
    \/ \E t \in Targets : ResetAll(t)
    \/ Purge
    \/ \E i \in Incidents : OpenIncident(i)
    \/ \E i \in Incidents, k \in Switches, t \in Targets : OpenAndKill(i, k, t)
    \/ \E i \in Incidents, s \in Stages : Transition(i, s)
    \/ BeginPass \/ PassStep \/ ResponseTick

(* Somebody calls check_escalations() again and again, its loop goes on    *)
(* and time passes; nobody has to open, acknowledge or reset anything.     *)
ResponseFairness ==
    /\ WF_responseVars(BeginPass) /\ WF_responseVars(PassStep) /\ WF_responseVars(ResponseTick)

ResponseSpec == ResponseInit /\ [][ResponseNext]_responseVars /\ ResponseFairness
-----------------------------------------------------------------------------
(* A target is refused exactly while a switch thrown for it or for         *)
(* everything stands, whichever of several switches on it were reset or    *)
(* ran out in between: the index by target and the entries agree.          *)
StandingSwitchBlocks ==
    /\ ResponseTypeOK
    /\ \A t \in Targets : Blocks(t) <=> \E k \in stands : target[k] \in {t, Global}

(* An incident that stays open past its SLA is escalated, even though      *)
(* incidents opened during a pass make the pass raise halfway.             *)
OverdueEscalates ==
    \A i \in Incidents :
        (\E n \in DOMAIN incidents : incidents[n] = i) ~> (i \in escalated \/ stage[i] # "open")
=============================================================================
