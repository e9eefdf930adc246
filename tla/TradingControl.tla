--------------------------- MODULE TradingControl ---------------------------
(***************************************************************************)
(* The operators' stop and resume commands (api/routes/admin.py and        *)
(* risk.py, telegram/handlers/control.py) beside the assessments of the    *)
(* risk orchestrator, whose first gate is the kill switch's check().       *)
(* reset() is an operation of the switch that nothing under src/ but the   *)
(* tests calls.                                                            *)
(***************************************************************************)
EXTENDS KillSwitch

VARIABLES
    halt,       \* _HALT of circuit_breaker.py
    asked,      \* the operators' last command
    late,       \* tasks whose assessment began after the current activation
    approved    \* the tasks whose last assessment was approved

controlVars == <<halt, asked, late, approved>>
allVars     == <<vars, controlVars>>

ControlInit == /\ Init
               /\ halt = FALSE
               /\ asked = "none"
               /\ late = {}
               /\ approved = {}
-----------------------------------------------------------------------------
(* The risk orchestrator's assess().                                       *)
Assess(t, e) ==
    /\ Enter(t, [op |-> "check", equity |-> e])
    /\ late' = IF active THEN late \cup {t} ELSE late \ {t}
    /\ approved' = approved \ {t}
    /\ UNCHANGED <<halt, asked>>

\* gate 1 fails open
MutGateOne(t) ==
    \/ CheckTrips(t) \/ CheckPasses(t)
    \/ /\ Holds(t, "check") /\ active
       /\ Release(t, "passed")
       /\ UNCHANGED <<active, hwm, history, cb, ran, peak>>

GateOne(t) == CheckRefused(t) \/ CheckTrips(t) \/ CheckPasses(t)

(* Gates 2 to 8 await one another; each that fails or times out is skipped. *)
(* As committed gates 2 to 6 and 8 always are: their class or module is     *)
(* missing, or takes an argument more.  Reject is gate 7's verdict.        *)
Approve(t) == /\ Proceed(t)
              /\ approved' = approved \cup {t}
              /\ UNCHANGED <<halt, asked, late>>

Reject(t) == /\ Proceed(t)
             /\ UNCHANGED controlVars
-----------------------------------------------------------------------------
(* The commands.                                                           *)

(* POST /admin/kill answers when activate() has returned.                  *)
AdminKill(t) == /\ Enter(t, [op |-> "activate", equity |-> 0])
                /\ asked' = "kill"
                /\ approved' = approved \ {t}
                /\ UNCHANGED <<halt, late>>

(* /pause and /kill CONFIRM call activate() without awaiting it: its body  *)
(* never runs, and the reply says that trading stopped.                    *)
TelegramStop == /\ asked' = "pause"
                /\ UNCHANGED <<vars, halt, late, approved>>

(* POST /risk/halt and /risk/resume                                        *)
ApiHalt == /\ halt' = TRUE
           /\ asked' = "halt"
           /\ UNCHANGED <<vars, late, approved>>

ApiResume == /\ halt' = FALSE
             /\ asked' = "none"
             /\ UNCHANGED <<vars, late, approved>>

(* POST /admin/resume and /resume call deactivate(), which KillSwitch does *)
(* not have.                                                               *)
Resume == /\ asked' = "resume"
          /\ UNCHANGED <<vars, halt, late, approved>>

(* reset() called from outside the program.                                *)
CallReset(t) == /\ Enter(t, [op |-> "reset", equity |-> 0])
                /\ approved' = approved \ {t}
                /\ UNCHANGED <<halt, asked, late>>

ResetSwitch(t) == /\ Reset(t)
                  /\ late' = {}
                  /\ UNCHANGED <<halt, asked, approved>>

SwitchStep == /\ \/ \E t \in Callers : GateOne(t) \/ Activate(t)
                 \/ CallbackEnds \/ Tripped \/ Tick
              /\ UNCHANGED controlVars

ControlNext ==
    \/ \E t \in Callers, e \in Equities : Assess(t, e)
    \/ \E t \in Callers : Approve(t) \/ Reject(t) \/ AdminKill(t)
                         \/ CallReset(t) \/ ResetSwitch(t)
    \/ TelegramStop \/ ApiHalt \/ ApiResume \/ Resume
    \/ SwitchStep

ControlSpec == ControlInit /\ [][ControlNext]_allVars

FairControlSpec == ControlSpec /\ Fairness
-----------------------------------------------------------------------------
NewlyApproved(t) == t \in approved' \ approved

(* An order approved while the switch is active was being assessed before  *)
(* the switch was activated: nothing that starts later gets through.       *)
ActiveSwitchAdmitsNothing ==
    [][\A t \in Callers : NewlyApproved(t) /\ active => t \notin late]_allVars
-----------------------------------------------------------------------------
(* A statement of the repository the code does not meet.                   *)

(* control.py:97: /pause activates the kill switch.                        *)
PauseActivates == asked = "pause" => active
=============================================================================
