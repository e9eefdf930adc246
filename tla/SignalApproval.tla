--------------------------- MODULE SignalApproval ---------------------------
(***************************************************************************)
(* backend/telegram/handlers/semi_auto.py: signals wait in a dict for the  *)
(* operator, whose taps on the buttons of a card arrive as callbacks, in   *)
(* any order and as often as somebody taps.  Between query.answer() and    *)
(* the pop, and while a signal is executed, other handlers run.            *)
(***************************************************************************)
EXTENDS Integers, FiniteSets

CONSTANTS SignalIds,
          Taps,         \* callback queries Telegram delivers
          MaxPushes,    \* bound: how often the dispatcher pushes a signal
          NoSignal

VARIABLES
    pending,    \* keys of _pending_signals
    cards,      \* signals of which some card with buttons was sent
    sending,    \* signals whose card is being sent
    semiAuto,   \* _semi_auto_enabled
    tap,        \* tap[q]: the callback and how far its handler is
    pushed,     \* how often each signal was pushed
    executed,   \* how often each was handed to the execution service
    declined    \* how often each was rejected by an operator

approvalVars == <<pending, cards, sending, semiAuto, tap, pushed, executed, declined>>

ApprovalTypeOK ==
    /\ {pending, cards, sending} \subseteq SUBSET SignalIds
    /\ semiAuto \in BOOLEAN
    /\ tap \in [Taps -> [at : {"none", "answer", "execute", "done"}, id : SignalIds \cup {NoSignal},
                         action : {"approve", "reject"}]]
    /\ {pushed, executed, declined} \subseteq [SignalIds -> Nat]

ApprovalInit ==
    /\ pending = {} /\ cards = {} /\ sending = {}
    /\ semiAuto = FALSE
    /\ tap = [q \in Taps |-> [at |-> "none", id |-> NoSignal, action |-> "reject"]]
    /\ pushed = [i \in SignalIds |-> 0]
    /\ executed = [i \in SignalIds |-> 0]
    /\ declined = [i \in SignalIds |-> 0]
-----------------------------------------------------------------------------
(* /semiauto on and off.  Neither the push nor the callback reads the flag. *)
ToggleSemiAuto ==
    /\ semiAuto' = ~semiAuto
    /\ UNCHANGED <<pending, cards, sending, tap, pushed, executed, declined>>

(* push_signal_for_approval(): stored first, then the card is sent.        *)
PushSignal(i) ==
    /\ pushed[i] < MaxPushes
    /\ pending' = pending \cup {i}
    /\ sending' = sending \cup {i}
    /\ pushed' = [pushed EXCEPT ![i] = @ + 1]
    /\ UNCHANGED <<cards, semiAuto, tap, executed, declined>>

(* A card that cannot be sent leaves its signal pending.                   *)
CardSent(i) ==
    /\ i \in sending
    /\ sending' = sending \ {i}
    /\ cards' \in {cards, cards \cup {i}}
    /\ UNCHANGED <<pending, semiAuto, tap, pushed, executed, declined>>
-----------------------------------------------------------------------------
(* callback_signal_decision()                                              *)
Move(q, at) == tap' = [tap EXCEPT ![q].at = at]

TapButton(q, i, action) ==
    /\ tap[q].at = "none"
    /\ i \in cards
    /\ tap' = [tap EXCEPT ![q] = [at |-> "answer", id |-> i, action |-> action]]
    /\ UNCHANGED <<pending, cards, sending, semiAuto, pushed, executed, declined>>

(* query.answer() raises when Telegram considers the query too old.        *)
AnswerFails(q) ==
    /\ tap[q].at = "answer"
    /\ Move(q, "done")
    /\ UNCHANGED <<pending, cards, sending, semiAuto, pushed, executed, declined>>

NotPending(q) ==
    /\ tap[q].at = "answer"
    /\ tap[q].id \notin pending
    /\ Move(q, "done")
    /\ UNCHANGED <<pending, cards, sending, semiAuto, pushed, executed, declined>>

\* the signal stays pending until it has been executed
MutApprove(q) ==
    /\ tap[q].at = "answer" /\ tap[q].action = "approve"
    /\ tap[q].id \in pending
    /\ Move(q, "execute")
    /\ executed' = [executed EXCEPT ![tap[q].id] = @ + 1]
    /\ UNCHANGED <<pending, cards, sending, semiAuto, pushed, declined>>

(* The signal is taken off the dict and handed on before anything awaits.  *)
Approve(q) ==
    /\ tap[q].at = "answer" /\ tap[q].action = "approve"
    /\ tap[q].id \in pending
    /\ pending' = pending \ {tap[q].id}
    /\ Move(q, "execute")
    /\ executed' = [executed EXCEPT ![tap[q].id] = @ + 1]
    /\ UNCHANGED <<cards, sending, semiAuto, pushed, declined>>

(* Whether execute() succeeded, failed or raised, the operator reads that  *)
(* the signal was approved and executed.                                   *)
ReportExecuted(q) ==
    /\ tap[q].at = "execute"
    /\ Move(q, "done")
    /\ UNCHANGED <<pending, cards, sending, semiAuto, pushed, executed, declined>>

Reject(q) ==
    /\ tap[q].at = "answer" /\ tap[q].action = "reject"
    /\ tap[q].id \in pending
    /\ pending' = pending \ {tap[q].id}
    /\ Move(q, "done")
    /\ declined' = [declined EXCEPT ![tap[q].id] = @ + 1]
    /\ UNCHANGED <<cards, sending, semiAuto, pushed, executed>>

ApprovalNext ==
    \/ ToggleSemiAuto
    \/ \E i \in SignalIds : PushSignal(i) \/ CardSent(i)
    \/ \E q \in Taps :
          \/ \E i \in SignalIds, a \in {"approve", "reject"} : TapButton(q, i, a)
          \/ AnswerFails(q) \/ NotPending(q) \/ Approve(q) \/ ReportExecuted(q) \/ Reject(q)

ApprovalSpec == ApprovalInit /\ [][ApprovalNext]_approvalVars
-----------------------------------------------------------------------------
(* However many operators tap, in whatever order and on however old a      *)
(* card, one push of a signal is decided at most once: approved and handed *)
(* to the execution service, or rejected, never both.                      *)
DecidedOncePerPush ==
    /\ ApprovalTypeOK
    /\ \A i \in SignalIds :
          executed[i] + declined[i] + (IF i \in pending THEN 1 ELSE 0) <= pushed[i]
=============================================================================
