----------------------------- MODULE KillSwitch -----------------------------
(***************************************************************************)
(* backend/risk/kill_switch.py.  check(), activate() and reset() run under *)
(* one asyncio.Lock, which is granted in the order of arrival; the task    *)
(* that trips the switch keeps the lock while it awaits the callbacks, each *)
(* for at most ten seconds.  The configuration is enabled, as by default.  *)
(* A reset with a wrong token changes nothing and is left out.             *)
(***************************************************************************)
EXTENDS Integers, Sequences, FiniteSetsExt

CONSTANTS Callers,          \* tasks that use the switch
          Equities,         \* the readings check() may be given
          Floor, HardPct, FlashPct,         \* KillSwitchConfig
          Window,           \* flash_window_seconds, in ticks
          Callbacks,        \* the number of registered callbacks
          MaxReadings       \* bound: readings within one window

ASSUME KillSwitchAssumption ==
    /\ Equities \subseteq Nat
    /\ {Floor, HardPct, FlashPct, Window, Callbacks, MaxReadings} \subseteq Nat

VARIABLES
    active,     \* state.active
    hwm,        \* state.high_water_mark
    history,    \* _equity_history: readings with their age
    queue,      \* the tasks at _lock, its holder first
    pc,         \* where each task is: "idle", "lock" or "passed"
    call,       \* what each task called last
    cb,         \* the callback being awaited; Callbacks + 1 when all are done
    ran,        \* callbacks called since the switch was last reset
    peak        \* the highest equity a check ever let through

vars == <<active, hwm, history, queue, pc, call, cb, ran, peak>>

Larger(a, b) == IF a > b THEN a ELSE b

Calls == [op : {"check"}, equity : Equities] \cup [op : {"activate", "reset"}, equity : {0}]

TypeOK == /\ active \in BOOLEAN
          /\ hwm \in {0} \cup Equities
          /\ history \in Seq([age : 0..Window + 1, equity : Equities])
          /\ Len(history) <= MaxReadings
          /\ queue \in Seq(Callers)
          /\ pc \in [Callers -> {"idle", "lock", "passed"}]
          /\ call \in [Callers -> Calls]
          /\ cb \in 0..Callbacks + 1
          /\ ran \in Nat
          /\ peak \in {0} \cup Equities

Init == /\ active = FALSE
        /\ hwm = 0
        /\ history = <<>>
        /\ queue = <<>>
        /\ pc = [t \in Callers |-> "idle"]
        /\ call = [t \in Callers |-> [op |-> "reset", equity |-> 0]]
        /\ cb = 0
        /\ ran = 0
        /\ peak = 0
-----------------------------------------------------------------------------
(* What check() looks at, for a reading e.                                 *)

\* the mark follows the equity down
MutMark(e) == e

Mark(e)       == Larger(hwm, e)
BelowFloor(e) == Floor > 0 /\ e < Floor
DrawnDown(e)  == Mark(e) > 0 /\ 100 * (Mark(e) - e) >= HardPct * Mark(e)

(* The readings since the cutoff are the last ones: they are in the order  *)
(* of their times.                                                         *)
Since  == {k \in 1..(Len(history) + 1) : \A j \in k..Len(history) : history[j].age <= Window}
Recent == SubSeq(history, Min(Since), Len(history))

Recorded(e) == Append(Recent, [age |-> 0, equity |-> e])

(* The drop is measured from the oldest reading of the window.             *)
FlashCrash(e) ==
    LET oldest == Recorded(e)[1].equity
    IN  Len(Recorded(e)) >= 2 /\ oldest > 0 /\ 100 * (oldest - e) >= FlashPct * oldest
-----------------------------------------------------------------------------
Enter(t, c) ==
    /\ pc[t] = "idle"
    /\ c.op = "check" => Len(Recent) + Len(queue) < MaxReadings
    /\ pc' = [pc EXCEPT ![t] = "lock"]
    /\ call' = [call EXCEPT ![t] = c]
    /\ queue' = Append(queue, t)
    /\ UNCHANGED <<active, hwm, history, cb, ran, peak>>

Holds(t, op) == /\ cb = 0
                /\ queue # <<>> /\ Head(queue) = t
                /\ call[t].op = op

Release(t, where) == /\ queue' = Tail(queue)
                     /\ pc' = [pc EXCEPT ![t] = where]
                     /\ UNCHANGED call

(* _activate() up to the first callback.                                   *)
Trip == /\ active' = TRUE
        /\ cb' = 1
        /\ ran' = IF Callbacks > 0 THEN ran + 1 ELSE ran

CheckRefused(t) ==
    /\ Holds(t, "check")
    /\ active
    /\ Release(t, "idle")
    /\ UNCHANGED <<active, hwm, history, cb, ran, peak>>

(* The reading is recorded only when neither the floor nor the drawdown    *)
(* trips.                                                                  *)
CheckTrips(t) ==
    LET e == call[t].equity
        slow == BelowFloor(e) \/ DrawnDown(e)
    IN  /\ Holds(t, "check")
        /\ ~active
        /\ slow \/ FlashCrash(e)
        /\ hwm' = Mark(e)
        /\ history' = IF slow THEN history ELSE Recorded(e)
        /\ Trip
        /\ UNCHANGED <<queue, pc, call, peak>>

CheckPasses(t) ==
    LET e == call[t].equity
    IN  /\ Holds(t, "check")
        /\ ~active
        /\ ~BelowFloor(e) /\ ~DrawnDown(e) /\ ~FlashCrash(e)
        /\ hwm' = Mark(e)
        /\ history' = Recorded(e)
        /\ peak' = Larger(peak, e)
        /\ Release(t, "passed")
        /\ UNCHANGED <<active, cb, ran>>

\* activate() does not look at the flag
MutActivate(t) ==
    /\ Holds(t, "activate")
    /\ Trip
    /\ UNCHANGED <<hwm, history, queue, pc, call, peak>>

Activate(t) ==
    /\ Holds(t, "activate")
    /\ IF active
       THEN /\ Release(t, "idle")
            /\ UNCHANGED <<active, cb, ran>>
       ELSE /\ Trip
            /\ UNCHANGED <<queue, pc, call>>
    /\ UNCHANGED <<hwm, history, peak>>

\* after the last callback the first is called again
MutCallbackEnds ==
    /\ cb \in 1..Callbacks
    /\ cb' = (cb % Callbacks) + 1
    /\ UNCHANGED <<active, hwm, history, queue, pc, call, ran, peak>>

(* A callback returns, raises or is cancelled after ten seconds.           *)
CallbackEnds ==
    /\ cb \in 1..Callbacks
    /\ cb' = cb + 1
    /\ ran' = IF cb < Callbacks THEN ran + 1 ELSE ran
    /\ UNCHANGED <<active, hwm, history, queue, pc, call, peak>>

(* The task that tripped the switch releases the lock.                     *)
Tripped == /\ cb = Callbacks + 1
           /\ cb' = 0
           /\ Release(Head(queue), "idle")
           /\ UNCHANGED <<active, hwm, history, ran, peak>>

\* reset() does not take the lock
MutReset(t) ==
    /\ pc[t] = "lock" /\ call[t].op = "reset"
    /\ active' = FALSE
    /\ ran' = 0
    /\ queue' = SelectSeq(queue, LAMBDA q : q # t)
    /\ pc' = [pc EXCEPT ![t] = "idle"]
    /\ UNCHANGED <<hwm, history, call, cb, peak>>

Reset(t) ==
    /\ Holds(t, "reset")
    /\ active' = FALSE
    /\ ran' = 0
    /\ Release(t, "idle")
    /\ UNCHANGED <<hwm, history, cb, peak>>

(* A caller whose check passed goes on with its order.                     *)
Proceed(t) ==
    /\ pc[t] = "passed"
    /\ pc' = [pc EXCEPT ![t] = "idle"]
    /\ UNCHANGED <<active, hwm, history, queue, call, cb, ran, peak>>

Tick == /\ \E k \in DOMAIN history : history[k].age <= Window
        /\ history' = [k \in 1..Len(history) |->
                         [age |-> IF history[k].age > Window THEN history[k].age ELSE history[k].age + 1,
                          equity |-> history[k].equity]]
        /\ UNCHANGED <<active, hwm, queue, pc, call, cb, ran, peak>>

Serve(t) == CheckRefused(t) \/ CheckTrips(t) \/ CheckPasses(t) \/ Activate(t) \/ Reset(t)

Next == \/ \E t \in Callers, c \in Calls : Enter(t, c)
        \/ \E t \in Callers : Serve(t) \/ Proceed(t)
        \/ CallbackEnds \/ Tripped \/ Tick

Spec == Init /\ [][Next]_vars

(* The event loop runs what is ready, and wait_for() bounds each callback. *)
Fairness == /\ \A t \in Callers : WF_vars(Serve(t))
            /\ WF_vars(CallbackEnds) /\ WF_vars(Tripped)

FairSpec == Spec /\ Fairness
-----------------------------------------------------------------------------
(* However many tasks trip, activate and reset the switch at once, each    *)
(* activation calls every callback once, and they are all done when the    *)
(* lock is free again.                                                     *)
CallbacksOnce ==
    /\ TypeOK
    /\ ran = IF ~active THEN 0 ELSE IF cb = 0 THEN Callbacks ELSE IF cb > Callbacks THEN Callbacks ELSE cb

(* Nobody lifts the stop while its callbacks - closing the positions - are *)
(* still at work.                                                          *)
StopOutlastsCallbacks == [][active /\ ~active' => cb = 0]_vars

(* Whatever was reset in between, no check lets an equity through that is  *)
(* HardPct below one it let through before.                                *)
PassedIsNearPeak ==
    [][\A t \in Callers :
          pc[t] = "lock" /\ pc'[t] = "passed" =>
              100 * (peak - call[t].equity) < HardPct * Larger(peak, call[t].equity)]_vars

(* Every call on the switch returns, although callbacks may hang.          *)
EveryCallReturns == \A t \in Callers : pc[t] = "lock" ~> pc[t] # "lock"
=============================================================================
