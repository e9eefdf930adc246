-------------------------- MODULE EquityProtection --------------------------
(***************************************************************************)
(* backend/risk/equity_protection.py, with the trade service that reports  *)
(* to it (services/trade_service.py).  update_equity() holds the lock and  *)
(* never awaits while it does, so each call is one step.  trailing_hwm is  *)
(* on, as by default.  The persistence helpers have no caller under src/;  *)
(* they and a restart may happen at any time.                              *)
(***************************************************************************)
EXTENDS Integers

CONSTANTS Equities,         \* what a caller may report, in whole units
          DefaultBalance,   \* _DEFAULT_BALANCE
          DailyPct, DrawdownPct, WarnPct,       \* EquityProtectionConfig
          Cooldown,         \* the sixty minutes of the cooldown, in ticks
          MaxLoss           \* bound: daily_loss_usd

ASSUME ProtectionAssumption ==
    /\ Equities \subseteq Nat
    /\ DefaultBalance \in Nat \ {0}
    /\ {DailyPct, DrawdownPct, Cooldown} \subseteq Nat \ {0}
    /\ {WarnPct, MaxLoss} \subseteq Nat

VARIABLES
    status,         \* state.status
    hwm,            \* state.high_water_mark
    equity,         \* state.current_equity
    loss,           \* state.daily_loss_usd
    newDay,         \* daily_reset_date is not today
    age,            \* ticks since halted_at; Cooldown when that long ago or None
    initialized,    \* state.initialized
    row,            \* the HALTED row in the database, as its age, or NoRow
    unchecked,      \* SAFE because a cooldown ended, not because of the figures
    dayStart        \* the equity when the daily loss was last zeroed

markVars == <<hwm, equity, loss, newDay, initialized, dayStart>>
haltVars == <<status, age, unchecked>>
vars     == <<markVars, haltVars, row>>

NoRow == -1

TypeOK == /\ status \in {"SAFE", "WARNING", "HALTED"}
          /\ {hwm, equity, loss, dayStart} \subseteq Nat
          /\ newDay \in BOOLEAN
          /\ age \in 0..Cooldown
          /\ initialized \in BOOLEAN
          /\ row \in 0..Cooldown \cup {NoRow}
          /\ unchecked \in BOOLEAN
          /\ initialized => hwm > 0
          /\ status # "HALTED" => age = Cooldown

Init == /\ status = "SAFE" /\ age = Cooldown /\ unchecked = FALSE
        /\ hwm = 0 /\ equity = 0 /\ loss = 0 /\ dayStart = 0
        /\ newDay = TRUE
        /\ initialized = FALSE
        /\ row = NoRow
-----------------------------------------------------------------------------
Larger(a, b) == IF a > b THEN a ELSE b

Drawdown(h, e, pct) == 100 * (h - e) >= pct * h

Breached(h, e, l) == Drawdown(h, e, DrawdownPct) \/ 100 * l >= DailyPct * h

\* the warning level is tested before the limits
MutEvaluate(h, e, l) ==
    /\ status' = IF Drawdown(h, e, WarnPct) THEN "WARNING"
                 ELSE IF Breached(h, e, l) THEN "HALTED" ELSE "SAFE"
    /\ age' = IF status' = "HALTED" THEN 0 ELSE Cooldown
    /\ unchecked' = FALSE

(* _evaluate().  When the cooldown is over trading resumes whatever the    *)
(* figures say; the next call looks at them again.                         *)
Evaluate(h, e, l) ==
    \/ /\ status = "HALTED" /\ age < Cooldown
       /\ UNCHANGED haltVars
    \/ /\ status = "HALTED" /\ age = Cooldown
       /\ status' = "SAFE" /\ unchecked' = TRUE
       /\ UNCHANGED age
    \/ /\ status # "HALTED" /\ Breached(h, e, l)
       /\ status' = "HALTED" /\ age' = 0 /\ unchecked' = FALSE
    \/ /\ status # "HALTED" /\ ~Breached(h, e, l)
       /\ status' = IF Drawdown(h, e, WarnPct) THEN "WARNING" ELSE "SAFE"
       /\ unchecked' = FALSE
       /\ UNCHANGED age

(* initialize()                                                            *)
Positive(b) == IF b > 0 THEN b ELSE DefaultBalance

\* a fresh mark also lifts the halt
MutInitialize(b) ==
    /\ hwm' = Positive(b) /\ equity' = Positive(b) /\ dayStart' = Positive(b)
    /\ loss' = 0
    /\ newDay' = FALSE
    /\ initialized' = TRUE
    /\ status' = "SAFE" /\ age' = Cooldown /\ unchecked' = FALSE
    /\ UNCHANGED row

Initialize(b) ==
    /\ hwm' = Positive(b) /\ equity' = Positive(b) /\ dayStart' = Positive(b)
    /\ loss' = 0
    /\ newDay' = FALSE
    /\ initialized' = TRUE
    /\ UNCHANGED <<haltVars, row>>

\* a gain is taken off the daily loss
MutSpent(prev, e, before) == IF e < prev THEN before + prev - e ELSE IF e > prev THEN 0 ELSE before

Spent(prev, e, before) == IF e < prev THEN before + prev - e ELSE before

(* update_equity(e, b), which initialises an engine that was not.          *)
UpdateEquity(e, b) ==
    LET base   == Positive(IF b > 0 THEN b ELSE e)
        prev   == IF initialized THEN equity ELSE base
        mark   == Larger(IF initialized THEN hwm ELSE base, e)
        before == IF initialized /\ ~newDay THEN loss ELSE 0
        spent  == Spent(prev, e, before)
    IN  /\ spent <= MaxLoss
        /\ hwm' = mark
        /\ equity' = e
        /\ loss' = spent
        /\ newDay' = FALSE
        /\ initialized' = TRUE
        /\ dayStart' = IF initialized /\ ~newDay THEN dayStart ELSE prev
        /\ Evaluate(mark, e, spent)
        /\ UNCHANGED row

Report == \E e, b \in Equities : UpdateEquity(e, b)

(* close_trade() reports neither equity nor balance, but zeros.            *)
CloseTrade == UpdateEquity(0, 0)

MaybeResetDaily ==
    /\ newDay
    /\ loss' = 0
    /\ newDay' = FALSE
    /\ dayStart' = equity
    /\ UNCHANGED <<hwm, equity, initialized, haltVars, row>>

Midnight == /\ newDay' = TRUE
            /\ UNCHANGED <<hwm, equity, loss, initialized, dayStart, haltVars, row>>

Older(n) == IF n < Cooldown THEN n + 1 ELSE n

Tick == /\ age' = Older(age)
        /\ row' = IF row = NoRow THEN NoRow ELSE Older(row)
        /\ UNCHANGED <<markVars, status, unchecked>>
-----------------------------------------------------------------------------
(* persist_halt_state(); a failing database changes nothing.  Only a       *)
(* HALTED row is ever restored.                                            *)
PersistHaltState == /\ row' = IF status = "HALTED" THEN age ELSE NoRow
                    /\ UNCHANGED <<markVars, haltVars>>

RestoreHaltState == /\ row # NoRow
                    /\ status' = "HALTED"
                    /\ age' = row
                    /\ UNCHANGED <<markVars, unchecked, row>>

(* A new process has a new engine; the database keeps its row.             *)
Restart == /\ status' = "SAFE" /\ age' = Cooldown /\ unchecked' = FALSE
           /\ hwm' = 0 /\ equity' = 0 /\ loss' = 0 /\ dayStart' = 0
           /\ newDay' = TRUE
           /\ initialized' = FALSE
           /\ UNCHANGED row

Next == \/ Report \/ CloseTrade
        \/ \E b \in Equities : Initialize(b)
        \/ MaybeResetDaily \/ Midnight \/ Tick
        \/ PersistHaltState \/ RestoreHaltState \/ Restart

Spec == Init /\ [][Next]_vars

-----------------------------------------------------------------------------
(* Trading is allowed only within both limits: the drawdown from the       *)
(* highest equity and the losses of the day.  The one exception is the     *)
(* time from the end of a cooldown to the next report (lines 126-136).     *)
WithinLimits ==
    initialized /\ status # "HALTED" /\ ~unchecked => ~Breached(hwm, equity, loss)

(* A halt lasts its cooldown: no recovery, midnight or new mark ends it    *)
(* earlier or starts it anew; only a restored row changes its beginning    *)
(* and only a restart forgets it (U-8).                                    *)
HaltLastsCooldown ==
    [][status = "HALTED" =>
          /\ status' # "HALTED" => age = Cooldown \/ ~initialized'
          /\ status' = "HALTED" => age' \in {age, Older(age), row}]_vars

(* The daily loss is never less than what the account has lost since it    *)
(* was zeroed, whatever was won in between and whenever midnight passes.   *)
DailyLossCovered == initialized => dayStart - equity <= loss
=============================================================================
