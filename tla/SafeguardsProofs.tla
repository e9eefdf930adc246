-------------------------- MODULE SafeguardsProofs --------------------------
(***************************************************************************)
(* Proofs about the components of Safeguards, each on its own              *)
(* specification and for every value of its constants, and that the        *)
(* composition runs each of them.                                          *)
(***************************************************************************)
EXTENDS Safeguards, SequenceTheorems, FiniteSetTheorems, WellFoundedInduction, TLAPS

-----------------------------------------------------------------------------
(* EquityProtection: an account trades within its limits, and a halt lasts *)
USE DEF NoRow

LEMMA Percentages == /\ DrawdownPct \in Nat \ {0}
                     /\ DailyPct \in Nat \ {0}
                     /\ WarnPct \in Nat
                     /\ Cooldown \in Nat \ {0}
BY ProtectionAssumption

(* The equity is at its mark and nothing was lost: no limit is reached.    *)
LEMMA FreshMark == ASSUME NEW h \in Nat \ {0} PROVE ~Breached(h, h, 0)
<1>1. \A p \in Nat \ {0} : p * h > 0
  OBVIOUS
<1>2. DrawdownPct * h > 0 /\ DailyPct * h > 0
  BY <1>1, Percentages
<1>3. 100 * (h - h) = 0 /\ 100 * 0 = 0
  OBVIOUS
<1>4. DrawdownPct * h \in Int /\ DailyPct * h \in Int
  BY Percentages
<1> QED BY <1>2, <1>3, <1>4 DEF Breached, Drawdown

(* Forgetting the losses of the day reaches no limit.                      *)
LEMMA FreshDay ==
    ASSUME NEW h \in Nat \ {0}, NEW e \in Nat, NEW l \in Nat, ~Breached(h, e, l)
    PROVE  ~Breached(h, e, 0)
<1>1. \A p \in Nat \ {0} : p * h > 0 /\ p * h \in Int
  OBVIOUS
<1>2. DailyPct * h > 0 /\ DailyPct * h \in Int
  BY <1>1, Percentages
<1>3. ~(100 * 0 >= DailyPct * h)
  BY <1>2
<1>4. ~Drawdown(h, e, DrawdownPct)
  BY Zenon DEF Breached
<1> QED BY <1>3, <1>4, Zenon DEF Breached

(* initialize() never sets the mark to zero.                               *)
LEMMA PositiveIsPositive == ASSUME NEW b \in Nat PROVE Positive(b) \in Nat \ {0}
BY ProtectionAssumption DEF Positive

(* Losses of a report: no negative one, and none that the equity lost less *)
(* than it did.                                                            *)
LEMMA SpentCovers ==
    ASSUME NEW prev \in Nat, NEW e \in Nat, NEW before \in Nat
    PROVE  /\ Spent(prev, e, before) \in Nat
           /\ prev - e <= Spent(prev, e, before) - before
BY DEF Spent
-----------------------------------------------------------------------------
(* What _evaluate() makes of the figures it is given.                      *)
LEMMA EvaluateType ==
    ASSUME TypeOK, NEW h \in Nat, NEW e \in Nat, NEW l \in Nat, Evaluate(h, e, l)
    PROVE  /\ status' \in {"SAFE", "WARNING", "HALTED"}
           /\ age' \in 0..Cooldown
           /\ unchecked' \in BOOLEAN
           /\ status' # "HALTED" => age' = Cooldown
           /\ status = "HALTED" /\ status' # "HALTED" => age = Cooldown
           /\ status = "HALTED" /\ status' = "HALTED" => age' = age
<1>1. unchecked' \in BOOLEAN
  <2>1. unchecked' = unchecked \/ unchecked' = TRUE \/ unchecked' = FALSE
    BY Zenon DEF Evaluate, haltVars
  <2>2. unchecked \in BOOLEAN
    BY Zenon DEF TypeOK
  <2> QED BY <2>1, <2>2, Zenon
<1>2. \/ status = "HALTED" /\ status' = status /\ age' = age
      \/ status = "HALTED" /\ age = Cooldown /\ status' = "SAFE" /\ age' = age
      \/ status # "HALTED" /\ status' = "HALTED" /\ age' = 0
      \/ status # "HALTED" /\ status' \in {"WARNING", "SAFE"} /\ age' = age
  BY Zenon DEF Evaluate, haltVars
<1>3. /\ status \in {"SAFE", "WARNING", "HALTED"}
      /\ age \in 0..Cooldown
      /\ status # "HALTED" => age = Cooldown
  BY Zenon DEF TypeOK
<1> QED BY <1>1, <1>2, <1>3, Percentages

LEMMA EvaluateLimits ==
    ASSUME NEW h, NEW e, NEW l, Evaluate(h, e, l),
           status' # "HALTED", ~unchecked'
    PROVE  ~Breached(h, e, l)
<1>1. status = "HALTED" => status' = status \/ unchecked' = TRUE
  BY Zenon DEF Evaluate, haltVars
<1>2. status # "HALTED"
  BY <1>1, Zenon
<1> QED BY <1>2, Zenon DEF Evaluate
-----------------------------------------------------------------------------
(* What a report leaves behind, and where its figures come from.           *)
LEMMA ReportStep ==
    ASSUME TypeOK, DailyLossCovered, NEW e \in Nat, NEW b \in Nat, UpdateEquity(e, b)
    PROVE  /\ hwm' \in Nat \ {0} /\ equity' \in Nat /\ loss' \in Nat /\ dayStart' \in Nat
           /\ newDay' = FALSE /\ initialized' = TRUE /\ row' = row
           /\ dayStart' - equity' <= loss'
           /\ Evaluate(hwm', equity', loss')
<1> DEFINE base   == Positive(IF b > 0 THEN b ELSE e)
           prev   == IF initialized THEN equity ELSE base
           mark   == Larger(IF initialized THEN hwm ELSE base, e)
           before == IF initialized /\ ~newDay THEN loss ELSE 0
           start  == IF initialized /\ ~newDay THEN dayStart ELSE prev
           spent  == Spent(prev, e, before)
<1>1. /\ hwm' = mark /\ equity' = e /\ loss' = spent
      /\ newDay' = FALSE /\ initialized' = TRUE /\ row' = row
      /\ dayStart' = start
      /\ Evaluate(mark, e, spent)
  BY Zenon DEF UpdateEquity
<1>2. base \in Nat \ {0}
  BY PositiveIsPositive
<1>3. /\ prev \in Nat
      /\ before \in Nat
      /\ start \in Nat
  BY <1>2 DEF TypeOK
<1>4. mark \in Nat \ {0}
  <2>1. CASE initialized
    BY <2>1 DEF TypeOK, Larger
  <2>2. CASE ~initialized
    BY <2>2, <1>2 DEF Larger
  <2> QED BY <2>1, <2>2
<1>5. start - prev <= before
  <2>1. CASE initialized /\ ~newDay
    BY <2>1 DEF TypeOK, DailyLossCovered
  <2>2. CASE ~(initialized /\ ~newDay)
    <3>1. start = prev /\ before = 0
      BY <2>2, Zenon
    <3> QED BY <3>1, <1>3
  <2> QED BY <2>1, <2>2, Zenon
<1>6. spent \in Nat /\ prev - e <= spent - before
  BY <1>3, SpentCovers
<1>7. start - e <= spent
  BY <1>3, <1>5, <1>6
<1> HIDE DEF base, prev, mark, before, start, spent
<1> QED BY <1>1, <1>3, <1>4, <1>6, <1>7
-----------------------------------------------------------------------------
EquityInv == TypeOK /\ WithinLimits /\ DailyLossCovered

LEMMA EquityStarts == Init => EquityInv
<1> SUFFICES ASSUME Init PROVE EquityInv
  OBVIOUS
<1>1. /\ status = "SAFE" /\ age = Cooldown /\ hwm = 0 /\ equity = 0 /\ loss = 0
      /\ dayStart = 0 /\ row = NoRow
  BY DEF Init
<1>2. newDay \in BOOLEAN /\ unchecked \in BOOLEAN /\ initialized \in BOOLEAN /\ ~initialized
  BY Zenon DEF Init
<1>3. TypeOK
  BY <1>1, <1>2, Percentages DEF TypeOK
<1> QED BY <1>2, <1>3, Zenon DEF EquityInv, WithinLimits, DailyLossCovered

(* A report, also the one of a closed trade.                               *)
LEMMA ReportKeepsInv ==
    ASSUME EquityInv, NEW e \in Nat, NEW b \in Nat, UpdateEquity(e, b)
    PROVE  EquityInv'
<1>1. TypeOK /\ DailyLossCovered
  BY Zenon DEF EquityInv
<1>2. /\ hwm' \in Nat \ {0} /\ equity' \in Nat /\ loss' \in Nat /\ dayStart' \in Nat
      /\ newDay' = FALSE /\ initialized' = TRUE /\ row' = row
      /\ dayStart' - equity' <= loss'
      /\ Evaluate(hwm', equity', loss')
  BY <1>1, ReportStep, Zenon
<1>3. /\ status' \in {"SAFE", "WARNING", "HALTED"}
      /\ age' \in 0..Cooldown
      /\ unchecked' \in BOOLEAN
      /\ status' # "HALTED" => age' = Cooldown
  BY <1>1, <1>2, EvaluateType
<1>4. row' \in 0..Cooldown \cup {NoRow}
  BY <1>1, <1>2 DEF TypeOK
<1>5. {hwm', equity', loss', dayStart'} \subseteq Nat /\ hwm' > 0
  BY <1>2
<1>6. newDay' \in BOOLEAN /\ initialized' \in BOOLEAN
  BY <1>2, Zenon
<1>7. TypeOK'
  BY <1>3, <1>4, <1>5, <1>6, Zenon DEF TypeOK
<1>8. WithinLimits'
  BY <1>2, EvaluateLimits, Zenon DEF WithinLimits, Breached, Drawdown
<1> QED BY <1>2, <1>7, <1>8, Zenon DEF EquityInv, DailyLossCovered

(* A new mark: the halt stays, and nothing is lost yet.                    *)
LEMMA InitializeKeepsInv ==
    ASSUME EquityInv, NEW b \in Nat, Initialize(b)
    PROVE  EquityInv'
<1>1. /\ hwm' = Positive(b) /\ equity' = Positive(b) /\ dayStart' = Positive(b)
      /\ loss' = 0
      /\ status' = status /\ age' = age /\ row' = row
  BY DEF Initialize, haltVars
<1>2. newDay' = FALSE /\ initialized' = TRUE /\ unchecked' = unchecked
  BY Zenon DEF Initialize, haltVars
<1>3. newDay' \in BOOLEAN /\ initialized' \in BOOLEAN /\ unchecked' \in BOOLEAN
  BY <1>2, Zenon DEF EquityInv, TypeOK
<1>4. Positive(b) \in Nat \ {0}
  BY PositiveIsPositive
<1>5. /\ status \in {"SAFE", "WARNING", "HALTED"} /\ age \in 0..Cooldown
      /\ row \in 0..Cooldown \cup {NoRow}
      /\ status # "HALTED" => age = Cooldown
  BY Zenon DEF EquityInv, TypeOK
<1>6. TypeOK'
  BY <1>1, <1>3, <1>4, <1>5 DEF TypeOK
<1>7. ~Breached(Positive(b), Positive(b), 0)
  BY <1>4, FreshMark
<1>8. WithinLimits'
  BY <1>1, <1>7, Zenon DEF WithinLimits, Breached, Drawdown
<1>9. dayStart' - equity' <= loss'
  BY <1>1, <1>4
<1> QED BY <1>6, <1>8, <1>9, Zenon DEF EquityInv, DailyLossCovered

(* The day turns: the losses are forgotten, and counted from here.         *)
LEMMA ResetKeepsInv == EquityInv /\ MaybeResetDaily => EquityInv'
<1> SUFFICES ASSUME EquityInv, MaybeResetDaily PROVE EquityInv'
  OBVIOUS
<1>1. /\ loss' = 0 /\ dayStart' = equity /\ hwm' = hwm /\ equity' = equity
      /\ status' = status /\ age' = age /\ row' = row
  BY DEF MaybeResetDaily, haltVars
<1>2. newDay' = FALSE /\ initialized' = initialized /\ unchecked' = unchecked
  BY Zenon DEF MaybeResetDaily, haltVars
<1>3. newDay' \in BOOLEAN /\ initialized' \in BOOLEAN /\ unchecked' \in BOOLEAN
  BY <1>2, Zenon DEF EquityInv, TypeOK
<1>4. /\ status \in {"SAFE", "WARNING", "HALTED"} /\ age \in 0..Cooldown
      /\ row \in 0..Cooldown \cup {NoRow}
      /\ status # "HALTED" => age = Cooldown
      /\ {hwm, equity, loss, dayStart} \subseteq Nat
      /\ initialized => hwm > 0
  BY Zenon DEF EquityInv, TypeOK
<1>5. TypeOK'
  <2>1. initialized' => hwm' > 0
    BY <1>1, <1>2, <1>4, Zenon
  <2>2. {hwm', equity', loss', dayStart'} \subseteq Nat
    BY <1>1, <1>4
  <2> QED BY <1>1, <1>3, <1>4, <2>1, <2>2, Zenon DEF TypeOK
<1>6. ASSUME initialized, ~Breached(hwm, equity, loss)
      PROVE  ~Breached(hwm, equity, 0)
  <2>1. hwm > 0
    BY <1>4, <1>6, Zenon
  <2>2. hwm \in Nat \ {0} /\ equity \in Nat /\ loss \in Nat
    BY <1>4, <2>1
  <2> QED BY <1>6, <2>2, FreshDay
<1>7. WithinLimits'
  <2>1. WithinLimits
    BY Zenon DEF EquityInv
  <2> QED BY <1>1, <1>2, <1>6, <2>1, Zenon DEF WithinLimits, Breached, Drawdown
<1>8. dayStart' - equity' <= loss'
  BY <1>1, <1>4
<1> QED BY <1>5, <1>7, <1>8, Zenon DEF EquityInv, DailyLossCovered

(* Steps that leave the figures alone: the clock, midnight, and what the   *)
(* database keeps and gives back.                                          *)
LEMMA FiguresKept ==
    ASSUME EquityInv,
           UNCHANGED <<hwm, equity, loss, initialized, dayStart, unchecked>>,
           newDay' \in BOOLEAN,
           status' = status \/ status' = "HALTED",
           age' \in 0..Cooldown,
           status' # "HALTED" => age' = Cooldown,
           row' \in 0..Cooldown \cup {NoRow}
    PROVE  EquityInv'
<1>1. TypeOK'
  <2>1. status' \in {"SAFE", "WARNING", "HALTED"}
    BY Zenon DEF EquityInv, TypeOK
  <2> QED BY <2>1, Zenon DEF EquityInv, TypeOK
<1>2. WithinLimits'
  BY Zenon DEF EquityInv, WithinLimits, Breached, Drawdown
<1>3. DailyLossCovered'
  BY Zenon DEF EquityInv, DailyLossCovered
<1> QED BY <1>1, <1>2, <1>3, Zenon DEF EquityInv

LEMMA OlderType == \A n \in 0..Cooldown : Older(n) \in 0..Cooldown /\ Older(Cooldown) = Cooldown
BY Percentages DEF Older

LEMMA ClockKeepsInv == EquityInv /\ (Tick \/ Midnight) => EquityInv'
<1>1. ASSUME EquityInv, Tick PROVE EquityInv'
  <2>1. /\ age \in 0..Cooldown /\ row \in 0..Cooldown \cup {NoRow}
        /\ status # "HALTED" => age = Cooldown
        /\ newDay \in BOOLEAN
    BY <1>1, Zenon DEF EquityInv, TypeOK
  <2>2. /\ age' = Older(age)
        /\ row' = IF row = NoRow THEN NoRow ELSE Older(row)
        /\ UNCHANGED <<hwm, equity, loss, newDay, initialized, dayStart, status, unchecked>>
    BY <1>1, Zenon DEF Tick, markVars
  <2>3. row' \in 0..Cooldown \cup {NoRow}
    BY <2>1, <2>2, OlderType
  <2>4. age' \in 0..Cooldown /\ (status' # "HALTED" => age' = Cooldown)
    BY <2>1, <2>2, OlderType
  <2>5. newDay' \in BOOLEAN
    BY <2>1, <2>2, Zenon
  <2>6. UNCHANGED <<hwm, equity, loss, initialized, dayStart, unchecked>> /\ status' = status
    BY <2>2, Zenon
  <2> QED BY <1>1, <2>3, <2>4, <2>5, <2>6, FiguresKept
<1>2. ASSUME EquityInv, Midnight PROVE EquityInv'
  <2>1. /\ newDay' = TRUE
        /\ UNCHANGED <<hwm, equity, loss, initialized, dayStart, unchecked>>
        /\ status' = status /\ age' = age /\ row' = row
    BY <1>2, Zenon DEF Midnight, haltVars
  <2>2. /\ age' \in 0..Cooldown /\ row' \in 0..Cooldown \cup {NoRow}
        /\ status' # "HALTED" => age' = Cooldown
        /\ newDay' \in BOOLEAN
    BY <1>2, <2>1, Zenon DEF EquityInv, TypeOK
  <2> QED BY <1>2, <2>1, <2>2, FiguresKept
<1> QED BY <1>1, <1>2

LEMMA DatabaseKeepsInv == EquityInv /\ (PersistHaltState \/ RestoreHaltState) => EquityInv'
<1>1. ASSUME EquityInv, PersistHaltState PROVE EquityInv'
  <2>1. /\ row' = age \/ row' = NoRow
        /\ UNCHANGED <<hwm, equity, loss, newDay, initialized, dayStart, unchecked>>
        /\ status' = status /\ age' = age
    BY <1>1, Zenon DEF PersistHaltState, markVars, haltVars
  <2>2. /\ age' \in 0..Cooldown /\ row' \in 0..Cooldown \cup {NoRow}
        /\ status' # "HALTED" => age' = Cooldown
        /\ newDay' \in BOOLEAN
    BY <1>1, <2>1, Zenon DEF EquityInv, TypeOK
  <2>3. UNCHANGED <<hwm, equity, loss, initialized, dayStart, unchecked>>
    BY <2>1, Zenon
  <2> QED BY <1>1, <2>1, <2>2, <2>3, FiguresKept
<1>2. ASSUME EquityInv, RestoreHaltState PROVE EquityInv'
  <2>1. /\ row # NoRow /\ status' = "HALTED" /\ age' = row /\ row' = row
        /\ UNCHANGED <<hwm, equity, loss, newDay, initialized, dayStart, unchecked>>
    BY <1>2, Zenon DEF RestoreHaltState, markVars
  <2>2. /\ age' \in 0..Cooldown /\ row' \in 0..Cooldown \cup {NoRow}
        /\ newDay' \in BOOLEAN
    BY <1>2, <2>1, Zenon DEF EquityInv, TypeOK
  <2>3. UNCHANGED <<hwm, equity, loss, initialized, dayStart, unchecked>>
    BY <2>1, Zenon
  <2> QED BY <1>2, <2>1, <2>2, <2>3, FiguresKept
<1> QED BY <1>1, <1>2

LEMMA RestartKeepsInv == EquityInv /\ Restart => EquityInv'
<1> SUFFICES ASSUME EquityInv, Restart PROVE EquityInv'
  OBVIOUS
<1>1. /\ status' = "SAFE" /\ age' = Cooldown /\ row' = row
      /\ hwm' = 0 /\ equity' = 0 /\ loss' = 0 /\ dayStart' = 0
  BY DEF Restart
<1>2. newDay' \in BOOLEAN /\ unchecked' \in BOOLEAN /\ initialized' \in BOOLEAN /\ ~initialized'
  BY Zenon DEF Restart
<1>3. row' \in 0..Cooldown \cup {NoRow}
  BY <1>1, Zenon DEF EquityInv, TypeOK
<1>4. TypeOK'
  BY <1>1, <1>2, <1>3, Percentages DEF TypeOK
<1> QED BY <1>2, <1>4, Zenon DEF EquityInv, WithinLimits, DailyLossCovered

LEMMA EquityKeeps == EquityInv /\ [Next]_vars => EquityInv'
<1> SUFFICES ASSUME EquityInv, [Next]_vars PROVE EquityInv'
  OBVIOUS
<1>1. CASE Report
  <2>1. PICK e \in Equities, b \in Equities : UpdateEquity(e, b)
    BY <1>1 DEF Report
  <2>2. e \in Nat /\ b \in Nat
    BY ProtectionAssumption
  <2> QED BY <2>1, <2>2, ReportKeepsInv
<1>2. CASE CloseTrade
  <2>1. UpdateEquity(0, 0) /\ 0 \in Nat
    BY <1>2 DEF CloseTrade
  <2> QED BY <2>1, ReportKeepsInv
<1>3. CASE \E b \in Equities : Initialize(b)
  BY <1>3, ProtectionAssumption, InitializeKeepsInv
<1>4. CASE MaybeResetDaily
  BY <1>4, ResetKeepsInv
<1>5. CASE Midnight \/ Tick
  BY <1>5, ClockKeepsInv
<1>6. CASE PersistHaltState \/ RestoreHaltState
  BY <1>6, DatabaseKeepsInv
<1>7. CASE Restart
  BY <1>7, RestartKeepsInv
<1>8. CASE UNCHANGED vars
  BY <1>8, Zenon DEF vars, markVars, haltVars, EquityInv, TypeOK, WithinLimits, DailyLossCovered,
                     Breached, Drawdown
<1> QED BY <1>1, <1>2, <1>3, <1>4, <1>5, <1>6, <1>7, <1>8 DEF Next
-----------------------------------------------------------------------------
THEOREM Invariance == Spec => []EquityInv
BY EquityStarts, EquityKeeps, PTL DEF Spec

(* The engine's state has its type; in particular an initialized engine    *)
(* has a positive mark (U-6).                                              *)
THEOREM TypeCorrect == Spec => []TypeOK
<1>1. EquityInv => TypeOK
  BY DEF EquityInv
<1> QED BY <1>1, Invariance, PTL

(* Trading is allowed only within the drawdown and the daily limit, except *)
(* from the end of a cooldown to the next report.                          *)
THEOREM TradesWithinLimits == Spec => []WithinLimits
<1>1. EquityInv => WithinLimits
  BY DEF EquityInv
<1> QED BY <1>1, Invariance, PTL

(* The daily loss covers what was lost since it was zeroed.                *)
THEOREM LossesAreCounted == Spec => []DailyLossCovered
<1>1. EquityInv => DailyLossCovered
  BY DEF EquityInv
<1> QED BY <1>1, Invariance, PTL

(* A halt lasts its cooldown: no report, new mark or midnight ends it      *)
(* earlier or starts it anew.                                              *)
THEOREM HaltsLastTheirCooldown == Spec => HaltLastsCooldown
<1> DEFINE A == status = "HALTED" =>
                   /\ status' # "HALTED" => age = Cooldown \/ ~initialized'
                   /\ status' = "HALTED" => age' \in {age, Older(age), row}
<1>1. ASSUME EquityInv, [Next]_vars PROVE A
  <2>1. ASSUME NEW e \in Nat, NEW b \in Nat, UpdateEquity(e, b) PROVE A
    <3>1. TypeOK /\ DailyLossCovered
      BY <1>1, Zenon DEF EquityInv
    <3>2. /\ hwm' \in Nat /\ equity' \in Nat /\ loss' \in Nat
          /\ Evaluate(hwm', equity', loss')
      BY <2>1, <3>1, ReportStep
    <3>3. /\ status = "HALTED" /\ status' # "HALTED" => age = Cooldown
          /\ status = "HALTED" /\ status' = "HALTED" => age' = age
      BY <3>1, <3>2, EvaluateType
    <3> QED BY <3>3, Zenon
  <2>2. CASE Report \/ CloseTrade
    <3>1. CASE Report
      <4>1. PICK e \in Equities, b \in Equities : UpdateEquity(e, b)
        BY <3>1 DEF Report
      <4> QED BY <2>1, <4>1, ProtectionAssumption
    <3>2. CASE CloseTrade
      <4>1. UpdateEquity(0, 0) /\ 0 \in Nat
        BY <3>2 DEF CloseTrade
      <4> QED BY <2>1, <4>1
    <3> QED BY <2>2, <3>1, <3>2
  <2>3. CASE \/ \E b \in Equities : Initialize(b)
             \/ MaybeResetDaily \/ Midnight \/ PersistHaltState \/ UNCHANGED vars
    <3>1. status' = status /\ age' = age
      BY <2>3, Zenon DEF Initialize, MaybeResetDaily, Midnight, PersistHaltState, vars, haltVars
    <3> QED BY <3>1, Zenon
  <2>4. CASE Tick
    BY <2>4, Zenon DEF Tick
  <2>5. CASE RestoreHaltState
    BY <2>5, Zenon DEF RestoreHaltState
  <2>6. CASE Restart
    BY <2>6, Zenon DEF Restart
  <2> QED BY <1>1, <2>2, <2>3, <2>4, <2>5, <2>6, Zenon DEF Next
<1> HIDE DEF A
<1>2. EquityInv /\ [Next]_vars => [A]_vars
  BY <1>1
<1>3. Spec => [][A]_vars
  BY <1>2, Invariance, PTL DEF Spec
<1> QED BY <1>3 DEF HaltLastsCooldown, A

HIDE DEF NoRow
-----------------------------------------------------------------------------
(* IncidentResponse: entries, their index by target and the switches that  *)
(* stand always agree.                                                     *)
USE ResponseAssumption

(* What _entries, _by_target and the clock have to say about one switch.   *)
Indexed ==
    /\ \A k \in entries : k \in byTarget[target[k]]
    /\ \A t \in Targets : \A k \in byTarget[t] : k \in entries /\ target[k] = t
    /\ stands = {k \in entries : left[k] # 0}

SwitchesTyped ==
    /\ entries \subseteq Switches /\ stands \subseteq Switches
    /\ target \in [Switches -> Targets] /\ left \in [Switches -> 0..Forever]
    /\ byTarget \in [Targets -> SUBSET Switches]
    /\ globalActive \in BOOLEAN

IncidentsTyped ==
    /\ incidents \in Seq(Incidents)
    /\ stage \in [Incidents -> Stages] /\ openFor \in [Incidents -> 0..(Sla + 1)]
    /\ escalated \subseteq Incidents
    /\ pass \in [next : Nat, size : Nat]
    /\ pass.next <= Len(incidents) + 1 /\ pass.size <= Len(incidents)
    /\ pass = NoPass \/ pass.next # 0

ResponseInv == SwitchesTyped /\ IncidentsTyped /\ Indexed

-----------------------------------------------------------------------------
LEMMA ResponseStarts == ResponseInit => ResponseInv
<1> SUFFICES ASSUME ResponseInit PROVE ResponseInv
  OBVIOUS
<1>1. SwitchesTyped
  <2>1. Forever \in 0..Forever /\ Global \in Targets
    BY DEF Targets, Forever
  <2>2. /\ target = [k \in Switches |-> Global] /\ left = [k \in Switches |-> Forever]
        /\ byTarget = [t \in Targets |-> {}]
        /\ entries = {} /\ stands = {} /\ globalActive = FALSE
    BY DEF ResponseInit
  <2>3. left \in [Switches -> 0..Forever] /\ target \in [Switches -> Targets]
    BY <2>1, <2>2
  <2>4. byTarget \in [Targets -> SUBSET Switches]
    BY <2>2
  <2> QED BY <2>2, <2>3, <2>4 DEF SwitchesTyped
<1>2. IncidentsTyped
  BY EmptySeq DEF ResponseInit, IncidentsTyped, Stages, NoPass
<1>3. Indexed
  BY DEF ResponseInit, Indexed, Targets
<1> QED BY <1>1, <1>2, <1>3 DEF ResponseInv

(* Throwing a switch enters it in all three places.                        *)
LEMMA ActivateKeeps ==
    ASSUME ResponseInv, NEW k \in Switches, NEW t \in Targets, NEW ttl \in {Ttl, Forever},
           Activate(k, t, ttl)
    PROVE  SwitchesTyped' /\ Indexed'
<1>1. ttl \in 0..Forever /\ ttl # 0
  BY DEF Forever
<1>2. /\ entries' = entries \cup {k} /\ stands' = stands \cup {k} /\ k \notin entries
      /\ target' = [target EXCEPT ![k] = t] /\ left' = [left EXCEPT ![k] = ttl]
      /\ byTarget' = [byTarget EXCEPT ![t] = @ \cup {k}]
      /\ globalActive' = (globalActive \/ t = Global)
  BY DEF Activate
<1>3. SwitchesTyped'
  BY <1>1, <1>2 DEF ResponseInv, SwitchesTyped
<1>4. \A j \in entries' : j \in byTarget'[target'[j]]
  BY <1>2 DEF ResponseInv, SwitchesTyped, Indexed
<1>5. \A u \in Targets : \A j \in byTarget'[u] : j \in entries' /\ target'[j] = u
  BY <1>2 DEF ResponseInv, SwitchesTyped, Indexed
<1>6. stands' = {j \in entries' : left'[j] # 0}
  BY <1>1, <1>2 DEF ResponseInv, SwitchesTyped, Indexed
<1> QED BY <1>3, <1>4, <1>5, <1>6 DEF Indexed

(* Taking switches out takes them out of all three.                        *)
LEMMA ForgetKeeps ==
    ASSUME ResponseInv, NEW ks \in SUBSET entries, Forget(ks),
           target' = target, globalActive' \in BOOLEAN,
           stands' = stands \ ks
    PROVE  SwitchesTyped' /\ Indexed'
<1>1. /\ entries' = entries \ ks
      /\ left' = [k \in Switches |-> IF k \in ks THEN 0 ELSE left[k]]
      /\ byTarget' = [t \in Targets |-> byTarget[t] \ {k \in ks : target[k] = t}]
  BY DEF Forget
<1>2. SwitchesTyped'
  BY <1>1 DEF ResponseInv, SwitchesTyped, Forever
<1>3. \A j \in entries' : j \in byTarget'[target'[j]]
  BY <1>1 DEF ResponseInv, SwitchesTyped, Indexed
<1>4. \A u \in Targets : \A j \in byTarget'[u] : j \in entries' /\ target'[j] = u
  BY <1>1 DEF ResponseInv, SwitchesTyped, Indexed
<1>5. stands' = {j \in entries' : left'[j] # 0}
  BY <1>1 DEF ResponseInv, SwitchesTyped, Indexed
<1> QED BY <1>2, <1>3, <1>4, <1>5 DEF Indexed

LEMMA PurgeKeeps == ResponseInv /\ Purge => SwitchesTyped' /\ Indexed'
<1> SUFFICES ASSUME ResponseInv, Purge PROVE SwitchesTyped' /\ Indexed'
  OBVIOUS
<1> DEFINE ks == {k \in entries : Expired(k)}
<1>1. Forget(ks) /\ target' = target /\ stands' = stands /\ globalActive' \in BOOLEAN
  BY DEF Purge, AnyGlobal
<1>2. stands = stands \ ks
  BY DEF ResponseInv, Indexed, Expired
<1> QED BY <1>1, <1>2, ForgetKeeps

LEMMA ResetKeeps ==
    ASSUME ResponseInv, NEW ks \in SUBSET entries, Reset(ks)
    PROVE  SwitchesTyped' /\ Indexed'
<1>1. globalActive' \in BOOLEAN
  BY DEF Reset, AnyGlobal, ResponseInv, SwitchesTyped
<1> QED BY <1>1, ForgetKeeps DEF Reset

(* The clock takes the switches that ran out off those that stand.         *)
LEMMA TickKeeps == ResponseInv /\ ResponseTick => SwitchesTyped' /\ Indexed'
<1> SUFFICES ASSUME ResponseInv, ResponseTick PROVE SwitchesTyped' /\ Indexed'
  OBVIOUS
<1>1. /\ left' = [k \in Switches |-> IF left[k] \in 1..Ttl THEN left[k] - 1 ELSE left[k]]
      /\ stands' = {k \in stands : left'[k] # 0}
      /\ UNCHANGED <<entries, target, byTarget, globalActive>>
  BY DEF ResponseTick
<1>2. \A k \in Switches : left[k] \in 0..Forever
  BY DEF ResponseInv, SwitchesTyped
<1>3. left' \in [Switches -> 0..Forever]
  BY <1>1, <1>2 DEF Forever
<1>4. \A k \in Switches : left[k] = 0 => left'[k] = 0
  BY <1>1
<1>5. SwitchesTyped'
  BY <1>1, <1>3 DEF ResponseInv, SwitchesTyped
<1>6. stands' = {j \in entries' : left'[j] # 0}
  BY <1>1, <1>4 DEF ResponseInv, SwitchesTyped, Indexed
<1> QED BY <1>1, <1>5, <1>6 DEF ResponseInv, Indexed

-----------------------------------------------------------------------------
(* Incidents, their stages and the escalation pass.                        *)
LEMMA IncidentsKeep == ResponseInv /\ [ResponseNext]_responseVars => IncidentsTyped'
<1> SUFFICES ASSUME ResponseInv, [ResponseNext]_responseVars PROVE IncidentsTyped'
  OBVIOUS
<1> USE DEF ResponseInv, IncidentsTyped
<1>0. Len(incidents) \in Nat
  BY LenProperties
<1>1. ASSUME UNCHANGED <<incidentVars, policyVars>> PROVE IncidentsTyped'
  BY <1>1 DEF incidentVars, policyVars
<1>2. ASSUME NEW i \in Incidents, Record(i) PROVE IncidentsTyped'
  <2>1. /\ incidents' = Append(incidents, i) /\ UNCHANGED <<stage, openFor, escalated, pass>>
    BY <1>2 DEF Record, policyVars
  <2>2. incidents' \in Seq(Incidents) /\ Len(incidents') = Len(incidents) + 1
    BY <2>1, AppendProperties
  <2> QED BY <1>0, <2>1, <2>2
<1>3. ASSUME NEW i \in Incidents, NEW s \in Stages, Transition(i, s) PROVE IncidentsTyped'
  BY <1>3 DEF Transition, policyVars
<1>4. ASSUME BeginPass PROVE IncidentsTyped'
  <2>1. Len(incidents) >= 1
    BY <1>0, <1>4, EmptySeq DEF BeginPass
  <2> QED BY <1>0, <1>4, <2>1 DEF BeginPass, incidentVars
<1>5. ASSUME PassStep PROVE IncidentsTyped'
  <2>1. CASE pass' = NoPass /\ UNCHANGED escalated
    BY <1>0, <1>5, <2>1 DEF PassStep, incidentVars, NoPass
  <2>2. CASE ~(Len(incidents) # pass.size \/ pass.next > pass.size)
    <3>1. /\ pass' = [pass EXCEPT !.next = @ + 1]
          /\ escalated' = escalated \cup {i \in {incidents[pass.next]} : Overdue(i)}
          /\ UNCHANGED incidentVars
      BY <1>5, <2>2 DEF PassStep
    <3>2. pass'.next = pass.next + 1 /\ pass'.size = pass.size /\ pass' \in [next : Nat, size : Nat]
      BY <3>1
    <3>3. escalated' \subseteq Incidents
      <4>1. ASSUME NEW i \in {incidents[pass.next]}, Overdue(i) PROVE i \in Incidents
        <5>1. pass.next \in 1..Len(incidents)
          BY <1>0, <1>5, <2>2 DEF PassStep
        <5> QED BY <4>1, <5>1, ElementOfSeq
      <4> QED BY <3>1, <4>1
    <3> QED BY <1>0, <2>2, <3>1, <3>2, <3>3 DEF incidentVars
  <2> QED BY <1>5, <2>1, <2>2 DEF PassStep
<1>6. ASSUME ResponseTick PROVE IncidentsTyped'
  <2>1. openFor' \in [Incidents -> 0..(Sla + 1)]
    BY <1>6 DEF ResponseTick
  <2> QED BY <1>6, <2>1 DEF ResponseTick, policyVars
<1> QED
  BY <1>1, <1>2, <1>3, <1>4, <1>5, <1>6
     DEF ResponseNext, responseVars, Throw, ResetOne, ResetAll, Reset, Purge, OpenIncident, OpenAndKill

LEMMA SwitchesKeep == ResponseInv /\ [ResponseNext]_responseVars => SwitchesTyped' /\ Indexed'
<1> SUFFICES ASSUME ResponseInv, [ResponseNext]_responseVars PROVE SwitchesTyped' /\ Indexed'
  OBVIOUS
<1>1. ASSUME UNCHANGED switchVars PROVE SwitchesTyped' /\ Indexed'
  BY <1>1 DEF switchVars, ResponseInv, SwitchesTyped, Indexed
<1>2. ASSUME NEW k \in Switches, NEW t \in Targets, NEW ttl \in {Ttl, Forever}, Throw(k, t, ttl)
      PROVE  SwitchesTyped' /\ Indexed'
  BY <1>2, ActivateKeeps DEF Throw
<1>3. ASSUME NEW ks, Reset(ks) PROVE SwitchesTyped' /\ Indexed'
  BY <1>3, ResetKeeps DEF Reset
<1>4. ASSUME NEW i \in Incidents, NEW k \in Switches, NEW t \in Targets, OpenAndKill(i, k, t)
      PROVE  SwitchesTyped' /\ Indexed'
  BY <1>4, ActivateKeeps DEF OpenAndKill
<1>5. ASSUME NEW i \in Incidents, OpenIncident(i) PROVE UNCHANGED switchVars
  BY <1>5 DEF OpenIncident
<1>6. ASSUME NEW i \in Incidents, NEW s \in Stages, Transition(i, s) PROVE UNCHANGED switchVars
  BY <1>6 DEF Transition
<1>7. BeginPass \/ PassStep => UNCHANGED switchVars
  BY DEF BeginPass, PassStep
<1>8. UNCHANGED responseVars => UNCHANGED switchVars
  BY DEF responseVars
<1> QED
  BY <1>1, <1>2, <1>3, <1>4, <1>5, <1>6, <1>7, <1>8, PurgeKeeps, TickKeeps
     DEF ResponseNext, ResetOne, ResetAll

(* What check() answers from the index is what the standing switches say.  *)
LEMMA InvBlocks == ResponseInv => StandingSwitchBlocks
<1> SUFFICES ASSUME ResponseInv PROVE StandingSwitchBlocks
  OBVIOUS
<1> USE DEF ResponseInv
<1>1. ResponseTypeOK
  <2>1. \A n \in DOMAIN incidents : incidents[n] \in Incidents
    BY LenProperties, ElementOfSeq DEF IncidentsTyped
  <2>2. Len(incidents) \in Nat
    BY LenProperties DEF IncidentsTyped
  <2> QED BY <2>1, <2>2 DEF ResponseTypeOK, SwitchesTyped, IncidentsTyped
<1>2. ASSUME NEW t \in Targets PROVE Blocks(t) <=> \E k \in stands : target[k] \in {t, Global}
  <2>1. AnyGlobal(entries) <=> \E k \in stands : target[k] = Global
    BY DEF AnyGlobal, Expired, Indexed
  <2>2. (\E k \in byTarget[t] : k \in entries /\ ~Expired(k)) <=> \E k \in stands : target[k] = t
    BY DEF Expired, Indexed
  <2> QED BY <2>1, <2>2 DEF Blocks
<1> QED BY <1>1, <1>2 DEF StandingSwitchBlocks

(* Whatever is thrown, reset, purged or run out, and whoever opens an      *)
(* incident meanwhile: a target is refused exactly while a switch thrown   *)
(* for it, or for everything, stands.                                      *)
THEOREM SwitchesBlock ==
    ResponseInit /\ [][ResponseNext]_responseVars => []StandingSwitchBlocks
<1>1. ResponseInv /\ [ResponseNext]_responseVars => ResponseInv'
  BY SwitchesKeep, IncidentsKeep DEF ResponseInv
<1> QED BY ResponseStarts, InvBlocks, <1>1, PTL

HIDE ResponseAssumption
-----------------------------------------------------------------------------
(* RefreshRotation: a family is one chain, the number of a user's sessions *)
(* is bounded, and what was ended stays ended.                             *)
USE RefreshAssumption

Token == [user : Owners, family : Nat, from : Nat, used : BOOLEAN]

RefreshTyped ==
    /\ tokens \in Seq(Token)
    /\ store \subseteq 1..Len(tokens)
    /\ stale \in 0..Len(tokens)
    /\ ended \subseteq 1..Len(tokens)

(* A family is named by its first token, which is of the same user; a      *)
(* token comes from an earlier one, which is used.                         *)
Descends ==
    \A k \in 1..Len(tokens) :
        /\ tokens[k].family \in 1..k
        /\ tokens[tokens[k].family].user = tokens[k].user
        /\ \/ tokens[k].from = 0
           \/ tokens[k].from \in 1..(k - 1) /\ tokens[tokens[k].from].used

ExchangedOnce ==
    \A m, n \in 1..Len(tokens) : tokens[m].from = tokens[n].from => m = n \/ tokens[n].from = 0

OneUnused ==
    \A m, n \in store :
        ~tokens[m].used /\ ~tokens[n].used /\ tokens[m].family = tokens[n].family => m = n

EndedStays == \A n \in store : tokens[n].family \notin ended

SessionsBounded == \A u \in Owners : Cardinality(Live(tokens, u)) <= MaxSessions

RefreshInv == /\ RefreshTyped /\ Descends /\ ExchangedOnce /\ OneUnused /\ EndedStays
              /\ SessionsBounded

-----------------------------------------------------------------------------
(* The CHOOSE of the oldest session has a witness.                         *)
LEMMA OldestIsOne == ASSUME NEW I \in SUBSET Nat, I # {} PROVE Oldest(I) \in I
  <1>1. PICK x \in I : \A y \in I : ~ (<<y, x>> \in OpToRel(<, Nat))
    BY NatLessThanWellFounded, WFMin
  <1>2. OpToRel(<, Nat) = {p \in Nat \X Nat : p[1] < p[2]}
    BY DEF OpToRel
  <1>3. ASSUME NEW y \in I, y < x PROVE FALSE
    <2>1. <<y, x>> \in {p \in Nat \X Nat : p[1] < p[2]}
      BY <1>3
    <2> QED BY <1>1, <1>2, <2>1, Zenon
  <1>4. \A y \in I : x <= y
    BY <1>3
  <1> QED BY <1>4 DEF Oldest

LEMMA LiveFinite ==
    ASSUME RefreshTyped, NEW ts, NEW u
    PROVE  /\ IsFiniteSet(Live(ts, u)) /\ Cardinality(Live(ts, u)) \in Nat
           /\ Live(ts, u) \in SUBSET Nat
<1>1. Len(tokens) \in Nat
  BY LenProperties DEF RefreshTyped
<1>2. Live(ts, u) \subseteq 1..Len(tokens)
  BY DEF Live, RefreshTyped
<1>3. IsFiniteSet(1..Len(tokens))
  BY <1>1, FS_Interval
<1> QED BY <1>2, <1>3, FS_Subset, FS_CardinalityType

-----------------------------------------------------------------------------
(* Tokens that leave the store, families that end and time that passes.    *)
LEMMA ShrinkKeeps ==
    ASSUME RefreshInv, tokens' = tokens, store' \subseteq store,
           stale' \in 0..Len(tokens), stale <= stale', ended' \subseteq 1..Len(tokens),
           \A n \in store' : tokens[n].family \notin ended'
    PROVE  RefreshInv'
<1>1. RefreshTyped' /\ Descends' /\ ExchangedOnce' /\ OneUnused' /\ EndedStays'
  BY DEF RefreshInv, RefreshTyped, Descends, ExchangedOnce, OneUnused, EndedStays
<1>2. ASSUME NEW u \in Owners PROVE Cardinality(Live(tokens, u)') <= MaxSessions
  <2>1. Len(tokens) \in Nat
    BY LenProperties DEF RefreshInv, RefreshTyped
  <2>2. Live(tokens, u)' \subseteq Live(tokens, u)
    <3>1. store \subseteq Nat /\ stale \in Nat /\ stale' \in Nat
      BY <2>1 DEF RefreshInv, RefreshTyped
    <3>2. ASSUME NEW k \in Live(tokens, u)' PROVE k \in Live(tokens, u)
      <4>1. /\ k \in store' /\ tokens[k].user = u /\ ~tokens[k].used /\ k > stale'
        BY <3>2, Zenon DEF Live
      <4>2. k > stale /\ k \in store
        BY <3>1, <4>1
      <4> QED BY <4>1, <4>2, Zenon DEF Live
    <3> QED BY <3>2
  <2>3. IsFiniteSet(Live(tokens, u)) /\ Cardinality(Live(tokens, u)) \in Nat
    BY LiveFinite DEF RefreshInv
  <2>4. /\ Cardinality(Live(tokens, u)') \in Nat
        /\ Cardinality(Live(tokens, u)') <= Cardinality(Live(tokens, u))
    BY <2>2, <2>3, FS_Subset, FS_CardinalityType
  <2> QED BY <2>3, <2>4 DEF RefreshInv, SessionsBounded
<1> QED BY <1>1, <1>2 DEF RefreshInv, SessionsBounded

(* issue(), for a session of its own or for the one of token n: ts is what *)
(* the records have become before.                                         *)
LEMMA IssuedKeeps ==
    ASSUME RefreshInv, NEW u \in Owners, NEW ts \in Seq(Token), NEW family \in Nat, NEW from \in Nat,
           Len(ts) = Len(tokens),
           \A k \in 1..Len(tokens) :
              /\ ts[k].user = tokens[k].user /\ ts[k].family = tokens[k].family
              /\ ts[k].from = tokens[k].from /\ (tokens[k].used => ts[k].used),
           \/ family = 0 /\ from = 0
           \/ /\ from \in store /\ ~tokens[from].used /\ ts[from].used
              /\ tokens[from].user = u /\ tokens[from].family = family,
           Issued(ts, u, family, from), UNCHANGED <<stale, ended>>
    PROVE  RefreshInv'
<1> DEFINE live  == Live(ts, u)
           evict == IF Cardinality(live) >= MaxSessions /\ live # {} THEN {Oldest(live)} ELSE {}
<1>0. PICK n \in Nat : n = Len(tokens) + 1
  BY LenProperties DEF RefreshInv, RefreshTyped
<1>1. PICK new : new = [user |-> u, family |-> IF family = 0 THEN n ELSE family,
                        from |-> from, used |-> FALSE]
  OBVIOUS
<1>2. new \in Token /\ Len(tokens) \in Nat /\ Len(tokens) = n - 1
  BY <1>0, <1>1, LenProperties DEF Token, RefreshInv, RefreshTyped
<1>3. tokens' = Append(ts, new) /\ store' = (store \ evict) \cup {n}
  BY <1>0, <1>1 DEF Issued
<1> HIDE DEF live, evict
<1>4. /\ tokens' \in Seq(Token) /\ Len(tokens') = n
      /\ \A k \in 1..(n - 1) : tokens'[k] = ts[k]
      /\ tokens'[n] = new
  BY <1>0, <1>2, <1>3, AppendProperties
<1>5. RefreshTyped'
  <2>1. store \subseteq 1..(n - 1) /\ stale \in 0..(n - 1) /\ ended \subseteq 1..(n - 1)
    BY <1>2 DEF RefreshInv, RefreshTyped
  <2>2. store' \subseteq 1..n
    <3>1. store' = (store \ evict) \cup {n} /\ n \in 1..n
      BY <1>2, <1>3
    <3>2. 1..(n - 1) \subseteq 1..n
      OBVIOUS
    <3> QED BY <2>1, <3>1, <3>2, Zenon
  <2>3. stale' \in 0..n /\ ended' \subseteq 1..n
    BY <2>1
  <2> QED BY <1>4, <2>2, <2>3 DEF RefreshTyped
<1>6. family # 0 => /\ from \in 1..(n - 1) /\ family \in 1..from
                    /\ tokens[family].user = u /\ family \in 1..(n - 1)
                    /\ ts[family].user = u /\ from \in store
  BY <1>2 DEF RefreshInv, RefreshTyped, Descends
<1>7. Descends'
  <2>1. ASSUME NEW k \in 1..(n - 1)
        PROVE  /\ tokens'[k].family \in 1..k
               /\ tokens'[tokens'[k].family].user = tokens'[k].user
               /\ \/ tokens'[k].from = 0
                  \/ tokens'[k].from \in 1..(k - 1) /\ tokens'[tokens'[k].from].used
    <3>1. tokens'[k] = ts[k] /\ ts[k].family = tokens[k].family /\ ts[k].from = tokens[k].from
          /\ ts[k].user = tokens[k].user
      BY <1>2, <1>4
    <3>2. tokens[k].family \in 1..k /\ tokens[tokens[k].family].user = tokens[k].user
      BY <1>2 DEF RefreshInv, Descends
    <3>3. tokens[k].family \in 1..(n - 1)
      BY <3>2
    <3>4. tokens'[tokens[k].family].user = tokens[k].user
      BY <1>2, <1>4, <3>2, <3>3
    <3>5. CASE tokens[k].from = 0
      BY <3>1, <3>2, <3>4, <3>5
    <3>6. CASE tokens[k].from \in 1..(k - 1) /\ tokens[tokens[k].from].used
      <4>1. tokens[k].from \in 1..(n - 1)
        BY <3>6
      <4>2. tokens'[tokens[k].from].used
        BY <1>2, <1>4, <3>6, <4>1
      <4> QED BY <3>1, <3>2, <3>4, <3>6, <4>2
    <3> QED BY <1>2, <3>5, <3>6 DEF RefreshInv, Descends
  <2>2. /\ new.family \in 1..n /\ tokens'[new.family].user = u
        /\ \/ new.from = 0
           \/ new.from \in 1..(n - 1) /\ tokens'[new.from].used
    <3>1. CASE family = 0
      <4>1. new.from = 0 /\ new.family = n /\ new.user = u
        BY <1>1, <1>2, <3>1 DEF RefreshInv, RefreshTyped, Descends
      <4>2. n \in 1..n
        BY <1>2
      <4>3. tokens'[new.family].user = u
        BY <1>4, <4>1
      <4>4. new.family \in 1..n
        BY <4>1, <4>2, Zenon
      <4> QED BY <4>1, <4>3, <4>4, Zenon
    <3>2. CASE family # 0
      BY <1>1, <1>2, <1>4, <1>6, <3>2
    <3> QED BY <3>1, <3>2
  <2>3. new.user = u
    BY <1>1
  <2>4. \A k \in 1..n : k # n => k \in 1..(n - 1)
    OBVIOUS
  <2>5. ASSUME NEW k \in 1..n
        PROVE  /\ tokens'[k].family \in 1..k
               /\ tokens'[tokens'[k].family].user = tokens'[k].user
               /\ \/ tokens'[k].from = 0
                  \/ tokens'[k].from \in 1..(k - 1) /\ tokens'[tokens'[k].from].used
    BY <1>4, <2>1, <2>2, <2>3, <2>4, Zenon
  <2>6. Len(tokens') = n
    BY <1>4
  <2> QED BY <2>5, <2>6 DEF Descends
<1>8. ExchangedOnce'
  <2>1. ASSUME NEW k \in 1..(n - 1), tokens'[k].from = from PROVE from = 0
    BY <1>2, <1>4, <2>1 DEF RefreshInv, Descends
  <2>2. ASSUME NEW j \in 1..(n - 1), NEW k \in 1..(n - 1), tokens'[j].from = tokens'[k].from
        PROVE  j = k \/ tokens'[k].from = 0
    BY <1>2, <1>4, <2>2 DEF RefreshInv, ExchangedOnce
  <2> QED BY <1>1, <1>4, <2>1, <2>2 DEF ExchangedOnce
<1>9. OneUnused'
  <2>1. ASSUME NEW k \in store, ~tokens'[k].used, tokens'[k].family = new.family PROVE FALSE
    <3>1. k \in 1..(n - 1) /\ ~tokens[k].used /\ tokens[k].family = new.family
      BY <1>2, <1>4, <2>1 DEF RefreshInv, RefreshTyped
    <3>2. tokens[k].family \in 1..k
      BY <1>2, <3>1 DEF RefreshInv, Descends
    <3>3. family # 0 /\ new.family = family
      BY <1>1, <3>1, <3>2
    <3>4. k = from
      BY <1>6, <3>1, <3>3 DEF RefreshInv, OneUnused
    <3> QED BY <1>4, <1>6, <2>1, <3>3, <3>4
  <2>2. ASSUME NEW j \in store, NEW k \in store, ~tokens'[j].used, ~tokens'[k].used,
               tokens'[j].family = tokens'[k].family
        PROVE  j = k
    <3>1. /\ j \in 1..(n - 1) /\ tokens[j].family = tokens'[j].family /\ ~tokens[j].used
          /\ k \in 1..(n - 1) /\ tokens[k].family = tokens'[k].family /\ ~tokens[k].used
      BY <1>2, <1>4, <2>2 DEF RefreshInv, RefreshTyped
    <3> QED BY <2>2, <3>1 DEF RefreshInv, OneUnused
  <2>3. \A k \in store' : k \in store \/ k = n
    BY <1>3
  <2>4. tokens'[n].family = new.family
    BY <1>4
  <2> SUFFICES ASSUME NEW j \in store', NEW k \in store', ~tokens'[j].used, ~tokens'[k].used,
                      tokens'[j].family = tokens'[k].family
               PROVE  j = k
    BY Zenon DEF OneUnused
  <2>5. CASE j \in store /\ k \in store
    BY <2>2, <2>5
  <2>6. CASE j = n \/ k = n
    BY <2>1, <2>3, <2>4, <2>6
  <2> QED BY <2>3, <2>5, <2>6
<1>10. EndedStays'
  <2>1. new.family \notin ended
    BY <1>1, <1>2, <1>6 DEF RefreshInv, RefreshTyped, EndedStays
  <2>2. ASSUME NEW k \in store PROVE tokens'[k].family \notin ended
    BY <1>2, <1>4 DEF RefreshInv, RefreshTyped, EndedStays
  <2> QED BY <1>3, <1>4, <2>1, <2>2 DEF EndedStays
<1>11. ASSUME NEW w \in Owners PROVE Cardinality(Live(tokens, w)') <= MaxSessions
  <2>1. Live(ts, w) \subseteq Live(tokens, w)
    BY <1>2 DEF Live, RefreshInv, RefreshTyped
  <2>2. /\ IsFiniteSet(Live(ts, w)) /\ Cardinality(Live(ts, w)) \in Nat
        /\ Cardinality(Live(ts, w)) <= MaxSessions
    BY <2>1, LiveFinite, FS_Subset, RefreshAssumption DEF RefreshInv, SessionsBounded
  <2>3. CASE w # u
    <3>1. Live(tokens, w)' \subseteq Live(ts, w)
      <4>1. tokens'[n].user = u
        BY <1>1, <1>4
      <4>2. \A k \in store : tokens'[k] = ts[k]
        BY <1>2, <1>4 DEF RefreshInv, RefreshTyped
      <4>3. store' \subseteq store \cup {n}
        BY <1>3
      <4> QED BY <2>3, <4>1, <4>2, <4>3 DEF Live
    <3>2. /\ Cardinality(Live(tokens, w)') \in Nat
          /\ Cardinality(Live(tokens, w)') <= Cardinality(Live(ts, w))
      BY <2>2, <3>1, FS_Subset, FS_CardinalityType
    <3> QED BY <2>2, <3>2
  <2>4. CASE w = u
    <3>1. Live(tokens, u)' \subseteq (live \ evict) \cup {n}
      <4>1. \A k \in store : tokens'[k] = ts[k]
        BY <1>2, <1>4 DEF RefreshInv, RefreshTyped
      <4> QED BY <1>3, <4>1 DEF Live, live
    <3>2. /\ IsFiniteSet(live \ evict) /\ Cardinality(live \ evict) \in Nat
          /\ Cardinality(live \ evict) + 1 <= MaxSessions
      <4>1. CASE Cardinality(live) >= MaxSessions /\ live # {}
        <5>1. Oldest(live) \in live /\ evict = {Oldest(live)}
          BY <4>1, LiveFinite, OldestIsOne DEF RefreshInv, live, evict
        <5>2. /\ IsFiniteSet(live) /\ Cardinality(live) \in Nat /\ Cardinality(live) <= MaxSessions
          BY <2>2, <2>4 DEF live
        <5>3. /\ IsFiniteSet(live \ {Oldest(live)})
              /\ Cardinality(live \ {Oldest(live)}) = Cardinality(live) - 1
          BY <5>1, <5>2, FS_RemoveElement
        <5>4. Cardinality(live \ {Oldest(live)}) \in Nat
          BY <5>3, FS_CardinalityType
        <5> QED BY <5>1, <5>2, <5>3, <5>4
      <4>2. CASE live = {}
        <5>1. live \ evict = {}
          BY <4>2
        <5>2. IsFiniteSet({}) /\ Cardinality({}) = 0
          BY FS_EmptySet
        <5>3. IsFiniteSet(live \ evict) /\ Cardinality(live \ evict) = 0
          BY <5>1, <5>2, Zenon
        <5> QED BY <5>3
      <4>3. CASE ~(Cardinality(live) >= MaxSessions)
        <5>1. live \ evict = live
          BY <4>3 DEF evict
        <5>2. IsFiniteSet(live) /\ Cardinality(live) \in Nat
          BY <2>2, <2>4 DEF live
        <5>3. Cardinality(live) + 1 <= MaxSessions
          BY <4>3, <5>2
        <5> QED BY <5>1, <5>2, <5>3
      <4> QED BY <4>1, <4>2, <4>3
    <3>3. /\ IsFiniteSet((live \ evict) \cup {n})
          /\ Cardinality((live \ evict) \cup {n}) <= Cardinality(live \ evict) + 1
          /\ Cardinality((live \ evict) \cup {n}) \in Nat
      <4>1. IsFiniteSet((live \ evict) \cup {n})
        BY <3>2, FS_AddElement
      <4>2. Cardinality((live \ evict) \cup {n}) =
              IF n \in live \ evict THEN Cardinality(live \ evict) ELSE Cardinality(live \ evict) + 1
        BY <3>2, FS_AddElement
      <4> QED BY <3>2, <4>1, <4>2
    <3>4. /\ Cardinality(Live(tokens, u)') \in Nat
          /\ Cardinality(Live(tokens, u)') <= Cardinality((live \ evict) \cup {n})
      BY <3>1, <3>3, FS_Subset, FS_CardinalityType
    <3> QED BY <2>4, <3>2, <3>3, <3>4
  <2> QED BY <2>3, <2>4
<1> QED BY <1>5, <1>7, <1>8, <1>9, <1>10, <1>11 DEF RefreshInv, SessionsBounded

-----------------------------------------------------------------------------
LEMMA RefreshStarts == RefreshInit => RefreshInv
<1> SUFFICES ASSUME RefreshInit PROVE RefreshInv
  OBVIOUS
<1>1. tokens \in Seq(Token) /\ Len(tokens) = 0 /\ store = {} /\ stale = 0 /\ ended = {}
  BY EmptySeq DEF RefreshInit
<1>2. \A u \in Owners : Live(tokens, u) = {}
  BY <1>1 DEF Live
<1>3. SessionsBounded
  BY <1>2, FS_EmptySet DEF SessionsBounded
<1> QED
  BY <1>1, <1>3
     DEF RefreshInv, RefreshTyped, Descends, ExchangedOnce, OneUnused, EndedStays

LEMMA RefreshKeeps == RefreshInv /\ [RefreshNext]_refreshVars => RefreshInv'
<1> SUFFICES ASSUME RefreshInv, [RefreshNext]_refreshVars PROVE RefreshInv'
  OBVIOUS
<1>0. /\ Len(tokens) \in Nat /\ tokens \in Seq(Token) /\ DOMAIN tokens = 1..Len(tokens)
      /\ \A n \in 1..Len(tokens) : tokens[n] \in Token
      /\ store \subseteq 1..Len(tokens) /\ stale \in 0..Len(tokens)
      /\ ended \subseteq 1..Len(tokens)
  BY LenProperties, ElementOfSeq DEF RefreshInv, RefreshTyped
<1>1. ASSUME NEW u \in Owners, Issue(u) PROVE RefreshInv'
  BY <1>0, <1>1, IssuedKeeps DEF Issue
<1>2. ASSUME NEW n \in store, Exchange(n) PROVE RefreshInv'
  <2> DEFINE spent == [tokens[n] EXCEPT !.used = TRUE]
             ts    == [tokens EXCEPT ![n] = spent]
  <2>1. /\ n \in store /\ ~tokens[n].used /\ UNCHANGED <<stale, ended>>
        /\ Issued([tokens EXCEPT ![n].used = TRUE], tokens[n].user, tokens[n].family, n)
    BY <1>2 DEF Exchange
  <2>2. /\ spent \in Token /\ spent.used = TRUE /\ spent.user = tokens[n].user
        /\ spent.family = tokens[n].family /\ spent.from = tokens[n].from
    BY <1>0 DEF Token
  <2>3. ts = [tokens EXCEPT ![n].used = TRUE]
    BY <1>0
  <2> HIDE DEF spent
  <2>4. ts \in Seq(Token) /\ Len(ts) = Len(tokens)
        /\ \A k \in 1..Len(tokens) : ts[k] = IF k = n THEN spent ELSE tokens[k]
    BY <1>0, <2>2, ExceptSeq
  <2> HIDE DEF ts
  <2>5. tokens[n].user \in Owners /\ tokens[n].family \in Nat /\ n \in Nat
    BY <1>0 DEF Token
  <2>6. \A k \in 1..Len(tokens) :
           /\ ts[k].user = tokens[k].user /\ ts[k].family = tokens[k].family
           /\ ts[k].from = tokens[k].from /\ (tokens[k].used => ts[k].used)
    BY <2>2, <2>4
  <2>7. ts[n].used
    BY <1>0, <2>2, <2>4
  <2>8. Issued(ts, tokens[n].user, tokens[n].family, n)
    BY <2>1, <2>3
  <2> QED BY <2>1, <2>4, <2>5, <2>6, <2>7, <2>8, IssuedKeeps
<1>3. ASSUME NEW n \in store, Reuse(n) PROVE RefreshInv'
  <2>1. tokens[n].family \in 1..Len(tokens)
    BY <1>0 DEF RefreshInv, Descends
  <2>2. /\ store' = {m \in store : tokens[m].family # tokens[n].family}
        /\ ended' = ended \cup {tokens[n].family} /\ UNCHANGED <<tokens, stale>>
    BY <1>3 DEF Reuse
  <2>3. \A m \in store' : tokens[m].family \notin ended'
    BY <2>2 DEF RefreshInv, EndedStays
  <2>4. ended' \subseteq 1..Len(tokens) /\ store' \subseteq store
    BY <1>0, <2>1, <2>2
  <2> QED BY <1>0, <2>2, <2>3, <2>4, ShrinkKeeps
<1>4. ASSUME NEW u \in Owners, RevokeUser(u) PROVE RefreshInv'
  <2>1. ASSUME NEW m \in DOMAIN tokens, tokens[m].user = u
        PROVE  tokens[m].family \in 1..Len(tokens) /\ tokens[tokens[m].family].user = u
    BY <1>0, <2>1 DEF RefreshInv, Descends
  <2>2. ASSUME NEW n \in store, tokens[n].user # u PROVE tokens[tokens[n].family].user # u
    BY <1>0, <2>2 DEF RefreshInv, Descends
  <2>3. /\ ended' = ended \cup {tokens[n].family : n \in {m \in DOMAIN tokens : tokens[m].user = u}}
        /\ store' = {n \in store : tokens[n].user # u} /\ UNCHANGED <<tokens, stale>>
    BY <1>4 DEF RevokeUser
  <2>4. ended' \subseteq 1..Len(tokens)
    BY <1>0, <2>1, <2>3
  <2>5. \A n \in store' : tokens[n].family \notin ended'
    BY <2>1, <2>2, <2>3 DEF RefreshInv, EndedStays
  <2>6. store' \subseteq store /\ stale <= stale' /\ stale' \in 0..Len(tokens)
    BY <1>0, <2>3
  <2> QED BY <2>3, <2>4, <2>5, <2>6, ShrinkKeeps
<1>5. ASSUME NEW n \in store, PresentExpired(n) \/ RevokeToken(n) PROVE RefreshInv'
  <2>1. store' = store \ {n} /\ UNCHANGED <<tokens, stale, ended>>
    BY <1>5 DEF PresentExpired, RevokeToken
  <2> QED BY <1>0, <2>1, ShrinkKeeps DEF RefreshInv, EndedStays
<1>6. CASE PurgeExpired
  BY <1>0, <1>6, ShrinkKeeps DEF PurgeExpired, RefreshInv, EndedStays
<1>7. CASE Expire
  BY <1>0, <1>7, ShrinkKeeps DEF Expire, RefreshInv, EndedStays
<1>8. CASE UNCHANGED refreshVars
  BY <1>0, <1>8, ShrinkKeeps DEF refreshVars, RefreshInv, EndedStays
<1> QED BY <1>1, <1>2, <1>3, <1>4, <1>5, <1>6, <1>7, <1>8 DEF RefreshNext

(* Whatever is issued, exchanged, presented again, revoked, purged or      *)
(* expired, in whatever order: a session is one chain of tokens.           *)
THEOREM SessionsAreChains == RefreshSpec => []OneChainPerSession
<1>1. RefreshInv => OneChainPerSession
  <2> SUFFICES ASSUME RefreshInv PROVE OneChainPerSession
    OBVIOUS
  <2>1. DOMAIN tokens = 1..Len(tokens)
    BY LenProperties DEF RefreshInv, RefreshTyped
  <2> QED BY <2>1 DEF RefreshInv, OneChainPerSession, ExchangedOnce, OneUnused, EndedStays,
                      SessionsBounded
<1> QED BY RefreshStarts, RefreshKeeps, <1>1, PTL DEF RefreshSpec

HIDE RefreshAssumption
-----------------------------------------------------------------------------
(* KeyRotation: overlapping rotations, activations and expiries never take *)
(* a holder's newest key out of service, unless it is a tenant's and a     *)
(* rotation for none took it, and a revoked key returns only through a     *)
(* race.                                                                   *)
USE KeyAssumption

Statuses == {"absent", "pending", "active", "grace", "expired", "revoked"}
Places   == {"idle", "read", "draw", "add", "demote", "stamp", "drawPending", "addPending",
             "activate", "expire"}
Adding   == {"add", "addPending"}
Rotating == {"draw", "add", "demote", "stamp"}
Call     == [at : Places, tenant : Holders, old : Keys \cup {NoKey}, new : Keys \cup {NoKey}]

(* l is a later key of k's holder; some such key has served, or a rotation *)
(* for none took k.                                                        *)
Later(k, l)   == k.tenant = l.tenant /\ k.version < l.version
Superseded(k) == k \in crossed \/ \E l \in served : Later(k, l)

(* The keys.  One that is in its grace is superseded.                      *)
KeysTyped ==
    /\ drawn \in [Holders -> 0..MaxVersions]
    /\ keyStatus \in [Keys -> Statuses]
    /\ served \subseteq Keys /\ revoked \subseteq Keys /\ raced \subseteq Keys
    /\ crossed \subseteq {k \in Keys : k.tenant # NoTenant}

KeysStored ==
    \A k \in Keys :
        /\ keyStatus[k] # "absent" => k.version <= drawn[k.tenant]
        /\ k \in served \cup revoked => keyStatus[k] # "absent"
        /\ keyStatus[k] = "active" => k \in served
        /\ keyStatus[k] = "grace" => Superseded(k)
        /\ k \in revoked => keyStatus[k] = "revoked" \/ k \in raced

NewestServes == \A k \in served : Stands(k) \/ Superseded(k)

KeysOK == KeysTyped /\ KeysStored /\ NewestServes

(* What a call knows about the keys it holds, however old the knowledge.   *)
CallOK(c) ==
    /\ c.at \in {"idle", "read", "drawPending", "addPending"} => c.old = NoKey
    /\ c.at \in Rotating =>
          c.old = NoKey \/ (c.old \in served /\ c.tenant \in {NoTenant, c.old.tenant})
    /\ c.at \in {"demote", "stamp", "activate", "expire"} => c.old \in Keys
    /\ c.at \in Adding \cup {"demote"} =>
          /\ c.new \in Keys /\ c.new.tenant = c.tenant
          /\ c.old.tenant = c.tenant => Later(c.old, c.new)
    /\ c.at \in Adding => c.new.version <= drawn[c.tenant] /\ keyStatus[c.new] = "absent"
    /\ c.at = "demote" => c.new \in served
    /\ c.at \in {"activate", "expire"} => keyStatus[c.old] # "absent"
    /\ c.at = "expire" => Superseded(c.old)
    /\ c.old \in revoked => c.old \in raced

Calls ==
    /\ call \in [Threads -> Call]
    /\ \A t \in Threads : CallOK(call[t])
    /\ \A t, u \in Threads :
          call[t].at \in Adding /\ call[u].at \in Adding /\ call[t].new = call[u].new => t = u

KeyInv == KeysOK /\ Calls

-----------------------------------------------------------------------------
LEMMA KeyFacts == /\ NoKey \notin Keys /\ NoKey.tenant = NoTenant /\ NoKey.version = 0
                  /\ \A k \in Keys : k.tenant \in Holders /\ k.version \in 1..MaxVersions
                  /\ NoTenant \in Holders
  BY DEF Keys, NoKey, Holders

LEMMA TypeFacts == KeyInv => KeysTyped /\ call \in [Threads -> Call]
  BY DEF KeyInv, KeysOK, Calls

(* One stored key changes its status.                                      *)
LEMMA StatusKeeps ==
    ASSUME KeyInv, NEW k \in Keys, NEW s \in Statuses, s # "absent", k.version <= drawn[k.tenant],
           drawn' = drawn, keyStatus' = [keyStatus EXCEPT ![k] = s],
           served' \in {served, served \cup {k}},
           crossed \subseteq crossed', crossed' \subseteq {l \in Keys : l.tenant # NoTenant},
           s = "active" => k \in served',
           k \in served' /\ s \notin {"active", "revoked"} => Superseded(k)',
           s = "grace" => Superseded(k)',
           \/ s = "revoked" /\ revoked' = revoked \cup {k} /\ raced \subseteq raced'
              /\ raced' \subseteq Keys
           \/ s # "revoked" /\ UNCHANGED <<revoked, raced>> /\ (k \in revoked => k \in raced)
    PROVE  KeysOK'
<1>1. /\ drawn \in [Holders -> 0..MaxVersions] /\ keyStatus \in [Keys -> Statuses]
      /\ served \subseteq Keys /\ revoked \subseteq Keys /\ raced \subseteq Keys
  BY TypeFacts DEF KeysTyped
<1>2. KeysTyped'
  BY <1>1 DEF KeysTyped
<1>3. \A l \in Keys : keyStatus'[l] = IF l = k THEN s ELSE keyStatus[l]
  BY <1>1
<1>4. served \subseteq served' /\ raced \subseteq raced' /\ revoked \subseteq revoked'
  OBVIOUS
<1>5. \A l : Superseded(l) => Superseded(l)'
  BY <1>4 DEF Superseded, Later
<1>6. ASSUME NEW l \in Keys
      PROVE  /\ keyStatus'[l] # "absent" => l.version <= drawn'[l.tenant]
             /\ l \in served' \cup revoked' => keyStatus'[l] # "absent"
             /\ keyStatus'[l] = "active" => l \in served'
             /\ keyStatus'[l] = "grace" => Superseded(l)'
             /\ l \in revoked' => keyStatus'[l] = "revoked" \/ l \in raced'
  <2>1. CASE l = k
    BY <1>3, <1>4, <2>1
  <2>2. CASE l # k
    <3>1. /\ keyStatus'[l] = keyStatus[l] /\ (l \in served' => l \in served)
          /\ (l \in revoked' => l \in revoked)
      BY <1>3, <2>2
    <3>2. /\ keyStatus[l] # "absent" => l.version <= drawn[l.tenant]
          /\ l \in served \cup revoked => keyStatus[l] # "absent"
          /\ keyStatus[l] = "active" => l \in served
          /\ keyStatus[l] = "grace" => Superseded(l)
          /\ l \in revoked => keyStatus[l] = "revoked" \/ l \in raced
      BY DEF KeyInv, KeysOK, KeysStored
    <3> QED BY <1>4, <1>5, <3>1, <3>2
  <2> QED BY <2>1, <2>2
<1>7. ASSUME NEW l \in served' PROVE (Stands(l) \/ Superseded(l))'
  <2>1. l \in Keys
    BY <1>1
  <2>2. CASE l = k
    <3>1. s = "active" => Stands(l)'
      BY <1>3, <2>1, <2>2 DEF Stands
    <3>2. s = "revoked" => Stands(l)'
      BY <2>2 DEF Stands
    <3> QED BY <2>2, <3>1, <3>2
  <2>3. CASE l # k
    <3>1. l \in served /\ keyStatus'[l] = keyStatus[l]
      BY <1>3, <2>1, <2>3
    <3>2. Stands(l) \/ Superseded(l)
      BY <3>1 DEF KeyInv, KeysOK, NewestServes
    <3>3. Stands(l) => Stands(l)'
      BY <1>4, <3>1 DEF Stands
    <3> QED BY <1>5, <3>2, <3>3
  <2> QED BY <2>2, <2>3
<1>8. KeysStored'
  BY <1>6 DEF KeysStored
<1>9. NewestServes'
  BY <1>7 DEF NewestServes
<1> QED BY <1>2, <1>8, <1>9 DEF KeysOK

(* What a call knows stays true while keys are drawn, served and stored.   *)
LEMMA CallStays ==
    ASSUME KeyInv, NEW c \in Call, CallOK(c),
           drawn' \in [Holders -> Nat], \A x \in Holders : drawn[x] <= drawn'[x],
           served \subseteq served', crossed \subseteq crossed',
           \A k \in Keys : keyStatus[k] # "absent" => keyStatus'[k] # "absent",
           c.at \in Adding => keyStatus'[c.new] = "absent",
           c.old \in revoked' => c.old \in raced'
    PROVE  CallOK(c)'
<1>1. drawn \in [Holders -> Nat] /\ c.tenant \in Holders
  BY TypeFacts DEF KeysTyped, Call
<1>2. c.at \in Adding => c.new.version <= drawn'[c.tenant]
  <2> SUFFICES ASSUME c.at \in Adding PROVE c.new.version <= drawn'[c.tenant]
    OBVIOUS
  <2>1. c.new.version <= drawn[c.tenant] /\ c.new \in Keys
    BY DEF CallOK
  <2>2. c.new.version \in Int /\ drawn[c.tenant] \in Int /\ drawn'[c.tenant] \in Int
    BY <1>1, <2>1, KeyFacts
  <2>3. drawn[c.tenant] <= drawn'[c.tenant]
    BY <1>1
  <2> QED BY <2>1, <2>2, <2>3
<1>3. c.at \in {"activate", "expire"} => keyStatus'[c.old] # "absent"
  BY DEF CallOK
<1>4. c.at = "expire" => Superseded(c.old)'
  BY DEF CallOK, Superseded, Later
<1> QED BY <1>2, <1>3, <1>4 DEF CallOK, Later

(* A step of thread t that ends in c, while no other call's knowledge is   *)
(* touched.                                                                *)
LEMMA CallsKeep ==
    ASSUME KeyInv, NEW t \in Threads, NEW c \in Call, CallOK(c)', Goto(t, c),
           drawn' \in [Holders -> Nat], \A x \in Holders : drawn[x] <= drawn'[x],
           served \subseteq served', crossed \subseteq crossed', UNCHANGED <<revoked, raced>>,
           \A k \in Keys : keyStatus[k] # "absent" => keyStatus'[k] # "absent",
           \A u \in Threads : u # t /\ call[u].at \in Adding => keyStatus'[call[u].new] = "absent",
           c.at \in Adding =>
               \A u \in Threads : u # t /\ call[u].at \in Adding => call[u].new # c.new
    PROVE  Calls'
<1>1. call \in [Threads -> Call] /\ call' \in [Threads -> Call]
  BY DEF KeyInv, Calls, Goto
<1>2. \A u \in Threads : call'[u] = IF u = t THEN c ELSE call[u]
  BY <1>1 DEF Goto
<1>3. ASSUME NEW u \in Threads, u # t PROVE CallOK(call[u])'
  <2>1. PICK d \in Call : d = call[u]
    BY <1>1
  <2>2. d = call'[u] /\ CallOK(d)
    BY <1>2, <1>3, <2>1 DEF KeyInv, Calls
  <2>3. (d.at \in Adding => keyStatus'[d.new] = "absent") /\ (d.old \in revoked' => d.old \in raced')
    BY <1>3, <2>1, <2>2 DEF CallOK
  <2>4. CallOK(d)'
    BY <2>2, <2>3, CallStays
  <2> QED BY <2>2, <2>4 DEF CallOK, Superseded
<1>4. CallOK(call[t])'
  BY <1>2 DEF CallOK, Superseded
<1>5. \A u, w \in Threads :
         call'[u].at \in Adding /\ call'[w].at \in Adding /\ call'[u].new = call'[w].new => u = w
  BY <1>2 DEF KeyInv, Calls
<1> QED BY <1>1, <1>3, <1>4, <1>5 DEF Calls

-----------------------------------------------------------------------------
(* Steps that change no key's status: thread t picks keys up or moves on.  *)
LEMMA MoveKeeps ==
    ASSUME KeyInv, NEW t \in Threads, NEW c \in Call, CallOK(c), c.at \notin Adding, Goto(t, c),
           UNCHANGED <<drawn, keyStatus, served, revoked, raced, crossed>>
    PROVE  KeyInv'
<1>1. KeysOK'
  BY DEF KeyInv, KeysOK, KeysTyped, KeysStored, NewestServes, Superseded, Stands
<1>2. CallOK(c)'
  BY DEF CallOK, Superseded
<1>3. \A u \in Threads : call[u].at \in Adding => keyStatus'[call[u].new] = "absent"
  BY DEF KeyInv, Calls, CallOK
<1>4. drawn' \in [Holders -> Nat] /\ \A x \in Holders : drawn[x] <= drawn'[x]
  BY TypeFacts DEF KeysTyped
<1> QED BY <1>1, <1>2, <1>3, <1>4, CallsKeep DEF KeyInv

(* Steps that store status s for key k.                                    *)
LEMMA StoreKeeps ==
    ASSUME KeyInv, NEW t \in Threads, NEW c \in Call, c.at \notin Adding, CallOK(c)', Goto(t, c),
           NEW k \in Keys, NEW s \in {"active", "pending", "grace", "expired"},
           k.version <= drawn[k.tenant],
           \A u \in Threads \ {t} : call[u].at \in Adding => call[u].new # k,
           UNCHANGED <<drawn, revoked, raced>>, keyStatus' = [keyStatus EXCEPT ![k] = s],
           served' \in {served, served \cup {k}}, s = "active" => k \in served',
           crossed \subseteq crossed', crossed' \subseteq {l \in Keys : l.tenant # NoTenant},
           k \in served' /\ s # "active" => Superseded(k)', s = "grace" => Superseded(k)',
           k \in revoked => k \in raced
    PROVE  KeyInv'
<1>1. /\ keyStatus \in [Keys -> Statuses] /\ s \in Statuses /\ s # "absent" /\ s # "revoked"
      /\ drawn' \in [Holders -> Nat] /\ \A x \in Holders : drawn[x] <= drawn'[x]
  BY TypeFacts DEF KeysTyped, Statuses
<1>2. KeysOK'
  BY <1>1, StatusKeeps
<1>3. \A l \in Keys : keyStatus'[l] = IF l = k THEN s ELSE keyStatus[l]
  BY <1>1
<1>4. ASSUME NEW u \in Threads, u # t, call[u].at \in Adding
      PROVE  keyStatus'[call[u].new] = "absent"
  <2>1. call[u].new # k /\ keyStatus[call[u].new] = "absent" /\ call[u].new \in Keys
    BY <1>4 DEF KeyInv, Calls, CallOK
  <2> QED BY <1>3, <2>1
<1>5. \A l \in Keys : keyStatus[l] # "absent" => keyStatus'[l] # "absent"
  BY <1>1, <1>3
<1>6. Calls'
  BY <1>1, <1>4, <1>5, CallsKeep
<1> QED BY <1>2, <1>6 DEF KeyInv

-----------------------------------------------------------------------------
(* A call that holds no key and adds none knows nothing that could change. *)
LEMMA EmptyHanded ==
    ASSUME NEW p \in {"idle", "read", "draw", "drawPending"}, NEW x \in Holders
    PROVE  LET c == Began(p, x)
           IN  /\ c \in Call /\ c.at = p /\ c.at \notin Adding /\ c.old = NoKey
               /\ KeyInv => CallOK(c)
               /\ revoked' \subseteq Keys => CallOK(c)'
<1>0. PICK c : c = Began(p, x)
  OBVIOUS
<1>1. c \in Call /\ c.at = p /\ c.old = NoKey
  BY <1>0 DEF Began, Call, Places
<1>2. c.at \notin Adding /\ c.at \notin {"add", "demote", "stamp", "activate", "expire"}
  BY <1>1 DEF Adding
<1>3. KeyInv => NoKey \notin revoked
  BY KeyFacts, TypeFacts DEF KeysTyped
<1>4. KeyInv => CallOK(c)
  BY <1>1, <1>2, <1>3 DEF CallOK
<1>5. revoked' \subseteq Keys => CallOK(c)'
  BY <1>1, <1>2, KeyFacts DEF CallOK
<1> QED BY <1>0, <1>1, <1>2, <1>4, <1>5 DEF CallOK, Superseded

LEMMA IdleOK == /\ Idle \in Call /\ Idle.at = "idle" /\ Idle.at \notin Adding /\ Idle.old = NoKey
                /\ KeyInv => CallOK(Idle)
                /\ revoked' \subseteq Keys => CallOK(Idle)'
BY EmptyHanded, KeyFacts DEF Idle

LEMMA KeyStarts == KeyInit => KeyInv
<1> SUFFICES ASSUME KeyInit PROVE KeyInv
  OBVIOUS
<1>1. \A k \in Keys : keyStatus[k] = "absent"
  BY DEF KeyInit
<1>2. KeysTyped
  BY DEF KeyInit, KeysTyped, Statuses
<1>3. KeysStored /\ NewestServes
  BY <1>1 DEF KeyInit, KeysStored, NewestServes
<1>4. \A t \in Threads : call[t] = Idle
  BY DEF KeyInit
<1>5. call \in [Threads -> Call]
  BY IdleOK DEF KeyInit
<1>6. CallOK(Idle)
  BY IdleOK, KeyFacts DEF KeyInit, CallOK, Adding, Rotating
<1> QED BY <1>2, <1>3, <1>4, <1>5, <1>6, IdleOK DEF KeyInv, KeysOK, Calls

(* Drawing a version: nobody else holds it, and no key has it.             *)
LEMMA DrawKeeps ==
    ASSUME KeyInv, NEW t \in Threads, NEW from, NEW to, Draw(t, from, to),
           <<from, to>> \in {<<"draw", "add">>, <<"drawPending", "addPending">>}
    PROVE  KeyInv'
<1> DEFINE x == call[t].tenant
           n == NextKey(x)
<1>0. PICK c : c = [call[t] EXCEPT !.at = to, !.new = n]
  OBVIOUS
<1>1. /\ call[t].at = from /\ drawn[x] < MaxVersions /\ drawn' = [drawn EXCEPT ![x] = @ + 1]
      /\ Goto(t, c) /\ UNCHANGED <<keyStatus, served, revoked, raced, crossed>>
  BY <1>0 DEF Draw, Untouched, MayDraw
<1>2. drawn \in [Holders -> 0..MaxVersions] /\ call[t] \in Call /\ CallOK(call[t]) /\ x \in Holders
  BY TypeFacts DEF KeysTyped, KeyInv, Calls, Call
<1>3. n \in Keys /\ n.tenant = x /\ n.version = drawn[x] + 1
  BY <1>1, <1>2 DEF NextKey, Keys
<1>4. \A y \in Holders : drawn'[y] = IF y = x THEN drawn[x] + 1 ELSE drawn[y]
  BY <1>1, <1>2
<1> HIDE DEF n
<1>5. /\ c \in Call /\ c.at = to /\ c.tenant = x /\ c.old = call[t].old /\ c.new = n
      /\ c.at \in Adding
  <2>1. to \in Places /\ to \in Adding
    BY DEF Places, Adding
  <2>2. c = [at |-> to, tenant |-> x, old |-> call[t].old, new |-> n]
    BY <1>0, <1>2 DEF Call
  <2> QED BY <1>2, <1>3, <2>1, <2>2 DEF Call
<1>6. \A y \in Holders : drawn'[y] \in 0..MaxVersions /\ drawn[y] <= drawn'[y]
  BY <1>1, <1>2, <1>4
<1>7. KeysTyped'
  BY <1>1, <1>2, <1>6, TypeFacts DEF KeysTyped
<1>8. KeysStored'
  <2> SUFFICES ASSUME NEW k \in Keys, keyStatus[k] # "absent" PROVE k.version <= drawn'[k.tenant]
    BY <1>1 DEF KeyInv, KeysOK, KeysStored, Superseded
  <2>1. k.version <= drawn[k.tenant]
    BY DEF KeyInv, KeysOK, KeysStored
  <2> QED BY <1>2, <1>6, <2>1, KeyFacts
<1>9. NewestServes'
  BY <1>1 DEF KeyInv, KeysOK, NewestServes, Superseded, Stands
<1>10. keyStatus[n] = "absent"
  BY <1>2, <1>3 DEF KeyInv, KeysOK, KeysStored
<1>11. c.old = NoKey \/ (c.old \in served /\ c.tenant \in {NoTenant, c.old.tenant})
  <2>1. from = "draw" \/ from = "drawPending"
    OBVIOUS
  <2>2. c.old = NoKey \/ (c.old \in served /\ x \in {NoTenant, c.old.tenant})
    BY <1>1, <1>2, <1>5, <2>1 DEF CallOK, Rotating
  <2> QED BY <1>5, <2>2
<1>12. c.old.tenant = c.tenant => Later(c.old, c.new)
  <2>1. c.old \in served => c.old \in Keys /\ c.old.version <= drawn[c.old.tenant]
    BY TypeFacts DEF KeysTyped, KeyInv, KeysOK, KeysStored
  <2>2. c.old = NoKey => Later(c.old, c.new) \/ c.old.tenant # c.tenant
    BY <1>2, <1>3, <1>5, KeyFacts DEF Later
  <2>3. c.old \in served => Later(c.old, c.new) \/ c.old.tenant # c.tenant
    BY <1>2, <1>3, <1>5, <2>1, KeyFacts DEF Later
  <2> QED BY <1>11, <2>2, <2>3
<1>13. CallOK(c)'
  <2>1. to = "addPending" => c.old = NoKey
    BY <1>1, <1>2, <1>5 DEF CallOK
  <2>2. c.old \in revoked' => c.old \in raced'
    BY <1>1, <1>2, <1>5 DEF CallOK
  <2>3. c.new.version <= drawn'[c.tenant]
    BY <1>2, <1>3, <1>4, <1>5
  <2>4. c.at \notin {"idle", "read", "drawPending", "demote", "stamp", "activate", "expire"}
    BY <1>5
  <2> QED BY <1>1, <1>3, <1>5, <1>10, <1>11, <1>12, <2>1, <2>2, <2>3, <2>4 DEF CallOK, Later
<1>14. ASSUME NEW u \in Threads, call[u].at \in Adding
       PROVE  keyStatus'[call[u].new] = "absent" /\ call[u].new # n
  <2>1. /\ call[u].new \in Keys /\ call[u].new.tenant = call[u].tenant
        /\ call[u].new.version <= drawn[call[u].tenant] /\ keyStatus[call[u].new] = "absent"
    BY <1>14 DEF KeyInv, Calls, CallOK
  <2> QED BY <1>1, <1>2, <1>3, <2>1, KeyFacts
<1>15. drawn' \in [Holders -> Nat] /\ \A y \in Holders : drawn[y] <= drawn'[y]
  BY <1>1, <1>2, <1>6
<1> QED
  BY <1>1, <1>5, <1>7, <1>8, <1>9, <1>13, <1>14, <1>15, CallsKeep DEF KeyInv, KeysOK

LEMMA AddKeeps ==
    ASSUME KeyInv, NEW t \in Threads, AddActive(t) \/ AddPending(t)
    PROVE  KeyInv'
<1>1. call[t] \in Call /\ CallOK(call[t]) /\ call[t].at \in Adding
  BY DEF AddActive, AddPending, KeyInv, Calls, Adding
<1>0. PICK n \in Keys : n = call[t].new
  BY <1>1 DEF CallOK
<1>2. n.version <= drawn[n.tenant] /\ keyStatus[n] = "absent"
  BY <1>0, <1>1 DEF CallOK
<1>3. \A u \in Threads \ {t} : call[u].at \in Adding => call[u].new # n
  BY <1>0, <1>1 DEF KeyInv, Calls
<1>4. n \notin served /\ n \notin revoked
  BY <1>2 DEF KeyInv, KeysOK, KeysStored
<1>5. crossed \subseteq {l \in Keys : l.tenant # NoTenant} /\ revoked \subseteq Keys
  BY TypeFacts DEF KeysTyped
<1>6. CASE AddPending(t)
  <2>1. /\ keyStatus' = [keyStatus EXCEPT ![n] = "pending"] /\ Goto(t, Idle)
        /\ UNCHANGED <<drawn, served, revoked, raced, crossed>>
    BY <1>0, <1>6 DEF AddPending, Untouched
  <2>2. CallOK(Idle)' /\ Idle \in Call /\ Idle.at \notin Adding
    BY <1>5, <2>1, IdleOK
  <2>3. n \notin served' /\ served' \in {served, served \cup {n}} /\ crossed' = crossed
    BY <1>4, <2>1
  <2>4. (n \in served' => Superseded(n)') /\ (n \in revoked => n \in raced)
    BY <1>4, <2>3
  <2>5. crossed \subseteq crossed' /\ crossed' \subseteq {l \in Keys : l.tenant # NoTenant}
    BY <1>5, <2>3
  <2> QED BY <1>2, <1>3, <2>1, <2>2, <2>3, <2>4, <2>5, StoreKeeps
<1>7. CASE AddActive(t)
  <2>0. PICK c : c = IF call[t].old = NoKey THEN Idle ELSE [call[t] EXCEPT !.at = "demote"]
    OBVIOUS
  <2>1. /\ keyStatus' = [keyStatus EXCEPT ![n] = "active"] /\ Goto(t, c)
        /\ served' = served \cup {n} /\ UNCHANGED <<drawn, revoked, raced, crossed>>
        /\ call[t].at = "add"
    BY <1>0, <1>7, <2>0 DEF AddActive, Untouched
  <2>2. c \in Call /\ c.at \notin Adding
    BY <1>1, <2>0, IdleOK DEF Call, Places, Adding
  <2>3. CallOK(c)'
    <3>1. CASE call[t].old = NoKey
      BY <1>5, <2>0, <2>1, <3>1, IdleOK
    <3>2. CASE call[t].old # NoKey
      <4>1. /\ c.at = "demote" /\ c.old = call[t].old /\ c.new = n /\ c.tenant = call[t].tenant
        BY <1>0, <1>1, <2>0, <3>2 DEF Call
      <4>2. /\ c.old \in served /\ c.tenant \in {NoTenant, c.old.tenant} /\ c.old \in Keys
        <5>1. c.old \in served /\ c.tenant \in {NoTenant, c.old.tenant}
          BY <1>1, <2>1, <3>2, <4>1 DEF CallOK, Rotating
        <5> QED BY <5>1, TypeFacts DEF KeysTyped
      <4>3. c.new.tenant = c.tenant /\ (c.old.tenant = c.tenant => Later(c.old, c.new))
        BY <1>0, <1>1, <4>1 DEF CallOK
      <4>4. c.old \in revoked => c.old \in raced
        BY <1>1, <4>1 DEF CallOK
      <4> QED BY <2>1, <4>1, <4>2, <4>3, <4>4 DEF CallOK, Adding, Rotating, Later
    <3> QED BY <3>1, <3>2
  <2>4. served' \in {served, served \cup {n}} /\ n \in served' /\ crossed' = crossed
    BY <2>1
  <2>5. crossed \subseteq crossed' /\ crossed' \subseteq {l \in Keys : l.tenant # NoTenant}
    BY <1>5, <2>4
  <2>6. n \in revoked => n \in raced
    BY <1>4
  <2> QED BY <1>2, <1>3, <2>1, <2>2, <2>3, <2>4, <2>5, <2>6, StoreKeeps
<1> QED BY <1>6, <1>7

(* Demoting, activating and expiring a key that was read before.           *)
LEMMA OldKeeps ==
    ASSUME KeyInv, NEW t \in Threads, Demote(t) \/ SetActive(t) \/ SetExpired(t)
    PROVE  KeyInv'
<1>1. call[t] \in Call /\ CallOK(call[t])
  BY DEF KeyInv, Calls
<1>2. PICK k \in Keys : k = call[t].old
  BY <1>1 DEF CallOK, Demote, SetActive, SetExpired
<1>3. (k \in revoked => k \in raced) /\ keyStatus[k] # "absent"
  <2>1. call[t].at = "demote" => k \in served
    BY <1>1, <1>2, KeyFacts DEF CallOK, Rotating
  <2>2. call[t].at \in {"demote", "activate", "expire"}
    BY DEF Demote, SetActive, SetExpired
  <2> QED BY <1>1, <1>2, <2>1, <2>2 DEF CallOK, KeyInv, KeysOK, KeysStored
<1>4. k.version <= drawn[k.tenant]
  BY <1>3 DEF KeyInv, KeysOK, KeysStored
<1>5. \A u \in Threads : call[u].at \in Adding => call[u].new # k
  BY <1>3 DEF KeyInv, Calls, CallOK
<1>6. crossed \subseteq {l \in Keys : l.tenant # NoTenant} /\ revoked \subseteq Keys
  BY TypeFacts DEF KeysTyped
<1>7. CASE Demote(t)
  <2>0. PICK c : c = [call[t] EXCEPT !.at = "stamp"]
    OBVIOUS
  <2>1. /\ call[t].at = "demote" /\ keyStatus' = [keyStatus EXCEPT ![k] = "grace"] /\ Goto(t, c)
        /\ crossed' = IF call[t].tenant = k.tenant THEN crossed ELSE crossed \cup {k}
        /\ UNCHANGED <<drawn, served, revoked, raced>>
    BY <1>2, <1>7, <2>0 DEF Demote
  <2>2. c \in Call /\ c.at = "stamp" /\ c.old = k /\ c.tenant = call[t].tenant
    BY <1>1, <1>2, <2>0 DEF Call, Places
  <2>3. k \in served /\ call[t].tenant \in {NoTenant, k.tenant}
    BY <1>1, <1>2, <2>1, KeyFacts DEF CallOK, Rotating
  <2>4. Superseded(k)'
    <3>1. CASE call[t].tenant = k.tenant
      BY <1>1, <1>2, <2>1, <3>1 DEF CallOK, Superseded, Later
    <3>2. CASE call[t].tenant # k.tenant
      BY <2>1, <3>2 DEF Superseded
    <3> QED BY <3>1, <3>2
  <2>5. crossed \subseteq crossed' /\ crossed' \subseteq {l \in Keys : l.tenant # NoTenant}
    BY <1>6, <2>1, <2>3
  <2>6. CallOK(c)' /\ c.at \notin Adding
    BY <1>3, <2>1, <2>2, <2>3 DEF CallOK, Adding, Rotating
  <2>7. served' \in {served, served \cup {k}}
    BY <2>1
  <2> QED BY <1>3, <1>4, <1>5, <2>1, <2>2, <2>4, <2>5, <2>6, <2>7, StoreKeeps
<1>8. CASE SetActive(t)
  <2>1. /\ keyStatus' = [keyStatus EXCEPT ![k] = "active"] /\ Goto(t, Idle)
        /\ served' = served \cup {k} /\ UNCHANGED <<drawn, revoked, raced, crossed>>
    BY <1>2, <1>8 DEF SetActive, Untouched
  <2>2. CallOK(Idle)' /\ Idle \in Call /\ Idle.at \notin Adding
    BY <1>6, <2>1, IdleOK
  <2>3. served' \in {served, served \cup {k}} /\ k \in served' /\ crossed' = crossed
    BY <2>1
  <2> QED BY <1>3, <1>4, <1>5, <1>6, <2>1, <2>2, <2>3, StoreKeeps
<1>9. CASE SetExpired(t)
  <2>1. /\ keyStatus' = [keyStatus EXCEPT ![k] = "expired"] /\ Goto(t, Idle)
        /\ UNCHANGED <<drawn, served, revoked, raced, crossed>> /\ call[t].at = "expire"
    BY <1>2, <1>9 DEF SetExpired, Untouched
  <2>2. Superseded(k)'
    BY <1>1, <1>2, <2>1 DEF CallOK, Superseded
  <2>3. CallOK(Idle)' /\ Idle \in Call /\ Idle.at \notin Adding
    BY <1>6, <2>1, IdleOK
  <2>4. served' \in {served, served \cup {k}} /\ crossed' = crossed
    BY <2>1
  <2> QED BY <1>3, <1>4, <1>5, <1>6, <2>1, <2>2, <2>3, <2>4, StoreKeeps
<1> QED BY <1>7, <1>8, <1>9

(* Reading the active, pending or overdue key.  A revoked key that has     *)
(* another status is one that was raced.                                   *)
LEMMA PickKeeps ==
    ASSUME KeyInv, NEW t \in Threads, NEW k \in Keys, CheckPending(t, k) \/ FindOver(t, k)
    PROVE  KeyInv'
<1>1. PICK p \in {"activate", "expire"} :
         /\ Goto(t, [Idle EXCEPT !.at = p, !.old = k])
         /\ UNCHANGED <<drawn, keyStatus, served, revoked, raced, crossed>>
         /\ keyStatus[k] = IF p = "activate" THEN "pending" ELSE "grace"
  BY DEF CheckPending, FindOver, Untouched
<1> DEFINE c == [Idle EXCEPT !.at = p, !.old = k]
<1>2. c \in Call /\ c.at = p /\ c.old = k
  BY IdleOK DEF Call, Places
<1>3. (k \in revoked => k \in raced) /\ (p = "expire" => Superseded(k))
  BY <1>1 DEF KeyInv, KeysOK, KeysStored
<1>4. Goto(t, c)
  BY <1>1
<1> HIDE DEF c
<1>5. CallOK(c) /\ c.at \notin Adding
  BY <1>1, <1>2, <1>3 DEF CallOK, Adding, Rotating
<1> QED BY <1>1, <1>2, <1>4, <1>5, MoveKeeps

LEMMA ReadKeeps ==
    ASSUME KeyInv, NEW t \in Threads, ReadActive(t)
    PROVE  KeyInv'
<1>0. call[t] \in Call /\ call[t].at = "read"
  BY TypeFacts DEF ReadActive
<1>1. PICK k \in Keys \cup {NoKey} :
         /\ Goto(t, [call[t] EXCEPT !.at = "draw", !.old = k])
         /\ k = NoKey \/ k \in ActiveFor(call[t].tenant)
         /\ UNCHANGED <<drawn, keyStatus, served, revoked, raced, crossed>>
  BY DEF ReadActive, Untouched, Newest, ActiveFor
<1> DEFINE c == [call[t] EXCEPT !.at = "draw", !.old = k]
<1>2. c \in Call /\ c.at = "draw" /\ c.old = k /\ c.tenant = call[t].tenant
  BY <1>0 DEF Call, Places
<1>3. /\ k = NoKey \/ (k \in served /\ call[t].tenant \in {NoTenant, k.tenant})
      /\ k \in revoked => k \in raced
  <2>1. k \in ActiveFor(call[t].tenant) => k \in Keys /\ keyStatus[k] = "active"
    BY DEF ActiveFor
  <2>2. NoKey \notin revoked
    BY KeyFacts, TypeFacts DEF KeysTyped
  <2>3. CASE k = NoKey
    BY <2>2, <2>3
  <2>4. CASE k # NoKey
    <3>1. k \in Keys /\ keyStatus[k] = "active" /\ call[t].tenant \in {NoTenant, k.tenant}
      BY <1>1, <2>1, <2>4 DEF ActiveFor
    <3> QED BY <3>1 DEF KeyInv, KeysOK, KeysStored
  <2> QED BY <2>3, <2>4
<1>4. Goto(t, c)
  BY <1>1
<1> HIDE DEF c
<1>5. CallOK(c) /\ c.at \notin Adding
  BY <1>2, <1>3 DEF CallOK, Adding, Rotating
<1> QED BY <1>1, <1>2, <1>4, <1>5, MoveKeeps

(* Calls that begin or end.                                                *)
LEMMA BeginsKeep ==
    ASSUME KeyInv, NEW t \in Threads,
           \/ Stamp(t)
           \/ \E x \in Holders : BeginRotate(t, x) \/ \E activate \in BOOLEAN : Generate(t, x, activate)
    PROVE  KeyInv'
<1>1. PICK p \in {"idle", "read", "draw", "drawPending"}, x \in Holders :
         /\ Goto(t, Began(p, x))
         /\ UNCHANGED <<drawn, keyStatus, served, revoked, raced, crossed>>
  <2>1. Idle = Began("idle", NoTenant) /\ NoTenant \in Holders
    BY KeyFacts DEF Idle
  <2> QED BY <2>1 DEF BeginRotate, Stamp, Generate, Untouched
<1> DEFINE c == Began(p, x)
<1>2. c \in Call /\ c.at \notin Adding /\ CallOK(c)
  BY EmptyHanded
<1>3. Goto(t, c)
  BY <1>1
<1> HIDE DEF c
<1> QED BY <1>1, <1>2, <1>3, MoveKeeps

(* A revocation: the calls that hold the key make it a raced one.          *)
LEMMA RevokeKeeps ==
    ASSUME KeyInv, NEW k \in Keys,
           Revoke(k) \/ \E t \in Threads : ReportCompromise(t, k)
    PROVE  KeyInv'
<1>1. /\ keyStatus[k] # "absent" /\ keyStatus' = [keyStatus EXCEPT ![k] = "revoked"]
      /\ revoked' = revoked \cup {k} /\ UNCHANGED <<drawn, served, crossed>>
      /\ raced' = IF \E t \in Threads : call[t].old = k THEN raced \cup {k} ELSE raced
  BY DEF Revoke, ReportCompromise, SetRevoked
<1>2. /\ keyStatus \in [Keys -> Statuses] /\ k.version <= drawn[k.tenant] /\ "revoked" \in Statuses
      /\ drawn' \in [Holders -> Nat] /\ (\A x \in Holders : drawn[x] <= drawn'[x])
      /\ raced \subseteq Keys /\ revoked \subseteq Keys
      /\ crossed \subseteq {l \in Keys : l.tenant # NoTenant}
  BY <1>1, TypeFacts DEF KeyInv, KeysOK, KeysTyped, KeysStored, Statuses
<1>3. KeysOK'
  <2>1. raced \subseteq raced' /\ raced' \subseteq Keys /\ crossed' = crossed
    BY <1>1, <1>2
  <2> QED BY <1>1, <1>2, <2>1, StatusKeeps
<1>4. ASSUME NEW u \in Threads PROVE CallOK(call[u])'
  <2>1. PICK d \in Call : d = call[u] /\ CallOK(d)
    BY DEF KeyInv, Calls
  <2>2. d.at \in Adding => keyStatus'[d.new] = "absent"
    BY <1>1, <1>2, <2>1 DEF CallOK
  <2>3. d.old \in revoked' => d.old \in raced'
    BY <1>1, <2>1 DEF CallOK
  <2>4. \A l \in Keys : keyStatus[l] # "absent" => keyStatus'[l] # "absent"
    BY <1>1, <1>2
  <2>5. CallOK(d)'
    BY <1>1, <1>2, <2>1, <2>2, <2>3, <2>4, CallStays
  <2>6. CASE call'[u] = call[u]
    BY <2>1, <2>5, <2>6 DEF CallOK, Superseded
  <2>7. CASE call'[u] # call[u]
    <3>1. call'[u] = Began("read", k.tenant)
      BY <2>7 DEF Revoke, ReportCompromise, Goto, KeyInv, Calls
    <3>2. k.tenant \in Holders /\ revoked' \subseteq Keys
      BY <1>1, <1>2, KeyFacts
    <3>3. PICK e : e = Began("read", k.tenant)
      OBVIOUS
    <3>4. CallOK(e)'
      BY <3>2, <3>3, EmptyHanded
    <3> QED BY <3>1, <3>3, <3>4 DEF CallOK, Superseded
  <2> QED BY <2>6, <2>7
<1>5. /\ call' \in [Threads -> Call]
      /\ \A u \in Threads : call'[u] = call[u] \/ call'[u].at \notin Adding
  <2>1. CASE Revoke(k)
    BY <2>1 DEF Revoke, KeyInv, Calls
  <2>2. ASSUME NEW t \in Threads, ReportCompromise(t, k)
        PROVE  /\ call' \in [Threads -> Call]
               /\ \A u \in Threads : call'[u] = call[u] \/ call'[u].at \notin Adding
    <3>1. PICK e : e = Began("read", k.tenant)
      OBVIOUS
    <3>2. e \in Call /\ e.at \notin Adding
      BY <3>1, EmptyHanded, KeyFacts
    <3>3. call' = [call EXCEPT ![t] = e]
      BY <2>2, <3>1 DEF ReportCompromise, Goto
    <3> QED BY <3>2, <3>3, TypeFacts
  <2> QED BY <2>1, <2>2
<1>6. \A t, u \in Threads :
         call'[t].at \in Adding /\ call'[u].at \in Adding /\ call'[t].new = call'[u].new => t = u
  BY <1>5 DEF KeyInv, Calls
<1> QED BY <1>3, <1>4, <1>5, <1>6 DEF KeyInv, Calls

LEMMA KeyKeeps == KeyInv /\ [KeyNext]_keyVars => KeyInv'
<1> SUFFICES ASSUME KeyInv, [KeyNext]_keyVars PROVE KeyInv'
  OBVIOUS
<1>1. ASSUME UNCHANGED <<drawn, keyStatus, call, served, revoked, raced, crossed>> PROVE KeyInv'
  BY <1>1 DEF KeyInv, KeysOK, KeysTyped, KeysStored, NewestServes, Calls, CallOK, Superseded, Stands
<1>2. ASSUME NEW k \in Keys, Extend(k) \/ GraceEnds(k) PROVE KeyInv'
  BY <1>1, <1>2 DEF Extend, GraceEnds, Untouched
<1>3. CASE UNCHANGED keyVars
  BY <1>1, <1>3 DEF keyVars
<1>4. ASSUME NEW t \in Threads, Draw(t, "draw", "add") \/ Draw(t, "drawPending", "addPending")
      PROVE  KeyInv'
  BY <1>4, DrawKeeps
<1> QED
  BY <1>2, <1>3, <1>4, AddKeeps, OldKeeps, PickKeeps, ReadKeeps, BeginsKeep, RevokeKeeps
  DEF KeyNext

(* However rotations, activations, expiries and revocations overlap, and   *)
(* whoever they are for: the newest key of a holder that ever served is in *)
(* service, was revoked, or was a tenant's that a rotation for none took;  *)
(* and a revoked key came back only through a call that held it when it    *)
(* was revoked.                                                            *)
THEOREM NewestKeyServes == KeySpec => []RotationServes
<1>1. KeyInv => RotationServes
  <2> SUFFICES ASSUME KeyInv PROVE RotationServes
    OBVIOUS
  <2>1. ASSUME NEW x \in Holders, NEW k \in NewestOf(x)
        PROVE  k.tenant = x /\ (Stands(k) \/ k \in crossed)
    <3>1. k \in served /\ k.tenant = x /\ k \in Keys
      BY <2>1, TypeFacts DEF NewestOf, Newest, KeysTyped
    <3>2. \A l \in served : ~Later(k, l)
      <4> SUFFICES ASSUME NEW l \in served, Later(k, l) PROVE FALSE
        OBVIOUS
      <4>1. l.tenant = x /\ l.version <= k.version /\ l \in Keys
        BY <2>1, <3>1, TypeFacts DEF NewestOf, Newest, Later, KeysTyped
      <4> QED BY <3>1, <4>1, KeyFacts DEF Later
    <3> QED BY <3>1, <3>2 DEF KeyInv, KeysOK, NewestServes, Superseded
  <2>2. \A k \in crossed : k.tenant # NoTenant
    BY TypeFacts DEF KeysTyped
  <2>3. \A k \in revoked : keyStatus[k] = "revoked" \/ k \in raced
    BY TypeFacts DEF KeyInv, KeysOK, KeysTyped, KeysStored
  <2> QED BY <2>1, <2>2, <2>3, KeyFacts DEF RotationServes, Holders
<1> QED BY KeyStarts, KeyKeeps, <1>1, PTL DEF KeySpec

HIDE KeyAssumption
-----------------------------------------------------------------------------
(* The composition: to each safeguard a behaviour of Safeguards is one of  *)
(* its own, in which it may also rest, so the theorems above hold of the   *)
(* composition the run checks.                                             *)
THEOREM SafeguardsRunEach ==
    SafeguardsSpec =>
        /\ Spec
        /\ ResponseInit /\ [][ResponseNext]_responseVars
        /\ RefreshSpec /\ KeySpec
<1>1. SafeguardsInit => Init /\ ResponseInit /\ RefreshInit /\ KeyInit
  BY DEF SafeguardsInit
<1>2. [SafeguardsNext]_safeguardsVars =>
        /\ [Next]_vars /\ [ResponseNext]_responseVars
        /\ [RefreshNext]_refreshVars /\ [KeyNext]_keyVars
  <2> SUFFICES ASSUME [SafeguardsNext]_safeguardsVars
               PROVE  /\ [Next]_vars /\ [ResponseNext]_responseVars
                      /\ [RefreshNext]_refreshVars /\ [KeyNext]_keyVars
    OBVIOUS
  <2>1. ASSUME NEW p \in Parts, Turn(p)
        PROVE  /\ p = "equity" \/ UNCHANGED vars
               /\ p = "response" \/ UNCHANGED responseVars
               /\ p = "sessions" \/ UNCHANGED refreshVars
               /\ p = "signing" \/ UNCHANGED keyVars
    BY <2>1, Zenon DEF Turn
  <2>2. UNCHANGED safeguardsVars =>
           /\ UNCHANGED vars /\ UNCHANGED responseVars
           /\ UNCHANGED refreshVars /\ UNCHANGED keyVars
    BY Zenon DEF safeguardsVars
  <2> QED BY <2>1, <2>2 DEF SafeguardsNext, Parts
<1> QED BY <1>1, <1>2, PTL DEF SafeguardsSpec, Spec, RefreshSpec, KeySpec

(* So the composition keeps every safety property of its parts: what the   *)
(* run of Safeguards checks holds for any constants.                       *)
THEOREM SafeguardsAreSafe ==
    SafeguardsSpec => /\ []WithinLimits /\ []DailyLossCovered /\ HaltLastsCooldown
                      /\ []StandingSwitchBlocks /\ []OneChainPerSession /\ []RotationServes
BY SafeguardsRunEach, TradesWithinLimits, LossesAreCounted, HaltsLastTheirCooldown,
   SwitchesBlock, SessionsAreChains, NewestKeyServes, PTL
=============================================================================
