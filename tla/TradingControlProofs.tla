------------------------ MODULE TradingControlProofs ------------------------
(***************************************************************************)
(* What the kill switch guarantees to an operator, for any number of       *)
(* tasks, callbacks and readings: an order whose assessment begins while   *)
(* the switch is active is not approved, each activation calls every       *)
(* callback once, and no check passes far below an earlier one.            *)
(* SwitchInv is inductive; LockInv, about the lock's queue and the readings *)
(* of the window, is inductive with it.                                    *)
(***************************************************************************)
EXTENDS TradingControl, SequenceTheorems, WellFoundedInduction, TLAPS

SwitchTyped == /\ active \in BOOLEAN
               /\ hwm \in Nat /\ peak \in Nat
               /\ pc \in [Callers -> {"idle", "lock", "passed"}]
               /\ call \in [Callers -> Calls]
               /\ cb \in 0..Callbacks + 1

(* The callbacks called so far belong to the current activation.           *)
CallsCounted ==
    /\ cb # 0 => active
    /\ ran = IF ~active THEN 0 ELSE IF cb = 0 \/ cb > Callbacks THEN Callbacks ELSE cb

(* Whoever came during this activation has not passed the switch.          *)
LateHeldBack == /\ late # {} => active
                /\ \A t \in late : pc[t] # "passed"

(* The mark never falls below an equity that was let through.              *)
MarkCoversPeak == peak <= hwm

SwitchInv == SwitchTyped /\ CallsCounted /\ LateHeldBack /\ MarkCoversPeak

LEMMA SwitchStarts == ControlInit => SwitchInv
<1> SUFFICES ASSUME ControlInit PROVE SwitchInv
  OBVIOUS
<1>1. [op |-> "reset", equity |-> 0] \in Calls
  <2>1. [op |-> "reset", equity |-> 0] \in [op : {"activate", "reset"}, equity : {0}]
    OBVIOUS
  <2> QED BY <2>1, Zenon DEF Calls
<1>2. call \in [Callers -> Calls]
  BY <1>1 DEF ControlInit, Init
<1>3. SwitchTyped
  <2>1. 0 \in 0..Callbacks + 1
    BY KillSwitchAssumption
  <2> QED BY <1>2, <2>1 DEF ControlInit, Init, SwitchTyped
<1> QED BY <1>3 DEF ControlInit, Init, SwitchInv, CallsCounted, LateHeldBack, MarkCoversPeak

LEMMA Marks ==
    ASSUME SwitchTyped, NEW e \in Nat
    PROVE  Mark(e) \in Nat /\ hwm <= Mark(e) /\ e <= Mark(e)
  BY DEF SwitchTyped, Mark, Larger

LEMMA ReadingsTyped ==
    ASSUME SwitchTyped, NEW t \in Callers
    PROVE  call[t].equity \in Nat
<1>1. call[t] \in Calls
  BY DEF SwitchTyped
<1>2. CASE call[t] \in [op : {"check"}, equity : Equities]
  BY <1>2, KillSwitchAssumption
<1>3. CASE call[t] \in [op : {"activate", "reset"}, equity : {0}]
  BY <1>3
<1> QED BY <1>1, <1>2, <1>3 DEF Calls

(* A call joins the queue of the lock.                                     *)
LEMMA EnterKeeps ==
    ASSUME SwitchInv, NEW t \in Callers, NEW c \in Calls, Enter(t, c)
    PROVE  /\ SwitchTyped' /\ CallsCounted' /\ MarkCoversPeak'
           /\ UNCHANGED active /\ pc' = [pc EXCEPT ![t] = "lock"]
  BY DEF Enter, SwitchInv, SwitchTyped, CallsCounted, MarkCoversPeak

(* check() under the lock.                                                 *)
LEMMA GateOneKeeps ==
    ASSUME SwitchInv, NEW t \in Callers, GateOne(t), UNCHANGED controlVars
    PROVE  SwitchInv'
<1> USE KillSwitchAssumption DEF SwitchInv, controlVars
<1>1. CASE CheckRefused(t)
  BY <1>1 DEF CheckRefused, Release, SwitchTyped, CallsCounted, LateHeldBack, MarkCoversPeak
<1>2. CASE CheckTrips(t)
  <2>1. /\ ~active /\ active' = TRUE /\ cb = 0 /\ cb' = 1
        /\ ran' = IF Callbacks > 0 THEN ran + 1 ELSE ran
        /\ hwm' = Mark(call[t].equity) /\ UNCHANGED <<pc, call, peak>>
    BY <1>2 DEF CheckTrips, Trip, Holds
  <2>2. hwm' \in Nat /\ hwm <= hwm'
    BY <2>1, Marks, ReadingsTyped
  <2>3. SwitchTyped' /\ MarkCoversPeak'
    BY <2>1, <2>2 DEF SwitchTyped, MarkCoversPeak
  <2>4. CallsCounted'
    BY <2>1 DEF CallsCounted
  <2>5. LateHeldBack'
    BY <2>1 DEF LateHeldBack
  <2> QED BY <2>3, <2>4, <2>5
<1>3. CASE CheckPasses(t)
  <2>1. /\ ~active /\ hwm' = Mark(call[t].equity) /\ peak' = Larger(peak, call[t].equity)
        /\ pc' = [pc EXCEPT ![t] = "passed"] /\ UNCHANGED <<active, cb, ran, call>>
    BY <1>3 DEF CheckPasses, Release
  <2>2. /\ hwm' \in Nat /\ hwm <= hwm' /\ call[t].equity <= hwm'
        /\ call[t].equity \in Nat
    BY <2>1, Marks, ReadingsTyped
  <2>3. SwitchTyped' /\ MarkCoversPeak'
    BY <2>1, <2>2 DEF SwitchTyped, MarkCoversPeak, Larger
  <2>4. CallsCounted' /\ LateHeldBack'
    BY <2>1 DEF CallsCounted, LateHeldBack
  <2> QED BY <2>3, <2>4
<1> QED BY <1>1, <1>2, <1>3 DEF GateOne

(* The other things that happen to the switch by itself.                   *)
LEMMA SwitchStepKeeps == ASSUME SwitchInv, SwitchStep PROVE SwitchInv'
<1> USE KillSwitchAssumption DEF SwitchInv
<1>1. UNCHANGED controlVars
  BY DEF SwitchStep
<1>2. ASSUME NEW t \in Callers, GateOne(t) PROVE SwitchInv'
  BY <1>1, <1>2, GateOneKeeps
<1>3. ASSUME NEW t \in Callers, Activate(t) PROVE SwitchInv'
  <2>1. CASE active
    <3>1. pc' = [pc EXCEPT ![t] = "idle"] /\ UNCHANGED <<active, cb, ran, hwm, call, peak>>
      BY <1>3, <2>1 DEF Activate, Release
    <3>2. SwitchTyped' /\ MarkCoversPeak' /\ CallsCounted'
      BY <3>1 DEF SwitchTyped, MarkCoversPeak, CallsCounted
    <3>3. LateHeldBack'
      BY <1>1, <3>1 DEF SwitchTyped, LateHeldBack, controlVars
    <3> QED BY <3>2, <3>3
  <2>2. CASE ~active
    <3>1. /\ active' = TRUE /\ cb = 0 /\ cb' = 1
          /\ ran' = IF Callbacks > 0 THEN ran + 1 ELSE ran
          /\ UNCHANGED <<hwm, pc, call, peak>>
      BY <1>3, <2>2 DEF Activate, Trip, Holds
    <3>2. SwitchTyped' /\ MarkCoversPeak' /\ LateHeldBack'
      BY <1>1, <3>1 DEF SwitchTyped, MarkCoversPeak, LateHeldBack, controlVars
    <3>3. CallsCounted'
      BY <2>2, <3>1 DEF CallsCounted
    <3> QED BY <3>2, <3>3
  <2> QED BY <2>1, <2>2 DEF SwitchTyped
<1>4. CASE CallbackEnds
  <2>1. /\ cb \in 1..Callbacks /\ cb' = cb + 1
        /\ ran' = IF cb < Callbacks THEN ran + 1 ELSE ran
        /\ UNCHANGED <<active, hwm, pc, call, peak>>
    BY <1>4 DEF CallbackEnds
  <2>2. SwitchTyped' /\ MarkCoversPeak' /\ LateHeldBack'
    BY <1>1, <2>1 DEF SwitchTyped, MarkCoversPeak, LateHeldBack, controlVars
  <2>3. CallsCounted'
    BY <2>1 DEF CallsCounted, SwitchTyped
  <2> QED BY <2>2, <2>3
<1>5. CASE Tripped
  <2>1. /\ cb = Callbacks + 1 /\ cb' = 0 /\ pc' = [pc EXCEPT ![Head(queue)] = "idle"]
        /\ UNCHANGED <<active, hwm, call, ran, peak>>
    BY <1>5 DEF Tripped, Release
  <2>2. pc' \in [Callers -> {"idle", "lock", "passed"}]
    BY <2>1 DEF SwitchTyped
  <2>3. \A t : pc[t] # "passed" => pc'[t] # "passed" \/ t \notin Callers
    BY <2>1 DEF SwitchTyped
  <2>4. SwitchTyped' /\ MarkCoversPeak' /\ CallsCounted'
    BY <2>1, <2>2 DEF SwitchTyped, MarkCoversPeak, CallsCounted
  <2> QED BY <1>1, <2>1, <2>3, <2>4 DEF LateHeldBack, controlVars
<1>6. CASE Tick
  BY <1>1, <1>6 DEF Tick, SwitchTyped, MarkCoversPeak, LateHeldBack, CallsCounted, controlVars
<1> QED BY <1>2, <1>3, <1>4, <1>5, <1>6 DEF SwitchStep
-----------------------------------------------------------------------------
LEMMA ControlKeeps == SwitchInv /\ [ControlNext]_allVars => SwitchInv'
<1> SUFFICES ASSUME SwitchInv, [ControlNext]_allVars PROVE SwitchInv'
  OBVIOUS
<1>1. ASSUME NEW t \in Callers, NEW e \in Equities, Assess(t, e) PROVE SwitchInv'
  <2>1. [op |-> "check", equity |-> e] \in Calls
    <3>1. [op |-> "check", equity |-> e] \in [op : {"check"}, equity : Equities]
      OBVIOUS
    <3> QED BY <3>1, Zenon DEF Calls
  <2>2. /\ SwitchTyped' /\ CallsCounted' /\ MarkCoversPeak'
        /\ UNCHANGED active /\ pc' = [pc EXCEPT ![t] = "lock"]
    BY <1>1, <2>1, EnterKeeps DEF Assess
  <2>3. LateHeldBack'
    BY <1>1, <2>2 DEF Assess, LateHeldBack, SwitchInv, SwitchTyped
  <2> QED BY <2>2, <2>3 DEF SwitchInv
<1>2. ASSUME NEW t \in Callers, AdminKill(t) \/ CallReset(t) PROVE SwitchInv'
  <2>1. PICK c \in {[op |-> "activate", equity |-> 0], [op |-> "reset", equity |-> 0]} : Enter(t, c)
    BY <1>2 DEF AdminKill, CallReset
  <2>2. c \in Calls
    <3>1. c \in [op : {"activate", "reset"}, equity : {0}]
      BY <2>1
    <3> QED BY <3>1, Zenon DEF Calls
  <2>3. /\ SwitchTyped' /\ CallsCounted' /\ MarkCoversPeak'
        /\ UNCHANGED active /\ pc' = [pc EXCEPT ![t] = "lock"]
    BY <2>1, <2>2, EnterKeeps
  <2>4. UNCHANGED late
    BY <1>2 DEF AdminKill, CallReset
  <2>5. LateHeldBack'
    BY <2>3, <2>4 DEF LateHeldBack, SwitchInv, SwitchTyped
  <2> QED BY <2>3, <2>5 DEF SwitchInv
<1>3. ASSUME NEW t \in Callers, Proceed(t), UNCHANGED late PROVE SwitchInv'
  <2>1. pc' = [pc EXCEPT ![t] = "idle"] /\ UNCHANGED <<active, hwm, call, cb, ran, peak>>
    BY <1>3 DEF Proceed
  <2>2. SwitchTyped' /\ MarkCoversPeak' /\ CallsCounted'
    BY <2>1 DEF SwitchInv, SwitchTyped, MarkCoversPeak, CallsCounted
  <2>3. LateHeldBack'
    BY <1>3, <2>1 DEF SwitchInv, SwitchTyped, LateHeldBack
  <2> QED BY <2>2, <2>3 DEF SwitchInv
<1>4. ASSUME NEW t \in Callers, ResetSwitch(t) PROVE SwitchInv'
  <2>1. /\ cb = 0 /\ active' = FALSE /\ ran' = 0 /\ late' = {}
        /\ pc' = [pc EXCEPT ![t] = "idle"] /\ UNCHANGED <<hwm, call, cb, peak>>
    BY <1>4 DEF ResetSwitch, Reset, Holds, Release
  <2>2. SwitchTyped' /\ MarkCoversPeak'
    BY <2>1 DEF SwitchInv, SwitchTyped, MarkCoversPeak
  <2>3. LateHeldBack' /\ CallsCounted'
    BY <2>1 DEF LateHeldBack, CallsCounted
  <2> QED BY <2>2, <2>3 DEF SwitchInv
<1>5. CASE SwitchStep
  BY <1>5, SwitchStepKeeps
<1>6. CASE UNCHANGED <<vars, late>>
  BY <1>6 DEF vars, SwitchInv, SwitchTyped, CallsCounted, LateHeldBack, MarkCoversPeak
<1>7. CASE TelegramStop \/ ApiHalt \/ ApiResume \/ Resume \/ UNCHANGED allVars
  BY <1>6, <1>7 DEF TelegramStop, ApiHalt, ApiResume, Resume, allVars, controlVars
<1> QED
  BY <1>1, <1>2, <1>3, <1>4, <1>5, <1>7 DEF ControlNext, Approve, Reject, controlVars

LEMMA ControlInvariant == ControlSpec => []SwitchInv
  BY SwitchStarts, ControlKeeps, PTL DEF ControlSpec

(* For any number of tasks, callbacks and readings: no order is approved   *)
(* whose assessment began after the switch was activated, however the      *)
(* activations, resets and assessments overlap.                            *)
THEOREM StopsWhatComesLater == ControlSpec => ActiveSwitchAdmitsNothing
<1>1. SwitchInv /\ [ControlNext]_allVars =>
         [\A t \in Callers : NewlyApproved(t) /\ active => t \notin late]_allVars
  <2> SUFFICES ASSUME SwitchInv, ControlNext, NEW t \in Callers, NewlyApproved(t)
               PROVE  t \notin late
    OBVIOUS
  <2>1. ASSUME approved' \subseteq approved PROVE FALSE
    BY <2>1 DEF NewlyApproved
  <2>2. PICK u \in Callers : Approve(u)
    BY <2>1 DEF ControlNext, Assess, Reject, AdminKill, CallReset, ResetSwitch, TelegramStop,
                ApiHalt, ApiResume, Resume, SwitchStep, controlVars
  <2>3. u = t /\ pc[u] = "passed"
    BY <2>2 DEF Approve, Proceed, NewlyApproved
  <2> QED BY <2>3 DEF SwitchInv, LateHeldBack
<1> QED BY ControlInvariant, <1>1, PTL DEF ControlSpec, ActiveSwitchAdmitsNothing

(* The stop is not lifted while a callback is at work: reset() has to wait *)
(* for the lock, which the activating task keeps until the last one ended. *)
THEOREM StopOutlasts == ControlSpec => StopOutlastsCallbacks
<1>1. SwitchInv /\ [ControlNext]_allVars => [active /\ ~active' => cb = 0]_vars
  <2> SUFFICES ASSUME SwitchInv, ControlNext, active, ~active' PROVE cb = 0
    BY DEF allVars
  <2>1. CASE UNCHANGED active
    BY <2>1
  <2>2. CASE active' = TRUE
    BY <2>2
  <2>3. PICK t \in Callers : ResetSwitch(t)
    BY <2>1, <2>2 DEF ControlNext, Assess, Approve, Reject, AdminKill, CallReset, TelegramStop,
       ApiHalt, ApiResume, Resume, SwitchStep, GateOne, CheckRefused, CheckTrips, CheckPasses,
       Activate, CallbackEnds, Tripped, Tick, Trip, Enter, Proceed, vars
  <2> QED BY <2>3 DEF ResetSwitch, Reset, Holds
<1> QED BY ControlInvariant, <1>1, PTL DEF ControlSpec, StopOutlastsCallbacks

(* A positive equity that check() lets through is less than hard_drawdown  *)
(* below every one it let through before, resets or not.                   *)
THEOREM PassesNearPeak ==
    ASSUME HardPct \in 1..100, 0 \notin Equities
    PROVE  ControlSpec => PassedIsNearPeak
<1>1. SwitchInv /\ [ControlNext]_allVars =>
        [\A t \in Callers :
           pc[t] = "lock" /\ pc'[t] = "passed" =>
              100 * (peak - call[t].equity) < HardPct * Larger(peak, call[t].equity)]_vars
  <2> SUFFICES ASSUME SwitchInv, ControlNext, NEW t \in Callers, pc[t] = "lock", pc'[t] = "passed"
               PROVE  100 * (peak - call[t].equity) < HardPct * Larger(peak, call[t].equity)
    BY DEF allVars
  <2>1. pc \in [Callers -> {"idle", "lock", "passed"}] /\ pc' # pc
    BY DEF SwitchInv, SwitchTyped
  <2>2. CheckPasses(t)
    BY <2>1 DEF ControlNext, Assess, Approve, Reject, AdminKill, CallReset, ResetSwitch, Reset,
       TelegramStop, ApiHalt, ApiResume, Resume, SwitchStep, GateOne, CheckRefused, CheckTrips,
       CheckPasses, Activate, CallbackEnds, Tripped, Tick, Enter, Proceed, Release, vars
  <2> DEFINE e == call[t].equity
             m == Mark(e)
  <2>3. e \in Nat \ {0}
    <3>1. call[t] \in Calls /\ call[t].op = "check"
      BY <2>2 DEF CheckPasses, Holds, SwitchInv, SwitchTyped
    <3>2. call[t] \in [op : {"check"}, equity : Equities]
      BY <3>1 DEF Calls
    <3> QED BY <3>2, KillSwitchAssumption
  <2>4. /\ m \in Nat /\ e <= m /\ peak \in Nat /\ peak <= m
    BY <2>3, Marks DEF SwitchInv, SwitchTyped, MarkCoversPeak
  <2>5. 100 * (m - e) < HardPct * m
    BY <2>2, <2>3, <2>4 DEF CheckPasses, DrawnDown
  <2> HIDE DEF e, m
  <2>6. CASE peak <= e
    <3>1. 100 * (peak - e) <= 0 /\ HardPct * e > 0
      BY <2>3, <2>4, <2>6
    <3>2. Larger(peak, e) = e
      BY <2>3, <2>4, <2>6 DEF Larger
    <3> QED BY <2>3, <2>4, <3>1, <3>2 DEF e
  <2>7. CASE peak > e
    <3>1. HardPct * (m - peak) <= 100 * (m - peak)
      BY <2>4
    <3>2. HardPct * (m - peak) = HardPct * m - HardPct * peak
      BY <2>4
    <3>3. Larger(peak, e) = peak
      BY <2>3, <2>4, <2>7 DEF Larger
    <3>4. 100 * (peak - e) < HardPct * peak
      BY <2>3, <2>4, <2>5, <3>1, <3>2
    <3> QED BY <3>3, <3>4 DEF e
  <2> QED BY <2>3, <2>4, <2>6, <2>7
<1> QED BY ControlInvariant, <1>1, PTL DEF ControlSpec, PassedIsNearPeak
-----------------------------------------------------------------------------
(* The lock and the readings.  A task stands at most once in the queue of  *)
(* the lock, with its call pending, and whoever has tripped the switch is  *)
(* still in it while the callbacks run.                                    *)
QueueOK ==
    /\ queue \in Seq(Callers)
    /\ \A i \in 1..Len(queue) : pc[queue[i]] = "lock"
    /\ \A i, j \in 1..Len(queue) : queue[i] = queue[j] => i = j
    /\ cb # 0 => queue # <<>>

Readings == [age : 0..Window + 1, equity : Equities]

(* A check that waits has its place in the window reserved; the one that   *)
(* trips the switch has taken its own, and keeps the lock.                 *)
Reserved == MaxReadings + IF cb = 0 THEN 0 ELSE 1

ReadingsOK ==
    /\ history \in Seq(Readings) /\ Len(history) <= MaxReadings
    /\ \A i, j \in 1..Len(history) : i < j => history[j].age <= history[i].age
    /\ \A k \in 1..Len(queue) : call[queue[k]].op = "check" => Len(Recent) + k <= Reserved

MarksOK == hwm \in {0} \cup Equities /\ peak \in {0} \cup Equities /\ ran \in Nat

LockInv == QueueOK /\ ReadingsOK /\ MarksOK

LEMMA MinIsLeast ==
    ASSUME NEW I \in SUBSET Nat, I # {}
    PROVE  Min(I) \in I /\ \A j \in I : Min(I) <= j
<1>1. PICK x \in I : \A y \in I : ~ (<<y, x>> \in OpToRel(<, Nat))
  BY NatLessThanWellFounded, WFMin
<1>2. OpToRel(<, Nat) = {p \in Nat \X Nat : p[1] < p[2]}
  BY DEF OpToRel
<1>3. ASSUME NEW y \in I, y < x PROVE FALSE
  <2>1. <<y, x>> \in {p \in Nat \X Nat : p[1] < p[2]}
    BY <1>3
  <2> QED BY <1>1, <1>2, <2>1, Zenon
<1>4. \A y \in I : x <= y
  BY <1>3
<1> QED BY <1>4 DEF Min

LEMMA SinceFacts ==
    ASSUME history \in Seq(Readings)
    PROVE  /\ Since \in SUBSET Nat /\ Len(history) + 1 \in Since
           /\ Min(Since) \in Since /\ \A k \in Since : Min(Since) <= k
           /\ Min(Since) \in 1..(Len(history) + 1) /\ Len(history) \in Nat
<1>1. Len(history) \in Nat
  BY LenProperties
<1>2. Since \in SUBSET Nat /\ Len(history) + 1 \in Since
  BY <1>1 DEF Since
<1>3. Min(Since) \in Since /\ \A k \in Since : Min(Since) <= k
  BY <1>2, MinIsLeast
<1> QED BY <1>1, <1>2, <1>3 DEF Since

LEMMA RecentFacts ==
    ASSUME history \in Seq(Readings)
    PROVE  /\ Recent \in Seq(Readings)
           /\ Len(Recent) = Len(history) + 1 - Min(Since)
           /\ \A i \in 1..Len(Recent) : Recent[i] = history[Min(Since) + i - 1]
<1> DEFINE k == Min(Since)
           n == Len(history)
<1>1. k \in 1..(n + 1) /\ n \in Nat
  BY SinceFacts
<1>2. \A i \in k..n : history[i] \in Readings
  BY <1>1, ElementOfSeq
<1> HIDE DEF k, n
<1>3. /\ SubSeq(history, k, n) \in Seq(Readings)
      /\ Len(SubSeq(history, k, n)) = IF k <= n THEN n - k + 1 ELSE 0
      /\ \A i \in 1..(n - k + 1) : SubSeq(history, k, n)[i] = history[k + i - 1]
  BY <1>1, <1>2, SubSeqProperties
<1>4. Recent = SubSeq(history, k, n)
  BY DEF Recent, k, n
<1> QED BY <1>1, <1>3, <1>4 DEF k, n

(* The suffix is what the comprehension of check() keeps.                  *)
LEMMA RecentIsTheWindow ==
    ASSUME ReadingsOK, KillSwitchAssumption, NEW i \in 1..Len(history)
    PROVE  history[i].age <= Window <=> i >= Min(Since)
<1>1. /\ history \in Seq(Readings) /\ Len(history) \in Nat /\ Window \in Nat
      /\ \A j \in 1..Len(history) : history[j].age \in Nat
  <2>1. history \in Seq(Readings) /\ Window \in Nat
    BY KillSwitchAssumption DEF ReadingsOK
  <2>2. Len(history) \in Nat /\ \A j \in 1..Len(history) : history[j] \in Readings
    BY <2>1, LenProperties, ElementOfSeq
  <2> QED BY <2>1, <2>2 DEF Readings
<1>2. Min(Since) \in Since /\ \A k \in Since : Min(Since) <= k
  BY <1>1, SinceFacts
<1>3. CASE i >= Min(Since)
  BY <1>1, <1>2, <1>3 DEF Since
<1>4. ASSUME history[i].age <= Window PROVE i >= Min(Since)
  <2>1. \A j \in i..Len(history) : j \in 1..Len(history) /\ (j = i \/ i < j)
    BY <1>1
  <2>2. \A j \in i..Len(history) : history[j].age <= history[i].age
    BY <1>1, <2>1 DEF ReadingsOK
  <2>3. i \in Since
    BY <1>1, <1>4, <2>1, <2>2 DEF Since
  <2> QED BY <1>1, <1>2, <2>3 DEF Since
<1>5. Min(Since) \in Nat
  BY <1>1, SinceFacts
<1> QED BY <1>1, <1>3, <1>4, <1>5

LEMMA LockStarts == ControlInit => LockInv
<1> SUFFICES ASSUME ControlInit PROVE LockInv
  OBVIOUS
<1>1. queue = <<>> /\ history = <<>> /\ hwm = 0 /\ peak = 0 /\ ran = 0 /\ cb = 0
  BY DEF ControlInit, Init
<1>2. MaxReadings \in Nat
  BY KillSwitchAssumption
<1> QED BY <1>1, <1>2 DEF LockInv, QueueOK, ReadingsOK, MarksOK

RecentIsSince ==
    history \in Seq(Readings) =>
        /\ Len(Recent) = Len(history) + 1 - Min(Since)
        /\ Len(history) \in Nat /\ Min(Since) \in 1..(Len(history) + 1)
        /\ Min(Since) \in Since /\ \A k \in Since : Min(Since) <= k

LEMMA RecentLength == RecentIsSince
  BY SinceFacts, RecentFacts DEF RecentIsSince

LEMMA RecentLengthNext ==
    history' \in Seq(Readings) =>
        /\ Len(Recent') = Len(history') + 1 - Min(Since')
        /\ Len(history') \in Nat /\ Min(Since') \in 1..(Len(history') + 1)
        /\ Min(Since') \in Since' /\ \A k \in Since' : Min(Since') <= k
<1>1. RecentIsSince'
  BY RecentLength, PTL
<1> QED BY <1>1 DEF RecentIsSince

LEMMA SameRecent == ASSUME UNCHANGED history PROVE Recent' = Recent
  BY DEF Recent, Since

LEMMA QueueFacts ==
    ASSUME QueueOK
    PROVE  /\ Len(queue) \in Nat
           /\ \A i \in 1..Len(queue) : queue[i] \in Callers
           /\ queue # <<>> => /\ Len(queue) >= 1 /\ Head(queue) = queue[1]
                              /\ Head(queue) \in Callers /\ Tail(queue) \in Seq(Callers)
                              /\ Len(Tail(queue)) = Len(queue) - 1
                              /\ \A i \in 1..(Len(queue) - 1) : Tail(queue)[i] = queue[i + 1]
<1>1. queue \in Seq(Callers)
  BY DEF QueueOK
<1>2. Len(queue) \in Nat /\ \A i \in 1..Len(queue) : queue[i] \in Callers
  BY <1>1, LenProperties, ElementOfSeq
<1>3. ASSUME queue # <<>>
      PROVE  /\ Len(queue) >= 1 /\ Head(queue) = queue[1]
             /\ Tail(queue) \in Seq(Callers)
             /\ Len(Tail(queue)) = Len(queue) - 1
             /\ \A i \in 1..(Len(queue) - 1) : Tail(queue)[i] = queue[i + 1]
  BY <1>1, <1>2, <1>3, EmptySeq, HeadTailProperties
<1> QED BY <1>2, <1>3

LEMMA EnterKeepsLock ==
    ASSUME LockInv, SwitchTyped, NEW t \in Callers, NEW c \in Calls, Enter(t, c)
    PROVE  LockInv'
<1> DEFINE n == Len(queue)
<1>1. /\ pc[t] = "idle" /\ queue' = Append(queue, t)
      /\ pc' = [pc EXCEPT ![t] = "lock"] /\ call' = [call EXCEPT ![t] = c]
      /\ c.op = "check" => Len(Recent) + Len(queue) < MaxReadings
      /\ UNCHANGED <<active, hwm, history, cb, ran, peak>>
  BY DEF Enter
<1>2. QueueOK /\ ReadingsOK /\ MarksOK
  BY DEF LockInv
<1>3. n \in Nat /\ queue \in Seq(Callers) /\ \A i \in 1..n : queue[i] \in Callers
  BY <1>2, QueueFacts DEF QueueOK
<1>4. /\ queue' \in Seq(Callers) /\ Len(queue') = n + 1
      /\ \A i \in 1..n : queue'[i] = queue[i]
      /\ queue'[n + 1] = t
  BY <1>1, <1>3, AppendProperties
<1> HIDE DEF n
<1>5. \A i \in 1..n : queue[i] # t
  BY <1>1, <1>2 DEF QueueOK, n
<1>6. \A i \in 1..n : pc'[queue[i]] = "lock" /\ call'[queue[i]] = call[queue[i]]
  BY <1>1, <1>2, <1>3, <1>5 DEF QueueOK, SwitchTyped, n
<1>7. pc'[t] = "lock" /\ call'[t] = c
  BY <1>1 DEF SwitchTyped
<1>8. QueueOK'
  <2>1. \A i \in 1..(n + 1) : pc'[queue'[i]] = "lock"
    BY <1>3, <1>4, <1>6, <1>7
  <2>2. \A i, j \in 1..(n + 1) : queue'[i] = queue'[j] => i = j
    <3>1. ASSUME NEW i \in 1..(n + 1), NEW j \in 1..(n + 1), queue'[i] = queue'[j] PROVE i = j
      <4>1. CASE i \in 1..n /\ j \in 1..n
        BY <1>2, <1>4, <3>1, <4>1 DEF QueueOK, n
      <4>2. CASE i = n + 1 /\ j = n + 1
        BY <4>2
      <4> QED BY <1>3, <1>4, <1>5, <3>1, <4>1, <4>2
    <3> QED BY <3>1
  <2>3. queue' # <<>>
    BY <1>3, <1>4
  <2> QED BY <1>4, <2>1, <2>2, <2>3 DEF QueueOK
<1>9. ReadingsOK'
  <2>1. Recent' = Recent /\ history' = history /\ Reserved' = Reserved
    BY <1>1, SameRecent DEF Reserved
  <2>2. history \in Seq(Readings) /\ MaxReadings \in Nat
    BY <1>2, KillSwitchAssumption DEF ReadingsOK
  <2>3. Len(Recent) \in Nat /\ Reserved \in Nat /\ MaxReadings <= Reserved
    <3>1. Len(Recent) \in Nat
      BY <2>2, RecentLength DEF RecentIsSince
    <3> QED BY <2>2, <3>1, KillSwitchAssumption DEF Reserved
  <2>4. \A k \in 1..(n + 1) : call'[queue'[k]].op = "check" => Len(Recent) + k <= Reserved
    <3>1. ASSUME NEW k \in 1..(n + 1), call'[queue'[k]].op = "check" PROVE Len(Recent) + k <= Reserved
      <4>1. CASE k \in 1..n
        BY <1>2, <1>4, <1>6, <3>1, <4>1 DEF ReadingsOK, n
      <4>2. CASE k = n + 1
        <5>1. c.op = "check"
          BY <1>4, <1>7, <3>1, <4>2
        <5> QED BY <1>1, <1>3, <2>2, <2>3, <4>2, <5>1 DEF n
      <4> QED BY <1>3, <4>1, <4>2
    <3> QED BY <3>1
  <2> QED BY <1>2, <1>4, <2>1, <2>4 DEF ReadingsOK
<1>10. MarksOK'
  BY <1>1, <1>2 DEF MarksOK
<1> QED BY <1>8, <1>9, <1>10 DEF LockInv

(* The head of the queue gives the lock back.                              *)
LEMMA ReleaseKeepsLock ==
    ASSUME LockInv, SwitchTyped, queue # <<>>, NEW where \in {"idle", "passed"},
           Release(Head(queue), where), cb' = 0,
           history' \in Seq(Readings), Len(history') <= MaxReadings,
           \A i, j \in 1..Len(history') : i < j => history'[j].age <= history'[i].age,
           Len(Recent') <= Len(Recent) + IF cb = 0 THEN 1 ELSE 0
    PROVE  QueueOK' /\ ReadingsOK'
<1> DEFINE n == Len(queue)
           t == Head(queue)
<1>1. queue' = Tail(queue) /\ pc' = [pc EXCEPT ![t] = where] /\ call' = call
  BY DEF Release
<1>2. QueueOK /\ ReadingsOK
  BY DEF LockInv
<1>3. /\ n \in Nat /\ n >= 1 /\ t = queue[1] /\ t \in Callers
      /\ queue' \in Seq(Callers) /\ Len(queue') = n - 1
      /\ \A i \in 1..(n - 1) : queue'[i] = queue[i + 1]
      /\ \A i \in 1..n : queue[i] \in Callers
  BY <1>1, <1>2, QueueFacts
<1> HIDE DEF n, t
<1>4. ASSUME NEW i \in 1..(n - 1) PROVE i + 1 \in 1..n /\ queue'[i] = queue[i + 1] /\ queue[i + 1] # t
  <2>1. i + 1 \in 1..n /\ 1 \in 1..n /\ i + 1 # 1
    BY <1>3
  <2> QED BY <1>2, <1>3, <2>1 DEF QueueOK, n
<1>5. QueueOK'
  <2>1. ASSUME NEW i \in 1..(n - 1) PROVE pc'[queue'[i]] = "lock"
    <3>1. queue[i + 1] \in Callers /\ pc[queue[i + 1]] = "lock"
      BY <1>2, <1>3, <1>4 DEF QueueOK, n
    <3> QED BY <1>1, <1>4, <3>1 DEF SwitchTyped
  <2>2. ASSUME NEW i \in 1..(n - 1), NEW j \in 1..(n - 1), queue'[i] = queue'[j] PROVE i = j
    <3>1. i + 1 = j + 1
      BY <1>2, <1>4, <2>2 DEF QueueOK, n
    <3> QED BY <3>1
  <2> QED BY <1>3, <2>1, <2>2 DEF QueueOK
<1>6. ReadingsOK'
  <2>1. history \in Seq(Readings) /\ MaxReadings \in Nat
    BY <1>2, KillSwitchAssumption DEF ReadingsOK
  <2>2. Len(Recent) \in Nat /\ Len(Recent') \in Nat
    BY <2>1, RecentLength, RecentLengthNext DEF RecentIsSince
  <2>3. Reserved' = MaxReadings
    BY <2>1 DEF Reserved
  <2>4. ASSUME NEW k \in 1..(n - 1), call'[queue'[k]].op = "check" PROVE Len(Recent') + k <= MaxReadings
    <3>1. Len(Recent) + (k + 1) <= Reserved
      BY <1>1, <1>2, <1>4, <2>4 DEF ReadingsOK, n
    <3>2. CASE cb = 0
      BY <2>1, <2>2, <3>1, <3>2 DEF Reserved
    <3>3. CASE cb # 0
      BY <2>1, <2>2, <3>1, <3>3 DEF Reserved
    <3> QED BY <3>2, <3>3
  <2> QED BY <1>3, <2>3, <2>4 DEF ReadingsOK
<1> QED BY <1>5, <1>6

LEMMA RecordedFacts ==
    ASSUME LockInv, NEW e \in Equities, history' = Recorded(e), Len(Recent) + 1 <= MaxReadings
    PROVE  /\ history' \in Seq(Readings) /\ Len(history') <= MaxReadings
           /\ \A i, j \in 1..Len(history') : i < j => history'[j].age <= history'[i].age
           /\ Len(Recent') <= Len(Recent) + 1
<1> DEFINE n == Len(Recent)
           m == Min(Since)
           new == [age |-> 0, equity |-> e]
<1>1. history \in Seq(Readings) /\ Window \in Nat
  BY KillSwitchAssumption DEF LockInv, ReadingsOK
<1>2. /\ Recent \in Seq(Readings) /\ n = Len(history) + 1 - m /\ n \in Nat
      /\ \A i \in 1..n : Recent[i] = history[m + i - 1] /\ Recent[i] \in Readings
      /\ Len(history) \in Nat /\ m \in 1..(Len(history) + 1)
  <2>1. Recent \in Seq(Readings)
    BY <1>1, RecentFacts
  <2>2. n \in Nat /\ \A i \in 1..n : Recent[i] \in Readings
    BY <2>1, LenProperties, ElementOfSeq
  <2> QED BY <1>1, <2>1, <2>2, RecentFacts, SinceFacts
<1>3. new \in Readings
  BY <1>1 DEF Readings
<1>4. history' = Append(Recent, new)
  BY DEF Recorded
<1> HIDE DEF new, n, m
<1>5. /\ history' \in Seq(Readings) /\ Len(history') = n + 1
      /\ \A i \in 1..n : history'[i] = Recent[i]
      /\ history'[n + 1] = new
  BY <1>2, <1>3, <1>4, AppendProperties DEF n
<1>6. ASSUME NEW i \in 1..(n + 1), NEW j \in 1..(n + 1), i < j PROVE history'[j].age <= history'[i].age
  <2>1. i \in 1..n /\ history'[i] = Recent[i] /\ Recent[i] \in Readings
    <3>1. n \in Nat
      BY <1>2
    <3>2. i \in 1..n
      BY <1>6, <3>1
    <3> QED BY <1>2, <1>5, <3>2
  <2>2. CASE j = n + 1
    BY <1>5, <2>1, <2>2 DEF new, Readings
  <2>3. CASE j \in 1..n
    <3> DEFINE p == m + i - 1
               q == m + j - 1
    <3>1. p \in 1..Len(history) /\ q \in 1..Len(history) /\ p < q
      BY <1>2, <1>6, <2>1, <2>3
    <3>2. Recent[i] = history[p] /\ Recent[j] = history[q]
      BY <1>2, <2>1, <2>3
    <3> HIDE DEF p, q
    <3>3. history[q].age <= history[p].age
      BY <3>1 DEF LockInv, ReadingsOK
    <3>4. history'[j] = history[q] /\ history'[i] = history[p]
      BY <1>5, <2>1, <2>3, <3>2
    <3> QED BY <3>3, <3>4
  <2>4. n \in Nat
    BY <1>2
  <2>5. j = n + 1 \/ j \in 1..n
    BY <2>4
  <2> QED BY <2>2, <2>3, <2>5
<1>7. Len(Recent') <= n + 1
  BY <1>2, <1>5, RecentLengthNext
<1> QED BY <1>5, <1>6, <1>7 DEF n

(* Time only takes readings out of the window.                             *)
LEMMA TickKeepsLock ==
    ASSUME LockInv, Tick
    PROVE  LockInv'
<1> DEFINE n == Len(history)
<1>1. /\ history' = [k \in 1..n |-> [age |-> IF history[k].age > Window THEN history[k].age ELSE history[k].age + 1,
                                     equity |-> history[k].equity]]
      /\ UNCHANGED <<active, hwm, queue, pc, call, cb, ran, peak>>
  BY DEF Tick
<1>2. /\ history \in Seq(Readings) /\ n \in Nat /\ n <= MaxReadings /\ Window \in Nat
      /\ \A i \in 1..n : history[i] \in Readings
  <2>1. history \in Seq(Readings) /\ n <= MaxReadings
    BY DEF LockInv, ReadingsOK
  <2> QED BY <2>1, LenProperties, ElementOfSeq, KillSwitchAssumption
<1> HIDE DEF n
<1>3. ASSUME NEW k \in 1..n
      PROVE  /\ history[k].age \in 0..Window + 1 /\ history[k].equity \in Equities
             /\ history'[k].age = IF history[k].age > Window THEN history[k].age ELSE history[k].age + 1
             /\ history'[k] \in Readings
  <2>1. history[k].age \in 0..Window + 1 /\ history[k].equity \in Equities
    BY <1>2 DEF Readings
  <2>2. history'[k] = [age |-> IF history[k].age > Window THEN history[k].age ELSE history[k].age + 1,
                       equity |-> history[k].equity]
    BY <1>1
  <2> QED BY <1>2, <2>1, <2>2 DEF Readings
<1>4. history' \in Seq(Readings) /\ Len(history') = n
  <2>1. history' \in [1..n -> Readings]
    BY <1>1, <1>3
  <2> QED BY <1>2, <2>1
<1>5. ASSUME NEW i \in 1..n, NEW j \in 1..n, i < j PROVE history'[j].age <= history'[i].age
  <2>1. history[j].age <= history[i].age
    BY <1>5 DEF LockInv, ReadingsOK, n
  <2>2. /\ history[i].age \in Int /\ history[j].age \in Int /\ Window \in Int
        /\ history'[i].age = IF history[i].age > Window THEN history[i].age ELSE history[i].age + 1
        /\ history'[j].age = IF history[j].age > Window THEN history[j].age ELSE history[j].age + 1
    BY <1>2, <1>3
  <2> QED BY <2>1, <2>2
<1>6. Len(Recent') <= Len(Recent)
  <2>1. Since' \subseteq Since
    <3>1. ASSUME NEW k \in Since' PROVE k \in Since
      <4>1. k \in 1..(n + 1) /\ \A j \in k..n : history'[j].age <= Window
        BY <1>4, <3>1 DEF Since
      <4>2. \A j \in k..n : history[j].age <= Window
        BY <1>2, <1>3, <4>1
      <4> QED BY <4>1, <4>2 DEF Since, n
    <3> QED BY <3>1
  <2>2. Min(Since') \in Since
    BY <1>4, <2>1, RecentLengthNext
  <2>3. Min(Since) <= Min(Since')
    BY <1>2, <2>2, SinceFacts
  <2>4. /\ Len(Recent') = n + 1 - Min(Since') /\ Min(Since') \in 1..(n + 1)
        /\ Len(Recent) = n + 1 - Min(Since) /\ Min(Since) \in 1..(n + 1)
    BY <1>2, <1>4, RecentLength, RecentLengthNext DEF RecentIsSince, n
  <2> QED BY <1>2, <2>3, <2>4
<1>7. QueueOK' /\ MarksOK'
  BY <1>1 DEF LockInv, QueueOK, MarksOK
<1>8. ReadingsOK'
  <2>1. Len(Recent) \in Nat /\ Len(Recent') \in Nat /\ Reserved' = Reserved /\ Reserved \in Nat
    <3>1. Len(Recent) \in Nat /\ Len(Recent') \in Nat
      BY <1>2, <1>4, RecentLength, RecentLengthNext DEF RecentIsSince
    <3> QED BY <1>1, <3>1, KillSwitchAssumption DEF Reserved
  <2>2. Len(queue) \in Nat
    BY QueueFacts DEF LockInv
  <2>3. ASSUME NEW k \in 1..Len(queue), call[queue[k]].op = "check" PROVE Len(Recent') + k <= Reserved
    <3>1. Len(Recent) + k <= Reserved
      BY <2>3 DEF LockInv, ReadingsOK
    <3> QED BY <1>6, <2>1, <2>2, <3>1
  <2> QED BY <1>1, <1>2, <1>4, <1>5, <2>1, <2>3 DEF ReadingsOK
<1> QED BY <1>7, <1>8 DEF LockInv

(* A task that is not in the queue may move on.                            *)
LEMMA ProceedKeepsLock ==
    ASSUME LockInv, SwitchTyped, NEW t \in Callers, Proceed(t)
    PROVE  LockInv'
<1>1. pc[t] = "passed" /\ pc' = [pc EXCEPT ![t] = "idle"] /\ UNCHANGED <<hwm, history, queue, call, cb, ran, peak>>
  BY DEF Proceed
<1>2. \A i \in 1..Len(queue) : queue[i] # t /\ queue[i] \in Callers
  BY <1>1, QueueFacts DEF LockInv, QueueOK
<1>3. \A i \in 1..Len(queue) : pc'[queue[i]] = "lock"
  BY <1>1, <1>2 DEF LockInv, QueueOK, SwitchTyped
<1>4. QueueOK' /\ MarksOK'
  BY <1>1, <1>3 DEF LockInv, QueueOK, MarksOK
<1>5. ReadingsOK'
  <2>1. Recent' = Recent /\ Reserved' = Reserved
    BY <1>1, SameRecent DEF Reserved
  <2> QED BY <1>1, <2>1 DEF LockInv, ReadingsOK
<1> QED BY <1>4, <1>5 DEF LockInv

(* A call that leaves the readings alone and gives the lock back.          *)
LEMMA LeaveKeepsLock ==
    ASSUME LockInv, SwitchTyped, queue # <<>>, NEW where \in {"idle", "passed"},
           Release(Head(queue), where), cb' = 0, UNCHANGED history
    PROVE  QueueOK' /\ ReadingsOK'
<1>1. Recent' = Recent
  BY SameRecent
<1>2. history \in Seq(Readings) /\ Len(Recent) \in Nat
  BY RecentLength DEF RecentIsSince, LockInv, ReadingsOK
<1>3. Len(Recent') <= Len(Recent) + IF cb = 0 THEN 1 ELSE 0
  BY <1>1, <1>2
<1> QED BY <1>3, ReleaseKeepsLock DEF LockInv, ReadingsOK

LEMMA CheckReads ==
    ASSUME LockInv, SwitchTyped, NEW t \in Callers, Holds(t, "check")
    PROVE  /\ queue # <<>> /\ t = Head(queue) /\ cb = 0
           /\ call[t].equity \in Equities
           /\ Len(Recent) + 1 <= MaxReadings
<1>1. /\ queue # <<>> /\ t = Head(queue) /\ cb = 0 /\ call[t].op = "check"
  BY DEF Holds
<1>2. call[t].equity \in Equities
  <2>1. call[t] \in Calls
    BY DEF SwitchTyped
  <2>2. call[t] \in [op : {"check"}, equity : Equities]
    BY <1>1, <2>1 DEF Calls
  <2> QED BY <2>2
<1>3. 1 \in 1..Len(queue) /\ queue[1] = t
  BY <1>1, QueueFacts DEF LockInv
<1>4. Len(Recent) + 1 <= Reserved /\ Reserved = MaxReadings
  BY <1>1, <1>3, KillSwitchAssumption DEF LockInv, ReadingsOK, Reserved
<1> QED BY <1>1, <1>2, <1>4

(* The call that trips the switch keeps the lock, whether or not it has    *)
(* recorded its reading.                                                   *)
LEMMA TripKeepsLock ==
    ASSUME LockInv, SwitchTyped, queue # <<>>, cb = 0, cb' = 1, UNCHANGED <<queue, pc, call>>,
           history' \in Seq(Readings), Len(history') <= MaxReadings,
           \A i, j \in 1..Len(history') : i < j => history'[j].age <= history'[i].age,
           Len(Recent') <= Len(Recent) + 1
    PROVE  QueueOK' /\ ReadingsOK'
<1>1. QueueOK'
  BY DEF LockInv, QueueOK
<1>2. history \in Seq(Readings) /\ MaxReadings \in Nat
  BY KillSwitchAssumption DEF LockInv, ReadingsOK
<1>3. Len(Recent) \in Nat /\ Len(Recent') \in Nat
  BY <1>2, RecentLength, RecentLengthNext DEF RecentIsSince
<1>4. Reserved = MaxReadings /\ Reserved' = MaxReadings + 1
  BY <1>2 DEF Reserved
<1>5. ASSUME NEW k \in 1..Len(queue), call[queue[k]].op = "check" PROVE Len(Recent') + k <= MaxReadings + 1
  <2>1. Len(Recent) + k <= MaxReadings /\ Len(queue) \in Nat
    BY <1>4, <1>5, QueueFacts DEF LockInv, ReadingsOK
  <2> QED BY <1>2, <1>3, <2>1
<1> QED BY <1>1, <1>4, <1>5 DEF ReadingsOK

LEMMA SwitchStepKeepsLock ==
    ASSUME LockInv, SwitchInv, SwitchStep
    PROVE  LockInv'
<1>0. SwitchTyped /\ CallsCounted /\ QueueOK /\ ReadingsOK /\ MarksOK
  BY DEF SwitchInv, LockInv
<1>1. ASSUME NEW t \in Callers, CheckRefused(t) PROVE LockInv'
  <2>1. /\ queue # <<>> /\ t = Head(queue) /\ cb' = 0 /\ Release(t, "idle")
        /\ UNCHANGED <<history, hwm, ran, peak>>
    BY <1>1 DEF CheckRefused, Holds
  <2>2. QueueOK' /\ ReadingsOK'
    BY <1>0, <2>1, LeaveKeepsLock
  <2> QED BY <1>0, <2>1, <2>2 DEF LockInv, MarksOK
<1>2. ASSUME NEW t \in Callers, CheckTrips(t) PROVE LockInv'
  <2> DEFINE e == call[t].equity
             slow == BelowFloor(e) \/ DrawnDown(e)
  <2>1. /\ Holds(t, "check") /\ ~active /\ hwm' = Mark(e)
        /\ history' = IF slow THEN history ELSE Recorded(e)
        /\ Trip /\ UNCHANGED <<queue, pc, call, peak>>
    BY <1>2 DEF CheckTrips
  <2>2. queue # <<>> /\ cb = 0 /\ e \in Equities /\ Len(Recent) + 1 <= MaxReadings
    BY <1>0, <2>1, CheckReads
  <2>3. cb' = 1 /\ ran' \in Nat
    BY <1>0, <2>1 DEF Trip, MarksOK
  <2>4. MarksOK'
    BY <1>0, <2>1, <2>2, <2>3 DEF MarksOK, Mark, Larger
  <2> HIDE DEF slow, e
  <2>5. CASE slow
    <3>1. history' = history /\ Recent' = Recent
      BY <2>1, <2>5, SameRecent
    <3>2. Len(Recent) \in Nat
      BY <1>0, RecentLength DEF RecentIsSince, ReadingsOK
    <3>3. QueueOK' /\ ReadingsOK'
      BY <1>0, <2>1, <2>2, <2>3, <3>1, <3>2, TripKeepsLock DEF ReadingsOK
    <3> QED BY <2>4, <3>3 DEF LockInv
  <2>6. CASE ~slow
    <3>1. history' = Recorded(e)
      BY <2>1, <2>6
    <3>2. /\ history' \in Seq(Readings) /\ Len(history') <= MaxReadings
          /\ \A i, j \in 1..Len(history') : i < j => history'[j].age <= history'[i].age
          /\ Len(Recent') <= Len(Recent) + 1
      BY <2>2, <3>1, RecordedFacts
    <3>3. QueueOK' /\ ReadingsOK'
      BY <1>0, <2>1, <2>2, <2>3, <3>2, TripKeepsLock
    <3> QED BY <2>4, <3>3 DEF LockInv
  <2> QED BY <2>5, <2>6
<1>3. ASSUME NEW t \in Callers, CheckPasses(t) PROVE LockInv'
  <2> DEFINE e == call[t].equity
  <2>1. /\ Holds(t, "check") /\ hwm' = Mark(e) /\ history' = Recorded(e)
        /\ peak' = Larger(peak, e) /\ Release(t, "passed") /\ UNCHANGED <<active, cb, ran>>
    BY <1>3 DEF CheckPasses
  <2>2. queue # <<>> /\ t = Head(queue) /\ cb = 0 /\ e \in Equities /\ Len(Recent) + 1 <= MaxReadings
    BY <1>0, <2>1, CheckReads
  <2>3. MarksOK'
    BY <1>0, <2>1, <2>2 DEF MarksOK, Mark, Larger
  <2>4. /\ history' \in Seq(Readings) /\ Len(history') <= MaxReadings
        /\ \A i, j \in 1..Len(history') : i < j => history'[j].age <= history'[i].age
        /\ Len(Recent') <= Len(Recent) + 1
    BY <2>1, <2>2, RecordedFacts
  <2>5. Len(Recent') <= Len(Recent) + IF cb = 0 THEN 1 ELSE 0
    BY <2>2, <2>4
  <2>6. QueueOK' /\ ReadingsOK'
    BY <1>0, <2>1, <2>2, <2>4, <2>5, ReleaseKeepsLock
  <2> QED BY <2>3, <2>6 DEF LockInv
<1>4. ASSUME NEW t \in Callers, Activate(t) PROVE LockInv'
  <2>1. queue # <<>> /\ t = Head(queue) /\ cb = 0 /\ UNCHANGED <<hwm, history, peak>>
    BY <1>4 DEF Activate, Holds
  <2>2. CASE active
    <3>1. Release(t, "idle") /\ UNCHANGED <<active, cb, ran>>
      BY <1>4, <2>2 DEF Activate
    <3>2. QueueOK' /\ ReadingsOK'
      BY <1>0, <2>1, <3>1, LeaveKeepsLock
    <3> QED BY <1>0, <2>1, <3>1, <3>2 DEF LockInv, MarksOK
  <2>3. CASE ~active
    <3>1. Trip /\ UNCHANGED <<queue, pc, call>>
      BY <1>4, <2>3 DEF Activate
    <3>2. Recent' = Recent /\ Len(Recent) \in Nat /\ cb' = 1 /\ ran' \in Nat
      BY <1>0, <2>1, <3>1, SameRecent, RecentLength DEF RecentIsSince, ReadingsOK, MarksOK, Trip
    <3>3. QueueOK' /\ ReadingsOK'
      BY <1>0, <2>1, <3>1, <3>2, TripKeepsLock DEF ReadingsOK
    <3> QED BY <1>0, <2>1, <3>2, <3>3 DEF LockInv, MarksOK
  <2> QED BY <1>0, <2>2, <2>3 DEF SwitchTyped
<1>5. CASE CallbackEnds
  <2>1. /\ cb \in 1..Callbacks /\ cb' = cb + 1
        /\ ran' = IF cb < Callbacks THEN ran + 1 ELSE ran
        /\ UNCHANGED <<hwm, history, queue, pc, call, peak>>
    BY <1>5 DEF CallbackEnds
  <2>2. cb # 0 /\ cb' # 0
    BY <2>1, KillSwitchAssumption
  <2>3. Recent' = Recent /\ Reserved' = Reserved
    BY <2>1, <2>2, SameRecent DEF Reserved
  <2>4. QueueOK' /\ ReadingsOK'
    BY <1>0, <2>1, <2>2, <2>3 DEF QueueOK, ReadingsOK
  <2> QED BY <1>0, <2>1, <2>4 DEF LockInv, MarksOK
<1>6. CASE Tripped
  <2>1. cb # 0 /\ cb' = 0 /\ Release(Head(queue), "idle") /\ UNCHANGED <<hwm, history, ran, peak>>
    BY <1>6, KillSwitchAssumption DEF Tripped
  <2>2. queue # <<>>
    BY <1>0, <2>1 DEF QueueOK
  <2>3. QueueOK' /\ ReadingsOK'
    BY <1>0, <2>1, <2>2, LeaveKeepsLock
  <2> QED BY <1>0, <2>1, <2>3 DEF LockInv, MarksOK
<1>7. CASE Tick
  BY <1>7, TickKeepsLock
<1> QED BY <1>1, <1>2, <1>3, <1>4, <1>5, <1>6, <1>7 DEF SwitchStep, GateOne

LEMMA LockKeeps == SwitchInv /\ LockInv /\ [ControlNext]_allVars => LockInv'
<1> SUFFICES ASSUME SwitchInv, LockInv, [ControlNext]_allVars PROVE LockInv'
  OBVIOUS
<1>0. SwitchTyped
  BY DEF SwitchInv
<1>1. ASSUME NEW t \in Callers, NEW e \in Equities, Assess(t, e) PROVE LockInv'
  <2>1. [op |-> "check", equity |-> e] \in [op : {"check"}, equity : Equities]
    OBVIOUS
  <2>2. [op |-> "check", equity |-> e] \in Calls
    BY <2>1, Zenon DEF Calls
  <2> QED BY <1>0, <1>1, <2>2, EnterKeepsLock DEF Assess
<1>2. ASSUME NEW t \in Callers, AdminKill(t) \/ CallReset(t) PROVE LockInv'
  <2>1. PICK c \in {[op |-> "activate", equity |-> 0], [op |-> "reset", equity |-> 0]} : Enter(t, c)
    BY <1>2 DEF AdminKill, CallReset
  <2>2. c \in [op : {"activate", "reset"}, equity : {0}]
    BY <2>1
  <2>3. c \in Calls
    BY <2>2, Zenon DEF Calls
  <2> QED BY <1>0, <2>1, <2>3, EnterKeepsLock
<1>3. ASSUME NEW t \in Callers, Proceed(t) PROVE LockInv'
  BY <1>0, <1>3, ProceedKeepsLock
<1>4. ASSUME NEW t \in Callers, ResetSwitch(t) PROVE LockInv'
  <2>1. /\ queue # <<>> /\ t = Head(queue) /\ cb' = 0 /\ Release(t, "idle")
        /\ UNCHANGED <<history, hwm, peak>> /\ ran' = 0
    BY <1>4 DEF ResetSwitch, Reset, Holds
  <2>2. QueueOK' /\ ReadingsOK'
    BY <1>0, <2>1, LeaveKeepsLock
  <2> QED BY <2>1, <2>2 DEF LockInv, MarksOK
<1>5. CASE SwitchStep
  BY <1>5, SwitchStepKeepsLock
<1>6. CASE UNCHANGED vars
  <2>1. UNCHANGED <<hwm, history, queue, pc, call, cb, ran, peak>>
    BY <1>6 DEF vars
  <2>2. Recent' = Recent /\ Reserved' = Reserved
    BY <2>1, SameRecent DEF Reserved
  <2> QED BY <2>1, <2>2 DEF LockInv, QueueOK, ReadingsOK, MarksOK
<1>7. CASE TelegramStop \/ ApiHalt \/ ApiResume \/ Resume \/ UNCHANGED allVars
  BY <1>6, <1>7 DEF TelegramStop, ApiHalt, ApiResume, Resume, allVars
<1> QED BY <1>1, <1>2, <1>3, <1>4, <1>5, <1>7 DEF ControlNext, Approve, Reject

(* Each activation calls every callback once and none is called without    *)
(* one; the lock's queue, the marks and the readings are as typed, and     *)
(* within the bound that the checks in the queue reserve.                  *)
THEOREM EachCallbackOnce == ControlSpec => []CallbacksOnce
<1>1. SwitchInv /\ LockInv => CallbacksOnce
  <2> SUFFICES ASSUME SwitchInv, LockInv PROVE CallbacksOnce
    OBVIOUS
  <2>1. TypeOK
    BY DEF TypeOK, SwitchInv, SwitchTyped, LockInv, QueueOK, ReadingsOK, Readings, MarksOK
  <2>2. ran = IF ~active THEN 0 ELSE IF cb = 0 THEN Callbacks ELSE IF cb > Callbacks THEN Callbacks ELSE cb
    BY DEF SwitchInv, SwitchTyped, CallsCounted
  <2> QED BY <2>1, <2>2 DEF CallbacksOnce
<1>2. ControlSpec => []LockInv
  BY LockStarts, LockKeeps, ControlInvariant, PTL DEF ControlSpec
<1> QED BY <1>1, <1>2, ControlInvariant, PTL
=============================================================================
