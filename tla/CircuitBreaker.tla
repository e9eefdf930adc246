--------------------------- MODULE CircuitBreaker ---------------------------
(***************************************************************************)
(* backend/circuit_breaker.py: callers use the breaker as an async context *)
(* manager.  can_execute(), record_success() and record_failure() each     *)
(* hold its lock for their whole body and are one step; the guarded call   *)
(* runs between __aenter__ and __aexit__, while the breaker may move on.   *)
(* Time is a count of ticks.                                               *)
(***************************************************************************)
EXTENDS Integers, FiniteSets, Functions

CONSTANTS Callers,
          FailureThreshold,     \* failure_threshold
          Window,               \* failure_window_s, in ticks
          Recovery,             \* recovery_timeout_s, in ticks
          SuccessThreshold,     \* success_threshold
          HalfOpenMax           \* half_open_max_calls

ASSUME BreakerAssumption ==
    /\ {FailureThreshold, Window, Recovery, SuccessThreshold} \subseteq Nat \ {0}
    /\ HalfOpenMax \in Nat
    /\ SuccessThreshold <= HalfOpenMax + 1

VARIABLES
    state,          \* _stats.state
    failures,       \* failures[a]: failure_times of age a, those in the window
    successes,      \* _stats.successes
    halfOpenCalls,  \* _stats.half_open_calls
    openFor,        \* ticks since opened_at, Recovery and more counted as one
    inside,         \* callers whose guarded call is running
    probes,         \* calls admitted since the breaker last left CLOSED and OPEN
    setback         \* a failure was recorded since then

statsVars == <<state, failures, successes, halfOpenCalls, openFor>>
probeVars == <<probes, setback>>
breakerVars == <<statsVars, inside, probeVars>>

BreakerTypeOK ==
    /\ state \in {"CLOSED", "OPEN", "HALF_OPEN"}
    /\ failures \in [0..(Window - 1) -> Nat]
    /\ successes \in Nat
    /\ halfOpenCalls \in 0..HalfOpenMax
    /\ openFor \in 0..Recovery
    /\ inside \subseteq Callers
    /\ probes \in Nat
    /\ setback \in BOOLEAN

NoFailures == [a \in 0..(Window - 1) |-> 0]

BreakerInit ==
    /\ state = "CLOSED"
    /\ failures = NoFailures
    /\ successes = 0
    /\ halfOpenCalls = 0
    /\ openFor = 0
    /\ inside = {}
    /\ probes = 0
    /\ setback = FALSE
-----------------------------------------------------------------------------
(* _transition(): every change of state starts the counters afresh.        *)
Transition(new) ==
    /\ state' = new
    /\ successes' = 0
    /\ halfOpenCalls' = 0
    /\ openFor' = IF new = "OPEN" THEN 0 ELSE openFor

Admit(c) == /\ c \notin inside
            /\ inside' = inside \cup {c}

EnterClosed(c) ==
    /\ state = "CLOSED"
    /\ Admit(c)
    /\ UNCHANGED <<statsVars, probeVars>>

(* The call that finds the recovery timeout over is admitted by OPEN: it   *)
(* is a probe that half_open_calls does not count.                         *)
EnterOpen(c) ==
    /\ state = "OPEN"
    /\ openFor = Recovery
    /\ Admit(c)
    /\ Transition("HALF_OPEN")
    /\ probes' = 1
    /\ setback' = FALSE
    /\ UNCHANGED failures

EnterHalfOpen(c) ==
    /\ state = "HALF_OPEN"
    /\ halfOpenCalls < HalfOpenMax
    /\ halfOpenCalls' = halfOpenCalls + 1
    /\ Admit(c)
    /\ probes' = probes + 1
    /\ UNCHANGED <<state, failures, successes, openFor, setback>>

Recovered == successes + 1 >= SuccessThreshold

\* a success gives the place of the probe back
MutSucceed(c) ==
    /\ c \in inside
    /\ inside' = inside \ {c}
    /\ halfOpenCalls' = IF halfOpenCalls > 0 THEN halfOpenCalls - 1 ELSE 0
    /\ UNCHANGED <<state, failures, successes, openFor, probeVars>>

(* __aexit__ without an exception.  HALF_OPEN counts a success whichever   *)
(* state admitted the call; the count of the other states is never read    *)
(* before a change of state resets it.                                     *)
Succeed(c) ==
    /\ c \in inside
    /\ inside' = inside \ {c}
    /\ failures' = IF state = "CLOSED" THEN NoFailures ELSE failures
    /\ IF state = "HALF_OPEN" /\ Recovered
       THEN Transition("CLOSED")
       ELSE /\ successes' = IF state = "HALF_OPEN" THEN successes + 1 ELSE successes
            /\ UNCHANGED <<state, halfOpenCalls, openFor>>
    /\ UNCHANGED <<probes, setback>>

Total(f) == FoldFunction(LAMBDA x, y : x + y, 0, f)

(* __aexit__ with an exception, a cancellation included.                   *)
Fail(c) ==
    /\ c \in inside
    /\ inside' = inside \ {c}
    /\ failures' = [failures EXCEPT ![0] = @ + 1]
    /\ setback' = TRUE
    /\ IF state # "OPEN" /\ Total(failures) + 1 >= FailureThreshold
       THEN Transition("OPEN")
       ELSE /\ successes' = 0
            /\ UNCHANGED <<state, halfOpenCalls, openFor>>
    /\ UNCHANGED probes

\* the recovery timeout is measured in the wrong state
MutTick ==
    /\ failures' = [a \in 0..(Window - 1) |-> IF a = 0 THEN 0 ELSE failures[a - 1]]
    /\ openFor' = IF state = "HALF_OPEN" /\ openFor < Recovery THEN openFor + 1 ELSE openFor
    /\ UNCHANGED <<state, successes, halfOpenCalls, inside, probeVars>>

\* the monotonic clock advances
Tick ==
    /\ failures' = [a \in 0..(Window - 1) |-> IF a = 0 THEN 0 ELSE failures[a - 1]]
    /\ openFor' = IF state = "OPEN" /\ openFor < Recovery THEN openFor + 1 ELSE openFor
    /\ UNCHANGED <<state, successes, halfOpenCalls, inside, probeVars>>

Enter(c) == EnterClosed(c) \/ EnterOpen(c) \/ EnterHalfOpen(c)
Leave(c) == Succeed(c) \/ Fail(c)

BreakerNext == \/ \E c \in Callers : Enter(c) \/ Leave(c)
               \/ Tick

BreakerSpec == BreakerInit /\ [][BreakerNext]_breakerVars

(* Time passes, guarded calls end, and callers keep coming.                *)
BreakerFairness ==
    /\ WF_breakerVars(Tick)
    /\ \A c \in Callers : WF_breakerVars(Leave(c)) /\ WF_breakerVars(Enter(c))

FairBreakerSpec == BreakerSpec /\ BreakerFairness
-----------------------------------------------------------------------------
(* A HALF_OPEN breaker lets through no more calls than half_open_max_calls *)
(* and the one that made it half-open (_check_state, lines 181-189).       *)
ProbesBounded == state = "HALF_OPEN" => probes <= HalfOpenMax + 1

(* When a HALF_OPEN breaker has used up its probes and all have returned,  *)
(* nothing will ever move it again; that takes a failure that was not      *)
(* enough to open it.  Successes alone never end there.                    *)
LockoutNeedsSetback ==
    /\ state = "HALF_OPEN"
    /\ halfOpenCalls = HalfOpenMax
    /\ inside = {}
    => setback

(* The three together, as they are checked.                                *)
BreakerBounded == BreakerTypeOK /\ ProbesBounded /\ LockoutNeedsSetback

(* An open breaker does not stay open: after the recovery timeout the next *)
(* caller tests it, however often it fails.                                *)
OpenIsProbed == state = "OPEN" ~> state = "HALF_OPEN"
=============================================================================
