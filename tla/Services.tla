------------------------------ MODULE Services ------------------------------
(***************************************************************************)
(* The services of the process that share no state: each behaviour         *)
(* exercises one of them, part, while the others rest in their initial     *)
(* states, so what is checked is each service beside all of its own        *)
(* callers and nothing is lost by not interleaving it with a stranger.     *)
(***************************************************************************)
EXTENDS CircuitBreaker, Scheduler, PositionReconciliation, TwoLevelCache, TradeRecords,
        SignalApproval, ReplaySession

VARIABLE part

servicesVars == <<part, breakerVars, schedulerVars, reconVars, cacheVars, tradeVars, approvalVars,
                  replayVars>>

Parts == {"breaker", "scheduler", "reconciler", "cache", "trades", "approval", "replay"}

(* A loss and a gain, for Profits.                                         *)
LossAndGain == {-10, 20}

ServicesInit == /\ part \in Parts
                /\ BreakerInit /\ SchedulerInit /\ ReconInit /\ CacheInit
                /\ TradeInit /\ ApprovalInit /\ ReplayInit

(* p's turn: nothing else moves.                                           *)
Turn(p) == /\ part = p
           /\ UNCHANGED part
           /\ IF p = "breaker" THEN TRUE ELSE UNCHANGED breakerVars
           /\ IF p = "scheduler" THEN TRUE ELSE UNCHANGED schedulerVars
           /\ IF p = "reconciler" THEN TRUE ELSE UNCHANGED reconVars
           /\ IF p = "cache" THEN TRUE ELSE UNCHANGED cacheVars
           /\ IF p = "trades" THEN TRUE ELSE UNCHANGED tradeVars
           /\ IF p = "approval" THEN TRUE ELSE UNCHANGED approvalVars
           /\ IF p = "replay" THEN TRUE ELSE UNCHANGED replayVars

ServicesNext == \/ Turn("breaker") /\ BreakerNext
                \/ Turn("scheduler") /\ SchedulerNext
                \/ Turn("reconciler") /\ ReconNext
                \/ Turn("cache") /\ CacheNext
                \/ Turn("trades") /\ TradeNext
                \/ Turn("approval") /\ ApprovalNext
                \/ Turn("replay") /\ ReplayNext

(* Breaker and scheduler have the fairness of their modules; the reconciler *)
(* loop goes on, Redis answers or fails, and cached entries age.           *)
ServicesFairness ==
    /\ WF_servicesVars(Turn("breaker") /\ Tick)
    /\ \A c \in Callers : /\ WF_servicesVars(Turn("breaker") /\ Leave(c))
                          /\ WF_servicesVars(Turn("breaker") /\ Enter(c))
    /\ \A i \in Tasks : WF_servicesVars(Turn("scheduler") /\ TaskStep(i))
    /\ \A s \in Stoppers : WF_servicesVars(Turn("scheduler") /\ StopGoesOn(s))
    /\ WF_servicesVars(Turn("reconciler") /\ ReconcilerStep)
    /\ WF_servicesVars(Turn("cache") /\ CacheTick)
    /\ \A u \in Users : WF_servicesVars(Turn("cache") /\ Answer(u))

ServicesSpec == ServicesInit /\ [][ServicesNext]_servicesVars /\ ServicesFairness
=============================================================================
