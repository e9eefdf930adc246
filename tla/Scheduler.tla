----------------------------- MODULE Scheduler ------------------------------
(***************************************************************************)
(* backend/services/scheduler.py.  start() has no await and is one step;   *)
(* stop() runs up to the first task it has to wait for, and on from there  *)
(* when that task has ended.  Every job is registered before the first     *)
(* start() and enabled.  A job awaits, may raise, and does not swallow its *)
(* cancellation.                                                           *)
(***************************************************************************)
EXTENDS Integers, FiniteSets

CONSTANTS Jobs,         \* names in _registry
          Tasks,        \* asyncio tasks; one that has ended may be used again
          Stoppers,     \* callers of stop()
          None

ASSUME SchedulerAssumption == None \notin Jobs \cup Tasks

VARIABLES
    running,    \* _running
    handle,     \* _tasks
    job,        \* the job each task was created for
    at,         \* where it is in _run_task(): "new", "sleep", "job" or "done"
    cancelled,  \* tasks cancel() was called on
    todo,       \* for each stop(): the tasks it has yet to see
    awaited,    \* and the one it waits for
    overlapped  \* a start() has run in the middle of a stop()

schedulerVars == <<running, handle, job, at, cancelled, todo, awaited, overlapped>>

SchedulerTypeOK ==
    /\ running \in BOOLEAN
    /\ handle \in [Jobs -> Tasks \cup {None}]
    /\ job \in [Tasks -> Jobs \cup {None}]
    /\ at \in [Tasks -> {"new", "sleep", "job", "done"}]
    /\ cancelled \subseteq Tasks
    /\ \A i \in Tasks : job[i] = None => at[i] = "done"
    /\ todo \in [Stoppers -> SUBSET Tasks]
    /\ awaited \in [Stoppers -> Tasks \cup {None}]
    /\ \A s \in Stoppers : awaited[s] = None => todo[s] = {}
    /\ overlapped \in BOOLEAN

SchedulerInit ==
    /\ running = FALSE
    /\ handle = [j \in Jobs |-> None]
    /\ job = [i \in Tasks |-> None]
    /\ at = [i \in Tasks |-> "done"]
    /\ cancelled = {}
    /\ todo = [s \in Stoppers |-> {}]
    /\ awaited = [s \in Stoppers |-> None]
    /\ overlapped = FALSE

Handled == {handle[j] : j \in Jobs} \ {None}

(* Tasks nobody refers to any more.                                        *)
Free == {i \in Tasks : /\ at[i] = "done"
                       /\ i \notin Handled
                       /\ \A s \in Stoppers : i \notin todo[s] \cup {awaited[s]}}

Live(j) == {i \in Tasks : job[i] = j /\ at[i] # "done"}
-----------------------------------------------------------------------------
(* start(): one new task for every job.                                    *)

\* start() does not look at _running
MutMayStart == TRUE

MayStart == ~running

Start == \E new \in [Jobs -> Free] :
    /\ MayStart
    /\ \A j, k \in Jobs : new[j] = new[k] => j = k
    /\ running' = TRUE
    /\ handle' = new
    /\ job' = [i \in Tasks |-> IF \E j \in Jobs : new[j] = i
                               THEN CHOOSE j \in Jobs : new[j] = i ELSE job[i]]
    /\ at' = [i \in Tasks |-> IF \E j \in Jobs : new[j] = i THEN "new" ELSE at[i]]
    /\ cancelled' = cancelled \ {new[j] : j \in Jobs}
    /\ overlapped' = (overlapped \/ \E s \in Stoppers : awaited[s] # None)
    /\ UNCHANGED <<todo, awaited>>
-----------------------------------------------------------------------------
(* stop(): the tasks it found in _tasks when it began are cancelled and    *)
(* awaited one by one; then _tasks is cleared.                             *)

\* stop() waits for a task it did not cancel
MutCancel(i) == cancelled' = cancelled

Cancel(i) == cancelled' = cancelled \cup {i}

GoOn(s, rest) ==
    LET pending == {i \in rest : at[i] # "done"}
    IN  IF pending = {}
        THEN /\ todo' = [todo EXCEPT ![s] = {}]
             /\ awaited' = [awaited EXCEPT ![s] = None]
             /\ handle' = [j \in Jobs |-> None]
             /\ UNCHANGED cancelled
        ELSE \E i \in pending :
             /\ todo' = [todo EXCEPT ![s] = rest \ {i}]
             /\ awaited' = [awaited EXCEPT ![s] = i]
             /\ Cancel(i)
             /\ UNCHANGED handle

Stop(s) == /\ awaited[s] = None
           /\ running' = FALSE
           /\ GoOn(s, Handled)
           /\ UNCHANGED <<job, at, overlapped>>

StopGoesOn(s) == /\ awaited[s] # None
                 /\ at[awaited[s]] = "done"
                 /\ GoOn(s, todo[s])
                 /\ UNCHANGED <<running, job, at, overlapped>>
-----------------------------------------------------------------------------
(* _run_task()                                                             *)

Step(i, from, to) == /\ at[i] = from
                     /\ i \notin cancelled
                     /\ at' = [at EXCEPT ![i] = to]
                     /\ UNCHANGED <<running, handle, job, cancelled, todo, awaited, overlapped>>

Loop(i, from) == Step(i, from, IF running THEN "sleep" ELSE "done")

WakeUp(i) == Step(i, "sleep", IF running THEN "job" ELSE "done")

(* Whatever a task is waiting for ends with CancelledError.                *)
Cancelled(i) == /\ i \in cancelled
                /\ at[i] # "done"
                /\ at' = [at EXCEPT ![i] = "done"]
                /\ UNCHANGED <<running, handle, job, cancelled, todo, awaited, overlapped>>

TaskStep(i) == Loop(i, "new") \/ WakeUp(i) \/ Loop(i, "job") \/ Cancelled(i)

SchedulerNext ==
    \/ Start
    \/ \E s \in Stoppers : Stop(s) \/ StopGoesOn(s)
    \/ \E i \in Tasks : TaskStep(i)

SchedulerSpec == SchedulerInit /\ [][SchedulerNext]_schedulerVars

(* Sleeps and jobs end; the event loop runs what is ready.                 *)
SchedulerFairness ==
    /\ \A i \in Tasks : WF_schedulerVars(TaskStep(i))
    /\ \A s \in Stoppers : WF_schedulerVars(StopGoesOn(s))

FairSchedulerSpec == SchedulerSpec /\ SchedulerFairness
-----------------------------------------------------------------------------
(* As long as no start() ran in the middle of a stop(), a job has at most  *)
(* one live loop, and it is the one stop() would cancel.                   *)
LoopsAreHandled ==
    /\ SchedulerTypeOK
    /\ ~overlapped => \A j \in Jobs, i \in Tasks :
        i \in Live(j) => /\ Live(j) = {i}
                         /\ handle[j] = i

(* A stop() that waits always comes back, also when others stop and start  *)
(* meanwhile.                                                              *)
StopReturns == \A s \in Stoppers : awaited[s] # None ~> awaited[s] = None
=============================================================================
