-------------------------- MODULE FailureRecovery --------------------------
(***************************************************************************)
(* backend/execution/failure_recovery.py: failed orders wait in a bounded  *)
(* queue, a background task tries each again after a backoff, and the ones *)
(* that cannot be retried end in a bounded dead-letter deque.  Nothing     *)
(* keeps start() from being called while an earlier task still runs, so    *)
(* any of several loops may hold an order.                                 *)
(***************************************************************************)
EXTENDS Integers, Sequences, SequencesExt

CONSTANTS Orders,       \* failure reports, one FailedOrder object each
          Loops,        \* bound: background tasks start() ever creates, 1..n
          MaxRetries,   \* max_retries
          QueueSize,    \* _RETRY_QUEUE_MAXSIZE
          DeadSize,     \* _MAX_DEAD_LETTER
          None

ASSUME RecoveryAssumption ==
    /\ MaxRetries \in Nat
    /\ QueueSize \in Nat \ {0}
    /\ DeadSize \in Nat \ {0}
    /\ None \notin Orders
    /\ Loops \subseteq Nat \ {0}

VARIABLES
    reported,   \* orders handed to handle_failure()
    queue,      \* _retry_queue
    dead,       \* _dead_letter, oldest first
    done,       \* orders whose retry callback reported success
    attempts,   \* attempts of each FailedOrder
    callback,   \* a retry callback has been set
    at,         \* where each loop stands
    holds,      \* the order each loop has taken out of the queue
    task,       \* _task: the latest loop, 0 before start()
    stopped     \* _stopped

orderVars    == <<reported, queue, dead, done, attempts>>
loopVars     == <<at, holds, task>>
recoveryVars == <<orderVars, loopVars, callback, stopped>>

(* "taken": Queue.get() has completed inside wait_for(), but the loop has  *)
(* not resumed; Python 3.11's wait_for() then ignores a cancellation.      *)
Busy == {"taken", "sleeping", "calling"}

RecoveryTypeOK == /\ reported \subseteq Orders
                  /\ queue \in Seq(Orders)
                  /\ Len(queue) <= QueueSize
                  /\ dead \in Seq(Orders)
                  /\ Len(dead) <= DeadSize
                  /\ done \subseteq Orders
                  /\ attempts \in [Orders -> 0..MaxRetries]
                  /\ callback \in BOOLEAN
                  /\ at \in [Loops -> {"unborn", "waiting", "ended"} \cup Busy]
                  /\ holds \in [Loops -> Orders \cup {None}]
                  /\ \A l \in Loops : holds[l] = None <=> at[l] \notin Busy
                  /\ task \in Loops \cup {0}
                  /\ stopped \in BOOLEAN

RecoveryInit == /\ reported = {}
                /\ queue = <<>>
                /\ dead = <<>>
                /\ done = {}
                /\ attempts = [o \in Orders |-> 0]
                /\ callback = FALSE
                /\ at = [l \in Loops |-> "unborn"]
                /\ holds = [l \in Loops |-> None]
                /\ task = 0
                /\ stopped = FALSE
-----------------------------------------------------------------------------
\* deque(maxlen=...): a full deque drops its oldest element
Push(o) == IF Len(dead) = DeadSize THEN Append(Tail(dead), o) ELSE Append(dead, o)

SendToDeadLetter(o) == /\ dead' = Push(o)
                       /\ UNCHANGED <<queue, done>>

\* the order is put back and dead-lettered as well
MutEnqueueTwice(o) == /\ queue' = Append(queue, o)
                      /\ dead' = Push(o)
                      /\ UNCHANGED done

\* a full queue drops the order
MutEnqueueDrops(o) == /\ queue' = IF Len(queue) < QueueSize THEN Append(queue, o) ELSE queue
                      /\ UNCHANGED <<dead, done>>

Enqueue(o) == IF Len(queue) < QueueSize
              THEN /\ queue' = Append(queue, o)
                   /\ UNCHANGED <<dead, done>>
              ELSE SendToDeadLetter(o)

HandleFailure(o) ==
    /\ o \notin reported
    /\ reported' = reported \cup {o}
    /\ IF MaxRetries > 0 THEN Enqueue(o) ELSE SendToDeadLetter(o)
    /\ UNCHANGED <<attempts, callback, loopVars, stopped>>

SetRetryCallback ==
    /\ callback' = TRUE
    /\ UNCHANGED <<orderVars, loopVars, stopped>>
-----------------------------------------------------------------------------
Start == \E l \in Loops :
    /\ l = task + 1
    /\ stopped' = FALSE
    /\ task' = l
    /\ at' = [at EXCEPT ![l] = "waiting"]
    /\ UNCHANGED <<orderVars, holds, callback>>

(* Cancelling the task ends it where it stands, with whatever it holds,    *)
(* unless it has just taken an order.  stop() then waits for it to end.    *)
Stop == /\ stopped' = TRUE
        /\ IF task \in Loops /\ at[task] \in {"waiting", "sleeping", "calling"}
           THEN /\ at' = [at EXCEPT ![task] = "ended"]
                /\ holds' = [holds EXCEPT ![task] = None]
           ELSE UNCHANGED <<at, holds>>
        /\ UNCHANGED <<orderVars, callback, task>>

\* while True
MutKeepsRunning == TRUE

\* while not self._stopped
KeepsRunning == ~stopped

Release(l) == /\ at' = [at EXCEPT ![l] = IF KeepsRunning THEN "waiting" ELSE "ended"]
              /\ holds' = [holds EXCEPT ![l] = None]
              /\ UNCHANGED <<reported, callback, task, stopped>>

(* wait_for(q.get(), 1.0) timed out and the loop finds itself stopped.     *)
NoticeStop(l) ==
    /\ at[l] = "waiting"
    /\ ~KeepsRunning
    /\ at' = [at EXCEPT ![l] = "ended"]
    /\ UNCHANGED <<orderVars, holds, callback, task, stopped>>

Take(l) ==
    /\ at[l] = "waiting"
    /\ queue # <<>>
    /\ queue' = Tail(queue)
    /\ holds' = [holds EXCEPT ![l] = Head(queue)]
    /\ at' = [at EXCEPT ![l] = "taken"]
    /\ UNCHANGED <<reported, dead, done, attempts, callback, task, stopped>>

BackOff(l) ==
    /\ at[l] = "taken"
    /\ IF attempts[holds[l]] >= MaxRetries
       THEN SendToDeadLetter(holds[l]) /\ Release(l)
       ELSE /\ at' = [at EXCEPT ![l] = "sleeping"]
            /\ UNCHANGED <<reported, queue, dead, done, holds, callback, task, stopped>>
    /\ UNCHANGED attempts

\* the attempt is not counted
MutWakeUp(l) ==
    /\ at[l] = "sleeping"
    /\ at' = [at EXCEPT ![l] = "calling"]
    /\ UNCHANGED <<reported, queue, dead, done, attempts, holds, callback, task, stopped>>

WakeUp(l) ==
    /\ at[l] = "sleeping"
    /\ attempts' = [attempts EXCEPT ![holds[l]] = @ + 1]
    /\ IF callback
       THEN /\ at' = [at EXCEPT ![l] = "calling"]
            /\ UNCHANGED <<reported, queue, dead, done, holds, callback, task, stopped>>
       ELSE SendToDeadLetter(holds[l]) /\ Release(l)

RetrySucceeds(l) ==
    /\ at[l] = "calling"
    /\ done' = done \cup {holds[l]}
    /\ Release(l)
    /\ UNCHANGED <<queue, dead, attempts>>

\* the callback returned something false, or raised
RetryFails(l) ==
    /\ at[l] = "calling"
    /\ IF attempts[holds[l]] < MaxRetries
       THEN Enqueue(holds[l])
       ELSE SendToDeadLetter(holds[l])
    /\ Release(l)
    /\ UNCHANGED attempts

LoopStep(l) == \/ NoticeStop(l)
               \/ Take(l)
               \/ BackOff(l)
               \/ WakeUp(l)
               \/ RetrySucceeds(l)
               \/ RetryFails(l)

RecoveryNext == \/ \E o \in Orders : HandleFailure(o)
                \/ SetRetryCallback
                \/ Start
                \/ Stop
                \/ \E l \in Loops : LoopStep(l)

RecoverySpec == RecoveryInit /\ [][RecoveryNext]_recoveryVars

(* The event loop resumes every task, sleeps end, and the retry callback   *)
(* returns: ExecutionService.execute() always does.                        *)
RecoveryFairness == \A l \in Loops : WF_recoveryVars(LoopStep(l))

FairRecoverySpec == RecoverySpec /\ RecoveryFairness
-----------------------------------------------------------------------------
InQueue(o) == \E i \in 1..Len(queue) : queue[i] = o
InDead(o)  == \E i \in 1..Len(dead) : dead[i] = o
Held(o)    == \E l \in Loops : holds[l] = o
Kept(o)    == InQueue(o) \/ InDead(o) \/ Held(o) \/ o \in done

(* An order is in one place: one entry of the queue, one of the dead-      *)
(* letter deque, one loop's hands or the succeeded ones, however many      *)
(* loops run.  Two would retry an order that was already placed.           *)
OnePlace ==
    /\ RecoveryTypeOK
    /\ \A i, j \in 1..Len(queue) : queue[i] = queue[j] => i = j
    /\ \A i, j \in 1..Len(dead) : dead[i] = dead[j] => i = j
    /\ \A k, l \in Loops : holds[k] = holds[l] /\ holds[k] # None => k = l
    /\ \A o \in Orders :
          /\ InQueue(o) => ~InDead(o) /\ ~Held(o) /\ o \notin done
          /\ InDead(o) => ~Held(o) /\ o \notin done
          /\ Held(o) => o \notin done
          /\ Kept(o) => o \in reported

(* A reported order is forgotten only by stop(), in the hands of the loop  *)
(* it cancels, or by a full dead-letter deque, and then it is the oldest;  *)
(* and it is dead-lettered only when it has used up its attempts, the      *)
(* queue has no room for it or there is nothing to call.                   *)
LostOnlyByStopOrOverflow ==
    [][\A o \in Orders :
          /\ Kept(o) /\ ~Kept(o)' =>
                \/ stopped' /\ task \in Loops /\ holds[task] = o
                \/ Len(dead) = DeadSize /\ o = Head(dead)
          /\ InDead(o)' /\ ~InDead(o) =>
                \/ attempts'[o] = MaxRetries
                \/ Len(queue) = QueueSize
                \/ ~callback
      ]_recoveryVars

(* While the engine is not stopped every queued order is settled.          *)
QueuedIsSettled ==
    \A o \in Orders :
        (InQueue(o) /\ task # 0) ~> (o \in done \/ InDead(o) \/ stopped)

(* stop() returns: the task it waits for ends although it may have         *)
(* ignored the cancellation, unless start() is called meanwhile.           *)
StopReturns == \A l \in Loops : (stopped /\ task = l) ~> (at[l] = "ended" \/ ~stopped)
=============================================================================
