----------------------- MODULE FailureRecoveryProofs -----------------------
(***************************************************************************)
(* A failed order is in one place, whatever the sizes of the queues, the   *)
(* number of attempts and the number of loops that start() has created.    *)
(***************************************************************************)
EXTENDS FailureRecovery, TLAPS

USE RecoveryAssumption

In(s, o)    == \E i \in 1..Len(s) : s[i] = o
Distinct(s) == \A i, j \in 1..Len(s) : s[i] = s[j] => i = j

Queued == /\ queue \in Seq(Orders) /\ Len(queue) <= QueueSize /\ Distinct(queue)
          /\ dead \in Seq(Orders) /\ Len(dead) <= DeadSize /\ Distinct(dead)

(* A loop that start() has not created holds nothing, and one that sleeps  *)
(* has an attempt left for its order.                                      *)
Handed == /\ at \in [Loops -> {"unborn", "waiting", "ended"} \cup Busy]
          /\ holds \in [Loops -> Orders \cup {None}]
          /\ \A l \in Loops : holds[l] = None <=> at[l] \notin Busy
          /\ \A k, l \in Loops : holds[k] = holds[l] /\ holds[k] # None => k = l
          /\ \A l \in Loops : l > task => at[l] = "unborn"

Counted == /\ attempts \in [Orders -> 0..MaxRetries]
           /\ \A l \in Loops : at[l] = "sleeping" => attempts[holds[l]] < MaxRetries

Rest == /\ reported \subseteq Orders /\ done \subseteq Orders
        /\ callback \in BOOLEAN /\ stopped \in BOOLEAN /\ task \in Loops \cup {0}

Apart == \A o \in Orders :
            /\ In(queue, o) => ~In(dead, o) /\ ~Held(o) /\ o \notin done
            /\ In(dead, o) => ~Held(o) /\ o \notin done
            /\ Held(o) => o \notin done
            /\ In(queue, o) \/ In(dead, o) \/ Held(o) \/ o \in done => o \in reported

RecoveryInv == Queued /\ Handed /\ Counted /\ Rest /\ Apart
-----------------------------------------------------------------------------
LEMMA AppendIn ==
    ASSUME NEW s \in Seq(Orders), NEW o \in Orders, Distinct(s), ~In(s, o)
    PROVE  /\ Append(s, o) \in Seq(Orders) /\ Len(Append(s, o)) = Len(s) + 1
           /\ Distinct(Append(s, o))
           /\ \A p : In(Append(s, o), p) => In(s, p) \/ p = o
<1>1. /\ Append(s, o) \in Seq(Orders) /\ Len(Append(s, o)) = Len(s) + 1
      /\ \A i \in 1..Len(s) : Append(s, o)[i] = s[i]
      /\ Append(s, o)[Len(s) + 1] = o
  OBVIOUS
<1>2. \A i \in 1..Len(Append(s, o)) : i \in 1..Len(s) \/ i = Len(s) + 1
  BY <1>1
<1> QED BY <1>1, <1>2 DEF Distinct, In

LEMMA TailIn ==
    ASSUME NEW s \in Seq(Orders), s # <<>>, Distinct(s)
    PROVE  /\ Tail(s) \in Seq(Orders) /\ Len(Tail(s)) = Len(s) - 1
           /\ Distinct(Tail(s))
           /\ \A p : In(Tail(s), p) => In(s, p)
           /\ ~In(Tail(s), Head(s)) /\ In(s, Head(s)) /\ Head(s) \in Orders
<1>1. /\ Tail(s) \in Seq(Orders) /\ Len(Tail(s)) = Len(s) - 1 /\ Len(s) \in Nat \ {0}
      /\ \A i \in 1..Len(Tail(s)) : Tail(s)[i] = s[i + 1]
      /\ Head(s) = s[1]
  OBVIOUS
<1>2. \A i \in 1..Len(Tail(s)) : i + 1 \in 1..Len(s) /\ i + 1 # 1
  BY <1>1
<1>3. Distinct(Tail(s))
  <2> SUFFICES ASSUME NEW i \in 1..Len(Tail(s)), NEW j \in 1..Len(Tail(s)), Tail(s)[i] = Tail(s)[j]
               PROVE  i = j
    BY DEF Distinct
  <2>1. i + 1 = j + 1
    BY <1>1, <1>2 DEF Distinct
  <2> QED BY <2>1
<1>4. 1 \in 1..Len(s)
  BY <1>1
<1>5. ~In(Tail(s), Head(s))
  BY <1>1, <1>2, <1>4 DEF In, Distinct
<1>6. \A p : In(Tail(s), p) => In(s, p)
  BY <1>1, <1>2 DEF In
<1>7. In(s, Head(s)) /\ Head(s) \in Orders
  BY <1>1, <1>4 DEF In
<1> QED BY <1>1, <1>3, <1>5, <1>6, <1>7

LEMMA PushIn ==
    ASSUME Queued, NEW o \in Orders, ~In(dead, o)
    PROVE  /\ Push(o) \in Seq(Orders) /\ Len(Push(o)) <= DeadSize /\ Distinct(Push(o))
           /\ \A p : In(Push(o), p) => In(dead, p) \/ p = o
<1>1. CASE Len(dead) = DeadSize
  <2>1. dead # <<>>
    BY <1>1
  <2>2. /\ Tail(dead) \in Seq(Orders) /\ Len(Tail(dead)) = Len(dead) - 1 /\ Distinct(Tail(dead))
        /\ \A p : In(Tail(dead), p) => In(dead, p)
    BY <2>1, TailIn DEF Queued
  <2>3. ~In(Tail(dead), o)
    BY <2>2
  <2>4. Push(o) = Append(Tail(dead), o)
    BY <1>1 DEF Push
  <2> DEFINE rest == Tail(dead)
  <2> HIDE DEF rest
  <2>5. /\ Push(o) \in Seq(Orders) /\ Len(Push(o)) = Len(rest) + 1 /\ Distinct(Push(o))
        /\ \A p : In(Push(o), p) => In(rest, p) \/ p = o
    <3>1. rest \in Seq(Orders) /\ Distinct(rest) /\ ~In(rest, o)
      BY <2>2, <2>3 DEF rest
    <3>2. /\ Append(rest, o) \in Seq(Orders) /\ Len(Append(rest, o)) = Len(rest) + 1
          /\ Distinct(Append(rest, o))
          /\ \A p : In(Append(rest, o), p) => In(rest, p) \/ p = o
      BY <3>1, AppendIn
    <3> QED BY <2>4, <3>2, Zenon DEF rest
  <2>6. Len(Push(o)) <= DeadSize
    BY <1>1, <2>2, <2>5 DEF rest
  <2> QED BY <2>2, <2>5, <2>6 DEF rest
<1>2. CASE Len(dead) # DeadSize
  <2>1. Push(o) = Append(dead, o)
    BY <1>2 DEF Push
  <2> QED BY <1>2, <2>1, AppendIn DEF Queued
<1> QED BY <1>1, <1>2

(* An order that is nowhere, put into the queue or the dead letters.       *)
LEMMA PutIn ==
    ASSUME Queued, NEW o \in Orders, ~In(queue, o), ~In(dead, o),
           Enqueue(o) \/ SendToDeadLetter(o)
    PROVE  /\ Queued' /\ done' = done
           /\ \A p : In(queue', p) => In(queue, p) \/ p = o
           /\ \A p : In(dead', p) => In(dead, p) \/ p = o
           /\ ~(In(queue', o) /\ In(dead', o))
<1>1. CASE SendToDeadLetter(o)
  <2>1. dead' = Push(o) /\ queue' = queue /\ done' = done
    BY <1>1 DEF SendToDeadLetter
  <2> QED BY <2>1, PushIn DEF Queued
<1>2. CASE Enqueue(o) /\ Len(queue) < QueueSize
  <2>1. queue' = Append(queue, o) /\ dead' = dead /\ done' = done
    BY <1>2 DEF Enqueue
  <2>2. /\ queue' \in Seq(Orders) /\ Len(queue') = Len(queue) + 1 /\ Distinct(queue')
        /\ \A p : In(queue', p) => In(queue, p) \/ p = o
    BY <2>1, AppendIn DEF Queued
  <2>3. Len(queue') <= QueueSize
    BY <1>2, <2>2 DEF Queued
  <2> QED BY <2>1, <2>2, <2>3 DEF Queued
<1> QED BY <1>1, <1>2 DEF Enqueue

(* A loop lets go of its order.                                            *)
LEMMA ReleaseKeeps ==
    ASSUME Handed, NEW l \in Loops, at[l] \in Busy, Release(l)
    PROVE  /\ Handed'
           /\ \A o \in Orders : Held(o)' => Held(o) /\ o # holds[l]
           /\ \A k \in Loops : at'[k] = "sleeping" => /\ at[k] = "sleeping" /\ k # l
                                                      /\ holds'[k] = holds[k]
<1>1. PICK w \in {"waiting", "ended"} : at' = [at EXCEPT ![l] = w]
  BY DEF Release
<1>2. holds' = [holds EXCEPT ![l] = None] /\ task' = task
  BY DEF Release
<1>3. CASE l > task
  BY <1>3 DEF Handed, Busy
<1>4. CASE ~(l > task)
  BY <1>1, <1>2, <1>4 DEF Handed, Held, Busy
<1> QED BY <1>3, <1>4

(* A loop takes the head of the queue, or puts its order somewhere.        *)
LEMMA TakeKeeps == ASSUME RecoveryInv, NEW l \in Loops, Take(l) PROVE RecoveryInv'
<1> DEFINE o == Head(queue)
<1>1. /\ at[l] = "waiting" /\ queue # <<>> /\ queue' = Tail(queue)
      /\ holds' = [holds EXCEPT ![l] = o] /\ at' = [at EXCEPT ![l] = "taken"]
      /\ UNCHANGED <<reported, dead, done, attempts, callback, task, stopped>>
  BY DEF Take
<1>2. /\ Tail(queue) \in Seq(Orders) /\ Len(Tail(queue)) = Len(queue) - 1 /\ Distinct(Tail(queue))
      /\ \A p : In(Tail(queue), p) => In(queue, p)
      /\ ~In(Tail(queue), o) /\ In(queue, o) /\ o \in Orders
  BY <1>1, TailIn DEF RecoveryInv, Queued
<1> HIDE DEF o
<1>3. Queued'
  BY <1>1, <1>2 DEF RecoveryInv, Queued, Distinct
<1>4. \A k \in Loops : holds[k] # o
  BY <1>2 DEF RecoveryInv, Apart, Held
<1>5. Handed'
  <2>1. holds' \in [Loops -> Orders \cup {None}] /\ o # None /\ l <= task
    BY <1>1, <1>2 DEF RecoveryInv, Handed, Rest
  <2> QED BY <1>1, <1>4, <2>1 DEF RecoveryInv, Handed, Busy
<1>6. Counted' /\ Rest'
  BY <1>1 DEF RecoveryInv, Handed, Counted, Rest
<1>7. Apart'
  <2> SUFFICES ASSUME NEW p \in Orders
               PROVE  /\ In(queue', p) => ~In(dead, p) /\ ~Held(p)' /\ p \notin done
                      /\ In(dead, p) => ~Held(p)' /\ p \notin done
                      /\ Held(p)' => p \notin done
                      /\ In(queue', p) \/ In(dead, p) \/ Held(p)' \/ p \in done => p \in reported
    BY <1>1 DEF Apart
  <2>1. Held(p)' => Held(p) \/ p = o
    BY <1>1 DEF Held, RecoveryInv, Handed
  <2>2. In(queue', p) => In(queue, p) /\ p # o
    BY <1>1, <1>2
  <2> QED BY <1>2, <2>1, <2>2 DEF RecoveryInv, Apart
<1> QED BY <1>3, <1>5, <1>6, <1>7 DEF RecoveryInv

LEMMA PutBackKeeps ==
    ASSUME RecoveryInv, NEW l \in Loops, at[l] \in Busy, Release(l),
           Enqueue(holds[l]) \/ SendToDeadLetter(holds[l]),
           attempts' \in [Orders -> 0..MaxRetries],
           \A p \in Orders : p # holds[l] => attempts'[p] = attempts[p]
    PROVE  RecoveryInv'
<1>1. PICK o \in Orders : o = holds[l]
  BY DEF RecoveryInv, Handed
<1>2. Held(o) /\ o # None
  BY <1>1 DEF Held
<1>3. ~In(queue, o) /\ ~In(dead, o) /\ o \notin done /\ o \in reported
  BY <1>2 DEF RecoveryInv, Apart
<1>4. /\ Queued' /\ done' = done
      /\ \A p : In(queue', p) => In(queue, p) \/ p = o
      /\ \A p : In(dead', p) => In(dead, p) \/ p = o
      /\ ~(In(queue', o) /\ In(dead', o))
  BY <1>1, <1>3, PutIn DEF RecoveryInv
<1>5. /\ Handed'
      /\ \A p \in Orders : Held(p)' => Held(p) /\ p # o
      /\ \A k \in Loops : at'[k] = "sleeping" => /\ at[k] = "sleeping" /\ k # l
                                                 /\ holds'[k] = holds[k]
  BY <1>1, ReleaseKeeps DEF RecoveryInv
<1>6. UNCHANGED <<reported, callback, task, stopped>>
  BY DEF Release
<1>7. Counted'
  <2> SUFFICES ASSUME NEW k \in Loops, at'[k] = "sleeping"
               PROVE  attempts'[holds'[k]] < MaxRetries
    BY DEF Counted
  <2>1. at[k] = "sleeping" /\ k # l /\ holds'[k] = holds[k]
    BY <1>5
  <2>2. holds[k] \in Orders /\ holds[k] # holds[l]
    BY <1>1, <1>2, <2>1 DEF RecoveryInv, Handed, Busy
  <2>3. attempts[holds[k]] < MaxRetries
    BY <2>1 DEF RecoveryInv, Counted
  <2> QED BY <2>1, <2>2, <2>3
<1>8. Rest'
  BY <1>4, <1>6 DEF RecoveryInv, Rest
<1>9. Apart'
  <2> SUFFICES ASSUME NEW p \in Orders
               PROVE  /\ In(queue', p) => ~In(dead', p) /\ ~Held(p)' /\ p \notin done
                      /\ In(dead', p) => ~Held(p)' /\ p \notin done
                      /\ Held(p)' => p \notin done
                      /\ In(queue', p) \/ In(dead', p) \/ Held(p)' \/ p \in done => p \in reported
    BY <1>4, <1>6 DEF Apart
  <2>1. CASE p = o
    BY <1>3, <1>4, <1>5, <2>1
  <2>2. CASE p # o
    BY <1>4, <1>5, <2>2 DEF RecoveryInv, Apart
  <2> QED BY <2>1, <2>2
<1> QED BY <1>4, <1>5, <1>7, <1>8, <1>9 DEF RecoveryInv

(* A step of a loop that keeps its order.                                  *)
LEMMA MovesOn ==
    ASSUME RecoveryInv, NEW l \in Loops, at[l] \in Busy, NEW w \in Busy,
           at' = [at EXCEPT ![l] = w],
           attempts' \in [Orders -> 0..MaxRetries],
           \A p \in Orders : p # holds[l] => attempts'[p] = attempts[p],
           w = "sleeping" => attempts'[holds[l]] < MaxRetries,
           UNCHANGED <<reported, queue, dead, done, holds, callback, task, stopped>>
    PROVE  RecoveryInv'
<1>1. Queued' /\ Rest' /\ Apart'
  BY DEF RecoveryInv, Queued, Distinct, Rest, Apart, Held, In
<1>2. Handed'
  <2>1. at' \in [Loops -> {"unborn", "waiting", "ended"} \cup Busy]
    BY DEF RecoveryInv, Handed
  <2>2. ~(l > task)
    BY DEF RecoveryInv, Handed, Busy
  <2>3. \A k \in Loops : at'[k] = IF k = l THEN w ELSE at[k]
    BY DEF RecoveryInv, Handed
  <2>4. \A k \in Loops : holds[k] = None <=> at'[k] \notin Busy
    BY <2>3 DEF RecoveryInv, Handed
  <2>5. \A k \in Loops : k > task => at'[k] = "unborn"
    BY <2>2, <2>3 DEF RecoveryInv, Handed
  <2> QED BY <2>1, <2>4, <2>5 DEF RecoveryInv, Handed
<1>3. Counted'
  <2> SUFFICES ASSUME NEW k \in Loops, at'[k] = "sleeping", k # l
               PROVE  attempts'[holds[k]] < MaxRetries
    BY DEF Counted, RecoveryInv, Handed
  <2>1. at[k] = "sleeping"
    BY DEF RecoveryInv, Handed
  <2>2. holds[k] \in Orders /\ holds[k] # holds[l]
    BY <2>1 DEF RecoveryInv, Handed, Busy
  <2> QED BY <2>1, <2>2 DEF RecoveryInv, Counted
<1> QED BY <1>1, <1>2, <1>3 DEF RecoveryInv

LEMMA LoopStepKeeps == ASSUME RecoveryInv, NEW l \in Loops, LoopStep(l) PROVE RecoveryInv'
<1>1. CASE NoticeStop(l)
  <2>1. /\ at[l] = "waiting" /\ at' = [at EXCEPT ![l] = "ended"]
        /\ UNCHANGED <<reported, queue, dead, done, attempts, holds, callback, task, stopped>>
    BY <1>1 DEF NoticeStop, orderVars
  <2>2. Queued' /\ Rest' /\ Apart'
    BY <2>1 DEF RecoveryInv, Queued, Distinct, Rest, Apart, Held, In
  <2>3. Handed' /\ Counted'
    BY <2>1 DEF RecoveryInv, Handed, Counted, Busy
  <2> QED BY <2>2, <2>3 DEF RecoveryInv
<1>2. CASE Take(l)
  BY <1>2, TakeKeeps
<1>3. CASE BackOff(l)
  <2>1. at[l] \in Busy /\ attempts' = attempts /\ attempts \in [Orders -> 0..MaxRetries]
    BY <1>3 DEF BackOff, Busy, RecoveryInv, Counted
  <2>2. CASE attempts[holds[l]] >= MaxRetries
    BY <1>3, <2>1, <2>2, PutBackKeeps DEF BackOff
  <2>3. CASE ~(attempts[holds[l]] >= MaxRetries)
    <3>1. holds[l] \in Orders
      BY <2>1 DEF RecoveryInv, Handed
    <3>2. attempts[holds[l]] < MaxRetries
      <4>1. attempts[holds[l]] \in Nat
        BY <2>1, <3>1
      <4> QED BY <2>3, <4>1
    <3>3. /\ at' = [at EXCEPT ![l] = "sleeping"]
          /\ UNCHANGED <<reported, queue, dead, done, holds, callback, task, stopped>>
      BY <1>3, <2>3 DEF BackOff
    <3> QED BY <2>1, <3>2, <3>3, MovesOn DEF Busy
  <2> QED BY <2>2, <2>3
<1>4. CASE WakeUp(l)
  <2>1. at[l] \in Busy /\ attempts' = [attempts EXCEPT ![holds[l]] = @ + 1]
    BY <1>4 DEF WakeUp, Busy
  <2>2. holds[l] \in Orders /\ attempts[holds[l]] < MaxRetries
    BY <1>4, <2>1 DEF WakeUp, RecoveryInv, Handed, Counted
  <2>3. /\ attempts' \in [Orders -> 0..MaxRetries]
        /\ \A p \in Orders : p # holds[l] => attempts'[p] = attempts[p]
    BY <2>1, <2>2 DEF RecoveryInv, Counted
  <2>4. CASE callback
    <3>1. /\ at' = [at EXCEPT ![l] = "calling"]
          /\ UNCHANGED <<reported, queue, dead, done, holds, callback, task, stopped>>
      BY <1>4, <2>4 DEF WakeUp
    <3> QED BY <2>1, <2>3, <3>1, MovesOn DEF Busy
  <2>5. CASE ~callback
    BY <1>4, <2>1, <2>3, <2>5, PutBackKeeps DEF WakeUp
  <2> QED BY <2>4, <2>5
<1>5. CASE RetrySucceeds(l)
  <2>1. /\ at[l] \in Busy /\ done' = done \cup {holds[l]} /\ Release(l)
        /\ UNCHANGED <<reported, queue, dead, attempts, callback, task, stopped>>
    BY <1>5 DEF RetrySucceeds, Busy, Release
  <2>2. PICK o \in Orders : o = holds[l]
    BY <2>1 DEF RecoveryInv, Handed
  <2>3. /\ Handed'
        /\ \A p \in Orders : Held(p)' => Held(p) /\ p # o
        /\ \A k \in Loops : at'[k] = "sleeping" => at[k] = "sleeping" /\ holds'[k] = holds[k]
    BY <2>1, <2>2, ReleaseKeeps DEF RecoveryInv
  <2>4. Held(o) /\ o # None
    BY <2>2 DEF Held
  <2>5. Queued' /\ Rest' /\ Counted'
    BY <2>1, <2>2, <2>3 DEF RecoveryInv, Queued, Distinct, Rest, Counted
  <2>6. Apart'
    <3> SUFFICES ASSUME NEW p \in Orders
                 PROVE  /\ In(queue, p) => ~In(dead, p) /\ ~Held(p)' /\ p \notin done'
                        /\ In(dead, p) => ~Held(p)' /\ p \notin done'
                        /\ Held(p)' => p \notin done'
                        /\ In(queue, p) \/ In(dead, p) \/ Held(p)' \/ p \in done' => p \in reported
      BY <2>1 DEF Apart
    <3>1. /\ In(queue, p) => ~In(dead, p) /\ ~Held(p) /\ p \notin done
          /\ In(dead, p) => ~Held(p) /\ p \notin done
          /\ Held(p) => p \notin done
          /\ In(queue, p) \/ In(dead, p) \/ Held(p) \/ p \in done => p \in reported
      BY DEF RecoveryInv, Apart
    <3>2. p \in done' => p \in done \/ p = o
      BY <2>1, <2>2
    <3> QED BY <2>3, <2>4, <3>1, <3>2
  <2> QED BY <2>3, <2>5, <2>6 DEF RecoveryInv
<1>6. CASE RetryFails(l)
  <2>1. /\ at[l] \in Busy /\ Release(l) /\ attempts' = attempts
        /\ Enqueue(holds[l]) \/ SendToDeadLetter(holds[l])
    BY <1>6 DEF RetryFails, Busy
  <2> QED BY <2>1, PutBackKeeps DEF RecoveryInv, Counted
<1> QED BY <1>1, <1>2, <1>3, <1>4, <1>5, <1>6 DEF LoopStep
-----------------------------------------------------------------------------
LEMMA RecoveryStarts == RecoveryInit => RecoveryInv
<1> SUFFICES ASSUME RecoveryInit PROVE RecoveryInv
  OBVIOUS
<1>1. \A o : ~In(queue, o) /\ ~In(dead, o)
  BY DEF RecoveryInit, In
<1>2. Queued
  BY DEF RecoveryInit, Queued, Distinct
<1>3. Handed /\ Rest
  BY DEF RecoveryInit, Handed, Rest, Busy
<1>4. Counted
  <2>1. 0 \in 0..MaxRetries
    OBVIOUS
  <2> QED BY <2>1 DEF RecoveryInit, Counted
<1>5. Apart
  BY <1>1 DEF RecoveryInit, Apart, Held
<1> QED BY <1>2, <1>3, <1>4, <1>5 DEF RecoveryInv

LEMMA HandleFailureKeeps ==
    ASSUME RecoveryInv, NEW o \in Orders, HandleFailure(o) PROVE RecoveryInv'
<1>1. /\ o \notin reported /\ reported' = reported \cup {o}
      /\ Enqueue(o) \/ SendToDeadLetter(o)
      /\ UNCHANGED <<attempts, callback, at, holds, task, stopped>>
  BY DEF HandleFailure, loopVars
<1>2. ~In(queue, o) /\ ~In(dead, o) /\ ~Held(o) /\ o \notin done
  BY <1>1 DEF RecoveryInv, Apart
<1>3. /\ Queued' /\ done' = done
      /\ \A p : In(queue', p) => In(queue, p) \/ p = o
      /\ \A p : In(dead', p) => In(dead, p) \/ p = o
      /\ ~(In(queue', o) /\ In(dead', o))
  BY <1>1, <1>2, PutIn DEF RecoveryInv
<1>4. Handed' /\ Counted' /\ Rest'
  BY <1>1, <1>3 DEF RecoveryInv, Handed, Counted, Rest
<1>5. \A p \in Orders : Held(p)' = Held(p)
  BY <1>1 DEF Held
<1>6. Apart'
  <2> SUFFICES ASSUME NEW p \in Orders
               PROVE  /\ In(queue', p) => ~In(dead', p) /\ ~Held(p) /\ p \notin done
                      /\ In(dead', p) => ~Held(p) /\ p \notin done
                      /\ Held(p) => p \notin done
                      /\ In(queue', p) \/ In(dead', p) \/ Held(p) \/ p \in done => p \in reported'
    BY <1>3, <1>5 DEF Apart
  <2>1. CASE p = o
    BY <1>1, <1>2, <1>3, <2>1
  <2>2. CASE p # o
    BY <1>1, <1>3, <2>2 DEF RecoveryInv, Apart
  <2> QED BY <2>1, <2>2
<1> QED BY <1>3, <1>4, <1>6 DEF RecoveryInv

LEMMA RecoveryKeeps == RecoveryInv /\ [RecoveryNext]_recoveryVars => RecoveryInv'
<1> SUFFICES ASSUME RecoveryInv, [RecoveryNext]_recoveryVars PROVE RecoveryInv'
  OBVIOUS
<1>1. ASSUME NEW o \in Orders, HandleFailure(o) PROVE RecoveryInv'
  BY <1>1, HandleFailureKeeps
<1>2. CASE SetRetryCallback
  BY <1>2 DEF SetRetryCallback, orderVars, loopVars, RecoveryInv, Queued, Distinct, Handed,
              Counted, Rest, Apart, Held, In
<1>3. CASE Start
  <2>1. PICK l \in Loops :
           /\ l = task + 1 /\ stopped' = FALSE /\ task' = l
           /\ at' = [at EXCEPT ![l] = "waiting"]
           /\ UNCHANGED <<reported, queue, dead, done, attempts, holds, callback>>
    BY <1>3 DEF Start, orderVars
  <2>2. at[l] = "unborn"
    BY <2>1 DEF RecoveryInv, Handed, Rest
  <2>3. Queued' /\ Rest' /\ Apart'
    BY <2>1 DEF RecoveryInv, Queued, Distinct, Rest, Apart, Held, In
  <2>4. Handed'
    <3>1. \A k \in Loops : k > task' => k > task /\ k # l
      BY <2>1 DEF RecoveryInv, Rest
    <3>2. \A k \in Loops : at'[k] = IF k = l THEN "waiting" ELSE at[k]
      BY <2>1 DEF RecoveryInv, Handed
    <3> QED BY <2>1, <2>2, <3>1, <3>2 DEF RecoveryInv, Handed, Busy
  <2>5. Counted'
    BY <2>1 DEF RecoveryInv, Handed, Counted
  <2> QED BY <2>3, <2>4, <2>5 DEF RecoveryInv
<1>4. CASE Stop
  <2>1. /\ stopped' = TRUE /\ UNCHANGED <<reported, queue, dead, done, attempts, callback, task>>
        /\ \/ /\ task \in Loops /\ at[task] \in {"waiting", "sleeping", "calling"}
              /\ at' = [at EXCEPT ![task] = "ended"] /\ holds' = [holds EXCEPT ![task] = None]
           \/ UNCHANGED <<at, holds>>
    BY <1>4 DEF Stop, orderVars
  <2>2. Queued' /\ Rest'
    BY <2>1 DEF RecoveryInv, Queued, Distinct, Rest
  <2>3. Handed' /\ Counted'
    BY <2>1 DEF RecoveryInv, Handed, Counted, Busy
  <2>4. \A p \in Orders : Held(p)' => Held(p)
    BY <2>1 DEF RecoveryInv, Handed, Held
  <2>5. Apart'
    BY <2>1, <2>4 DEF RecoveryInv, Apart
  <2> QED BY <2>2, <2>3, <2>5 DEF RecoveryInv
<1>5. ASSUME NEW l \in Loops, LoopStep(l) PROVE RecoveryInv'
  BY <1>5, LoopStepKeeps
<1>6. CASE UNCHANGED recoveryVars
  BY <1>6 DEF recoveryVars, orderVars, loopVars, RecoveryInv, Queued, Distinct, Handed,
              Counted, Rest, Apart, Held, In
<1> QED BY <1>1, <1>2, <1>3, <1>4, <1>5, <1>6 DEF RecoveryNext

(* For any sizes of the queue and the dead letters, any number of attempts *)
(* and of loops: a reported order is one entry of the queue or of the dead *)
(* letters, in one loop's hands or among the succeeded ones, never in two. *)
THEOREM OrdersAreInOnePlace == RecoverySpec => []OnePlace
<1>1. RecoveryInv => OnePlace
  BY DEF RecoveryInv, Queued, Distinct, Handed, Counted, Rest, Apart, In, InQueue, InDead, Kept,
         OnePlace, RecoveryTypeOK
<1> QED BY RecoveryStarts, RecoveryKeeps, <1>1, PTL DEF RecoverySpec
-----------------------------------------------------------------------------
(* What a step may take away.                                              *)
LEMMA AppendKeeps ==
    ASSUME NEW s \in Seq(Orders), NEW o \in Orders, NEW p, In(s, p) \/ p = o
    PROVE  In(Append(s, o), p)
<1>1. /\ Len(Append(s, o)) = Len(s) + 1
      /\ \A i \in 1..Len(s) : Append(s, o)[i] = s[i]
      /\ Append(s, o)[Len(s) + 1] = o
  OBVIOUS
<1>2. CASE In(s, p)
  <2>1. PICK i \in 1..Len(s) : s[i] = p
    BY <1>2 DEF In
  <2>2. i \in 1..Len(Append(s, o))
    BY <1>1
  <2> QED BY <1>1, <2>1, <2>2 DEF In
<1>3. CASE p = o
  <2>1. Len(s) + 1 \in 1..Len(Append(s, o))
    BY <1>1
  <2> QED BY <1>1, <1>3, <2>1 DEF In
<1> QED BY <1>2, <1>3

LEMMA TailDrops ==
    ASSUME NEW s \in Seq(Orders), s # <<>>, NEW p, In(s, p), p # Head(s)
    PROVE  In(Tail(s), p)
<1>1. PICK i \in 1..Len(s) : s[i] = p
  BY DEF In
<1>2. /\ Len(Tail(s)) = Len(s) - 1 /\ Head(s) = s[1] /\ Len(s) \in Nat
      /\ \A j \in 1..Len(Tail(s)) : Tail(s)[j] = s[j + 1]
  OBVIOUS
<1>3. i # 1
  BY <1>1, <1>2
<1>4. i - 1 \in 1..Len(Tail(s)) /\ (i - 1) + 1 = i
  BY <1>2, <1>3
<1>5. Tail(s)[i - 1] = p
  BY <1>1, <1>2, <1>4
<1> QED BY <1>4, <1>5 DEF In

LEMMA PushDrops ==
    ASSUME Queued, NEW o \in Orders, NEW p,
           p = o \/ (In(dead, p) /\ ~(Len(dead) = DeadSize /\ p = Head(dead)))
    PROVE  In(Push(o), p)
<1>1. CASE Len(dead) = DeadSize
  <2>1. dead # <<>> /\ dead \in Seq(Orders)
    BY <1>1 DEF Queued
  <2>2. Tail(dead) \in Seq(Orders)
    BY <2>1
  <2>3. In(Tail(dead), p) \/ p = o
    BY <1>1, <2>1, TailDrops
  <2>4. In(Append(Tail(dead), o), p)
    BY <2>2, <2>3, AppendKeeps
  <2> QED BY <1>1, <2>4 DEF Push
<1>2. CASE Len(dead) # DeadSize
  <2>1. In(Append(dead, o), p)
    BY <1>2, AppendKeeps DEF Queued
  <2> QED BY <1>2, <2>1 DEF Push
<1> QED BY <1>1, <1>2

Dropped(p) == Len(dead) = DeadSize /\ p = Head(dead)

LEMMA PutKeepsOthers ==
    ASSUME RecoveryInv, NEW o \in Orders, NEW p \in Orders,
           Enqueue(o) \/ SendToDeadLetter(o)
    PROVE  /\ p = o \/ In(queue, p) \/ (In(dead, p) /\ ~Dropped(p)) => In(queue', p) \/ In(dead', p)
           /\ In(dead', p) => In(dead, p) \/ (p = o /\ SendToDeadLetter(o))
           /\ In(dead', p) /\ ~In(dead, p) /\ Enqueue(o) => Len(queue) = QueueSize
<1>1. CASE SendToDeadLetter(o)
  <2>1. dead' = Push(o) /\ queue' = queue
    BY <1>1 DEF SendToDeadLetter
  <2>2. p = o \/ In(queue, p) \/ (In(dead, p) /\ ~Dropped(p)) => In(queue', p) \/ In(dead', p)
    BY <2>1, PushDrops DEF Dropped, RecoveryInv
  <2>3. In(dead', p) => In(dead, p) \/ p = o
    BY <2>1 DEF Push, In, RecoveryInv, Queued
  <2>4. Enqueue(o) /\ In(dead', p) /\ ~In(dead, p) => Len(queue) = QueueSize
    BY <2>1 DEF Enqueue, RecoveryInv, Queued
  <2> QED BY <1>1, <2>2, <2>3, <2>4
<1>2. CASE Enqueue(o) /\ ~SendToDeadLetter(o)
  <2>1. queue' = Append(queue, o) /\ dead' = dead
    BY <1>2 DEF Enqueue
  <2>2. queue \in Seq(Orders)
    BY DEF RecoveryInv, Queued
  <2>3. p = o \/ In(queue, p) => In(queue', p)
    BY <2>1, <2>2, AppendKeeps
  <2>4. In(dead', p) = In(dead, p)
    BY <2>1
  <2> QED BY <1>2, <2>3, <2>4
<1> QED BY <1>1, <1>2

(* For any instance: an order vanishes only in the hands of the loop that  *)
(* stop() cancels or as the oldest of full dead letters, and is given up   *)
(* only without attempts left, without room or without a callback.         *)
THEOREM OrdersAreNotForgotten == RecoverySpec => LostOnlyByStopOrOverflow
<1> DEFINE Fate(o) ==
        /\ Kept(o) /\ ~Kept(o)' => \/ stopped' /\ task \in Loops /\ holds[task] = o
                                   \/ Dropped(o)
        /\ InDead(o)' /\ ~InDead(o) => \/ attempts'[o] = MaxRetries
                                       \/ Len(queue) = QueueSize
                                       \/ ~callback
<1>1. \A p : InQueue(p) = In(queue, p) /\ InDead(p) = In(dead, p)
  BY DEF InQueue, InDead, In
<1>2. \A p : InQueue(p)' = In(queue', p) /\ InDead(p)' = In(dead', p)
  BY DEF InQueue, InDead, In
<1>3. ASSUME RecoveryInv, RecoveryNext, NEW p \in Orders PROVE Fate(p)
  <2> USE DEF Kept
  <2> SUFFICES /\ Kept(p) /\ ~Kept(p)' => \/ stopped' /\ task \in Loops /\ holds[task] = p
                                          \/ Dropped(p)
               /\ In(dead', p) /\ ~In(dead, p) => \/ attempts'[p] = MaxRetries
                                                 \/ Len(queue) = QueueSize
                                                 \/ ~callback
    BY <1>1, <1>2
  <2>1. CASE queue' = queue /\ dead' = dead /\ done' = done /\ holds' = holds
    BY <2>1 DEF InQueue, InDead, Held
  <2>2. ASSUME NEW o \in Orders, HandleFailure(o)
        PROVE  /\ Kept(p) => Kept(p)' \/ Dropped(p)
               /\ In(dead', p) /\ ~In(dead, p) => attempts'[p] = MaxRetries \/ Len(queue) = QueueSize
    <3>1. /\ IF MaxRetries > 0 THEN Enqueue(o) ELSE SendToDeadLetter(o)
          /\ UNCHANGED <<attempts, holds>> /\ done' = done
      BY <2>2 DEF HandleFailure, loopVars, Enqueue, SendToDeadLetter
    <3>2. In(queue, p) \/ (In(dead, p) /\ ~Dropped(p)) => In(queue', p) \/ In(dead', p)
      BY <1>3, <3>1, PutKeepsOthers
    <3>3. Held(p)' = Held(p)
      BY <3>1 DEF Held
    <3>4. CASE MaxRetries > 0
      BY <1>1, <1>2, <1>3, <3>1, <3>2, <3>3, <3>4, PutKeepsOthers
    <3>5. CASE ~(MaxRetries > 0)
      <4>1. MaxRetries = 0 /\ attempts[p] \in 0..MaxRetries
        BY <1>3, <3>5 DEF RecoveryInv, Counted
      <4>2. attempts'[p] = MaxRetries
        BY <3>1, <4>1
      <4> QED BY <1>1, <1>2, <3>1, <3>2, <3>3, <4>2
    <3> QED BY <3>4, <3>5
  <2>3. CASE Stop
    <3>1. /\ stopped' = TRUE /\ UNCHANGED <<queue, dead, done>>
          /\ \/ task \in Loops /\ holds' = [holds EXCEPT ![task] = None]
             \/ holds' = holds
      BY <2>3 DEF Stop, orderVars
    <3>2. Held(p) /\ ~Held(p)' => task \in Loops /\ holds[task] = p
      BY <1>3, <3>1 DEF Held, RecoveryInv, Handed
    <3> QED BY <1>1, <1>2, <3>1, <3>2
  <2>4. ASSUME NEW l \in Loops, Take(l)
        PROVE  (Kept(p) => Kept(p)') /\ dead' = dead
    <3>1. /\ queue # <<>> /\ queue' = Tail(queue) /\ UNCHANGED <<dead, done>>
          /\ holds' = [holds EXCEPT ![l] = Head(queue)] /\ holds[l] = None
          /\ queue \in Seq(Orders) /\ holds \in [Loops -> Orders \cup {None}]
      BY <1>3, <2>4 DEF Take, RecoveryInv, Handed, Queued, Busy
    <3>2. Held(p) => Held(p)'
      BY <3>1 DEF Held
    <3>3. In(queue, p) => In(queue', p) \/ Held(p)'
      <4>1. CASE p = Head(queue)
        BY <3>1, <4>1 DEF Held
      <4>2. CASE p # Head(queue)
        BY <3>1, <4>2, TailDrops
      <4> QED BY <4>1, <4>2
    <3> QED BY <1>1, <1>2, <3>1, <3>2, <3>3
  <2>5. ASSUME NEW l \in Loops, at[l] \in Busy, Release(l), NEW o, o = holds[l],
               Enqueue(o) \/ SendToDeadLetter(o)
        PROVE  /\ Kept(p) => Kept(p)' \/ Dropped(p)
               /\ In(dead', p) => In(dead, p) \/ p = o
               /\ In(dead', p) /\ ~In(dead, p) /\ Enqueue(o) => Len(queue) = QueueSize
    <3>1. o \in Orders /\ holds' = [holds EXCEPT ![l] = None] /\ done' = done
      BY <1>3, <2>5 DEF RecoveryInv, Handed, Release, Enqueue, SendToDeadLetter
    <3>2. /\ p = o \/ In(queue, p) \/ (In(dead, p) /\ ~Dropped(p)) => In(queue', p) \/ In(dead', p)
          /\ In(dead', p) => In(dead, p) \/ p = o
          /\ In(dead', p) /\ ~In(dead, p) /\ Enqueue(o) => Len(queue) = QueueSize
      BY <1>3, <2>5, <3>1, PutKeepsOthers
    <3>3. Held(p) => Held(p)' \/ p = o
      BY <1>3, <2>5, <3>1 DEF Held, RecoveryInv, Handed
    <3> QED BY <1>1, <1>2, <3>1, <3>2, <3>3
  <2>6. ASSUME NEW l \in Loops, BackOff(l), ~(queue' = queue /\ dead' = dead)
        PROVE  Fate(p)
    <3>1. /\ at[l] \in Busy /\ Release(l) /\ SendToDeadLetter(holds[l])
          /\ attempts[holds[l]] >= MaxRetries /\ attempts' = attempts
      BY <2>6 DEF BackOff, Busy
    <3>2. attempts[holds[l]] = MaxRetries
      <4>1. attempts[holds[l]] \in 0..MaxRetries
        BY <1>3, <3>1 DEF RecoveryInv, Counted, Handed
      <4> QED BY <3>1, <4>1
    <3> QED BY <1>1, <1>2, <2>5, <3>1, <3>2
  <2>7. ASSUME NEW l \in Loops, WakeUp(l), ~(queue' = queue /\ dead' = dead)
        PROVE  Fate(p)
    <3>1. at[l] \in Busy /\ Release(l) /\ SendToDeadLetter(holds[l]) /\ ~callback
      BY <2>7 DEF WakeUp, Busy
    <3> QED BY <1>1, <1>2, <2>5, <3>1
  <2>8. ASSUME NEW l \in Loops, RetryFails(l)
        PROVE  Fate(p)
    <3>1. /\ at[l] \in Busy /\ Release(l) /\ attempts' = attempts
          /\ IF attempts[holds[l]] < MaxRetries THEN Enqueue(holds[l]) ELSE SendToDeadLetter(holds[l])
      BY <2>8 DEF RetryFails, Busy
    <3>2. CASE attempts[holds[l]] < MaxRetries
      BY <1>1, <1>2, <2>5, <3>1, <3>2
    <3>3. CASE ~(attempts[holds[l]] < MaxRetries)
      <4>1. attempts[holds[l]] \in 0..MaxRetries
        BY <1>3, <3>1 DEF RecoveryInv, Counted, Handed
      <4>2. attempts[holds[l]] = MaxRetries
        BY <3>3, <4>1
      <4> QED BY <1>1, <1>2, <2>5, <3>1, <3>3, <4>2
    <3> QED BY <3>2, <3>3
  <2>9. ASSUME NEW l \in Loops, RetrySucceeds(l)
        PROVE  (Kept(p) => Kept(p)') /\ dead' = dead
    <3>1. /\ done' = done \cup {holds[l]} /\ holds' = [holds EXCEPT ![l] = None]
          /\ UNCHANGED <<queue, dead>>
      BY <2>9 DEF RetrySucceeds, Release
    <3>2. Held(p) => Held(p)' \/ p = holds[l]
      BY <1>3, <3>1 DEF Held, RecoveryInv, Handed
    <3> QED BY <1>1, <1>2, <3>1, <3>2
  <2> DEFINE Calm == queue' = queue /\ dead' = dead /\ done' = done /\ holds' = holds
  <2>10. ASSUME SetRetryCallback \/ Start \/ \E l \in Loops : NoticeStop(l) PROVE Calm
    BY <2>10 DEF SetRetryCallback, Start, NoticeStop, orderVars, loopVars
  <2>11. ASSUME NEW l \in Loops, BackOff(l), queue' = queue /\ dead' = dead
         PROVE  Fate(p)
    <3>1. CASE attempts[holds[l]] >= MaxRetries
      <4>1. at[l] \in Busy /\ Release(l) /\ SendToDeadLetter(holds[l])
        BY <2>11, <3>1 DEF BackOff, Busy
      <4> QED BY <1>1, <1>2, <2>5, <2>11, <4>1
    <3>2. CASE ~(attempts[holds[l]] >= MaxRetries)
      BY <2>1, <2>11, <3>2, <1>1, <1>2 DEF BackOff
    <3> QED BY <3>1, <3>2
  <2>12. ASSUME NEW l \in Loops, WakeUp(l), queue' = queue /\ dead' = dead
         PROVE  Fate(p)
    <3>1. CASE ~callback
      <4>1. at[l] \in Busy /\ Release(l) /\ SendToDeadLetter(holds[l])
        BY <2>12, <3>1 DEF WakeUp, Busy
      <4> QED BY <1>1, <1>2, <2>5, <2>12, <4>1
    <3>2. CASE callback
      BY <2>1, <2>12, <3>2, <1>1, <1>2 DEF WakeUp
    <3> QED BY <3>1, <3>2
  <2>13. ASSUME NEW l \in Loops, LoopStep(l) PROVE Fate(p)
    <3>1. CASE NoticeStop(l)
      BY <1>1, <1>2, <2>1, <2>10, <3>1
    <3>2. CASE Take(l)
      BY <1>1, <1>2, <2>4, <3>2
    <3>3. CASE RetrySucceeds(l)
      BY <1>1, <1>2, <2>9, <3>3
    <3> QED BY <2>6, <2>7, <2>8, <2>11, <2>12, <2>13, <3>1, <3>2, <3>3 DEF LoopStep
  <2>14. ASSUME NEW o \in Orders, HandleFailure(o) PROVE Fate(p)
    BY <1>1, <1>2, <2>2, <2>14
  <2>15. CASE Stop
    BY <1>1, <1>2, <2>3, <2>15
  <2>16. CASE SetRetryCallback \/ Start
    BY <1>1, <1>2, <2>1, <2>10, <2>16
  <2> QED BY <1>1, <1>2, <1>3, <2>13, <2>14, <2>15, <2>16 DEF RecoveryNext
<1>4. RecoveryInv /\ [RecoveryNext]_recoveryVars => [\A o \in Orders : Fate(o)]_recoveryVars
  BY <1>3
<1>5. RecoverySpec => []RecoveryInv
  BY RecoveryStarts, RecoveryKeeps, PTL DEF RecoverySpec
<1> QED BY <1>4, <1>5, PTL DEF RecoverySpec, LostOnlyByStopOrOverflow, Dropped
=============================================================================
