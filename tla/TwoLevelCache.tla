---------------------------- MODULE TwoLevelCache ----------------------------
(***************************************************************************)
(* backend/core/cache.py: an in-process LRU (L1) in front of Redis (L2).   *)
(* The L1 lock is never held over an await, so an L1 operation is one step *)
(* with the code around it; a request to Redis is executed some time after *)
(* it was sent, and its answer used later still.  Values are versions, and *)
(* every set() takes the default times to live.                            *)
(***************************************************************************)
EXTENDS Integers, Sequences, SequencesExt

CONSTANTS Keys, Values,
          Users,        \* tasks that use the cache
          L1Size,       \* l1_size
          L1Ttl,        \* l1_ttl, in ticks
          Miss          \* None

ASSUME CacheAssumption == /\ L1Size \in Nat \ {0} /\ L1Ttl \in Nat
                          /\ Keys # {} /\ Miss \notin Values

VARIABLES
    l1,         \* _l1._store: entries [key, value, age], least recently used first
    l2,         \* what Redis holds
    op,         \* op[u]: the call a task is in, and how far
    certain     \* certain[k]: the value of the last write, when it ran alone

cacheVars == <<l1, l2, op, certain>>

Idle  == [at |-> "idle", key |-> CHOOSE k \in Keys : TRUE, value |-> Miss]
Calls == [at : {"idle", "l2get", "refill", "l2set", "l2delete"}, key : Keys, value : Values \cup {Miss}]

Entries == [key : Keys, value : Values, age : 0..L1Ttl + 1]

CacheTypeOK ==
    /\ l1 \in Seq(Entries)
    /\ Len(l1) <= L1Size
    /\ \A i, j \in 1..Len(l1) : l1[i].key = l1[j].key => i = j
    /\ l2 \in [Keys -> Values \cup {Miss}]
    /\ op \in [Users -> Calls]
    /\ certain \in [Keys -> Values \cup {Miss, "unknown"}]

CacheInit == /\ l1 = <<>>
             /\ l2 = [k \in Keys |-> Miss]
             /\ op = [u \in Users |-> Idle]
             /\ certain = [k \in Keys |-> "unknown"]
-----------------------------------------------------------------------------
(* LRUCache: the store is a dict, so a key has at most one place in it.    *)
Places(k)   == {i \in 1..Len(l1) : l1[i].key = k}
Without(k)  == IF Places(k) = {} THEN l1 ELSE RemoveAt(l1, CHOOSE i \in Places(k) : TRUE)
Entry(k)    == {e \in ToSet(l1) : e.key = k}
Fresh(k)    == {e \in Entry(k) : L1Ttl # 0 => e.age <= L1Ttl}    \* 0: no expiry

Stored(k, v) == LET all == Append(Without(k), [key |-> k, value |-> v, age |-> 0])
                IN  IF Len(all) > L1Size THEN Tail(all) ELSE all

Call(u, at, k, v) == op' = [op EXCEPT ![u] = [at |-> at, key |-> k, value |-> v]]
Return(u)         == op' = [op EXCEPT ![u] = Idle]

Others(u, k) == {w \in Users \ {u} : op[w].at # "idle" /\ op[w].key = k}

(* A write makes the key certain unless another call on it is on its way.  *)
Writes(u, k, v) ==
    certain' = [certain EXCEPT ![k] = IF Others(u, k) = {} THEN v ELSE "unknown"]

(* A call that begins during a write blurs it.                             *)
Blur(u, k) ==
    certain' = [certain EXCEPT ![k] =
                   IF \E w \in Others(u, k) : op[w].at \in {"l2set", "l2delete"}
                   THEN "unknown" ELSE certain[k]]
-----------------------------------------------------------------------------
(* TwoLevelCache                                                           *)
GetHit(u, k) == /\ op[u].at = "idle"
                /\ \E e \in Fresh(k) : l1' = Append(Without(k), e)
                /\ UNCHANGED <<l2, op, certain>>

GetMiss(u, k) == /\ op[u].at = "idle"
                 /\ Fresh(k) = {}
                 /\ l1' = Without(k)
                 /\ Call(u, "l2get", k, Miss)
                 /\ Blur(u, k)
                 /\ UNCHANGED l2

(* Redis answers, or fails, which counts as a miss.                        *)
RedisGets(u) ==
    /\ op[u].at = "l2get"
    /\ \/ l2[op[u].key] # Miss /\ Call(u, "refill", op[u].key, l2[op[u].key])
       \/ Return(u)
    /\ UNCHANGED <<l1, l2, certain>>

Refill(u) == /\ op[u].at = "refill"
             /\ l1' = Stored(op[u].key, op[u].value)
             /\ Return(u)
             /\ UNCHANGED <<l2, certain>>

Set(u, k, v) == /\ op[u].at = "idle"
                /\ l1' = Stored(k, v)
                /\ Call(u, "l2set", k, v)
                /\ Writes(u, k, v)
                /\ UNCHANGED l2

\* only Redis forgets the key
MutDelete(u, k) == /\ op[u].at = "idle"
                   /\ Call(u, "l2delete", k, Miss)
                   /\ Writes(u, k, Miss)
                   /\ UNCHANGED <<l1, l2>>

Delete(u, k) == /\ op[u].at = "idle"
                /\ l1' = Without(k)
                /\ Call(u, "l2delete", k, Miss)
                /\ Writes(u, k, Miss)
                /\ UNCHANGED l2

RedisWrites(u) ==
    /\ op[u].at \in {"l2set", "l2delete"}
    /\ l2' = [l2 EXCEPT ![op[u].key] = op[u].value]
    /\ Return(u)
    /\ UNCHANGED <<l1, certain>>

(* The error is logged and the call returns as if it had succeeded.        *)
RedisFails(u) ==
    /\ op[u].at \in {"l2set", "l2delete"}
    /\ certain' = [certain EXCEPT ![op[u].key] = "unknown"]
    /\ Return(u)
    /\ UNCHANGED <<l1, l2>>

RedisForgets(k) == /\ l2[k] # Miss
                   /\ l2' = [l2 EXCEPT ![k] = Miss]
                   /\ UNCHANGED <<l1, op, certain>>

Aged(e, most) == [key |-> e.key, value |-> e.value,
                  age |-> IF e.age < most THEN e.age + 1 ELSE e.age]

\* nothing in L1 ever expires
MutCacheTick == /\ \E i \in 1..Len(l1) : l1[i].age < L1Ttl
                /\ l1' = [i \in 1..Len(l1) |-> Aged(l1[i], L1Ttl)]
                /\ UNCHANGED <<l2, op, certain>>

CacheTick == /\ \E i \in 1..Len(l1) : l1[i].age <= L1Ttl
             /\ l1' = [i \in 1..Len(l1) |-> Aged(l1[i], L1Ttl + 1)]
             /\ UNCHANGED <<l2, op, certain>>

Answer(u) == RedisGets(u) \/ Refill(u) \/ RedisWrites(u) \/ RedisFails(u)

CacheNext == \/ \E u \in Users, k \in Keys :
                   \/ GetHit(u, k) \/ GetMiss(u, k) \/ Delete(u, k)
                   \/ \E v \in Values : Set(u, k, v)
             \/ \E u \in Users : Answer(u)
             \/ \E k \in Keys : RedisForgets(k)
             \/ CacheTick

CacheSpec == CacheInit /\ [][CacheNext]_cacheVars
-----------------------------------------------------------------------------
(* After a set() or delete() that no other call on the key overlapped and  *)
(* that Redis carried out, nobody reads an older value from either level,  *)
(* although neither call is atomic (cache.py:176-206).                     *)
LoneWriteIsSeen ==
    /\ CacheTypeOK
    /\ \A k \in Keys : certain[k] # "unknown" =>
          /\ \A e \in Entry(k) : e.value = certain[k]
          /\ \/ l2[k] \in {certain[k], Miss}
             \/ \E u \in Users : op[u].key = k /\ op[u].at \in {"l2set", "l2delete"}

Writing == \E u \in Users : op[u].at \in {"l2set", "l2delete"}

(* A value that a late reader put back into L1 after it was overwritten    *)
(* does not stay: once nobody writes, L1 and Redis come to agree.          *)
LevelsConverge ==
    <>[]~Writing =>
        <>[](\A k \in Keys : \A e \in Fresh(k) : l2[k] \in {e.value, Miss})
=============================================================================
