-------------------------- MODULE RefreshRotation --------------------------
(***************************************************************************)
(* backend/core/refresh_rotation.py: refresh tokens that are exchanged for *)
(* a successor once.  Every operation is synchronous and one step.  A      *)
(* token is its position in the order of issue; all live equally long, so  *)
(* the expired ones are always a prefix.                                   *)
(***************************************************************************)
EXTENDS Integers, Sequences, FiniteSets

CONSTANTS Owners,       \* user ids
          MaxSessions,  \* max_sessions
          MaxTokens     \* bound on the tokens ever issued

ASSUME RefreshAssumption == MaxSessions \in Nat \ {0} /\ MaxTokens \in Nat

VARIABLES
    tokens,     \* the records ever made: [user, family, from, used]
    store,      \* positions of those still in _store
    stale,      \* tokens 1..stale have expired
    ended       \* families revoked for reuse or with their user

refreshVars == <<tokens, store, stale, ended>>

RefreshInit == tokens = <<>> /\ store = {} /\ stale = 0 /\ ended = {}

Live(ts, u) == {n \in store : ts[n].user = u /\ ~ts[n].used /\ n > stale}

Oldest(ns) == CHOOSE n \in ns : \A m \in ns : n <= m

(* issue() for user u with the records ts: over the limit, the oldest      *)
(* session makes room.  The first token of a family names it.              *)
Issued(ts, u, family, from) ==
    LET live  == Live(ts, u)
        evict == IF Cardinality(live) >= MaxSessions /\ live # {} THEN {Oldest(live)} ELSE {}
        n     == Len(ts) + 1
    IN  /\ n <= MaxTokens
        /\ tokens' = Append(ts, [user |-> u, family |-> IF family = 0 THEN n ELSE family,
                                 from |-> from, used |-> FALSE])
        /\ store' = (store \ evict) \cup {n}

Issue(u) == Issued(tokens, u, 0, 0) /\ UNCHANGED <<stale, ended>>

(* A mutant: the presented token is not marked as used.                    *)
MutExchange(n) ==
    /\ n \in store /\ n > stale /\ ~tokens[n].used
    /\ Issued(tokens, tokens[n].user, tokens[n].family, n)
    /\ UNCHANGED <<stale, ended>>

(* rotate() of a token that is there, fresh and unused ...                 *)
Exchange(n) ==
    /\ n \in store /\ n > stale /\ ~tokens[n].used
    /\ Issued([tokens EXCEPT ![n].used = TRUE], tokens[n].user, tokens[n].family, n)
    /\ UNCHANGED <<stale, ended>>

(* ... of one that was exchanged before: _revoke_family() ...              *)
Reuse(n) ==
    /\ n \in store /\ n > stale /\ tokens[n].used
    /\ store' = {m \in store : tokens[m].family # tokens[n].family}
    /\ ended' = ended \cup {tokens[n].family}
    /\ UNCHANGED <<tokens, stale>>

(* ... and of one that is too old.                                         *)
PresentExpired(n) ==
    /\ n \in store /\ n <= stale
    /\ store' = store \ {n}
    /\ UNCHANGED <<tokens, stale, ended>>

RevokeUser(u) ==
    /\ store' = {n \in store : tokens[n].user # u}
    /\ ended' = ended \cup {tokens[n].family : n \in {m \in DOMAIN tokens : tokens[m].user = u}}
    /\ UNCHANGED <<tokens, stale>>

RevokeToken(n) ==
    /\ n \in store
    /\ store' = store \ {n}
    /\ UNCHANGED <<tokens, stale, ended>>

PurgeExpired ==
    /\ store' = {n \in store : n > stale}
    /\ UNCHANGED <<tokens, stale, ended>>

(* Time passes: the oldest token that has not expired does.                *)
Expire == /\ stale < Len(tokens) /\ stale' = stale + 1
          /\ UNCHANGED <<tokens, store, ended>>

RefreshNext ==
    \/ \E u \in Owners : Issue(u) \/ RevokeUser(u)
    \/ \E n \in store : Exchange(n) \/ Reuse(n) \/ PresentExpired(n) \/ RevokeToken(n)
    \/ PurgeExpired \/ Expire

RefreshSpec == RefreshInit /\ [][RefreshNext]_refreshVars
-----------------------------------------------------------------------------
(* A session is one chain of tokens: a token is exchanged at most once, a  *)
(* family has at most one unused token, a user at most max_sessions of     *)
(* them, and a family ended by a reuse or with its user stays ended,       *)
(* whatever was issued, evicted, purged or expired in between.             *)
OneChainPerSession ==
    /\ \A m, n \in DOMAIN tokens : tokens[m].from = tokens[n].from => m = n \/ tokens[n].from = 0
    /\ \A m, n \in {k \in store : ~tokens[k].used} :
           tokens[m].family = tokens[n].family => m = n
    /\ \A u \in Owners : Cardinality(Live(tokens, u)) <= MaxSessions
    /\ \A n \in store : tokens[n].family \notin ended
=============================================================================
