---------------------------- MODULE KeyRotation ----------------------------
(***************************************************************************)
(* backend/core/secret_rotation.py: the signing keys of one type, those of *)
(* every tenant and those of none.  The key store locks each of its        *)
(* operations, and the manager strings them together without a lock of its *)
(* own, so the operations of two threads interleave between them.          *)
(***************************************************************************)
EXTENDS Integers, FiniteSets

CONSTANTS Threads,
          Tenants,
          NoTenant,     \* tenant_id None: the keys that belong to no tenant
          MaxVersions,  \* bound on the versions drawn for each
          MaxKeys       \* bound on the keys of all

ASSUME KeyAssumption == MaxVersions \in Nat /\ NoTenant \notin Tenants

VARIABLES
    drawn,      \* _version_counters
    keyStatus,  \* keyStatus[k] of the stored keys, "absent" of the others
    grace,      \* "none", "running" or "over": expires_at of k
    call,       \* call[t]: where thread t is, for whom, and the keys it holds
    served,     \* keys that have been ACTIVE
    revoked,    \* keys that have been REVOKED
    raced,      \* keys some call held when they were revoked
    crossed     \* keys of a tenant that a rotation for none sent to GRACE

keyVars == <<drawn, keyStatus, grace, call, served, revoked, raced, crossed>>

Holders == Tenants \cup {NoTenant}
Keys    == [tenant : Holders, version : 1..MaxVersions]
NoKey   == [tenant |-> NoTenant, version |-> 0]

(* A call for x that holds no key.                                         *)
Began(p, x) == [at |-> p, tenant |-> x, old |-> NoKey, new |-> NoKey]
Idle == Began("idle", NoTenant)

KeyInit == /\ drawn = [x \in Holders |-> 0]
           /\ keyStatus = [k \in Keys |-> "absent"]
           /\ grace = [k \in Keys |-> "none"]
           /\ call = [t \in Threads |-> Idle]
           /\ served = {} /\ revoked = {} /\ raced = {} /\ crossed = {}

Newest(ks) == {k \in ks : \A l \in ks : l.version <= k.version}

(* KeyStore.active_key ranges over every tenant's keys when it is given    *)
(* none.                                                                   *)
ActiveFor(x) == {k \in Keys : keyStatus[k] = "active" /\ x \in {NoTenant, k.tenant}}

Goto(t, c) == call' = [call EXCEPT ![t] = c]
Untouched  == UNCHANGED <<revoked, raced, crossed>>

(* KeyStore.update_status to REVOKED, of a stored key.                     *)
SetRevoked(k) ==
    /\ keyStatus[k] # "absent"
    /\ keyStatus' = [keyStatus EXCEPT ![k] = "revoked"]
    /\ revoked' = revoked \cup {k}
    /\ raced' = IF \E t \in Threads : call[t].old = k THEN raced \cup {k} ELSE raced
    /\ UNCHANGED <<drawn, grace, served, crossed>>

(* revoke_key, and report_compromise, which goes on to rotate_key for the  *)
(* tenant of the key.                                                      *)
Revoke(k) == SetRevoked(k) /\ UNCHANGED call

ReportCompromise(t, k) == /\ call[t] = Idle
                          /\ SetRevoked(k)
                          /\ Goto(t, Began("read", k.tenant))
-----------------------------------------------------------------------------
(* rotate_key, which scan_due, auto_rotate_all and bulk_rotate call too:   *)
(* it reads the newest ACTIVE key there is for its tenant (max() takes the *)
(* first of several, which may be any), ...                                *)
BeginRotate(t, x) == /\ call[t] = Idle
                     /\ Goto(t, Began("read", x))
                     /\ UNCHANGED <<drawn, keyStatus, grace, served>> /\ Untouched

ReadActive(t) ==
    /\ call[t].at = "read"
    /\ \E k \in IF ActiveFor(call[t].tenant) = {} THEN {NoKey}
                 ELSE Newest(ActiveFor(call[t].tenant)) :
          Goto(t, [call[t] EXCEPT !.at = "draw", !.old = k])
    /\ UNCHANGED <<drawn, keyStatus, grace, served>> /\ Untouched

(* The model's bound on drawing a version for x.                           *)
MayDraw(x) == /\ drawn[x] < MaxVersions
              /\ Cardinality({k \in Keys : k.version <= drawn[k.tenant]}) < MaxKeys

NextKey(x) == [tenant |-> x, version |-> drawn[x] + 1]

(* A mutant: the old key goes to GRACE before the new one is there.        *)
MutDraw(t, from, to) ==
    LET x == call[t].tenant
    IN  /\ call[t].at = from /\ MayDraw(x)
        /\ drawn' = [drawn EXCEPT ![x] = @ + 1]
        /\ Goto(t, [call[t] EXCEPT !.at = to, !.new = NextKey(x)])
        /\ keyStatus' = [k \in Keys |-> IF k = call[t].old THEN "grace" ELSE keyStatus[k]]
        /\ UNCHANGED <<grace, served>> /\ Untouched

(* ... draws a version of its tenant (_next_version), ...                  *)
Draw(t, from, to) ==
    LET x == call[t].tenant
    IN  /\ call[t].at = from /\ MayDraw(x)
        /\ drawn' = [drawn EXCEPT ![x] = @ + 1]
        /\ Goto(t, [call[t] EXCEPT !.at = to, !.new = NextKey(x)])
        /\ UNCHANGED <<keyStatus, grace, served>> /\ Untouched

(* ... adds the new key as ACTIVE, ...                                     *)
AddActive(t) ==
    /\ call[t].at = "add"
    /\ keyStatus' = [keyStatus EXCEPT ![call[t].new] = "active"]
    /\ served' = served \cup {call[t].new}
    /\ Goto(t, IF call[t].old = NoKey THEN Idle ELSE [call[t] EXCEPT !.at = "demote"])
    /\ UNCHANGED <<drawn, grace>> /\ Untouched

(* ... sends the old key to GRACE, whoever's it is and whatever it has     *)
(* become since, and writes when its grace ends.                           *)
Demote(t) ==
    /\ call[t].at = "demote"
    /\ keyStatus' = [keyStatus EXCEPT ![call[t].old] = "grace"]
    /\ crossed' = IF call[t].tenant = call[t].old.tenant THEN crossed
                  ELSE crossed \cup {call[t].old}
    /\ Goto(t, [call[t] EXCEPT !.at = "stamp"])
    /\ UNCHANGED <<drawn, grace, served, revoked, raced>>

Stamp(t) ==
    /\ call[t].at = "stamp"
    /\ grace' = [grace EXCEPT ![call[t].old] = "running"]
    /\ Goto(t, Idle)
    /\ UNCHANGED <<drawn, keyStatus, served>> /\ Untouched
-----------------------------------------------------------------------------
(* generate_key: activated at once, or PENDING until activate_key.         *)
Generate(t, x, activate) ==
    /\ call[t] = Idle
    /\ Goto(t, Began(IF activate THEN "draw" ELSE "drawPending", x))
    /\ UNCHANGED <<drawn, keyStatus, grace, served>> /\ Untouched

AddPending(t) == /\ call[t].at = "addPending"
                 /\ keyStatus' = [keyStatus EXCEPT ![call[t].new] = "pending"]
                 /\ Goto(t, Idle)
                 /\ UNCHANGED <<drawn, grace, served>> /\ Untouched

(* activate_key: the check, and then the store's update.                   *)
CheckPending(t, k) == /\ call[t] = Idle /\ keyStatus[k] = "pending"
                      /\ Goto(t, [Idle EXCEPT !.at = "activate", !.old = k])
                      /\ UNCHANGED <<drawn, keyStatus, grace, served>> /\ Untouched

SetActive(t) == /\ call[t].at = "activate"
                /\ keyStatus' = [keyStatus EXCEPT ![call[t].old] = "active"]
                /\ served' = served \cup {call[t].old}
                /\ Goto(t, Idle)
                /\ UNCHANGED <<drawn, grace>> /\ Untouched
-----------------------------------------------------------------------------
(* expire_grace_keys: a key whose grace is over, and then its update.      *)
FindOver(t, k) == /\ call[t] = Idle /\ keyStatus[k] = "grace" /\ grace[k] = "over"
                  /\ Goto(t, [Idle EXCEPT !.at = "expire", !.old = k])
                  /\ UNCHANGED <<drawn, keyStatus, grace, served>> /\ Untouched

SetExpired(t) == /\ call[t].at = "expire"
                 /\ keyStatus' = [keyStatus EXCEPT ![call[t].old] = "expired"]
                 /\ Goto(t, Idle)
                 /\ UNCHANGED <<drawn, grace, served>> /\ Untouched

(* GracePeriodExtender.extend, and time.                                   *)
Extend(k) == /\ keyStatus[k] = "grace"
             /\ grace' = [grace EXCEPT ![k] = "running"]
             /\ UNCHANGED <<drawn, keyStatus, call, served>> /\ Untouched

GraceEnds(k) == /\ grace[k] = "running"
                /\ grace' = [grace EXCEPT ![k] = "over"]
                /\ UNCHANGED <<drawn, keyStatus, call, served>> /\ Untouched

KeyNext ==
    \/ \E t \in Threads :
        \/ ReadActive(t) \/ Draw(t, "draw", "add") \/ AddActive(t)
        \/ Demote(t) \/ Stamp(t)
        \/ \E x \in Holders :
              BeginRotate(t, x) \/ \E activate \in BOOLEAN : Generate(t, x, activate)
        \/ Draw(t, "drawPending", "addPending") \/ AddPending(t) \/ SetActive(t) \/ SetExpired(t)
        \/ \E k \in Keys : ReportCompromise(t, k) \/ CheckPending(t, k) \/ FindOver(t, k)
    \/ \E k \in Keys : Revoke(k) \/ Extend(k) \/ GraceEnds(k)

KeySpec == KeyInit /\ [][KeyNext]_keyVars
-----------------------------------------------------------------------------
Stands(k) == keyStatus[k] = "active" \/ k \in revoked

NewestOf(x) == Newest({k \in served : k.tenant = x})

(* "Zero-downtime" (line 506), tenant by tenant: once a key of x has been  *)
(* ACTIVE, the newest one that has is ACTIVE still unless somebody revoked *)
(* it, however rotations overlap - or, for a tenant, unless a rotation for *)
(* no tenant took it (line 396).  And a revoked key comes back only        *)
(* through a call that had read it before: nothing else revives it.        *)
RotationServes ==
    /\ \A k \in NewestOf(NoTenant) : Stands(k)
    /\ \A x \in Tenants : \A k \in NewestOf(x) : Stands(k) \/ k \in crossed
    /\ \A k \in revoked : keyStatus[k] = "revoked" \/ k \in raced

-----------------------------------------------------------------------------
(* A statement of the repository the code does not meet.                   *)

(* test_T109_different_tenants_isolated: what is done for others leaves a  *)
(* tenant its newest key.                                                  *)
TenantsAreIsolated == \A x \in Tenants : \A k \in NewestOf(x) : Stands(k)
=============================================================================
