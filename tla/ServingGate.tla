----------------------------- MODULE ServingGate -----------------------------
(***************************************************************************)
(* The fail-closed decision gate of sync/tenant_serving_gate.go.           *)
(*                                                                         *)
(* One gate guards every authorization decision of an SDK instance.  It    *)
(* opens for at most MaxLease time units per accepted ACTIVE frame and     *)
(* closes for the rest of the process lifetime on a RESTRICTED frame.      *)
(* Renew reads the clock and checks the frame BEFORE it takes the mutex,   *)
(* so it is two steps here; every other method runs under the mutex and is *)
(* one step.  The module puts no trust in its callers: any update may be   *)
(* passed by any caller in any order.                                      *)
(***************************************************************************)
EXTENDS Integers

CONSTANTS
    Tenants,      \* canonical tenant identifiers
    NoTenant,     \* the empty tenant ID
    Callers,      \* goroutines that may be inside Renew at the same time
    Challenges,   \* stream challenges
    Authorities,  \* everything of a restriction but its epoch
    MaxEpoch,     \* bound on restriction epochs
    MaxLease,     \* maxServingLease, in clock units
    MaxTime,      \* bound on the clock
    MaxStarts     \* bound on process starts

ASSUME GateAssumption ==
    /\ NoTenant \notin Tenants
    /\ MaxEpoch \in Nat
    /\ MaxLease \in Nat \ {0}
    /\ MaxTime \in Nat \ {0}
    /\ MaxStarts \in Nat

VARIABLES
    now,             \* the clock g.now() reads; it starts at 1
    tenantID,        \* g.tenantID
    leaseExpiresAt,  \* g.leaseExpiresAt; 0 is time.Time{}
    restriction,     \* g.restriction: a set of at most one TenantServingRestriction
    renewing,        \* per caller: the Renew that passed its checks and waits for g.mu
    starts           \* process starts so far

gateVars == <<now, tenantID, leaseExpiresAt, restriction, renewing, starts>>

Restrictions == [epoch: 1..MaxEpoch, authority: Authorities]

\* An ACTIVE update.  wellFormed stands for the checks on fields no other check
\* looks at: no restriction field is set and the expiration is a valid timestamp.
ActiveUpdates ==
    [wellFormed: BOOLEAN, challenge: Challenges, expiresAt: 1..(MaxTime + MaxLease + 1)]

\* A RESTRICTED update.  wellFormed: no lease field, identifiers that parse, a
\* positive ordinal and a known reason.
RestrictedUpdates ==
    [wellFormed: BOOLEAN, epoch: 0..MaxEpoch, authority: Authorities]

Idle == [busy |-> FALSE]
Pending == [busy: {TRUE}, tenant: Tenants, expiresAt: Nat]

(***************************************************************************)
(* Operations                                                              *)
(***************************************************************************)

\* requireTenantLocked: an unbound gate refuses everyone, the empty tenant ID
\* matches any bound gate.
requireTenant(t) ==
    /\ tenantID # NoTenant
    /\ t \in {NoTenant, tenantID}

\* RequireActive returns nil.
RequireActive(t) ==
    /\ requireTenant(t)
    /\ restriction = {}
    /\ now < leaseExpiresAt

\* NewTenantServingGate, in a new process.
NewTenantServingGate ==
    /\ tenantID' = NoTenant
    /\ leaseExpiresAt' = 0
    /\ restriction' = {}
    /\ renewing' = [c \in Callers |-> Idle]

BindTenant(t) ==
    /\ tenantID \in {NoTenant, t}
    /\ tenantID' = t
    /\ UNCHANGED <<now, leaseExpiresAt, restriction, renewing, starts>>

\* Fault: Renew without the challenge comparison.
RenewAcceptsAnyChallenge(expectedChallenge, u) ==
    u.wellFormed /\ now < u.expiresAt /\ u.expiresAt <= now + MaxLease

\* The part of Renew that runs before g.mu.Lock: the frame's own fields and the
\* allowed window of its expiration.
RenewAccepts(expectedChallenge, u) ==
    /\ u.wellFormed
    /\ u.challenge = expectedChallenge
    /\ now < u.expiresAt
    /\ u.expiresAt <= now + MaxLease

\* Fault: the lease runs from the receipt of the frame, not to its expiration.
RenewCheckFromReceipt(c, t, expectedChallenge, u) ==
    /\ ~renewing[c].busy
    /\ RenewAccepts(expectedChallenge, u)
    /\ renewing' = [renewing EXCEPT ![c] =
                       [busy |-> TRUE, tenant |-> t, expiresAt |-> now + MaxLease]]
    /\ UNCHANGED <<now, tenantID, leaseExpiresAt, restriction, starts>>

RenewCheck(c, t, expectedChallenge, u) ==
    /\ ~renewing[c].busy
    /\ RenewAccepts(expectedChallenge, u)
    /\ renewing' = [renewing EXCEPT ![c] =
                       [busy |-> TRUE, tenant |-> t, expiresAt |-> u.expiresAt]]
    /\ UNCHANGED <<now, tenantID, leaseExpiresAt, restriction, starts>>

\* Fault: the restriction is not looked at again under the mutex.
RenewSucceedsRestricted(c) == requireTenant(renewing[c].tenant)

\* The part of Renew under the mutex: whether it succeeds, and its effect.
RenewSucceeds(c) ==
    /\ requireTenant(renewing[c].tenant)
    /\ restriction = {}

RenewLocked(c) ==
    /\ renewing[c].busy
    /\ leaseExpiresAt' = IF RenewSucceeds(c) THEN renewing[c].expiresAt ELSE leaseExpiresAt
    /\ renewing' = [renewing EXCEPT ![c] = Idle]
    /\ UNCHANGED <<now, tenantID, restriction, starts>>

restrictionFromUpdate(u) == [epoch |-> u.epoch, authority |-> u.authority]

RestrictionValid(u) == u.wellFormed /\ u.epoch >= 1

\* Fault: the update that arrives last is taken for the newest.
RestrictionSupersedesLast(r) == \A old \in restriction : r.epoch # old.epoch

\* Restrict replaces what is recorded only by a strictly newer epoch.
RestrictionSupersedes(r) == \A old \in restriction : r.epoch > old.epoch

RestrictSucceeds(t, u) ==
    /\ RestrictionValid(u)
    /\ requireTenant(t)
    /\ \A old \in restriction : u.epoch = old.epoch => restrictionFromUpdate(u) = old

Restrict(t, u) ==
    /\ RestrictSucceeds(t, u)
    /\ LET r == restrictionFromUpdate(u)
       IN  IF RestrictionSupersedes(r)
             THEN restriction' = {r} /\ leaseExpiresAt' = 0
             ELSE UNCHANGED <<restriction, leaseExpiresAt>>
    /\ UNCHANGED <<now, tenantID, renewing, starts>>

Tick ==
    /\ now < MaxTime
    /\ now' = now + 1
    /\ UNCHANGED <<tenantID, leaseExpiresAt, restriction, renewing, starts>>

\* The process ends at any moment and a new one builds a new gate.
StartProcess ==
    /\ starts < MaxStarts
    /\ starts' = starts + 1
    /\ NewTenantServingGate
    /\ UNCHANGED now

(***************************************************************************)
(* Specification                                                           *)
(***************************************************************************)

GateInit ==
    /\ now = 1
    /\ tenantID = NoTenant
    /\ leaseExpiresAt = 0
    /\ restriction = {}
    /\ renewing = [c \in Callers |-> Idle]
    /\ starts = 1

GateNext ==
    \/ Tick
    \/ StartProcess
    \/ \E t \in Tenants : BindTenant(t)
    \/ \E c \in Callers, t \in Tenants, ch \in Challenges, u \in ActiveUpdates :
          RenewCheck(c, t, ch, u)
    \/ \E c \in Callers : RenewLocked(c)
    \/ \E t \in Tenants, u \in RestrictedUpdates : Restrict(t, u)

GateSpec == GateInit /\ [][GateNext]_gateVars

(***************************************************************************)
(* Properties                                                              *)
(***************************************************************************)

\* Every variable has the shape the Go struct gives it.
GateTypeOK ==
    /\ now \in 1..MaxTime
    /\ tenantID \in Tenants \cup {NoTenant}
    /\ leaseExpiresAt \in Nat
    /\ restriction \in SUBSET Restrictions
    /\ renewing \in [Callers -> {Idle} \cup Pending]
    /\ starts \in Nat

\* A restricted gate holds no lease, and holds one restriction: Restrict drops
\* the lease and a Renew that was already past its checks when Restrict ran must
\* not bring one back (tenant_serving_gate.go:113, :145).
RestrictionHoldsNoLease ==
    /\ restriction # {} => leaseExpiresAt = 0
    /\ \A r, s \in restriction : r = s

\* No lease outlives the moment by more than MaxLease, however long a Renew
\* waited for the mutex between reading the clock and storing the expiration
\* (tenant_serving_gate.go:102-116).
LeaseWithinWindow == leaseExpiresAt <= now + MaxLease

\* Within one process a restriction is never dropped, never replaced by an older
\* epoch, and never replaced by another authority at the same epoch, in whatever
\* order the streams bring the RESTRICTED frames of several epochs and the ACTIVE
\* frames between them (tenant_serving_gate.go:47-49, :133-143); and the bound
\* tenant never changes.
AuthorityIsSticky ==
    [][ starts' = starts =>
          /\ \A r \in restriction : \E s \in restriction' :
                s = r \/ s.epoch > r.epoch
          /\ tenantID # NoTenant => tenantID' = tenantID ]_gateVars
=============================================================================
