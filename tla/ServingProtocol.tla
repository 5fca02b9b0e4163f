--------------------------- MODULE ServingProtocol ---------------------------
(***************************************************************************)
(* The serving gate driven by the mutation streams of sync/sync.go and by  *)
(* the control plane's serving authority.                                  *)
(*                                                                         *)
(* Every stream opens with a fresh random challenge (stream,               *)
(* newServingChallenge); the control plane mints ACTIVE frames that answer *)
(* the challenge of an open stream while the tenant is unrestricted, and   *)
(* RESTRICTED frames once it is restricted.  Frames stay in the network    *)
(* for ever: one may be delivered late, on another stream, more than once  *)
(* or never.  A frame the gate refuses ends its stream (stream returns     *)
(* tokenRefused), and the process may restart at any moment.               *)
(***************************************************************************)
EXTENDS ServingGate, FiniteSets

CONSTANTS
    Skew,           \* the control plane's clock minus the SDK's
    MaxChallenges,  \* bound on challenges drawn
    MaxFrames       \* bound on minted frames

ASSUME ProtocolAssumption ==
    /\ Skew \in Int
    /\ MaxChallenges \in Nat
    /\ 1..MaxChallenges \subseteq Challenges
    /\ MaxFrames \in Nat

VARIABLES
    issued,        \* number of challenges drawn so far; each is fresh
    openedAt,      \* per challenge drawn: when its stream was opened
    stream,        \* per caller: the challenge of its open stream, 0 when closed
    orgID,         \* per caller: the sync client's tenant
    frames,        \* every frame minted so far
    restrictedAt,  \* control plane, per tenant: when it was first restricted, 0 if never
    epoch,         \* control plane, per tenant: latest restriction epoch
    carried        \* per caller: what the Renew in flight was minted and carried by

\* History: where the lease in force came from, and when the process started.
VARIABLES leaseFrom, startedAt

protocolVars ==
    <<issued, openedAt, stream, orgID, frames, restrictedAt, epoch, carried, leaseFrom, startedAt>>
vars == <<gateVars, protocolVars>>

ActiveFrame(t, ch, exp) ==
    [kind |-> "active", tenant |-> t, mintedAt |-> now,
     update |-> [wellFormed |-> TRUE, challenge |-> ch, expiresAt |-> exp]]

RestrictedFrame(t, e, a) ==
    [kind |-> "restricted", tenant |-> t, mintedAt |-> now,
     update |-> [wellFormed |-> TRUE, epoch |-> e, authority |-> a]]

NoProvenance == [mintedAt |-> 0, openedAt |-> 0]

(***************************************************************************)
(* The control plane (external)                                            *)
(***************************************************************************)

\* Its clock runs Skew ahead of the SDK's, and it grants at most MaxLease.
LeaseExpirations == (now + Skew + 1)..(now + Skew + MaxLease)

MintLease(c, exp) ==
    /\ stream[c] # 0
    /\ restrictedAt[orgID[c]] = 0
    /\ Cardinality(frames) < MaxFrames
    /\ frames' = frames \cup {ActiveFrame(orgID[c], stream[c], exp)}
    /\ UNCHANGED <<gateVars, issued, openedAt, stream, orgID, restrictedAt, epoch, carried, leaseFrom, startedAt>>

RestrictTenant(t, a) ==
    /\ epoch[t] < MaxEpoch
    /\ Cardinality(frames) < MaxFrames
    /\ epoch' = [epoch EXCEPT ![t] = @ + 1]
    /\ restrictedAt' = [restrictedAt EXCEPT ![t] = IF @ = 0 THEN now ELSE @]
    /\ frames' = frames \cup {RestrictedFrame(t, epoch[t] + 1, a)}
    /\ UNCHANGED <<gateVars, issued, openedAt, stream, orgID, carried, leaseFrom, startedAt>>

(***************************************************************************)
(* The process                                                             *)
(***************************************************************************)

\* Bootstrap and rebootstrap bind the gate to the tenant of the snapshot before
\* a sync client for that tenant exists; a mismatch fails the bootstrap.
Bootstrap(c, t) ==
    /\ stream[c] = 0
    /\ BindTenant(t)
    /\ orgID' = [orgID EXCEPT ![c] = t]
    /\ UNCHANGED <<issued, openedAt, stream, frames, restrictedAt, epoch, carried, leaseFrom, startedAt>>

OpenStream(c) ==
    /\ stream[c] = 0
    /\ orgID[c] # NoTenant
    /\ issued < MaxChallenges
    /\ issued' = issued + 1
    /\ openedAt' = [n \in 1..(issued + 1) |-> IF n <= issued THEN openedAt[n] ELSE now]
    /\ stream' = [stream EXCEPT ![c] = issued + 1]
    /\ UNCHANGED <<gateVars, orgID, frames, restrictedAt, epoch, carried, leaseFrom, startedAt>>

CloseStream(c) ==
    /\ stream[c] # 0
    /\ ~renewing[c].busy
    /\ stream' = [stream EXCEPT ![c] = 0]
    /\ UNCHANGED <<gateVars, issued, openedAt, orgID, frames, restrictedAt, epoch, carried, leaseFrom, startedAt>>

\* applyMutation's tenant check, then Renew up to the mutex.
ReceiveActive(c, f) ==
    /\ stream[c] # 0
    /\ f.kind = "active"
    /\ f.tenant = orgID[c]
    /\ RenewCheck(c, f.tenant, stream[c], f.update)
    /\ carried' = [carried EXCEPT ![c] =
                      [mintedAt |-> f.mintedAt, openedAt |-> openedAt[stream[c]]]]
    /\ UNCHANGED <<issued, openedAt, stream, orgID, frames, restrictedAt, epoch, leaseFrom, startedAt>>

\* Renew under the mutex; an error ends the stream.
CommitActive(c) ==
    /\ RenewLocked(c)
    /\ leaseFrom' = IF RenewSucceeds(c) THEN carried[c] ELSE leaseFrom
    /\ stream' = IF RenewSucceeds(c) THEN stream ELSE [stream EXCEPT ![c] = 0]
    /\ carried' = [carried EXCEPT ![c] = NoProvenance]
    /\ UNCHANGED <<issued, openedAt, orgID, frames, restrictedAt, epoch, startedAt>>

ReceiveRestricted(c, f) ==
    /\ stream[c] # 0
    /\ ~renewing[c].busy
    /\ f.kind = "restricted"
    /\ f.tenant = orgID[c]
    /\ Restrict(f.tenant, f.update)
    /\ leaseFrom' = IF restriction' # restriction THEN NoProvenance ELSE leaseFrom
    /\ UNCHANGED <<issued, openedAt, stream, orgID, frames, restrictedAt, epoch, carried, startedAt>>

\* A frame for another tenant, an ACTIVE frame Renew's checks refuse or a
\* RESTRICTED frame Restrict refuses: applyMutation fails and the stream ends.
ReceiveRefused(c, f) ==
    /\ stream[c] # 0
    /\ ~renewing[c].busy
    /\ \/ f.tenant # orgID[c]
       \/ f.kind = "active" /\ ~RenewAccepts(stream[c], f.update)
       \/ f.kind = "restricted" /\ ~RestrictSucceeds(f.tenant, f.update)
    /\ stream' = [stream EXCEPT ![c] = 0]
    /\ UNCHANGED <<gateVars, issued, openedAt, orgID, frames, restrictedAt, epoch, carried, leaseFrom, startedAt>>

Restart ==
    /\ StartProcess
    /\ stream' = [c \in Callers |-> 0]
    /\ orgID' = [c \in Callers |-> NoTenant]
    /\ carried' = [c \in Callers |-> NoProvenance]
    /\ leaseFrom' = NoProvenance
    /\ startedAt' = now
    /\ UNCHANGED <<issued, openedAt, frames, restrictedAt, epoch>>

(***************************************************************************)
(* Specification                                                           *)
(***************************************************************************)

Init ==
    /\ GateInit
    /\ issued = 0
    /\ openedAt = [n \in 1..0 |-> 0]
    /\ stream = [c \in Callers |-> 0]
    /\ orgID = [c \in Callers |-> NoTenant]
    /\ frames = {}
    /\ restrictedAt = [t \in Tenants |-> 0]
    /\ epoch = [t \in Tenants |-> 0]
    /\ carried = [c \in Callers |-> NoProvenance]
    /\ leaseFrom = NoProvenance
    /\ startedAt = 1

Next ==
    \/ Tick /\ UNCHANGED protocolVars
    \/ Restart
    \/ \E c \in Callers :
          \/ \E t \in Tenants : Bootstrap(c, t)
          \/ OpenStream(c)
          \/ CloseStream(c)
          \/ \E exp \in LeaseExpirations : MintLease(c, exp)
          \/ CommitActive(c)
          \/ \E f \in frames :
                \/ ReceiveActive(c, f)
                \/ ReceiveRestricted(c, f)
                \/ ReceiveRefused(c, f)
    \/ \E t \in Tenants, a \in Authorities : RestrictTenant(t, a)

Spec == Init /\ [][Next]_vars

(***************************************************************************)
(* Properties                                                              *)
(***************************************************************************)

Provenance == [mintedAt: Nat, openedAt: Nat]

\* Every variable of the composition has its shape.
TypeOK ==
    /\ GateTypeOK
    /\ issued \in 0..MaxChallenges
    /\ openedAt \in [1..issued -> 1..now]
    /\ stream \in [Callers -> 0..issued]
    /\ orgID \in [Callers -> Tenants \cup {NoTenant}]
    /\ restrictedAt \in [Tenants -> 0..now]
    /\ epoch \in [Tenants -> 0..MaxEpoch]
    /\ carried \in [Callers -> Provenance]
    /\ leaseFrom \in Provenance
    /\ startedAt \in 1..now

\* A restriction takes effect within one lease even when no RESTRICTED frame
\* ever arrives: once the control plane has restricted the tenant for MaxLease
\* (plus what its clock runs ahead), RequireActive refuses every decision,
\* whatever frames are delayed, repeated or misdelivered and whether or not the
\* process restarted and forgot the restriction (tenant_serving_gate.go:83-164).
FencedAfterLease ==
    \A t \in Tenants \cup {NoTenant} :
        RequireActive(t) /\ restrictedAt[tenantID] # 0
            => now < restrictedAt[tenantID] + Skew + MaxLease

\* The lease in force was minted after the stream that carried it was opened, by
\* this process: nothing minted for an earlier stream or an earlier process is
\* honoured (tenant_serving_gate.go:92, sync.go:280).
LeaseMintedForThisProcess ==
    leaseExpiresAt # 0 =>
        /\ startedAt <= leaseFrom.openedAt
        /\ leaseFrom.openedAt <= leaseFrom.mintedAt
=============================================================================
