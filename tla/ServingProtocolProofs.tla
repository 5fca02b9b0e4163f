------------------------ MODULE ServingProtocolProofs ------------------------
(***************************************************************************)
(* Proofs about the serving gate and the serving protocol around it, for   *)
(* every number of streams, frames, restarts and tenants, every lease      *)
(* length and every clock skew.                                            *)
(*                                                                         *)
(* The gate by itself: RestrictionHoldsNoLease and LeaseWithinWindow are   *)
(* not inductive alone, because a Renew between its checks and the mutex   *)
(* carries an expiration that RenewLocked will store later, so the         *)
(* invariant also bounds those.                                            *)
(*                                                                         *)
(* The protocol: an expiration is followed along its way.  It is fenced    *)
(* when the control plane mints the frame (FramesOK), while a Renew        *)
(* carries it to the mutex (PendingOK) and once it is the lease (LeaseOK). *)
(* Fenced means it neither lies more than a lease ahead of the control     *)
(* plane's clock now, nor more than a lease after the tenant's             *)
(* restriction.                                                            *)
(***************************************************************************)
EXTENDS ServingProtocol, TLAPS

(***************************************************************************)
(* The serving gate                                                        *)
(***************************************************************************)

PendingWithinWindow ==
    \A c \in Callers : renewing[c].busy => renewing[c].expiresAt <= now + MaxLease

GateInv ==
    /\ GateTypeOK
    /\ RestrictionHoldsNoLease
    /\ LeaseWithinWindow
    /\ PendingWithinWindow

\* A caller inside Renew holds a tenant and an expiration.
LEMMA BusyIsPending ==
    ASSUME GateTypeOK, NEW c \in Callers, renewing[c].busy
    PROVE  renewing[c] \in Pending
<1>1. renewing[c] \in {Idle} \cup Pending
  BY DEF GateTypeOK
<1>2. renewing[c] # Idle
  BY DEF Idle
<1> QED
  BY <1>1, <1>2

\* A new gate is closed, unbound and unrestricted, and satisfies the invariant
\* (NewTenantServingGate).
LEMMA GateInitInv == GateInit => GateInv
  BY GateAssumption
  DEF GateInit, GateInv, GateTypeOK, RestrictionHoldsNoLease, LeaseWithinWindow,
      PendingWithinWindow, Idle, Restrictions

\* Every method of the gate, a clock tick and a process restart preserve the
\* invariant.
LEMMA GateNextInv == GateInv /\ [GateNext]_gateVars => GateInv'
<1> SUFFICES ASSUME GateInv, [GateNext]_gateVars PROVE GateInv'
  OBVIOUS
<1> USE GateAssumption DEF GateInv, GateTypeOK
<1>1. CASE Tick
  <2>1. GateTypeOK' /\ RestrictionHoldsNoLease' /\ LeaseWithinWindow'
    BY <1>1 DEF Tick, RestrictionHoldsNoLease, LeaseWithinWindow
  <2>2. ASSUME NEW c \in Callers, renewing[c].busy
        PROVE  renewing[c].expiresAt <= now + 1 + MaxLease
    <3>1. renewing[c].expiresAt \in Nat
      BY <2>2, BusyIsPending, Zenon DEF Pending
    <3> QED
      BY <2>2, <3>1 DEF PendingWithinWindow
  <2>3. PendingWithinWindow'
    BY <1>1, <2>2 DEF Tick, PendingWithinWindow
  <2> QED
    BY <2>1, <2>3
<1>2. CASE StartProcess
  BY <1>2 DEF StartProcess, NewTenantServingGate, RestrictionHoldsNoLease,
              LeaseWithinWindow, PendingWithinWindow, Idle
<1>3. ASSUME NEW t \in Tenants, BindTenant(t) PROVE GateInv'
  BY <1>3 DEF BindTenant, RestrictionHoldsNoLease, LeaseWithinWindow, PendingWithinWindow
<1>4. ASSUME NEW c \in Callers, NEW t \in Tenants, NEW ch \in Challenges,
             NEW u \in ActiveUpdates, RenewCheck(c, t, ch, u)
      PROVE  GateInv'
  <2>1. u.expiresAt \in Nat /\ u.expiresAt <= now + MaxLease
    BY <1>4 DEF RenewCheck, RenewAccepts, ActiveUpdates
  <2>2. GateTypeOK'
    BY <1>4, <2>1, Zenon DEF RenewCheck, Pending
  <2>3. PendingWithinWindow'
    BY <1>4, <2>1 DEF RenewCheck, PendingWithinWindow
  <2> QED
    BY <1>4, <2>2, <2>3 DEF RenewCheck, RestrictionHoldsNoLease, LeaseWithinWindow
<1>5. ASSUME NEW c \in Callers, RenewLocked(c) PROVE GateInv'
  <2>1. renewing[c] \in Pending /\ renewing[c].expiresAt <= now + MaxLease
    BY <1>5, BusyIsPending DEF RenewLocked, PendingWithinWindow
  <2>2. GateTypeOK'
    BY <1>5, <2>1, Zenon DEF RenewLocked, Pending
  <2>3. PendingWithinWindow'
    BY <1>5 DEF RenewLocked, PendingWithinWindow, Idle
  <2>4. LeaseWithinWindow'
    BY <1>5, <2>1 DEF RenewLocked, LeaseWithinWindow
  <2>5. RestrictionHoldsNoLease'
    BY <1>5 DEF RenewLocked, RenewSucceeds, RestrictionHoldsNoLease
  <2> QED
    BY <2>2, <2>3, <2>4, <2>5
<1>6. ASSUME NEW t \in Tenants, NEW u \in RestrictedUpdates, Restrict(t, u)
      PROVE  GateInv'
  <2> DEFINE r == restrictionFromUpdate(u)
  <2>1. r \in Restrictions
    BY <1>6 DEF Restrict, RestrictSucceeds, RestrictionValid, restrictionFromUpdate,
                RestrictedUpdates, Restrictions
  <2>2. CASE RestrictionSupersedes(r)
    <3>1. restriction' = {r} /\ leaseExpiresAt' = 0
      BY <1>6, <2>2 DEF Restrict
    <3> QED
      BY <1>6, <2>1, <3>1 DEF Restrict, RestrictionHoldsNoLease, LeaseWithinWindow,
                              PendingWithinWindow
  <2>3. CASE ~RestrictionSupersedes(r)
    BY <1>6, <2>3 DEF Restrict, RestrictionHoldsNoLease, LeaseWithinWindow, PendingWithinWindow
  <2> QED
    BY <2>2, <2>3
<1>7. CASE UNCHANGED gateVars
  BY <1>7 DEF gateVars, RestrictionHoldsNoLease, LeaseWithinWindow, PendingWithinWindow
<1> QED
  BY <1>1, <1>2, <1>3, <1>4, <1>5, <1>6, <1>7 DEF GateNext

\* The gate keeps its shape, a restricted gate never holds a lease, and no lease
\* runs further than MaxLease ahead of the clock.
THEOREM GateSafety ==
    GateSpec => [](GateTypeOK /\ RestrictionHoldsNoLease /\ LeaseWithinWindow)
<1>1. GateSpec => []GateInv
  BY GateInitInv, GateNextInv, PTL DEF GateSpec
<1>2. GateInv => GateTypeOK /\ RestrictionHoldsNoLease /\ LeaseWithinWindow
  BY DEF GateInv
<1> QED
  BY <1>1, <1>2, PTL

\* Within a process no step drops a restriction, goes back to an older epoch or
\* another authority at the same epoch, or rebinds the tenant.
THEOREM GateAuthority == GateSpec => AuthorityIsSticky
<1> DEFINE Sticky ==
      starts' = starts =>
          /\ \A r \in restriction : \E s \in restriction' : s = r \/ s.epoch > r.epoch
          /\ tenantID # NoTenant => tenantID' = tenantID
<1>1. GateInv /\ [GateNext]_gateVars => [Sticky]_gateVars
  <2> SUFFICES ASSUME GateInv, GateNext PROVE Sticky
    OBVIOUS
  <2> USE GateAssumption DEF GateInv, GateTypeOK
  <2>1. CASE Tick
    BY <2>1 DEF Tick
  <2>2. CASE StartProcess
    BY <2>2 DEF StartProcess
  <2>3. ASSUME NEW t \in Tenants, BindTenant(t) PROVE Sticky
    BY <2>3 DEF BindTenant
  <2>4. ASSUME NEW c \in Callers, NEW t \in Tenants, NEW ch \in Challenges,
               NEW u \in ActiveUpdates, RenewCheck(c, t, ch, u)
        PROVE  Sticky
    BY <2>4 DEF RenewCheck
  <2>5. ASSUME NEW c \in Callers, RenewLocked(c) PROVE Sticky
    BY <2>5 DEF RenewLocked
  <2>6. ASSUME NEW t \in Tenants, NEW u \in RestrictedUpdates, Restrict(t, u)
        PROVE  Sticky
    BY <2>6 DEF Restrict, RestrictionSupersedes
  <2> QED
    BY <2>1, <2>2, <2>3, <2>4, <2>5, <2>6 DEF GateNext
<1>2. GateSpec => []GateInv
  BY GateInitInv, GateNextInv, PTL DEF GateSpec
<1> QED
  BY <1>1, <1>2, PTL DEF GateSpec, AuthorityIsSticky

(***************************************************************************)
(* The serving protocol                                                    *)
(***************************************************************************)

Fenced(t, e) ==
    /\ e <= now + Skew + MaxLease
    /\ restrictedAt[t] # 0 => e <= restrictedAt[t] + Skew + MaxLease

ActiveFrames ==
    [kind: {"active"}, tenant: Tenants, mintedAt: Nat,
     update: [wellFormed: BOOLEAN, challenge: 1..issued, expiresAt: Int]]

RestrictedFrames ==
    [kind: {"restricted"}, tenant: Tenants, mintedAt: Nat,
     update: [wellFormed: BOOLEAN, epoch: 1..MaxEpoch, authority: Authorities]]

FramesOK ==
    \A f \in frames :
        \/ f \in RestrictedFrames
        \/ /\ f \in ActiveFrames
           /\ Fenced(f.tenant, f.update.expiresAt)
           /\ openedAt[f.update.challenge] <= f.mintedAt

StreamsOK ==
    \A c \in Callers : stream[c] # 0 =>
        /\ orgID[c] \in Tenants
        /\ startedAt <= openedAt[stream[c]]

PendingOK ==
    \A c \in Callers : renewing[c].busy =>
        /\ Fenced(renewing[c].tenant, renewing[c].expiresAt)
        /\ startedAt <= carried[c].openedAt
        /\ carried[c].openedAt <= carried[c].mintedAt

LeaseOK ==
    leaseExpiresAt # 0 =>
        /\ tenantID \in Tenants
        /\ Fenced(tenantID, leaseExpiresAt)
        /\ startedAt <= leaseFrom.openedAt
        /\ leaseFrom.openedAt <= leaseFrom.mintedAt

Inv ==
    /\ GateInv
    /\ TypeOK
    /\ FramesOK
    /\ StreamsOK
    /\ PendingOK
    /\ LeaseOK

\* The initial state satisfies the invariant.
LEMMA ProtocolInitInv == Init => Inv
<1> SUFFICES ASSUME Init PROVE Inv
  OBVIOUS
<1>1. GateInv
  BY GateInitInv DEF Init
<1>2. TypeOK
  BY <1>1, GateAssumption, ProtocolAssumption
  DEF Init, GateInit, GateInv, TypeOK, Provenance, NoProvenance
<1>3. FramesOK /\ StreamsOK /\ PendingOK /\ LeaseOK
  BY DEF Init, GateInit, FramesOK, StreamsOK, PendingOK, LeaseOK, Idle
<1> QED
  BY <1>1, <1>2, <1>3 DEF Inv

\* An update the streams hand to the gate is one of the gate's inputs.
LEMMA DeliveredUpdates ==
    ASSUME Inv, NEW c \in Callers, NEW f \in frames
    PROVE  /\ ReceiveActive(c, f) => /\ f.tenant \in Tenants
                                     /\ stream[c] \in Challenges
                                     /\ f.update \in ActiveUpdates
           /\ ReceiveRestricted(c, f) => /\ f.tenant \in Tenants
                                         /\ f.update \in RestrictedUpdates
<1> USE GateAssumption, ProtocolAssumption DEF Inv
<1>1. ASSUME ReceiveActive(c, f)
      PROVE  f.tenant \in Tenants /\ stream[c] \in Challenges /\ f.update \in ActiveUpdates
  <2>1. f \in ActiveFrames
    BY <1>1 DEF ReceiveActive, FramesOK, RestrictedFrames
  <2>2. stream[c] \in 1..MaxChallenges
    BY <1>1 DEF ReceiveActive, TypeOK
  <2>3. f.update.challenge \in Challenges
    BY <2>1 DEF ActiveFrames, TypeOK
  <2>4. now < f.update.expiresAt /\ f.update.expiresAt <= now + MaxLease
    BY <1>1 DEF ReceiveActive, RenewCheck, RenewAccepts
  <2>5. now \in 1..MaxTime
    BY DEF TypeOK, GateTypeOK
  <2>6. f.update.expiresAt \in 1..(MaxTime + MaxLease + 1)
    BY <2>1, <2>4, <2>5 DEF ActiveFrames
  <2> QED
    BY <2>1, <2>2, <2>3, <2>6 DEF ActiveFrames, ActiveUpdates
<1>2. ASSUME ReceiveRestricted(c, f)
      PROVE  f.tenant \in Tenants /\ f.update \in RestrictedUpdates
  <2>1. f \in RestrictedFrames
    BY <1>2 DEF ReceiveRestricted, FramesOK, ActiveFrames
  <2> QED
    BY <2>1 DEF RestrictedFrames, RestrictedUpdates
<1> QED
  BY <1>1, <1>2

\* Every step of the composition is a step of the gate or leaves it alone.
LEMMA StepsOfTheGate == Inv /\ [Next]_vars => [GateNext]_gateVars
<1> SUFFICES ASSUME Inv, [Next]_vars PROVE [GateNext]_gateVars
  OBVIOUS
<1>1. CASE Tick \/ Restart
  BY <1>1 DEF GateNext, Restart
<1>2. ASSUME NEW c \in Callers, NEW t \in Tenants, Bootstrap(c, t)
      PROVE  GateNext
  BY <1>2 DEF GateNext, Bootstrap
<1>3. ASSUME NEW c \in Callers,
             \/ OpenStream(c) \/ CloseStream(c)
             \/ \E exp \in LeaseExpirations : MintLease(c, exp)
             \/ \E f \in frames : ReceiveRefused(c, f)
             \/ \E t \in Tenants, a \in Authorities : RestrictTenant(t, a)
      PROVE  UNCHANGED gateVars
  BY <1>3 DEF OpenStream, CloseStream, MintLease, ReceiveRefused, RestrictTenant
<1>4. ASSUME NEW c \in Callers, CommitActive(c) PROVE GateNext
  BY <1>4 DEF GateNext, CommitActive
<1>5. ASSUME NEW c \in Callers, NEW f \in frames, ReceiveActive(c, f) PROVE GateNext
  BY <1>5, DeliveredUpdates, Zenon DEF GateNext, ReceiveActive
<1>6. ASSUME NEW c \in Callers, NEW f \in frames, ReceiveRestricted(c, f) PROVE GateNext
  BY <1>6, DeliveredUpdates DEF GateNext, ReceiveRestricted
<1>7. ASSUME NEW t \in Tenants, NEW a \in Authorities, RestrictTenant(t, a)
      PROVE  UNCHANGED gateVars
  BY <1>7 DEF RestrictTenant
<1>8. CASE UNCHANGED vars
  BY <1>8 DEF vars
<1> QED
  BY <1>1, <1>2, <1>3, <1>4, <1>5, <1>6, <1>7, <1>8 DEF Next

\* The clock never goes back; a tenant's restriction time is set once, to the
\* present.
LEMMA ClockAndRestriction ==
    ASSUME Inv, [Next]_vars
    PROVE  /\ now' \in Nat /\ now <= now'
           /\ \A t \in Tenants : \/ restrictedAt'[t] = restrictedAt[t]
                                 \/ restrictedAt'[t] = now
<1> USE DEF Inv, TypeOK, GateTypeOK
<1>1. CASE Tick /\ UNCHANGED protocolVars
  BY <1>1, GateAssumption DEF Tick, protocolVars
<1>2. CASE Restart
  BY <1>2, GateAssumption DEF Restart, StartProcess
<1>3. ASSUME NEW c \in Callers, NEW t \in Tenants, Bootstrap(c, t)
      PROVE  UNCHANGED <<now, restrictedAt>>
  BY <1>3 DEF Bootstrap, BindTenant
<1>4. ASSUME NEW c \in Callers,
             \/ OpenStream(c) \/ CloseStream(c)
             \/ \E exp \in LeaseExpirations : MintLease(c, exp)
             \/ \E f \in frames : ReceiveRefused(c, f)
      PROVE  UNCHANGED <<now, restrictedAt>>
  BY <1>4 DEF OpenStream, CloseStream, MintLease, ReceiveRefused, gateVars
<1>5. ASSUME NEW c \in Callers, CommitActive(c)
      PROVE  UNCHANGED <<now, restrictedAt>>
  BY <1>5 DEF CommitActive, RenewLocked
<1>6. ASSUME NEW c \in Callers, NEW f \in frames, ReceiveActive(c, f) \/ ReceiveRestricted(c, f)
      PROVE  UNCHANGED <<now, restrictedAt>>
  BY <1>6 DEF ReceiveActive, ReceiveRestricted, RenewCheck, Restrict
<1>7. ASSUME NEW t \in Tenants, NEW a \in Authorities, RestrictTenant(t, a)
      PROVE  /\ now' = now
             /\ \A u \in Tenants : restrictedAt'[u] \in {restrictedAt[u], now}
  BY <1>7 DEF RestrictTenant, gateVars
<1>8. CASE UNCHANGED vars
  BY <1>8 DEF vars, gateVars, protocolVars
<1>9. now \in Nat
  BY GateAssumption
<1> QED
  BY <1>1, <1>2, <1>3, <1>4, <1>5, <1>6, <1>7, <1>8, <1>9 DEF Next

\* What is fenced stays fenced.
LEMMA FencedIsStable ==
    ASSUME Inv, [Next]_vars, NEW t \in Tenants, NEW e \in Int, Fenced(t, e)
    PROVE  Fenced(t, e)'
<1>1. now \in Nat /\ restrictedAt[t] \in Nat
  BY GateAssumption DEF Inv, TypeOK, GateTypeOK
<1> QED
  BY <1>1, ClockAndRestriction, GateAssumption, ProtocolAssumption DEF Fenced

\* Every step preserves the shape of the variables.
LEMMA TypeIsStable == Inv /\ [Next]_vars => TypeOK'
<1> SUFFICES ASSUME Inv, [Next]_vars PROVE TypeOK'
  OBVIOUS
<1>0. GateTypeOK'
  BY StepsOfTheGate, GateNextInv DEF Inv, GateInv
<1> USE <1>0, GateAssumption, ProtocolAssumption DEF Inv, TypeOK
<1>1. CASE Tick /\ UNCHANGED protocolVars
  BY <1>1 DEF Tick, protocolVars, GateTypeOK
<1>2. CASE Restart
  BY <1>2, SMTT(30) DEF Restart, StartProcess, GateTypeOK, Provenance, NoProvenance
<1>3. ASSUME NEW c \in Callers, NEW t \in Tenants, Bootstrap(c, t) PROVE TypeOK'
  BY <1>3 DEF Bootstrap, BindTenant
<1>4. ASSUME NEW c \in Callers, OpenStream(c) PROVE TypeOK'
  <2>1. now' = now /\ now \in 1..MaxTime
    BY <1>4 DEF OpenStream, gateVars, GateTypeOK
  <2>2. issued' \in 0..MaxChallenges /\ stream' \in [Callers -> 0..issued']
    BY <1>4 DEF OpenStream
  <2>3. openedAt' \in [1..issued' -> 1..now']
    <3>1. ASSUME NEW n \in 1..(issued + 1)
          PROVE  (IF n <= issued THEN openedAt[n] ELSE now) \in 1..now
      BY <2>1
    <3> QED
      BY <1>4, <2>1, <3>1 DEF OpenStream
  <2> QED
    BY <1>4, <2>1, <2>2, <2>3 DEF OpenStream
<1>5. ASSUME NEW c \in Callers,
             \/ CloseStream(c)
             \/ \E exp \in LeaseExpirations : MintLease(c, exp)
             \/ \E f \in frames : ReceiveRefused(c, f)
      PROVE  TypeOK'
  <2>1. /\ stream' \in {stream, [stream EXCEPT ![c] = 0]}
        /\ UNCHANGED <<gateVars, issued, openedAt, orgID, restrictedAt, epoch, carried,
                       leaseFrom, startedAt>>
    BY <1>5 DEF CloseStream, MintLease, ReceiveRefused
  <2>2. stream' \in [Callers -> 0..issued]
    BY <2>1
  <2> QED
    BY <2>1, <2>2 DEF gateVars
<1>6. ASSUME NEW c \in Callers, CommitActive(c) PROVE TypeOK'
  BY <1>6, SMTT(30) DEF CommitActive, RenewLocked, Provenance, NoProvenance
<1>7. ASSUME NEW c \in Callers, NEW f \in frames, ReceiveActive(c, f) PROVE TypeOK'
  <2>1. f.mintedAt \in Nat
    BY <1>7 DEF FramesOK, ActiveFrames, RestrictedFrames
  <2>2. openedAt[stream[c]] \in Nat
    BY <1>7 DEF ReceiveActive, GateTypeOK
  <2> QED
    BY <1>7, <2>1, <2>2, SMTT(30) DEF ReceiveActive, RenewCheck, Provenance
<1>8. ASSUME NEW c \in Callers, NEW f \in frames, ReceiveRestricted(c, f) PROVE TypeOK'
  BY <1>8, SMTT(30) DEF ReceiveRestricted, Restrict, Provenance, NoProvenance
<1>9. ASSUME NEW t \in Tenants, NEW a \in Authorities, RestrictTenant(t, a) PROVE TypeOK'
  <2>1. now' = now /\ now \in 1..MaxTime
    BY <1>9 DEF RestrictTenant, gateVars, GateTypeOK
  <2>2. restrictedAt' \in [Tenants -> 0..now']
    BY <1>9, <2>1 DEF RestrictTenant
  <2>3. epoch' \in [Tenants -> 0..MaxEpoch]
    BY <1>9 DEF RestrictTenant
  <2> QED
    BY <1>9, <2>1, <2>2, <2>3, SMTT(30) DEF RestrictTenant
<1>10. CASE UNCHANGED vars
  BY <1>10 DEF vars, gateVars, protocolVars
<1> QED
  BY <1>1, <1>2, <1>3, <1>4, <1>5, <1>6, <1>7, <1>8, <1>9, <1>10, SMTT(30) DEF Next

\* A challenge keeps the opening time it was drawn with.
LEMMA OpeningsAreStable ==
    ASSUME Inv, [Next]_vars
    PROVE  /\ issued' \in Nat /\ issued <= issued'
           /\ \A n \in 1..issued : openedAt'[n] = openedAt[n]
<1> USE DEF Inv, TypeOK
<1>1. ASSUME NEW c \in Callers, OpenStream(c)
      PROVE  /\ issued' \in Nat /\ issued <= issued'
             /\ \A n \in 1..issued : openedAt'[n] = openedAt[n]
  BY <1>1, ProtocolAssumption DEF OpenStream
<1>2. ASSUME \A c \in Callers : ~OpenStream(c)
      PROVE  UNCHANGED <<issued, openedAt>>
  BY <1>2 DEF Next, Restart, Bootstrap, CloseStream, MintLease, CommitActive, ReceiveActive,
              ReceiveRestricted, ReceiveRefused, RestrictTenant, vars, protocolVars
<1> QED
  BY <1>1, <1>2, ProtocolAssumption

\* A frame is fenced when it is minted and stays so in the network.
LEMMA FramesAreStable == Inv /\ [Next]_vars => FramesOK'
<1> SUFFICES ASSUME Inv, [Next]_vars, NEW f \in frames'
             PROVE  \/ f \in RestrictedFrames
                    \/ /\ f \in ActiveFrames'
                       /\ Fenced(f.tenant, f.update.expiresAt)'
                       /\ openedAt'[f.update.challenge] <= f.mintedAt
  BY DEF FramesOK, RestrictedFrames
<1>1. CASE f \in frames
  <2>1. CASE f \in RestrictedFrames
    BY <2>1
  <2>2. CASE /\ f \in ActiveFrames
             /\ Fenced(f.tenant, f.update.expiresAt)
             /\ openedAt[f.update.challenge] <= f.mintedAt
    <3>1. Fenced(f.tenant, f.update.expiresAt)'
      BY <2>2, FencedIsStable DEF ActiveFrames
    <3>2. f.update.challenge \in 1..issued /\ f \in ActiveFrames'
      BY <2>2, OpeningsAreStable, SMTT(30) DEF ActiveFrames, Inv, TypeOK
    <3> QED
      BY <2>2, <3>1, <3>2, OpeningsAreStable
  <2> QED
    BY <1>1, <2>1, <2>2 DEF Inv, FramesOK
<1>2. ASSUME NEW c \in Callers, NEW exp \in LeaseExpirations, MintLease(c, exp),
             f = ActiveFrame(orgID[c], stream[c], exp)
      PROVE  /\ f \in ActiveFrames'
             /\ Fenced(f.tenant, f.update.expiresAt)'
             /\ openedAt'[f.update.challenge] <= f.mintedAt
  <2>1. now \in 1..MaxTime /\ now' = now /\ restrictedAt' = restrictedAt /\ issued' = issued
        /\ openedAt' = openedAt
    BY <1>2 DEF MintLease, gateVars, Inv, TypeOK, GateTypeOK
  <2>2. orgID[c] \in Tenants /\ stream[c] \in 1..issued
    BY <1>2 DEF MintLease, Inv, StreamsOK, TypeOK
  <2>3. exp \in Int /\ exp <= now + Skew + MaxLease
    BY <2>1, GateAssumption, ProtocolAssumption DEF LeaseExpirations
  <2>4. openedAt[stream[c]] <= now
    BY <2>1, <2>2 DEF Inv, TypeOK
  <2>5. restrictedAt[orgID[c]] = 0
    BY <1>2 DEF MintLease
  <2> QED
    BY <1>2, <2>1, <2>2, <2>3, <2>4, <2>5 DEF ActiveFrame, ActiveFrames, Fenced
<1>3. ASSUME NEW t \in Tenants, NEW a \in Authorities, RestrictTenant(t, a),
             f = RestrictedFrame(t, epoch[t] + 1, a)
      PROVE  f \in RestrictedFrames
  BY <1>3, GateAssumption
  DEF RestrictTenant, RestrictedFrame, RestrictedFrames, Inv, TypeOK, GateTypeOK
<1>4. CASE f \notin frames
  <2>1. \/ \E c \in Callers, exp \in LeaseExpirations :
              MintLease(c, exp) /\ f = ActiveFrame(orgID[c], stream[c], exp)
        \/ \E t \in Tenants, a \in Authorities :
              RestrictTenant(t, a) /\ f = RestrictedFrame(t, epoch[t] + 1, a)
    BY <1>4 DEF Next, Restart, Bootstrap, OpenStream, CloseStream, MintLease, CommitActive,
                ReceiveActive, ReceiveRestricted, ReceiveRefused, RestrictTenant, vars, protocolVars
  <2> QED
    BY <2>1, <1>2, <1>3
<1> QED
  BY <1>1, <1>4

\* An open stream belongs to a bound client of the running process.
LEMMA StreamsAreStable == Inv /\ [Next]_vars => StreamsOK'
<1> SUFFICES ASSUME Inv, [Next]_vars, NEW c \in Callers, stream'[c] # 0
             PROVE  orgID'[c] \in Tenants /\ startedAt' <= openedAt'[stream'[c]]
  BY DEF StreamsOK
<1> USE DEF Inv, TypeOK
<1>1. CASE Restart
  BY <1>1 DEF Restart
<1>2. ASSUME NEW d \in Callers, NEW t \in Tenants, Bootstrap(d, t)
      PROVE  orgID'[c] \in Tenants /\ startedAt' <= openedAt'[stream'[c]]
  BY <1>2 DEF Bootstrap, StreamsOK
<1>3. ASSUME NEW d \in Callers, OpenStream(d)
      PROVE  orgID'[c] \in Tenants /\ startedAt' <= openedAt'[stream'[c]]
  <2>1. CASE c = d
    <3>1. stream'[c] = issued + 1 /\ openedAt'[issued + 1] = now /\ orgID'[c] \in Tenants
      BY <1>3, <2>1 DEF OpenStream
    <3> QED
      BY <1>3, <3>1, GateAssumption DEF OpenStream, GateTypeOK
  <2>2. CASE c # d
    <3>1. stream'[c] = stream[c] /\ stream[c] \in 1..issued
      BY <1>3, <2>2 DEF OpenStream
    <3> QED
      BY <1>3, <3>1, OpeningsAreStable DEF OpenStream, StreamsOK
  <2> QED
    BY <2>1, <2>2
<1>4. ASSUME ~Restart, \A d \in Callers : ~OpenStream(d) /\ \A t \in Tenants : ~Bootstrap(d, t)
      PROVE  /\ stream'[c] = stream[c]
             /\ UNCHANGED <<orgID, startedAt, openedAt>>
  BY <1>4 DEF Next, CloseStream, MintLease, CommitActive, ReceiveActive, ReceiveRestricted,
              ReceiveRefused, RestrictTenant, vars, protocolVars
<1> QED
  BY <1>1, <1>2, <1>3, <1>4 DEF StreamsOK

\* A Renew on its way to the mutex carries a fenced expiration and its provenance.
LEMMA PendingIsStable == Inv /\ [Next]_vars => PendingOK'
<1> SUFFICES ASSUME Inv, [Next]_vars, NEW c \in Callers, renewing'[c].busy
             PROVE  /\ Fenced(renewing[c].tenant, renewing[c].expiresAt)'
                    /\ startedAt' <= carried'[c].openedAt
                    /\ carried'[c].openedAt <= carried'[c].mintedAt
  BY DEF PendingOK
<1> DEFINE Goal == /\ Fenced(renewing[c].tenant, renewing[c].expiresAt)'
                   /\ startedAt' <= carried'[c].openedAt
                   /\ carried'[c].openedAt <= carried'[c].mintedAt
<1>1. CASE renewing'[c] = renewing[c] /\ carried'[c] = carried[c] /\ startedAt' = startedAt
  <2>1. renewing[c] \in Pending
    BY <1>1, BusyIsPending DEF Inv, GateInv
  <2>2. Fenced(renewing[c].tenant, renewing[c].expiresAt)
    BY <1>1 DEF Inv, PendingOK
  <2>3. renewing[c].tenant \in Tenants /\ renewing[c].expiresAt \in Nat
    BY <2>1, Zenon DEF Pending
  <2>4. \A t \in Tenants, e \in Nat : Fenced(t, e) =>
           /\ e <= now' + Skew + MaxLease
           /\ restrictedAt'[t] # 0 => e <= restrictedAt'[t] + Skew + MaxLease
    BY FencedIsStable DEF Fenced
  <2>5. Fenced(renewing[c].tenant, renewing[c].expiresAt)'
    BY <1>1, <2>2, <2>3, <2>4 DEF Fenced
  <2> QED
    BY <1>1, <2>5 DEF Inv, PendingOK
<1>2. CASE Restart
  BY <1>2 DEF Restart, StartProcess, NewTenantServingGate, Idle
<1>3. ASSUME NEW d \in Callers, NEW f \in frames, ReceiveActive(d, f), d = c PROVE Goal
  <2>1. /\ renewing'[c] = [busy |-> TRUE, tenant |-> f.tenant, expiresAt |-> f.update.expiresAt]
        /\ carried'[c] = [mintedAt |-> f.mintedAt, openedAt |-> openedAt[stream[c]]]
        /\ UNCHANGED <<now, restrictedAt, startedAt>>
        /\ stream[c] # 0
        /\ stream[c] = f.update.challenge
    BY <1>3 DEF ReceiveActive, RenewCheck, RenewAccepts, Inv, TypeOK, GateTypeOK
  <2>2. /\ Fenced(f.tenant, f.update.expiresAt)
        /\ openedAt[f.update.challenge] <= f.mintedAt
    BY <1>3 DEF ReceiveActive, Inv, FramesOK, RestrictedFrames
  <2>3. startedAt <= openedAt[stream[c]]
    BY <2>1 DEF Inv, StreamsOK
  <2> QED
    BY <2>1, <2>2, <2>3 DEF Fenced
<1>4. ASSUME NEW d \in Callers, CommitActive(d) PROVE Goal
  <2>1. CASE c = d
    BY <1>4, <2>1 DEF CommitActive, RenewLocked, Idle, Inv, TypeOK, GateTypeOK
  <2>2. CASE c # d
    BY <1>4, <2>2, <1>1 DEF CommitActive, RenewLocked, Inv, TypeOK, GateTypeOK
  <2> QED
    BY <2>1, <2>2
<1>5. ASSUME NEW d \in Callers, NEW f \in frames, ReceiveActive(d, f), d # c PROVE Goal
  BY <1>5, <1>1 DEF ReceiveActive, RenewCheck, Inv, TypeOK, GateTypeOK
<1>6. ASSUME ~Restart,
             \A d \in Callers : ~CommitActive(d) /\ \A f \in frames : ~ReceiveActive(d, f)
      PROVE  renewing' = renewing /\ carried' = carried /\ startedAt' = startedAt
  BY <1>6 DEF Next, Tick, Bootstrap, BindTenant, OpenStream, CloseStream, MintLease,
              ReceiveRestricted, Restrict, ReceiveRefused, RestrictTenant, vars, gateVars, protocolVars
<1> QED
  BY <1>1, <1>2, <1>3, <1>4, <1>5, <1>6

\* The lease in force is fenced for the bound tenant and keeps its provenance.
LEMMA LeaseIsStable == Inv /\ [Next]_vars => LeaseOK'
<1> SUFFICES ASSUME Inv, [Next]_vars, leaseExpiresAt' # 0
             PROVE  /\ tenantID' \in Tenants
                    /\ Fenced(tenantID, leaseExpiresAt)'
                    /\ startedAt' <= leaseFrom'.openedAt
                    /\ leaseFrom'.openedAt <= leaseFrom'.mintedAt
  BY DEF LeaseOK
<1> DEFINE Goal == /\ tenantID' \in Tenants
                   /\ Fenced(tenantID, leaseExpiresAt)'
                   /\ startedAt' <= leaseFrom'.openedAt
                   /\ leaseFrom'.openedAt <= leaseFrom'.mintedAt
<1>1. CASE /\ leaseExpiresAt' = leaseExpiresAt /\ tenantID' = tenantID
           /\ leaseFrom' = leaseFrom /\ startedAt' = startedAt
  <2>1. tenantID \in Tenants /\ Fenced(tenantID, leaseExpiresAt) /\ leaseExpiresAt \in Int
    BY <1>1 DEF Inv, LeaseOK, TypeOK, GateTypeOK
  <2>2. Fenced(tenantID, leaseExpiresAt)'
    BY <1>1, <2>1, ClockAndRestriction, GateAssumption, ProtocolAssumption, SMTT(30)
    DEF Fenced, Inv, TypeOK, GateTypeOK
  <2> QED
    BY <1>1, <2>1, <2>2 DEF Inv, LeaseOK
<1>2. CASE Restart
  BY <1>2 DEF Restart, StartProcess, NewTenantServingGate
<1>3. ASSUME NEW c \in Callers, NEW t \in Tenants, Bootstrap(c, t) PROVE Goal
  <2>1. tenantID \in Tenants /\ tenantID' = tenantID
    BY <1>3, GateAssumption DEF Bootstrap, BindTenant, Inv, LeaseOK
  <2> QED
    BY <1>1, <1>3, <2>1 DEF Bootstrap, BindTenant
<1>4. ASSUME NEW c \in Callers, CommitActive(c) PROVE Goal
  <2>1. CASE RenewSucceeds(c)
    <3>1. /\ renewing[c] \in Pending
          /\ Fenced(renewing[c].tenant, renewing[c].expiresAt)
          /\ startedAt <= carried[c].openedAt
          /\ carried[c].openedAt <= carried[c].mintedAt
      BY <1>4, BusyIsPending DEF CommitActive, RenewLocked, Inv, GateInv, PendingOK
    <3>2. renewing[c].tenant = tenantID /\ tenantID \in Tenants
      BY <2>1, <3>1, GateAssumption, Zenon DEF RenewSucceeds, requireTenant, Pending
    <3>3. /\ leaseExpiresAt' = renewing[c].expiresAt /\ tenantID' = tenantID
          /\ leaseFrom' = carried[c]
          /\ UNCHANGED <<now, restrictedAt, startedAt>>
      BY <1>4, <2>1 DEF CommitActive, RenewLocked
    <3> QED
      BY <3>1, <3>2, <3>3 DEF Fenced
  <2>2. CASE ~RenewSucceeds(c)
    BY <1>1, <1>4, <2>2 DEF CommitActive, RenewLocked
  <2> QED
    BY <2>1, <2>2
<1>5. ASSUME NEW c \in Callers, NEW f \in frames, ReceiveRestricted(c, f) PROVE Goal
  <2>1. /\ UNCHANGED <<tenantID, startedAt>>
        /\ leaseFrom' = IF restriction' # restriction THEN NoProvenance ELSE leaseFrom
        /\ \/ leaseExpiresAt' = 0
           \/ restriction' = restriction /\ leaseExpiresAt' = leaseExpiresAt
    BY <1>5 DEF ReceiveRestricted, Restrict
  <2> QED
    BY <1>1, <2>1
<1>6. ASSUME ~Restart,
             \A c \in Callers : /\ ~CommitActive(c)
                                /\ \A t \in Tenants : ~Bootstrap(c, t)
                                /\ \A f \in frames : ~ReceiveRestricted(c, f)
      PROVE  UNCHANGED <<leaseExpiresAt, tenantID, leaseFrom, startedAt>>
  BY <1>6 DEF Next, Tick, OpenStream, CloseStream, MintLease, ReceiveActive, RenewCheck,
              ReceiveRefused, RestrictTenant, vars, gateVars, protocolVars
<1> QED
  BY <1>1, <1>2, <1>3, <1>4, <1>5, <1>6

\* The invariant holds in every reachable state.
LEMMA ProtocolInv == Spec => []Inv
<1>1. Inv /\ [Next]_vars => Inv'
  BY StepsOfTheGate, GateNextInv, TypeIsStable, FramesAreStable, StreamsAreStable,
     PendingIsStable, LeaseIsStable
  DEF Inv
<1> QED
  BY <1>1, ProtocolInitInv, PTL DEF Spec

\* The composition implements the gate: whatever streams, control plane and
\* restarts do, the gate sees a behaviour of GateSpec, so GateSafety and
\* GateAuthority hold of it.
THEOREM ProtocolImplementsGate == Spec => GateSpec
<1>1. Init => GateInit
  BY DEF Init
<1> QED
  BY <1>1, ProtocolInv, StepsOfTheGate, PTL DEF Spec, GateSpec

\* Whatever order the streams deliver the RESTRICTED frames in, and however often
\* they repeat them, a process keeps the newest restriction it has been told of and
\* the tenant it was bound to (tenant_serving_gate.go:133-143).
THEOREM AuthoritySticks == Spec => AuthorityIsSticky
BY GateAuthority, ProtocolImplementsGate, PTL

\* Once the control plane has restricted a tenant for a lease plus its clock's
\* lead, no decision of that tenant passes RequireActive.
THEOREM RestrictionFences == Spec => []FencedAfterLease
<1>1. Inv => FencedAfterLease
  <2> SUFFICES ASSUME Inv, NEW t \in Tenants \cup {NoTenant}, RequireActive(t),
                      restrictedAt[tenantID] # 0
               PROVE  now < restrictedAt[tenantID] + Skew + MaxLease
    BY DEF FencedAfterLease
  <2>1. now < leaseExpiresAt /\ now \in Nat /\ leaseExpiresAt \in Nat
    BY GateAssumption DEF RequireActive, Inv, TypeOK, GateTypeOK
  <2>2. tenantID \in Tenants /\ leaseExpiresAt <= restrictedAt[tenantID] + Skew + MaxLease
    BY <2>1 DEF Inv, LeaseOK, Fenced
  <2>3. restrictedAt[tenantID] \in Int
    BY <2>1, <2>2 DEF Inv, TypeOK
  <2> QED
    BY <2>1, <2>2, <2>3, GateAssumption, ProtocolAssumption
<1> QED
  BY <1>1, ProtocolInv, PTL

\* The lease in force was minted for a stream this process opened, after it was
\* opened.
THEOREM LeaseProvenance == Spec => []LeaseMintedForThisProcess
<1>1. Inv => LeaseMintedForThisProcess
  BY DEF Inv, LeaseOK, LeaseMintedForThisProcess
<1> QED
  BY <1>1, ProtocolInv, PTL
=============================================================================
