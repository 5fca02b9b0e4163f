----------------------------- MODULE SyncClient ------------------------------
(***************************************************************************)
(* One SDK instance that mirrors a tenant's control-plane log: the         *)
(* bootstrap loader (bootstrap/bootstrap.go, sync_lifecycle.go), the       *)
(* reconnecting mutation stream (sync/sync.go), the periodic re-bootstrap  *)
(* and the write-through of GrantAccess and RevokeAccess (tuple_writer.go) *)
(* over the two embedded engines.                                          *)
(*                                                                         *)
(* Three goroutines load snapshots into the same engines with no lock      *)
(* between them: the application's Bootstrap ("app"), the sync client's    *)
(* recovery ("sync") and the bootstrap-interval ticker ("ticker").  A      *)
(* load is one step per engine call.  Applying a tuple, model or data      *)
(* frame is one step, because everything it touches besides the one engine *)
(* call belongs to the sync goroutine; applying a bundle frame is a step   *)
(* per engine call, because a load may run between them.                   *)
(*                                                                         *)
(* Features: "trim" the control plane drops old entries and refuses tokens *)
(* that need them, "failures" loads and engine calls may fail, "ticker"    *)
(* the bootstrap interval is set, "mirror" the application grants and      *)
(* revokes, "duplicates" policy frames may come again on the stream that   *)
(* brought them.                                                           *)
(***************************************************************************)
EXTENDS ControlPlaneLog

VARIABLES
    tuples,             \* the store's primary index
    revision,           \* revision of the active model, 0 when there is none
    bundle,             \* the policy engine's bundle
    data,               \* the policy engine's data store
    sync,               \* where Client.Run is; "new" before Bootstrap has built the client
    token,              \* c.continuationToken
    opened,             \* the token the open stream was opened with
    rebootstraps,       \* c.rebootstraps # 0
    lastBundleVersion,  \* c.lastBundleVersion
    lastData,           \* per path: c.lastDataVersion and c.lastDataValue
    baselineData,       \* c.baselineData
    applying,           \* the bundle frame being applied
    load,               \* per loader: the bootstrapLoad in progress
    mirror,             \* the GrantAccess or RevokeAccess that has returned from the control plane
    faults              \* lost connections, failed loads and failed engine calls so far

engines == <<tuples, revision, bundle, data>>
guards == <<rebootstraps, lastBundleVersion, lastData, baselineData>>
vars == <<logVars, engines, sync, token, opened, guards, applying, load, mirror, faults>>

Loaders == {"app", "sync", "ticker"}
NotLoading == [pc |-> "idle", snap |-> 0, todo |-> {}]
NotApplying ==
    [pc |-> "idle", frame |-> 0, baseline |-> NoData, overlays |-> NoData, todo |-> {}]
NoCall == [op |-> "none"]
Calls == [op: {"write", "delete"}, tuple: Tuples]

Fault == faults < environment.maxFaults /\ faults' = faults + 1

(***************************************************************************)
(* The engines                                                             *)
(***************************************************************************)

\* WriteTuple accepts every tuple until a model is active.
Validates(t) == revision = 0 \/ t \in Admits[revision]

\* ActivateModel ignores a revision that is not newer.
ActivateModel(r) == revision' = IF r > revision THEN r ELSE revision

LoadBundle(b, overlay) ==
    /\ bundle' = b
    /\ data' = Overlay(b.embedded, overlay)

\* A call returns an error: a model or a bundle that does not compile, or in
\* SetPolicyData a path whose parent document is missing.  It has changed nothing.
EngineFails == "failures" \in Features /\ Fault

(***************************************************************************)
(* bootstrapLoad, and what each of its callers does with the result        *)
(***************************************************************************)

MayLoad(l) ==
    \/ l = "app" /\ sync = "new"
    \/ l = "sync" /\ sync = "refused"
    \/ l = "ticker" /\ "ticker" \in Features

FetchSnapshot(l) ==
    /\ MayLoad(l)
    /\ load[l] = NotLoading
    /\ load' = [load EXCEPT ![l] =
                   [pc |-> "model", snap |-> Len(log), todo |-> Current.tuples]]
    /\ UNCHANGED <<logVars, engines, sync, token, opened, guards, applying, mirror, faults>>

LoadModelStep(l) ==
    /\ load[l].pc = "model"
    /\ ActivateModel(StateAt(load[l].snap).revision)
    /\ load' = [load EXCEPT ![l].pc = "tuples"]
    /\ UNCHANGED <<logVars, tuples, bundle, data, sync, token, opened, guards, applying, mirror, faults>>

LoadTuple(l, t) ==
    /\ load[l].pc = "tuples"
    /\ t \in load[l].todo
    /\ Validates(t)
    /\ tuples' = tuples \cup {t}
    /\ load' = [load EXCEPT ![l].todo = @ \ {t}]
    /\ UNCHANGED <<logVars, revision, bundle, data, sync, token, opened, guards, applying, mirror, faults>>

\* Fault: the load does not wait for the tuples.
LoadBundleStepEarly(l) ==
    /\ load[l].pc = "tuples"
    /\ UNCHANGED <<bundle, data>>
    /\ load' = [load EXCEPT ![l].pc = "finish", ![l].todo = {}]
    /\ UNCHANGED <<logVars, tuples, revision, sync, token, opened, guards, applying, mirror, faults>>

LoadBundleStep(l) ==
    /\ load[l].pc = "tuples"
    /\ load[l].todo = {}
    /\ LET s == StateAt(load[l].snap)
       IN  IF s.bundle = NoBundle THEN UNCHANGED <<bundle, data>>
                                  ELSE LoadBundle(s.bundle, s.data)
    /\ load' = [load EXCEPT ![l].pc = "finish"]
    /\ UNCHANGED <<logVars, tuples, revision, sync, token, opened, guards, applying, mirror, faults>>

\* Run goes to its backoff when its rebootstrap fails, and keeps its token.
AbandonLoad(l) ==
    /\ load' = [load EXCEPT ![l] = NotLoading]
    /\ sync' = IF l = "sync" THEN "backoff" ELSE sync
    /\ UNCHANGED <<logVars, engines, token, opened, guards, applying, mirror>>

\* WriteTuple refuses a tuple of the snapshot.
LoadTupleInvalid(l, t) ==
    /\ load[l].pc = "tuples"
    /\ t \in load[l].todo
    /\ ~Validates(t)
    /\ AbandonLoad(l)
    /\ UNCHANGED faults

\* The snapshot cannot be fetched, an engine refuses its model, a tuple or its
\* bundle, or a materializer fails after the engines are already loaded.
LoadFails(l) ==
    /\ \/ load[l] = NotLoading /\ MayLoad(l)
       \/ load[l].pc # "idle"
    /\ EngineFails
    /\ AbandonLoad(l)

\* Bootstrap builds the sync client at the snapshot's token and starts it.
FinishBootstrap ==
    /\ load["app"].pc = "finish"
    /\ sync' = "connect"
    /\ token' = load["app"].snap
    /\ baselineData' = StateAt(load["app"].snap).data
    /\ load' = [load EXCEPT !["app"] = NotLoading]
    /\ UNCHANGED <<logVars, engines, opened, rebootstraps, lastBundleVersion, lastData, applying, mirror, faults>>

\* rebootstrap called by Run: SeedPolicyData, then onRebootstrap, then the backoff.
FinishRebootstrap ==
    /\ load["sync"].pc = "finish"
    /\ sync' = "backoff"
    /\ token' = load["sync"].snap
    /\ rebootstraps' = TRUE
    /\ baselineData' = StateAt(load["sync"].snap).data
    /\ load' = [load EXCEPT !["sync"] = NotLoading]
    /\ UNCHANGED <<logVars, engines, opened, lastBundleVersion, lastData, applying, mirror, faults>>

\* rebootstrap called by the ticker: the token of the snapshot is dropped.
FinishInterval ==
    /\ load["ticker"].pc = "finish"
    /\ baselineData' = IF sync = "new" THEN baselineData
                                       ELSE StateAt(load["ticker"].snap).data
    /\ load' = [load EXCEPT !["ticker"] = NotLoading]
    /\ UNCHANGED <<logVars, engines, sync, token, opened, rebootstraps, lastBundleVersion, lastData, applying, mirror, faults>>

(***************************************************************************)
(* Client.Run and Client.stream                                            *)
(***************************************************************************)

OpenStream ==
    /\ sync = "connect"
    /\ token >= horizon
    /\ sync' = "streaming"
    /\ opened' = token
    /\ UNCHANGED <<logVars, engines, token, guards, applying, load, mirror, faults>>

OpenFails ==
    /\ sync = "connect"
    /\ Fault
    /\ sync' = "backoff"
    /\ UNCHANGED <<logVars, engines, token, opened, guards, applying, load, mirror>>

\* Fault: a refused token is retried like a lost connection.
TokenRefusedRetries ==
    /\ sync \in {"connect", "streaming"}
    /\ token < horizon
    /\ applying = NotApplying
    /\ sync' = "backoff"
    /\ UNCHANGED <<logVars, engines, token, opened, guards, applying, load, mirror, faults>>

\* FailedPrecondition, at stream open or in mid-stream.
TokenRefused ==
    /\ sync \in {"connect", "streaming"}
    /\ token < horizon
    /\ applying = NotApplying
    /\ sync' = "refused"
    /\ UNCHANGED <<logVars, engines, token, opened, guards, applying, load, mirror, faults>>

\* The stream ends: at once again after a clean end, after the backoff otherwise.
Disconnect ==
    /\ sync = "streaming"
    /\ applying = NotApplying
    /\ Fault
    /\ sync' \in {"connect", "backoff"}
    /\ UNCHANGED <<logVars, engines, token, opened, guards, applying, load, mirror>>

BackoffElapsed ==
    /\ sync = "backoff"
    /\ sync' = "connect"
    /\ UNCHANGED <<logVars, engines, token, opened, guards, applying, load, mirror, faults>>

(***************************************************************************)
(* applyMutation                                                           *)
(***************************************************************************)

\* The next entry of the log, or a policy frame this stream has brought before.
Delivers(i) ==
    /\ sync = "streaming"
    /\ applying = NotApplying
    /\ i \in 1..Len(log)
    /\ \/ i = token + 1
       \/ /\ "duplicates" \in Features
          /\ i \in (opened + 1)..token
          /\ log[i].mutation.kind \in {"bundle", "data"}

\* After an applied frame the token moves to it; a repeated frame carries none.
Advance(i) ==
    /\ token' = IF i > token THEN i ELSE token
    /\ UNCHANGED sync

\* An error of applyMutation leaves the token and forces a rebootstrap.
Refuse == sync' = "refused" /\ UNCHANGED token

ApplyTupleWrite(i) ==
    LET m == log[i].mutation
    IN  /\ Delivers(i)
        /\ m.kind = "write"
        /\ IF Validates(m.tuple)
             THEN tuples' = tuples \cup {m.tuple} /\ Advance(i)
             ELSE UNCHANGED tuples /\ Refuse
        /\ UNCHANGED <<logVars, revision, bundle, data, opened, guards, applying, load, mirror, faults>>

\* Fault: the floor is off by one.
RefusesDeleteEarly(t) == t \in tuples \cap Guarded /\ Cardinality(tuples \cap Guarded) <= 2

\* DeleteTuple fails with ErrLastHolder on the local store.
RefusesDelete(t) == LastHolder(tuples, t)

\* Fault: the delete is acknowledged and not made.
ApplyTupleDeleteSkipped(i) ==
    /\ Delivers(i)
    /\ log[i].mutation.kind = "delete"
    /\ Advance(i)
    /\ UNCHANGED <<logVars, engines, opened, guards, applying, load, mirror, faults>>

ApplyTupleDelete(i) ==
    LET m == log[i].mutation
    IN  /\ Delivers(i)
        /\ m.kind = "delete"
        /\ IF RefusesDelete(m.tuple)
             THEN UNCHANGED tuples /\ Refuse
             ELSE tuples' = tuples \ {m.tuple} /\ Advance(i)
        /\ UNCHANGED <<logVars, revision, bundle, data, opened, guards, applying, load, mirror, faults>>

ApplyModelUpdate(i) ==
    /\ Delivers(i)
    /\ log[i].mutation.kind = "model"
    /\ ActivateModel(log[i].mutation.revision)
    /\ Advance(i)
    /\ UNCHANGED <<logVars, tuples, bundle, data, opened, guards, applying, load, mirror, faults>>

StaleBundle(v) == v # 0 /\ v <= lastBundleVersion

\* Fault: the live data is not laid over the new bundle.
ApplyBundleGuardNoOverlay(i) ==
    LET m == log[i].mutation
    IN  /\ Delivers(i)
        /\ m.kind = "bundle"
        /\ IF StaleBundle(m.bundle.version)
             THEN Advance(i) /\ UNCHANGED applying
             ELSE /\ applying' = [pc |-> "load", frame |-> i, baseline |-> baselineData,
                                  overlays |-> NoData, todo |-> {}]
                  /\ UNCHANGED <<sync, token>>
        /\ UNCHANGED <<logVars, engines, opened, guards, load, mirror, faults>>

\* applyPolicyBundle up to LoadBundle: the version guard, and the overlays and
\* the baseline read under c.mu.
ApplyBundleGuard(i) ==
    LET m == log[i].mutation
    IN  /\ Delivers(i)
        /\ m.kind = "bundle"
        /\ IF StaleBundle(m.bundle.version)
             THEN Advance(i) /\ UNCHANGED applying
             ELSE /\ applying' = [pc |-> "load", frame |-> i, baseline |-> baselineData,
                                  overlays |-> [p \in Paths |-> lastData[p].value],
                                  todo |-> {p \in Paths : lastData[p].value # NoValue}]
                  /\ UNCHANGED <<sync, token>>
        /\ UNCHANGED <<logVars, engines, opened, guards, load, mirror, faults>>

\* LoadBundle with the baseline; ApplyBundleFails is its error.
ApplyBundleLoad ==
    /\ applying.pc = "load"
    /\ LoadBundle(log[applying.frame].mutation.bundle, applying.baseline)
    /\ applying' = [applying EXCEPT !.pc = "overlay"]
    /\ UNCHANGED <<logVars, tuples, revision, sync, token, opened, guards, load, mirror, faults>>

\* SetPolicyData of one overlay; ApplyBundleFails is its error.
ApplyBundleOverlay(p) ==
    /\ applying.pc = "overlay"
    /\ p \in applying.todo
    /\ data' = [data EXCEPT ![p] = applying.overlays[p]]
    /\ applying' = [applying EXCEPT !.todo = @ \ {p}]
    /\ UNCHANGED <<logVars, tuples, revision, bundle, sync, token, opened, guards, load, mirror, faults>>

ApplyBundleRecord ==
    /\ applying.pc = "overlay"
    /\ applying.todo = {}
    /\ lastBundleVersion' = log[applying.frame].mutation.bundle.version
    /\ Advance(applying.frame)
    /\ applying' = NotApplying
    /\ UNCHANGED <<logVars, engines, opened, rebootstraps, lastData, baselineData, load, mirror, faults>>

\* LoadBundle or SetPolicyData returns an error: what the calls before have loaded
\* stays, and no version is recorded.
ApplyBundleFails ==
    /\ \/ applying.pc = "load"
       \/ applying.pc = "overlay" /\ applying.todo # {}
    /\ EngineFails
    /\ Refuse
    /\ applying' = NotApplying
    /\ UNCHANGED <<logVars, engines, opened, guards, load, mirror>>

StaleData(p, v) == v # 0 /\ v <= lastData[p].version

\* applyPolicyData; SetPolicyData fails while no bundle is loaded.
ApplyPolicyData(i) ==
    LET m == log[i].mutation
    IN  /\ Delivers(i)
        /\ m.kind = "data"
        /\ \/ /\ StaleData(m.path, m.version)
              /\ Advance(i)
              /\ UNCHANGED <<data, lastData>>
           \/ /\ ~StaleData(m.path, m.version)
              /\ bundle = NoBundle
              /\ Refuse
              /\ UNCHANGED <<data, lastData>>
           \/ /\ ~StaleData(m.path, m.version)
              /\ bundle # NoBundle
              /\ data' = [data EXCEPT ![m.path] = m.value]
              /\ lastData' = [lastData EXCEPT ![m.path] =
                                 [version |-> m.version, value |-> m.value]]
              /\ Advance(i)
        /\ UNCHANGED <<logVars, tuples, revision, bundle, opened, rebootstraps, lastBundleVersion,
                       baselineData, applying, load, mirror, faults>>

\* The engine call of a model or data frame returns an error.
ApplyFrameFails(i) ==
    LET m == log[i].mutation
    IN  /\ Delivers(i)
        /\ \/ m.kind = "model"
           \/ m.kind = "data" /\ ~StaleData(m.path, m.version)
        /\ EngineFails
        /\ Refuse
        /\ UNCHANGED <<logVars, engines, opened, guards, applying, load, mirror>>

(***************************************************************************)
(* GrantAccess and RevokeAccess (remoteTupleWriter)                        *)
(***************************************************************************)

\* The control plane has committed the call; its local half is still to come.
RemoteCommit(t) ==
    /\ "mirror" \in Features
    /\ mirror = NoCall
    /\ \/ PublishWrite(t) /\ mirror' = [op |-> "write", tuple |-> t]
       \/ PublishDelete(t) /\ mirror' = [op |-> "delete", tuple |-> t]
    /\ UNCHANGED <<engines, sync, token, opened, guards, applying, load, faults>>

\* Fault: a revoke is mirrored as a write.
MirrorLocallyWrites ==
    /\ mirror # NoCall
    /\ tuples' = tuples \cup {mirror.tuple}
    /\ mirror' = NoCall
    /\ UNCHANGED <<logVars, revision, bundle, data, sync, token, opened, guards, applying, load, faults>>

\* WriteRawTuple or DeleteRawTuple.
MirrorLocally ==
    /\ mirror # NoCall
    /\ tuples' = IF mirror.op = "write" THEN tuples \cup {mirror.tuple}
                                        ELSE tuples \ {mirror.tuple}
    /\ mirror' = NoCall
    /\ UNCHANGED <<logVars, revision, bundle, data, sync, token, opened, guards, applying, load, faults>>

(***************************************************************************)
(* Specification                                                           *)
(***************************************************************************)

Init ==
    /\ LogInit
    /\ tuples = {}
    /\ revision = 0
    /\ bundle = NoBundle
    /\ data = NoData
    /\ sync = "new"
    /\ token = 0
    /\ opened = 0
    /\ rebootstraps = FALSE
    /\ lastBundleVersion = 0
    /\ lastData = [p \in Paths |-> [version |-> 0, value |-> NoValue]]
    /\ baselineData = NoData
    /\ applying = NotApplying
    /\ load = [l \in Loaders |-> NotLoading]
    /\ mirror = NoCall
    /\ faults = 0

ControlPlane ==
    LogNext /\ UNCHANGED <<engines, sync, token, opened, guards, applying, load, mirror, faults>>

LoaderStep(l) ==
    \/ FetchSnapshot(l)
    \/ LoadModelStep(l)
    \/ \E t \in Tuples : LoadTuple(l, t) \/ LoadTupleInvalid(l, t)
    \/ LoadBundleStep(l)

Finish == FinishBootstrap \/ FinishRebootstrap \/ FinishInterval

Receive(i) ==
    \/ ApplyTupleWrite(i)
    \/ ApplyTupleDelete(i)
    \/ ApplyModelUpdate(i)
    \/ ApplyBundleGuard(i)
    \/ ApplyPolicyData(i)

ApplyBundle ==
    \/ ApplyBundleLoad
    \/ \E p \in Paths : ApplyBundleOverlay(p)
    \/ ApplyBundleRecord

ApplyFails ==
    \/ \E i \in 1..Len(log) : ApplyFrameFails(i)
    \/ ApplyBundleFails

Next ==
    \/ ControlPlane
    \/ \E l \in Loaders : LoaderStep(l) \/ LoadFails(l)
    \/ Finish
    \/ OpenStream \/ OpenFails \/ TokenRefused \/ Disconnect \/ BackoffElapsed
    \/ \E i \in 1..Len(log) : Receive(i)
    \/ ApplyBundle
    \/ ApplyFails
    \/ \E t \in Tuples : RemoteCommit(t)
    \/ MirrorLocally

Spec == Init /\ [][Next]_vars

\* Run retries for ever, and its goroutine is scheduled: once the faults are over
\* a stream opens or is refused, its next frame arrives, and a rebootstrap goes
\* to its end.
Fairness ==
    /\ WF_vars(OpenStream \/ TokenRefused)
    /\ WF_vars(BackoffElapsed)
    /\ WF_vars(\E i \in {token + 1} : Receive(i))
    /\ WF_vars(ApplyBundle)
    /\ WF_vars(LoaderStep("sync"))
    /\ WF_vars(FinishRebootstrap)

FairSpec == Spec /\ Fairness

(***************************************************************************)
(* Properties                                                              *)
(***************************************************************************)

\* Every variable has its shape, and every position is one of the log.
TypeOK ==
    /\ environment \in Environments
    /\ log \in Seq([mutation: Mutations, state: States])
    /\ horizon \in 0..Len(log)
    /\ tuples \in SUBSET Tuples
    /\ revision \in 0..MaxRevision
    /\ bundle \in Bundles
    /\ data \in Data
    /\ sync \in {"new", "connect", "streaming", "refused", "backoff"}
    /\ token \in 0..Len(log)
    /\ opened \in 0..Len(log)
    /\ rebootstraps \in BOOLEAN
    /\ lastBundleVersion \in Nat
    /\ lastData \in [Paths -> [version: Nat, value: Values \cup {NoValue}]]
    /\ baselineData \in Data
    /\ applying \in [pc: {"idle", "load", "overlay"}, frame: 0..Len(log),
                    baseline: Data, overlays: Data, todo: SUBSET Paths]
    /\ load \in [Loaders -> [pc: {"idle", "model", "tuples", "finish"},
                             snap: 0..Len(log), todo: SUBSET Tuples]]
    /\ mirror \in {NoCall} \cup Calls
    /\ faults \in 0..environment.maxFaults

\* Whatever was lost, refused, reloaded half-way or loaded by the ticker in
\* between, every tuple the tenant holds at the client's token is in the local
\* store: the token never passes a grant that was not applied (sync.go:311-326,
\* bootstrap.go:76-80).  The write-through of RevokeAccess is left out, see
\* MirrorConverges.
NoMissedGrant ==
    "mirror" \notin Features /\ sync # "new"
        => StateAt(token).tuples \subseteq tuples

\* A delete that removed a tuple at the control plane is never refused by the
\* local floor of the relation (zanzibar.go:338-350), whatever stale tuples the
\* store holds: refusing it would force a rebootstrap that cannot remove the
\* tuple either.
DeletesNeverRefused ==
    "mirror" \notin Features /\ sync = "streaming" /\ token < Len(log)
        => LET m == log[token + 1].mutation
           IN  m.kind = "delete" /\ m.tuple \in StateAt(token).tuples
                  => ~RefusesDelete(m.tuple)

\* A client that has one never goes back to an older token, so a reconnect never
\* replays what was applied (sync.go:220-225, :264-270).
TokenNeverRegresses == [][sync # "new" => token' >= token]_vars

\* The values of a path that are in force at a position of the log: the one
\* evaluation reads there, and the dynamic one a bundle would be overlaid with.
InForce(n, p) ==
    {EffectiveData(StateAt(n))[p]} \cup ({StateAt(n).data[p]} \ {NoValue})

\* The bundle after the token is loaded, but its frame has not been acknowledged: it
\* failed half-way, and will be applied again when the stream brings it again.
HalfApplied ==
    /\ token < Len(log)
    /\ log[token + 1].mutation.kind = "bundle"
    /\ bundle = log[token + 1].mutation.bundle

\* A path whose latest value the client knows: either it has had no live update, or
\* no later one was missed.  A rebootstrap does not clear lastDataValue, so after a
\* window with such an update the older value is laid over the next bundle.
Tracked(p) == lastData[p].version \in {0, StateAt(token).dataVersion[p]}

\* Between frames the loaded bundle is at least as new as the one in force at the
\* client's token: no repeated frame, failed apply or failed rebootstrap rolls the
\* policy back behind the token (sync.go:403-460).  Evaluation also reads at every
\* tracked path a value in force at the token or later: a bundle swap, which rebuilds
\* the data store, loses neither a live update nor the bootstrap data, and lays no
\* data from before a rebootstrap over the new bundle (sync.go:435-454,
\* sync_lifecycle.go:173-177).  The exception is a bundle frame that failed between
\* the swap and its last overlay, until it is applied again.
PolicyNotBehindToken ==
    "ticker" \notin Features /\ sync = "streaming" /\ applying = NotApplying
        => /\ bundle.version >= StateAt(token).bundle.version
           /\ \/ HalfApplied
              \/ \A p \in Paths : Tracked(p) =>
                    \E n \in token..Len(log) : data[p] \in InForce(n, p)

\* Between frames of an open stream, with nothing else in progress.
Settled ==
    /\ sync = "streaming"
    /\ applying = NotApplying
    /\ \A l \in Loaders : load[l] = NotLoading
    /\ mirror = NoCall

\* The local store holds exactly the tenant's tuples at the client's token, over
\* any number of lost connections (sync.go:272-277), while nothing is loaded twice
\* and nothing written through: what a second load leaves behind is
\* RebootstrapReplacesState.
TuplesFollowToken ==
    Features \cap {"ticker", "failures", "mirror"} = {} /\ ~rebootstraps /\ Settled
        => tuples = StateAt(token).tuples

\* A rebootstrap reloads the SDK's full state: no tuple that was deleted in the
\* missed window is still there (sync.go:26-31).
RebootstrapReplacesState ==
    Settled /\ rebootstraps => tuples \subseteq StateAt(token).tuples

\* After a GrantAccess or RevokeAccess that returned without an error the local
\* mirror has converged with the control plane (zanzibar.go:433-434, :462-463),
\* although the stream brings each call again, behind later ones.  It holds while
\* nobody else changes the tenant's tuples and nothing is loaded twice.
MirrorConverges ==
    /\ "mirror" \in Features /\ Features \cap {"ticker", "failures"} = {}
    /\ Kinds \cap {"write", "delete"} = {}
    /\ ~rebootstraps /\ Settled /\ token = Len(log)
    => tuples = Current.tuples

\* A client that was started catches up with the log and stays there, once the
\* control plane is quiet and the faults are over: no refused token, rejected
\* frame or failed rebootstrap leaves Run in a loop (sync.go:143-147, :171-199).
CatchesUp == (sync # "new") ~> [](sync = "streaming" /\ token = Len(log))
=============================================================================
