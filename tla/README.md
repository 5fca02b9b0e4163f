# A TLA+ development of the Atol Go SDK

The SDK keeps an in-memory replica of a tenant's authorization state (tuples,
authorization model, policy bundle and data), answers authorization questions
from it, and authenticates the requests of a resource server. The replica is not
persisted: the control plane is the source of truth, and an application may
supply a persistent model store. This directory models the
parts of the SDK whose correctness depends on the order in which things happen,
checks them with TLC on small instances, and proves the main properties with
TLAPS for every value of the constants.

All paths below are relative to `src/`. `PROJECT.json` maps every definition to
the lines it models, lists the runs, the mutants that show each property can
fail, the theorems and the hazards.

## Inventory

| Component | State | Operations | What makes it hard |
|---|---|---|---|
| Serving gate (`sync/tenant_serving_gate.go`) | bound tenant, lease, restriction | bind, renew, restrict, require active | `Renew` checks before it locks; frames of several streams; restart forgets a restriction |
| Sync client (`sync/sync.go`, `sync_lifecycle.go`, `bootstrap/`) | token, stream, version guards, pending loads | bootstrap, open, receive, apply, rebootstrap, ticker | lost streams, refused tokens, loads that fail half-way, three loaders without a common lock |
| Write-through (`tuple_writer.go`) | a call between the remote and the local write | grant, revoke | races the stream's copy of the same mutation |
| Relationship store (`zanzibar/store/memory.go`, `zanzibar/relationships.go`) | two indexes, materialized tuples | write, delete, guarded delete, transaction, replacement | floors under racing deletes; notifications after the lock is released |
| Materializers (`materializer.go`) | registered callbacks | register, materialize, materialize all | callbacks run without a lock: runs overlap, data changes under them, one of several fails |
| Tuple paging (`zanzibar/store/store.go`, `zanzibar/store/memory.go`, `zanzibar/pagination.go`) | none; the cursor is the caller's | read page, with and without an excluded subject | the store changes between two pages; the page limit |
| Model cache (`zanzibar/model_cache.go`, `zanzibar/zanzibar.go`) | default and tenant models with revisions | load, set, activate, refresh, startup load | processes that share a store; stale refreshes; numbering without a store |
| Model compiler (`zanzibar/model/`) | none | compile, validate | unions that name missing relations, floors |
| Check and listings (`zanzibar/check/`) | visited set, recursion | check, list objects, list users | cyclic graphs; the store changes between reads |
| Policy engine (`policy/engine/`) | bundle generation with data and prepared queries | load bundle, set data, evaluate | swaps during evaluations; errors against "no opinion" |
| Decision API (`atol.go`, `check.go`, `staleness.go`, `tenant_serving.go`) | bootstrapped flag, client pointer | authorize, can, check | gates read one after the other while Bootstrap and the stream change them |
| Decision log (`decision/`) | bounded buffer, counters | log, flush, stop, send | full buffer, partial sends, stop racing the loop, entries in flight when a send times out |
| Signed streams (`hmac/stream.go`, `hmac/transport.go`) | sequence number and code of the last frame, at both ends | encode, read and verify | lost, repeated, reordered, altered and foreign frames, early ends |
| Signing keys (`identity/jwks.go`) | key set, times | get, refresh, forced refresh | rotation, slow fetches under the lock, paced waiters |
| Revocation list (`session_validator.go`) | list, health | poll, stop, look up | failed polls; two critical sections per poll |
| Proof check (`dpop.go`) | replay guard | validate, check and record | two readings of the clock, window boundaries |
| Drift detector (`device/drift.go`, `device/snapshot.go`) | snapshot cache, reported shapes | inspect | fetches outside the lock, both sets at their limits |
| Middleware (`auth.go`, `middleware/`) | a request in progress | three entry points | which checks run for which entry point, scheme and token |

The parts interact as follows. `Bootstrap` loads a snapshot into the
relationship engine and the policy engine and starts the sync client, whose
stream carries mutations and serving frames. Serving frames drive the gate,
which both engines and the decision API consult. The decision API asks the
policy engine, which asks the relationship engine, and every outcome goes to the
decision log, whose sink sends each batch to the control plane on a signed stream.
Materializers write what the application computes beside the replicated tuples.
Independently, the middleware authenticates requests with the key
cache, the revocation list, the drift detector and the proof check.

## Modules

| Modules | Model |
|---|---|
| `ServingGate`, `ServingProtocol` | the gate by itself, with callers that may pass anything; and the gate driven by streams, challenges, a control plane, late and repeated frames and restarts |
| `ControlPlaneLog`, `SyncClient` | the control plane as an ordered log (external), and one SDK instance that mirrors it |
| `TupleSet`, `TupleStore` | what a tuple store promises (one set, atomic requests), and `MemoryStore` under the engine with racing callers and a notified replica |
| `Materializers`, `TuplePaging`, `BoundedPage` | materializer runs over that store; scans, page by page, over both; and how a page is selected from maps in any order |
| `ModelCache` | engines with a default model and cached tenant models over a shared or no model store |
| `AuthModel`, `Checker` | the compiler as operators on raw models, and the depth-first check and the listings, one store read per step, with a concurrent writer |
| `PolicyEngine`, `Authorize` | bundle generations and the decision contract, and calls of the decision API from the gates to the log |
| `PrefixStream`, `SignedStream` | what a signed stream promises (a prefix, and the end only after all of it), and the encoder and the verified reader around a connection that does what it likes with the frames |
| `DecisionLogger`, `DecisionDelivery` | callers, buffer, flush loop, `Stop` and a sink that succeeds or fails; and its composition with `SignedStream`, one stream per batch, `sendTimeout`, entries too large to send and a control plane that ingests what its reader exposes |
| `RequestClock`, `JWKSFetcher`, `SessionValidator`, `DPoPValidator`, `DriftDetector`, `RequestPath` | the four components of request authentication, and the middleware that composes them |
| `*Proofs` | theorems about the module of the same name and about the modules it composes: `ServingProtocolProofs` covers `ServingGate`, `TuplePagingProofs` covers `TupleStore` and `Materializers`, `DecisionDeliveryProofs` covers `DecisionLogger` and `SignedStream`, `AuthorizeProofs` covers `PolicyEngine`, `RequestPathProofs` the four components of request authentication |
| `MC*` | instances for TLC |

Conventions. One action is what runs between two points at which another
goroutine can interfere: a critical section, one call of another component, one
read of the store. Variables carry the names of the fields they model. The
clock is a counter. Variables commented "history" are never read by the model;
they remember what a property compares with. Operators that start with
"Fault:" in their comment are mutants: plausible bugs that a property must
catch. Where a component is configured in several ways, the configuration and
the bounds of its environment are a record chosen once in `Init` (`deployment`,
`environment`, `setting`), so that one run covers all of them.

Some abstractions of the newer modules. The authentication code of a frame is an
injective function of the stream's key and of what it covers; that nobody else
can compute it is assumed, and the connection can only pass on codes that were
written, or wrong ones. A callback of a materializer reads the application's data
in one step. `promised` remembers, per name, the registration and the data at the
start of the last call that returned no error; `overlapped` the names whose last
result came from a run that another run had overtaken, of which the code promises
nothing. A filter is the set of tuples it matches, and a cursor the query it is
bound to and the key of a tuple; limits and malformed cursors that are refused
change nothing and are left out.

Engine calls fail in `SyncClient` at any step (`EngineFails`): a model or a bundle that
does not compile, a data path without a parent document. What the calls before have
done stays, the token stays and the client reloads (`ApplyFrameFails`,
`ApplyBundleFails`, `LoadFails`). In `DriftDetector` a bound device may lack a browser
family or a device id, and a token may name no organisation. The rule paths that yield
a bare `allow` have neither a reason nor a step-up (`PolicyEngine`, `BarePaths`).

Three details are coarser than the code, with no property about the difference. The
replay guard reads the clock just before it takes its mutex, the model in the same
step: an earlier reading prunes less. Cancelling a send whose close frame has not been
encoded is a cut of the connection (`GivesUp`). Subscribers told of a default model
by `LoadModel` or `SetModel` are not in `notified`, which is about tenant models.

## Runs

| Run | Shows |
|---|---|
| `serving` | A restricted gate holds no lease, a lease was minted for this process, and a tenant restricted for `MaxLease` plus the skew is served nowhere, restarts included. Within a process, no repeated or reordered frame drops a restriction or puts one of an older epoch in its place (`AuthorityIsSticky`). |
| `sync_safety` | In seven environments: the token never passes a grant that is missing in the store, nor a bundle, and bundle swaps lose no data (`PolicyNotBehindToken`, with the exceptions below), although any call of an engine may fail; the local floor refuses no replicated delete; while nothing is loaded twice or written through, the tuples are exactly the state at the token; a single writer's mirror converges, while nothing is loaded twice. |
| `sync_liveness` | With boundedly many faults, a started client reaches the end of the log, through lost connections, refused tokens, failed frames and failed loads. |
| `sync_stale_tuples` | Violated: a tuple deleted while the token was too old survives the rebootstrap. |
| `tuple_store` | Racing `DeleteTuple` calls keep the floor, a notified replica converges where calls do not overlap, and the store implements `TupleSet`. A materializer call without an error is reflected in the store, or something newer is, unless an overtaken run stored last. A scan returns every tuple that was there from its first page to its last, and none on two pages; `insertBoundedPageTuple` selects the page in whatever order the maps are walked. |
| `tuple_floor_batch` | Violated: a batch of `WriteRelationships` that only deletes removes the last direct holder of a required relation. |
| `decision_log` | Every loss is counted; what the logger calls delivered was received, what was received was delivered, counted as lost or is in a batch being sent, and no entry comes twice or out of order; each stream implements `PrefixStream` whatever happens to its frames; every entry is eventually dealt with. |
| `decision_stop` | Violated: `Stop` flushes one batch, and a longer buffer is neither sent nor counted. |
| `model_cache` | Operations see models committed before they began, a successful load is visible, activations and notifications never go back. |
| `checker` | An allow is derivable from tuples seen during the check, a deny is right about tuples present throughout, and every check ends: each call of `check` is a frame of its own, so that only the visited set makes the recursion finite; listings agree with the reference. |
| `authorize` | A decision comes from one bundle generation, falls back only without an opinion, is served under a lease and from fresh data; each outcome is logged as returned. |
| `request` | A key id is reported unknown only if it was not published throughout; withdrawn keys end within TTL and one fetch; revoked sessions stay out; a proof passes once within its window; bound tokens are proven at every entry point; a drift shape is reported again only after an overflow. |

The reference definitions the properties compare with are independent of the
algorithms: `Checker` has the least fixed point of the rewrites as a closed set
of nodes, `TupleStore` is compared with the abstract set `TupleSet`, `SignedStream`
with `PrefixStream`, a scan with the tuples watched from its start, and
`SyncClient` with the state the log records at each position.

### Bounds

The bounds are in the `.cfg` files and in the `MC` modules.

- Two goroutines of a kind are the smallest number that race; where a property
  needs a third event (an overflow, a second reader) the bound on calls allows it.
- Clocks reach past the longest window of the run: lease plus skew plus a
  restart in `serving`, TTL plus fetch timeout in `request`, the staleness
  budget and a late noticed disconnect in `authorize`.
- Logs have 3 or 4 entries (2 in `sync_liveness`, which has every kind): long enough for write, delete and write again of a
  tuple, and for a guarded relation to lose all but its last holder.
- Faults, failures and changes of the environment are bounded (`maxFaults`,
  `MaxFailures`, `MaxChanges`). Each property has a mutant that violates it within
  the bounds of its run, so none of them holds for want of room.
- `tuple_store` has seven settings: two racing callers without replacements, and
  without single writes; two overlapping runs of one
  materializer that is registered twice, and of two materializers; scans with one
  caller, with a transaction and a materializer, and a caller with a materializer.
  All of them at once are out of TLC's reach; the theorems hold for all at once. Pages have one or two of four tuples, so that a scan crosses pages, meets
  its limit exactly and truncates a page.
- `decision_log` has three: two callers and `Stop` over a sound connection, with and
  without a timeout, and one caller over a connection with one fault of any kind.
- Small limits (`BufferSize` 2 in `decision_log`, `FlushSize` 2, `MaxEntries` 1, `MaxSeen` 1)
  make the buffers and caches overflow within a few calls.
- `MaxDepth` bounds the calls of `check` that are active at once and only keeps the
  search finite for a check that does not end. No path of distinct nodes in the run's
  models is that long: a check that reached the bound would have come to a node again,
  and `CheckEnds` would be violated, as no call can then be made.
- Symmetry is used for callers, tenants and engines where no definition
  distinguishes them, and never in a run with a liveness property.

`CHECK_DEADLOCK FALSE` is set where the environment is bounded or the component
may be stopped, so that behaviours really end.

### Fairness

- `SyncClient`: weak fairness of each step of `Run`'s own goroutine (open,
  back off, receive, apply, load, finish). The loop has no other way to wait,
  and a backoff timer fires. Faults are not fair and are bounded by `maxFaults`; an
  engine call that fails, such as the load of a bundle that does not compile, is one
  of them, so `CatchesUp` is about failures that end.
- `DecisionLogger`: weak fairness of the ticker, of the steps of a flush, of
  `Stop`'s wait and of a caller that has to count its drop: each is a goroutine
  that waits for nothing but a timer or a mutex that is held briefly.
  `DecisionDelivery` adds the steps of the two ends of an open stream; a stream
  that gets no answer ends with `sendTimeout`.
- `Checker`: weak fairness of the steps of the search (`CheckProgress`, without
  cancellation and store errors) and of the listing: they run in the caller's
  goroutine.
- Fairness of `Receive` and `OpenStream` also says that the control plane accepts
  a stream in the end and that an open one delivers the next entry; `CatchesUp`
  cannot hold without it. Nothing else is assumed of the application, the control
  plane, the network or the clock.

## Proofs

All theorems hold for every value of the constants that satisfies the named
assumptions (`GateAssumption`, `ProtocolAssumption`, `LogAssumption`,
`StoreAssumption`, `CallbackAssumption`, `PagingAssumption`, `LoggerAssumption`,
`DeliveryAssumption`, `ModelCacheAssumption`, `CheckerAssumption`, `ModelAssumption`,
`FetcherAssumption`, `ProofAgeAssumption`, `DriftAssumption`, and the `DeploymentAssumption`
of `Authorize` and of `RequestPath`): sets of any size, finite ones where an assumption
says so, and any natural bounds.

| Module | Theorems | Argument |
|---|---|---|
| `ServingProtocolProofs` | `GateSafety`, `GateAuthority`, `ProtocolImplementsGate`, `AuthoritySticks`, `RestrictionFences`, `LeaseProvenance` | A `Renew` between its checks and the mutex carries an expiration that is stored later, so `GateInv` bounds pending expirations as well as the lease. With streams, `Inv` follows an expiration from the frame that is minted (`FramesOK`) through the `Renew` in flight (`PendingOK`) to the lease (`LeaseOK`), and shows at each place that it lies no more than a lease after the tenant's restriction. The streams reach the gate only through its operations (`ProtocolImplementsGate`), so what holds of the gate under any caller (`GateSafety`, `GateAuthority`) holds of the composition. |
| `SyncClientProofs` | `SyncTypes`, `GrantsReachTheStore`, `DeletesAccepted`, `TokenMonotone`, `StoreFollowsToken`, `WriteThroughConverges`, `PolicyReachesToken` | `NoMissedGrant` needs what the log records (`LogOK`), that a load has written what it has taken off its list and nothing deletes meanwhile (`LoadOK`), and that a bundle in progress is the entry after the token (`ApplyOK`). That the tuples *are* the state at the token (`FollowOK`) needs in addition that a snapshot is valid for the model loaded with it (`ModelOK`, `RevisionOK`). For a writer's mirror, each tuple is one the stream has still to change, one whose call is half mirrored, or one on which the store and the control plane agree (`WrittenOK`, with `LogKeeps`). For the policy, versions never decrease along the log (`VersionsOK`), so that the guards skip only what has been loaded (`BundleOK`); a data version has one value (`HistoryOK`), so that a live value with the version at the token is the one in force there; a finished load leaves exactly the snapshot's data (`EngineOK`), whatever failed before it; and data written while a bundle is swapped is laid over it again (`DataOK`). |
| `TuplePagingProofs` | `StoreTypes`, `IndexSafety`, `FloorSafety`, `StoreImplementsTupleSet`, `ReplicaSafety`, `PagingKeepsStore`, `ScansComplete`, `MaterializersFresh` | The index agreement is inductive with the shape of pending calls (`CallOK`); the refinement maps a call to a request of `TupleSet`; the replica needs that a pending notification is the only one of its tuple and ends with what the store holds (`ReplicaInv`). Materializer runs and scans only take steps of `TupleStore`, so its theorems carry over. A scan has, at any time, returned all watched tuples of its finished queries and those of the current one up to its cursor (`ScanInv`). A *claim* is what has been vouched for, or will be by a run that has stored the name and not failed; a result in the store and a run that nobody has overtaken are as new as every claim (`FreshInv`), which is what makes the next claim true when that run stores. |
| `DecisionDeliveryProofs` | `LoggerTypes`, `Conservation`, `Ordered`, `LossAccounting`, `StreamsImplementPrefix`, `DeliveryRefinesLogger`, `DeliveryKeepsPromise`, `ReceiptAccounting`, `DeliveryLossAccounting` | `Placed` gives every accepted entry its place: the buffer and the batches hold the last ones consecutively, and `Discipline` shows that one flusher at a time holds a batch. On a stream, every code on the wire belongs to a frame that was written (`WireInv`) and determines it (`SentInv`), so that a frame the reader accepts is the one after those it has accepted (`ReaderInv`), and each stream implements `PrefixStream`. The composition takes only steps of the logger and of the streams, so both sets of theorems carry over; `SinkState` ties each stream to the batch it carries, which gives the account of receipts. `Counted` adds that what was lost is finite, and a failed send loses the last entries of its batch. |
| `ModelCacheProofs` | `CacheIsTyped`, `EvaluatesFresh`, `LoadsAreVisible`, `FenceHolds`, `ToldInOrder` | With a store, a revision names one model wherever it is held: in the cache, in what a startup load has still to activate, in the entry a call carries (`IsStored`, `ListedOK`). Without one the revisions are the engine's own, and only the update lock keeps two loads from taking the same one (`LocalOK`). |
| `CheckerProofs` | `CheckerIsTyped`, `CheckSound`, `CheckComplete`, `NoRepeatedNode`, `ObjectsListedExactly`, `UsersListedCompletely` | Soundness follows a granted node to the root along tuples that were there at some time (`LeadsToRoot`). Completeness shows that the nodes a finished search did not grant are closed under the rewrites and the tuples that stayed (`Explored`, `DirectMissed`), so the least fixed point does not contain the root. A listing of objects is exact because it asks the check for every candidate (`ObjectsInv`); a listing of users has listed the holders of every relation it has read, and what these are computed from is read or still to be read (`UsersInv`). |
| `AuthorizeProofs` | `DecisionTypes`, `DecidedByOneGeneration`, `ErrorsNeverFallBack`, `LeaseCoversDecisions`, `DecisionsAreFresh`, `LogIsFaithful` | The invariant follows a call from gate to gate: behind the serving gate the lease was seen in force, behind the staleness gate the data was seen fresh (`Gated`), which needs that the client never heard of a stream later than it was alive (`ClockInv`). The pinned generation keeps its rules and its versions of data only grow (`EngineInv`), so what explains a decision when it is made explains it for ever (`Justified`); while the rule paths are asked, each path behind the call was undefined for some answer of the check the call has seen (`Progress`). |
| `RequestPathProofs` | `RequestTypes`, `UnknownKeysAreUnknown`, `RetiredKeysEnd`, `ProofsPassOnce`, `ReportsAreBounded`, `RevokedSessionsStayOut`, `BoundTokensAreProven` | Each component has an inductive invariant of its own, and the steps of a request are steps of the components. `KeysInv`: the answer of a fetch is no older than the question of anybody who is told by it, the waiters that share it included. `ListInv` and `RequestInv`: each poll asks for all that an earlier one knew, and a request keeps what it was checked for. `GuardInv`: the guard knows an id for at least as long as the proof can be in its window. `ReportsInv`: a shape that is not marked has a report left to make. |

The conjuncts that are properties of interest are also invariants of the runs;
the strengthenings (such as `Placed`, `LoadOK` or `Explored`) live in the proof
modules and are established by the proofs. Type correctness, the bound on
the buffer, the lease window (`LeaseWithinWindow`), the token's monotonicity and
`DepthBounded`, the agreement of the two indexes (`IndexesAgree`), the conservation
and the order of log entries (`EntriesConserved`, `DeliveredInOrder`) are proved and
therefore in no run.

Every safety property of the passing runs is proved, with one exception:
`BoundedInsertSelectsPage` says what a recursive function computes, which for every
input needs an induction over data. It is model-checked only, and so is liveness
(`CatchesUp`, `EntriesHandled`, `CheckEnds`): fairness is out of the prover's reach.
The properties of the three violated runs are false, and have nothing to prove.

## Disagreements between code and documentation

Three are shown by a run (`findings` in `PROJECT.json`):

- `bootstrap/bootstrap.go:76`: a rebootstrap writes the snapshot over the old
  store and removes nothing, where `sync/sync.go:26` speaks of the full state.
- `zanzibar/relationships.go:251`: `WriteRelationships` does not look at the floor
  that `zanzibar/model/types.go:24` says a relation must retain. Neither does
  `ReplaceRelationships`, which the run leaves out.
- `decision/logger.go:101`: `Stop` flushes one batch, not "remaining entries".

Others were met while reading and are recorded here without a run:

- `sync/sync.go:435`, `sync_lifecycle.go:173`: a rebootstrap reseeds the baseline and
  leaves `lastDataValue` and `lastDataVersion` alone. When it brought a newer value of
  a path than the last one the stream had delivered, the next bundle swap lays the
  older live value over it, where `sync/sync.go:442` says that a swap never reverts
  bootstrap-loaded data. `PolicyNotBehindToken` leaves such paths out (`Tracked`);
  without that conjunct TLC finds the behaviour.
- `sync/sync.go:450`: an overlay that fails leaves the new bundle in place without the
  values still to be laid over it, until the frame is applied again. If the
  rebootstrap in between fails as well, evaluation meanwhile runs without them
  (`HalfApplied`).
- `sync_lifecycle.go:77`: the bootstrap-interval ticker may put an older bundle
  back that the stream has already replaced; `PolicyNotBehindToken` is checked
  without the ticker.
- `tuple_writer.go:80`: with a second writer, the local half of a grant or a
  revoke can undo a newer change the stream has applied; `MirrorConverges` is
  about a single writer.
- `bootstrap/bootstrap.go:76`: a tuple the new model does
  not admit makes every load fail until the control plane drops it. `PublishModel`
  assumes that a new model admits the tuples that are there, as `CatchesUp` needs;
  a load overtaken by a delete and a narrower model is in `sync_safety`.
- `zanzibar/relationships.go:39`: the read-only pre-check `CanDelete` counts materialized holders,
  which the delete does not; it is not modelled.
- `zanzibar/check/list.go:88`: `ListUsers` has no visited set, so that unions
  that name each other recurse without end; the model bounds it by
  `MaxListReads`.
- `zanzibar/check/checker.go:121`: for a plain user the filter of the direct
  check has an empty user relation, which matches any.
- `policy/engine/engine.go:332`: `SetPolicyData` on a generation that is swapped
  meanwhile is lost.
- `policy/engine/builtins.go:112`: a failing `zanzibar.check` answers false,
  under a negation as well, where `engine.go:203-206` wants errors to surface.
- `staleness.go:123`: between Bootstrap and the first open of the stream an
  instance counts as stale, although it has just loaded.
- `sync/sync.go:135`: only `NewClient` installs the policy engine's gate, so
  that a local instance that calls Bootstrap gets one as well.
- `zanzibar/store/store.go:185` says a guarded delete is refused when it would
  drop the count "to min or below"; the code refuses below min.
- `device/snapshot.go:100`: overlapping fetches of a snapshot may be stored in
  the opposite order.
- `device/drift.go:56` says "at most once" where the set of reported shapes is
  emptied on overflow; `OneReportPerReset` states what holds.
- `dpop.go:288`: the age of a proof and the guard's pruning use two readings of
  the clock; `AcceptedOnceInWindow` is about passes within the window.
- `session_validator.go:90`, `decision/logger.go:99`: a second `Close` panics.
- `materializer.go:58`: overlapping runs of a materializer may store their results
  in the opposite order; `MaterializedFresh` is about the other names.
- `zanzibar/store/memory.go:236`: a tuple held both by the index and by a
  materializer is on the same page twice; `ScanComplete` says that none is on two pages.
- `zanzibar/store/store.go:19`: callers "must continue with the returned cursor", but
  a returned cursor above the maximal length is refused (`LongKeys`).
- `sync_lifecycle.go:127`: a second Bootstrap leaves the first client running.

## Not modelled

Cryptography (signatures, hashes, key derivation), the text of YAML, Rego, JWT
and URIs, metrics and logging, generated code, the test kit, and the pure
functions of `email/`, `encryption/` and `policy/generate.go`. They have no
interleavings, and what the modelled parts need of them is a verdict. The
evaluation of Rego is abstracted to conditions on data and on the relationship
and to the values a rule can have. `SyncClient` has one client per process; a
second call of Bootstrap, which leaves the first client running, is left out.

The listings of `access_list.go` are `ListUsers`, `ListObjects` and `ReadTuples` with
other types around them, and `ListMembers` is one `ListUsers` per relation. `Close`
cancels the goroutines of `SyncClient` between any two of their steps; as nothing
says what the replica must be afterwards, it is left out.

## Plan

Done: the survey; the modules, runs and proofs above.

Next: a second Bootstrap and `Close` in `SyncClient`.
