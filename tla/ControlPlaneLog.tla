--------------------------- MODULE ControlPlaneLog ---------------------------
(***************************************************************************)
(* The control plane as the SDK sees it (external): one tenant's ordered   *)
(* log of mutations, and the state after each of them.  A continuation     *)
(* token is a position in this log; a bootstrap snapshot is the state at   *)
(* the position its token names; the mutation stream delivers the entries  *)
(* after the token it was opened with.                                     *)
(***************************************************************************)
EXTENDS Naturals, Sequences, FiniteSets

CONSTANTS
    Tuples,       \* relationship tuples
    Guarded,      \* the tuples of one relation with min_holders 1, on one object
    Admits,       \* per model revision: the tuples ValidateTuple accepts
    MaxRevision,  \* bound on model revisions
    Paths,        \* dynamic policy-data paths, none a prefix of another
    Values,       \* policy-data values
    NoValue,      \* the path holds nothing
    Environments  \* what the client may have to live with: the kinds of mutation
                  \* others make, the features of SyncClient, and the bounds on
                  \* the log and on faults

ASSUME LogAssumption ==
    /\ Guarded \subseteq Tuples
    /\ MaxRevision \in Nat \ {0}
    /\ Admits \in [1..MaxRevision -> SUBSET Tuples]
    /\ NoValue \notin Values
    /\ Environments \subseteq
          [kinds: SUBSET {"write", "delete", "model", "bundle", "data"},
           features: SUBSET {"trim", "failures", "ticker", "mirror", "duplicates"},
           maxLog: Nat, maxFaults: Nat]

VARIABLES
    environment,  \* the environment of this behaviour; it never changes
    log,          \* sequence of [mutation, state]: each mutation and the state it leaves
    horizon       \* tokens below this position are refused: the window cannot be replayed

logVars == <<environment, log, horizon>>

Kinds == environment.kinds
Features == environment.features

Data == [Paths -> Values \cup {NoValue}]
NoData == [p \in Paths |-> NoValue]

\* A compiled bundle: its version and the data it embeds.  Version 0: none loaded.
Bundles == [version: Nat, embedded: Data]
NoBundle == [version |-> 0, embedded |-> NoData]

States ==
    [tuples: SUBSET Tuples, revision: 1..MaxRevision, bundle: Bundles,
     data: Data, dataVersion: [Paths -> Nat]]

InitialState ==
    [tuples |-> {}, revision |-> 1, bundle |-> NoBundle,
     data |-> NoData, dataVersion |-> [p \in Paths |-> 0]]

Mutations ==
    [kind: {"write", "delete"}, tuple: Tuples]
        \cup [kind: {"model"}, revision: 1..MaxRevision]
        \cup [kind: {"bundle"}, bundle: Bundles]
        \cup [kind: {"data"}, path: Paths, value: Values, version: Nat]

StateAt(n) == IF n = 0 THEN InitialState ELSE log[n].state
Current == StateAt(Len(log))

\* One data map laid over another: setNestedData for each path of the overlay.
Overlay(under, over) ==
    [p \in Paths |-> IF over[p] = NoValue THEN under[p] ELSE over[p]]

\* What evaluation at this state reads: the dynamic data over the bundle's own.
EffectiveData(s) ==
    IF s.bundle = NoBundle THEN NoData ELSE Overlay(s.bundle.embedded, s.data)

\* DeleteIfAbove with a floor of one refuses a tuple that is present while no more
\* than one is: it is the only one.
LastHolder(held, t) == held \cap Guarded = {t}

Publish(m, s) ==
    /\ Len(log) < environment.maxLog
    /\ log' = Append(log, [mutation |-> m, state |-> s])
    /\ UNCHANGED <<environment, horizon>>

PublishWrite(t) ==
    /\ t \in Admits[Current.revision]
    /\ Publish([kind |-> "write", tuple |-> t],
               [Current EXCEPT !.tuples = @ \cup {t}])

PublishDelete(t) ==
    /\ ~LastHolder(Current.tuples, t)
    /\ Publish([kind |-> "delete", tuple |-> t],
               [Current EXCEPT !.tuples = @ \ {t}])

\* SaveModelForTenant does not look at the tuples already stored; an environment
\* that let a stored tuple become invalid would make every later bootstrap fail.
PublishModel ==
    /\ Current.revision < MaxRevision
    /\ Current.tuples \subseteq Admits[Current.revision + 1]
    /\ Publish([kind |-> "model", revision |-> Current.revision + 1],
               [Current EXCEPT !.revision = @ + 1])

\* Bundle and data versions are positive and increase (dpagent.pb.go:1420, :1477).
PublishBundle(embedded) ==
    LET b == [version |-> Current.bundle.version + 1, embedded |-> embedded]
    IN  Publish([kind |-> "bundle", bundle |-> b], [Current EXCEPT !.bundle = b])

PublishData(p, v) ==
    Publish([kind |-> "data", path |-> p, value |-> v,
             version |-> Current.dataVersion[p] + 1],
            [Current EXCEPT !.data[p] = v, !.dataVersion[p] = @ + 1])

\* Old entries leave the replay window.
Trim ==
    /\ "trim" \in Features
    /\ horizon' \in (horizon + 1)..Len(log)
    /\ UNCHANGED <<environment, log>>

LogInit == environment \in Environments /\ log = <<>> /\ horizon = 0

LogNext ==
    \/ "write" \in Kinds /\ \E t \in Tuples : PublishWrite(t)
    \/ "delete" \in Kinds /\ \E t \in Tuples : PublishDelete(t)
    \/ "model" \in Kinds /\ PublishModel
    \/ "bundle" \in Kinds /\ \E d \in Data : PublishBundle(d)
    \/ "data" \in Kinds /\ \E p \in Paths, v \in Values : PublishData(p, v)
    \/ Trim
=============================================================================
