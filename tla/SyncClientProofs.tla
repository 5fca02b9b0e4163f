-------------------------- MODULE SyncClientProofs ---------------------------
(***************************************************************************)
(* The token never passes a grant that was not applied, and the local      *)
(* tuples and the policy follow it, for every log, every set of tuples and *)
(* paths and every number of faults.                                       *)
(*                                                                         *)
(* NoMissedGrant is not inductive.  It needs what the log records (LogOK), *)
(* that the loads whose token the client adopts have written what they     *)
(* have taken off their list, and that nothing deletes meanwhile (LoadOK), *)
(* and that a bundle being applied is the entry after the token (ApplyOK). *)
(* That the tuples follow the token needs more (StoreInv): the model the   *)
(* client validates against (ModelOK, TickerOK, RevisionOK), what a load   *)
(* that is not over has written (FollowOK), and, for what is written       *)
(* through, which changes of a tuple are still to come (LogKeeps,          *)
(* WrittenOK).  PolicyNotBehindToken speaks of the moments between frames. *)
(* It is inductive with the order of the versions in the log (VersionsOK,  *)
(* HistoryOK), the guards against repeated frames (BundleOK), what a load  *)
(* leaves in the policy engine (EngineOK), and what a bundle being applied *)
(* has read and has still to lay over the new data (DataOK).               *)
(***************************************************************************)
EXTENDS SyncClient, TLAPS

Entries == [mutation: Mutations, state: States]

\* What one entry of the log does to the tuples of the state before it.
EntryOK(s, e) ==
    /\ e.mutation.kind = "write" => e.state.tuples = s.tuples \cup {e.mutation.tuple}
    /\ e.mutation.kind = "delete" =>
          /\ e.state.tuples = s.tuples \ {e.mutation.tuple}
          /\ ~LastHolder(s.tuples, e.mutation.tuple)
    /\ e.mutation.kind \in {"model", "bundle", "data"} => e.state.tuples = s.tuples

\* What it does to the model: revisions grow, and stay valid for the tuples held.
ModelEntryOK(s, e) ==
    /\ s.revision <= e.state.revision
    /\ s.tuples \subseteq Admits[s.revision] => e.state.tuples \subseteq Admits[e.state.revision]
    /\ e.mutation.kind = "model" => e.mutation.revision = e.state.revision

\* What it does to the policy bundle and to the dynamic policy data.
PolicyEntryOK(s, e) ==
    /\ e.mutation.kind = "bundle" =>
          e.mutation.bundle = e.state.bundle /\ e.state.bundle.version = s.bundle.version + 1
    /\ e.mutation.kind # "bundle" => e.state.bundle = s.bundle
    /\ e.mutation.kind = "data" =>
          /\ e.mutation.version = s.dataVersion[e.mutation.path] + 1
          /\ \A p \in Paths :
                /\ e.state.data[p] = IF p = e.mutation.path THEN e.mutation.value ELSE s.data[p]
                /\ e.state.dataVersion[p] =
                      IF p = e.mutation.path THEN e.mutation.version ELSE s.dataVersion[p]
    /\ e.mutation.kind # "data" => e.state.data = s.data /\ e.state.dataVersion = s.dataVersion

Follows(s, e) == EntryOK(s, e) /\ ModelEntryOK(s, e) /\ PolicyEntryOK(s, e)

LogOK == \A i \in 1..Len(log) : Follows(StateAt(i - 1), log[i])

LogType == environment \in Environments /\ log \in Seq(Entries) /\ horizon \in 0..Len(log)

\* Positions keep their entries for ever.
LogGrows ==
    /\ LogType'
    /\ LogOK'
    /\ Len(log) <= Len(log') /\ Len(log') <= Len(log) + 1
    /\ \A i \in 1..Len(log) : log'[i] = log[i]
    /\ environment' = environment

(***************************************************************************)
(* Order and ranges of natural numbers                                     *)
(***************************************************************************)

LEMMA FromZero == \A a \in Nat : 0 <= a
  OBVIOUS

LEMMA Reflexive == \A a \in Nat : a <= a
  OBVIOUS

LEMMA Transitive == \A a, b, c \in Nat : a <= b /\ b <= c => a <= c
  OBVIOUS

LEMMA BelowNext == \A a, b \in Nat : a <= b => a <= b + 1
  OBVIOUS

LEMMA OneAhead ==
    ASSUME NEW n \in Nat, NEW k \in 0..n, NEW i, i = k + 1
    PROVE  i - 1 = k /\ i > k
  OBVIOUS

LEMMA NotAhead ==
    ASSUME NEW n \in Nat, NEW k \in 0..n, NEW i \in 1..k
    PROVE  ~(i > k)
  OBVIOUS

LEMMA PastStart ==
    ASSUME NEW n \in Nat, NEW k \in 0..n, NEW o \in 0..n, NEW i \in (o + 1)..k
    PROVE  i \in 1..k
  OBVIOUS

LEMMA EmptyLog ==
    ASSUME Init
    PROVE  /\ Len(log) = 0 /\ \A n \in 0..Len(log) : n = 0
           /\ StateAt(0) = InitialState /\ Current = InitialState
BY DEF Init, LogInit, Current, StateAt

(***************************************************************************)
(* The log                                                                 *)
(***************************************************************************)

LEMMA InitialStateType == InitialState \in States /\ NoData \in Data /\ NoBundle \in Bundles
BY LogAssumption DEF InitialState, States, NoData, Data, NoBundle, Bundles

LEMMA StateType ==
    ASSUME LogType, NEW n \in 0..Len(log)
    PROVE  StateAt(n) \in States
<1>1. CASE n = 0
  BY <1>1, InitialStateType, Zenon DEF StateAt
<1>2. CASE n # 0
  <2>1. n \in 1..Len(log)
    BY <1>2 DEF LogType
  <2>2. log[n] \in Entries
    BY <2>1 DEF LogType
  <2> QED BY <1>2, <2>2, Zenon DEF StateAt, Entries
<1> QED BY <1>1, <1>2, Zenon

LEMMA PublishGrows ==
    ASSUME LogType, LogOK, NEW m \in Mutations, NEW s \in States,
           Follows(Current, [mutation |-> m, state |-> s]),
           Publish(m, s)
    PROVE  LogGrows
<1> DEFINE e == [mutation |-> m, state |-> s]
<1>1. e \in Entries
  BY Zenon DEF Entries
<1>2. log' = Append(log, e) /\ horizon' = horizon /\ environment' = environment
  BY Zenon DEF Publish
<1>3. /\ log' \in Seq(Entries)
      /\ Len(log') = Len(log) + 1
      /\ \A i \in 1..Len(log) : log'[i] = log[i]
      /\ log'[Len(log) + 1] = e
  BY <1>1, <1>2 DEF LogType
<1>4. LogType'
  BY <1>2, <1>3 DEF LogType
<1>5. \A n \in 0..Len(log) : StateAt(n)' = StateAt(n)
  BY <1>3 DEF StateAt, LogType
<1>6. ASSUME NEW i \in 1..Len(log')
      PROVE  Follows(StateAt(i - 1), log[i])'
  <2>1. CASE i \in 1..Len(log)
    <3>1. Follows(StateAt(i - 1), log[i])
      BY <2>1, Zenon DEF LogOK
    <3>2. StateAt(i - 1)' = StateAt(i - 1) /\ log'[i] = log[i]
      BY <2>1, <1>3, <1>5 DEF LogType
    <3> QED BY <3>1, <3>2, Zenon
  <2>2. CASE i = Len(log) + 1
    <3>1. StateAt(i - 1)' = Current /\ log'[i] = e
      BY <2>2, <1>3, <1>5 DEF Current, LogType
    <3> QED BY <3>1, Zenon
  <2> QED BY <1>3, <2>1, <2>2 DEF LogType
<1>7. LogOK'
  BY <1>6, Zenon DEF LogOK
<1> QED BY <1>2, <1>3, <1>4, <1>7 DEF LogGrows, LogType

LEMMA TuplesPublished ==
    ASSUME LogType, LogOK, NEW t \in Tuples, PublishWrite(t) \/ PublishDelete(t)
    PROVE  LogGrows
<1>1. Current \in States
  BY StateType DEF Current, LogType
<1>2. CASE PublishWrite(t)
  <2> DEFINE m == [kind |-> "write", tuple |-> t]
             s == [Current EXCEPT !.tuples = @ \cup {t}]
  <2>1. m \in Mutations /\ s \in States
    BY <1>1, Zenon DEF Mutations, States
  <2>2. Follows(Current, [mutation |-> m, state |-> s])
    <3>1. t \in Admits[Current.revision]
      BY <1>2, Zenon DEF PublishWrite
    <3> QED BY <1>1, <3>1 DEF Follows, EntryOK, ModelEntryOK, PolicyEntryOK, States
  <2>3. Publish(m, s)
    BY <1>2, Zenon DEF PublishWrite
  <2> HIDE DEF m, s
  <2> QED BY <2>1, <2>2, <2>3, PublishGrows, Zenon
<1>3. CASE PublishDelete(t)
  <2> DEFINE m == [kind |-> "delete", tuple |-> t]
             s == [Current EXCEPT !.tuples = @ \ {t}]
  <2>1. m \in Mutations /\ s \in States
    BY <1>1, Zenon DEF Mutations, States
  <2>2. Follows(Current, [mutation |-> m, state |-> s])
    BY <1>1, <1>3 DEF Follows, EntryOK, ModelEntryOK, PolicyEntryOK, States, PublishDelete
  <2>3. Publish(m, s)
    BY <1>3, Zenon DEF PublishDelete
  <2> HIDE DEF m, s
  <2> QED BY <2>1, <2>2, <2>3, PublishGrows, Zenon
<1> QED BY <1>2, <1>3, Zenon

LEMMA LogNextGrows ==
    ASSUME LogType, LogOK, LogNext
    PROVE  LogGrows
<1>1. Current \in States
  BY StateType DEF Current, LogType
<1>2. CASE \E t \in Tuples : PublishWrite(t) \/ PublishDelete(t)
  BY <1>2, TuplesPublished, Zenon
<1>3. CASE PublishModel
  <2> DEFINE m == [kind |-> "model", revision |-> Current.revision + 1]
             s == [Current EXCEPT !.revision = @ + 1]
  <2>0. Current.revision + 1 \in 1..MaxRevision
    BY <1>1, <1>3, LogAssumption DEF PublishModel, States
  <2>1. m \in Mutations /\ s \in States
    BY <1>1, <2>0, Zenon DEF Mutations, States
  <2>2. Follows(Current, [mutation |-> m, state |-> s])
    <3>1. Current.tuples \subseteq Admits[Current.revision + 1]
      BY <1>3, Zenon DEF PublishModel
    <3> QED BY <1>1, <3>1 DEF Follows, EntryOK, ModelEntryOK, PolicyEntryOK, States
  <2>3. Publish(m, s)
    BY <1>3, Zenon DEF PublishModel
  <2> HIDE DEF m, s
  <2> QED BY <2>1, <2>2, <2>3, PublishGrows, Zenon
<1>4. ASSUME NEW d \in Data, PublishBundle(d)
      PROVE  LogGrows
  <2> DEFINE b == [version |-> Current.bundle.version + 1, embedded |-> d]
             m == [kind |-> "bundle", bundle |-> b]
             s == [Current EXCEPT !.bundle = b]
  <2>0. b \in Bundles
    BY <1>1 DEF States, Bundles
  <2>1. m \in Mutations /\ s \in States
    BY <1>1, <2>0, Zenon DEF Mutations, States
  <2>2. Follows(Current, [mutation |-> m, state |-> s])
    BY <1>1 DEF Follows, EntryOK, ModelEntryOK, PolicyEntryOK, States
  <2>3. Publish(m, s)
    BY <1>4, Zenon DEF PublishBundle
  <2> HIDE DEF m, s
  <2> QED BY <2>1, <2>2, <2>3, PublishGrows, Zenon
<1>5. ASSUME NEW p \in Paths, NEW v \in Values, PublishData(p, v)
      PROVE  LogGrows
  <2> DEFINE m == [kind |-> "data", path |-> p, value |-> v,
                   version |-> Current.dataVersion[p] + 1]
             s == [Current EXCEPT !.data[p] = v, !.dataVersion[p] = @ + 1]
  <2>0. Current.dataVersion[p] + 1 \in Nat
    BY <1>1 DEF States
  <2>1. m \in Mutations
    BY <2>0, Zenon DEF Mutations
  <2>2. s \in States
    BY <1>1, <2>0, Zenon DEF States, Data
  <2>3. Follows(Current, [mutation |-> m, state |-> s])
    <3>1. EntryOK(Current, [mutation |-> m, state |-> s])
      BY <1>1, Zenon DEF EntryOK, States
    <3>2. /\ s.revision = Current.revision /\ s.tuples = Current.tuples /\ s.bundle = Current.bundle
          /\ s.data = [Current.data EXCEPT ![p] = v]
          /\ s.dataVersion = [Current.dataVersion EXCEPT ![p] = Current.dataVersion[p] + 1]
      BY <1>1, Zenon DEF States
    <3>3. ModelEntryOK(Current, [mutation |-> m, state |-> s])
      <4>1. Current.revision <= Current.revision /\ m.kind # "model"
        BY <1>1 DEF States
      <4> HIDE DEF s, m
      <4> QED BY <3>2, <4>1, Zenon DEF ModelEntryOK
    <3>4. PolicyEntryOK(Current, [mutation |-> m, state |-> s])
      <4> HIDE DEF s
      <4> QED BY <1>1, <3>2, Zenon DEF PolicyEntryOK, States, Data
    <3> QED BY <3>1, <3>3, <3>4, Zenon DEF Follows
  <2>4. Publish(m, s)
    BY <1>5, Zenon DEF PublishData
  <2> HIDE DEF m, s
  <2> QED BY <2>1, <2>2, <2>3, <2>4, PublishGrows, Zenon
<1>6. CASE Trim
  BY <1>6 DEF Trim, LogGrows, LogType, LogOK, StateAt
<1> QED BY <1>2, <1>3, <1>4, <1>5, <1>6, Zenon DEF LogNext

LEMMA StepGrows ==
    ASSUME TypeOK, LogOK, [Next]_vars
    PROVE  LogGrows
<1>0. LogType
  BY Zenon DEF TypeOK, LogType, Entries
<1>1. CASE ControlPlane
  BY <1>0, <1>1, LogNextGrows, Zenon DEF ControlPlane
<1>2. CASE \E t \in Tuples : RemoteCommit(t)
  BY <1>0, <1>2, TuplesPublished, Zenon DEF RemoteCommit
<1>3. CASE UNCHANGED logVars
  BY <1>0, <1>3 DEF LogGrows, LogType, LogOK, StateAt, logVars
<1>4. ASSUME ~ControlPlane, ~\E t \in Tuples : RemoteCommit(t)
      PROVE  UNCHANGED logVars
  BY <1>4, Zenon DEF Next, vars, LoaderStep, FetchSnapshot, LoadModelStep, LoadTuple, LoadTupleInvalid,
              LoadBundleStep, AbandonLoad, LoadFails, Finish, FinishBootstrap, FinishRebootstrap,
              FinishInterval, OpenStream, OpenFails, TokenRefused, Disconnect, BackoffElapsed,
              Receive, ApplyTupleWrite, ApplyTupleDelete, ApplyModelUpdate, ApplyBundleGuard,
              ApplyPolicyData, ApplyBundle, ApplyBundleLoad, ApplyBundleOverlay,
              ApplyBundleRecord, ApplyFails, ApplyFrameFails, ApplyBundleFails, MirrorLocally
<1> QED BY <1>1, <1>2, <1>3, <1>4, Zenon

LEMMA PositionsStable ==
    ASSUME LogType, LogGrows
    PROVE  /\ Len(log) \in Nat /\ Len(log') \in Nat
           /\ 0..Len(log) \subseteq 0..Len(log')
           /\ \A n \in 0..Len(log) : StateAt(n)' = StateAt(n)
<1>1. Len(log) \in Nat /\ Len(log') \in Nat /\ Len(log) <= Len(log')
  BY DEF LogType, LogGrows
<1>2. \A n \in 0..Len(log) : StateAt(n)' = StateAt(n)
  BY <1>1 DEF LogGrows, StateAt
<1> QED BY <1>1, <1>2

\* The bundle frame being applied is an entry of the log, at most one after the
\* token.
ApplyOK ==
    applying.pc # "idle" =>
        /\ sync = "streaming"
        /\ applying.frame \in 1..Len(log)
        /\ applying.frame <= token + 1
        /\ log[applying.frame].mutation.kind = "bundle"

\* A load whose token the client will adopt.
LoadOK ==
    /\ load["app"].pc # "idle" => sync = "new"
    /\ load["sync"].pc # "idle" => sync = "refused" /\ token <= load["sync"].snap
    /\ \A l \in {"app", "sync"} :
          /\ load[l].pc = "finish" => load[l].todo = {}
          /\ "mirror" \notin Features /\ load[l].pc # "idle" =>
                StateAt(load[l].snap).tuples \ load[l].todo \subseteq tuples

MirrorOK == mirror # NoCall => "mirror" \in Features

Inv == TypeOK /\ LogOK /\ ApplyOK /\ LoadOK /\ MirrorOK /\ NoMissedGrant

\* An engine call that fails while a frame is applied moves nothing but the run.
Rejected ==
    /\ "failures" \in Features
    /\ sync = "streaming" /\ sync' = "refused" /\ token' = token
    /\ applying' = NotApplying
    /\ UNCHANGED <<logVars, engines, opened, guards, load, mirror>>

LEMMA IdleRecords == NotApplying.pc = "idle" /\ NotLoading.pc = "idle" /\ NoBundle.version = 0
BY DEF NotApplying, NotLoading, NoBundle

LEMMA FailedApply ==
    ASSUME ApplyOK, ApplyFails
    PROVE  Rejected
<1>1. CASE \E i \in 1..Len(log) : ApplyFrameFails(i)
  BY <1>1, Zenon DEF ApplyFrameFails, Delivers, EngineFails, Refuse, Rejected
<1>2. CASE ApplyBundleFails
  BY <1>2, Zenon DEF ApplyBundleFails, ApplyOK, EngineFails, Refuse, Rejected
<1> QED BY <1>1, <1>2, Zenon DEF ApplyFails

LEMMA InitInv == Init => Inv
<1> SUFFICES ASSUME Init PROVE Inv
  BY Zenon
<1>1. TypeOK
  <2>1. log \in Seq([mutation: Mutations, state: States]) /\ Len(log) = 0
    BY DEF Init, LogInit
  <2>0. environment \in Environments /\ environment.maxFaults \in Nat
    BY LogAssumption, Zenon DEF Init, LogInit
  <2>2. bundle \in Bundles /\ data \in Data /\ baselineData \in Data
    BY InitialStateType, Zenon DEF Init
  <2>3. applying \in [pc: {"idle", "load", "overlay"}, frame: 0..Len(log),
                     baseline: Data, overlays: Data, todo: SUBSET Paths]
    BY <2>1, InitialStateType DEF Init, NotApplying
  <2>4. load \in [Loaders -> [pc: {"idle", "model", "tuples", "finish"},
                             snap: 0..Len(log), todo: SUBSET Tuples]]
    BY <2>1 DEF Init, NotLoading
  <2>5. lastData \in [Paths -> [version: Nat, value: Values \cup {NoValue}]]
    BY Zenon DEF Init
  <2>6. revision \in 0..MaxRevision /\ faults \in 0..environment.maxFaults
    BY <2>0, LogAssumption DEF Init
  <2>7. token \in 0..Len(log) /\ opened \in 0..Len(log) /\ horizon \in 0..Len(log)
    BY <2>1 DEF Init, LogInit
  <2>8. tuples \in SUBSET Tuples /\ rebootstraps \in BOOLEAN /\ lastBundleVersion \in Nat
    BY Zenon DEF Init
  <2>9. sync \in {"new", "connect", "streaming", "refused", "backoff"} /\ mirror \in {NoCall} \cup Calls
    BY Zenon DEF Init
  <2> QED BY <2>0, <2>1, <2>2, <2>3, <2>4, <2>5, <2>6, <2>7, <2>8, <2>9, Zenon DEF TypeOK
<1>2. LogOK /\ ApplyOK /\ LoadOK /\ MirrorOK /\ NoMissedGrant
  BY DEF Init, LogInit, LogOK, ApplyOK, LoadOK, MirrorOK, NoMissedGrant, Loaders, NotLoading, NotApplying
<1> QED BY <1>1, <1>2, Zenon DEF Inv

LEMMA FrameMutation ==
    ASSUME TypeOK, NEW i \in 1..Len(log)
    PROVE  log[i].mutation \in Mutations
<1>1. log \in Seq(Entries)
  BY Zenon DEF TypeOK, Entries
<1>2. log[i] \in Entries
  BY <1>1
<1> QED BY <1>2, Zenon DEF Entries

LEMMA FrameBundle ==
    ASSUME TypeOK, NEW i \in 1..Len(log), log[i].mutation.kind = "bundle"
    PROVE  log[i].mutation.bundle \in Bundles
<1>1. log[i].mutation \in Mutations
  BY FrameMutation, Zenon
<1> QED BY <1>1, Zenon DEF Mutations

LEMMA FrameTuple ==
    ASSUME TypeOK, NEW i \in 1..Len(log), log[i].mutation.kind \in {"write", "delete"}
    PROVE  log[i].mutation.tuple \in Tuples
<1>1. log[i].mutation \in Mutations
  BY FrameMutation, Zenon
<1> QED BY <1>1, Zenon DEF Mutations

LEMMA FrameModel ==
    ASSUME TypeOK, NEW i \in 1..Len(log), log[i].mutation.kind = "model"
    PROVE  log[i].mutation.revision \in 1..MaxRevision
<1>1. log[i].mutation \in Mutations
  BY FrameMutation, Zenon
<1> QED BY <1>1, Zenon DEF Mutations

LEMMA FrameData ==
    ASSUME TypeOK, NEW i \in 1..Len(log), log[i].mutation.kind = "data"
    PROVE  /\ log[i].mutation.path \in Paths
           /\ log[i].mutation.value \in Values
           /\ log[i].mutation.version \in Nat
<1>1. log[i].mutation \in Mutations
  BY FrameMutation, Zenon
<1> QED BY <1>1, Zenon DEF Mutations

LEMMA OverlayType ==
    ASSUME NEW d \in Data, NEW e \in Data
    PROVE  Overlay(d, e) \in Data
BY Zenon DEF Overlay, Data

LEMMA TypeOfLoads ==
    ASSUME TypeOK, NEW l \in Loaders, LoaderStep(l) \/ LoadFails(l)
    PROVE  TypeOK'
<1>0. LogType
  BY Zenon DEF TypeOK, LogType, Entries
<1>a. Current \in States /\ StateAt(load[l].snap) \in States
  BY <1>0, StateType DEF Current, TypeOK
<1>b. Current.tuples \in SUBSET Tuples /\ Len(log) \in 0..Len(log)
  BY <1>a, <1>0 DEF States, LogType
<1>1. CASE FetchSnapshot(l)
  BY <1>1, <1>b, Zenon DEF FetchSnapshot, TypeOK, vars, logVars, engines, guards
<1>2. CASE LoadModelStep(l)
  <2>1. revision' \in 0..MaxRevision
    BY <1>2, <1>a DEF LoadModelStep, ActivateModel, TypeOK, States
  <2> QED BY <1>2, <2>1, ZenonT(40) DEF LoadModelStep, TypeOK, logVars, engines, guards
<1>3. CASE \E t \in Tuples : LoadTuple(l, t)
  BY <1>3, SMTT(30) DEF LoadTuple, TypeOK, logVars, engines, guards
<1>4. CASE LoadBundleStep(l)
  <2>1. bundle' \in Bundles /\ data' \in Data
    <3>1. CASE StateAt(load[l].snap).bundle = NoBundle
      BY <1>4, <3>1, Zenon DEF LoadBundleStep, TypeOK
    <3>2. CASE StateAt(load[l].snap).bundle # NoBundle
      <4>1. StateAt(load[l].snap).bundle \in Bundles /\ StateAt(load[l].snap).data \in Data
        BY <1>a, Zenon DEF States
      <4>2. StateAt(load[l].snap).bundle.embedded \in Data
        BY <4>1, Zenon DEF Bundles
      <4> QED BY <1>4, <3>2, <4>1, <4>2, OverlayType, Zenon DEF LoadBundleStep, LoadBundle
    <3> QED BY <3>1, <3>2, Zenon
  <2> QED BY <1>4, <2>1, SMTT(30) DEF LoadBundleStep, TypeOK, logVars, engines, guards
<1>5. CASE (\E t \in Tuples : LoadTupleInvalid(l, t)) \/ LoadFails(l)
  <2>1. AbandonLoad(l) /\ faults' \in 0..environment.maxFaults
    BY <1>5, LogAssumption, SMTT(30) DEF LoadTupleInvalid, LoadFails, EngineFails, Fault, TypeOK
  <2>2. load' \in [Loaders -> [pc: {"idle", "model", "tuples", "finish"},
                             snap: 0..Len(log), todo: SUBSET Tuples]]
    BY <2>1, <1>0 DEF AbandonLoad, NotLoading, TypeOK, LogType
  <2> QED BY <2>1, <2>2, Zenon DEF AbandonLoad, TypeOK, logVars, engines, guards
<1> QED BY <1>1, <1>2, <1>3, <1>4, <1>5, Zenon DEF LoaderStep

LEMMA TypeOfRun ==
    ASSUME TypeOK,
           Finish \/ OpenStream \/ OpenFails \/ TokenRefused \/ Disconnect \/ BackoffElapsed
    PROVE  TypeOK'
<1>0. LogType
  BY Zenon DEF TypeOK, LogType, Entries
<1>a. \A l \in Loaders : StateAt(load[l].snap).data \in Data
  BY <1>0, StateType, Zenon DEF TypeOK, States
<1>b. ASSUME NEW l \in Loaders
      PROVE  [load EXCEPT ![l] = NotLoading] \in
                [Loaders -> [pc: {"idle", "model", "tuples", "finish"},
                             snap: 0..Len(log), todo: SUBSET Tuples]]
  BY <1>0 DEF TypeOK, NotLoading, LogType
<1>1. CASE FinishBootstrap
  <2>1. load["app"].snap \in 0..Len(log)
    BY Zenon DEF TypeOK, Loaders
  <2> QED BY <1>1, <2>1, <1>a, <1>b, SMTT(30) DEF FinishBootstrap, TypeOK, Loaders, logVars, engines, guards
<1>2. CASE FinishRebootstrap
  <2>1. load["sync"].snap \in 0..Len(log)
    BY Zenon DEF TypeOK, Loaders
  <2> QED BY <1>2, <2>1, <1>a, <1>b, SMTT(30) DEF FinishRebootstrap, TypeOK, Loaders, logVars, engines, guards
<1>3. CASE FinishInterval
  BY <1>3, <1>a, <1>b, SMTT(30) DEF FinishInterval, TypeOK, Loaders, logVars, engines, guards
<1>4. CASE OpenStream \/ OpenFails \/ TokenRefused \/ Disconnect \/ BackoffElapsed
  <2>1. faults' \in 0..environment.maxFaults
    BY <1>4, LogAssumption DEF OpenStream, OpenFails, TokenRefused, Disconnect, BackoffElapsed, Fault,
       TypeOK
  <2>2. /\ sync' \in {"connect", "streaming", "backoff", "refused"}
        /\ opened' \in 0..Len(log)
    BY <1>4, Zenon DEF OpenStream, OpenFails, TokenRefused, Disconnect, BackoffElapsed, TypeOK
  <2>3. UNCHANGED <<logVars, engines, token, guards, applying, load, mirror>>
    BY <1>4, Zenon DEF OpenStream, OpenFails, TokenRefused, Disconnect, BackoffElapsed
  <2> QED BY <2>1, <2>2, <2>3, Zenon DEF TypeOK, logVars, engines, guards
<1> QED BY <1>1, <1>2, <1>3, <1>4, Zenon DEF Finish

LEMMA AdvanceType ==
    ASSUME TypeOK, NEW i \in 1..Len(log), Advance(i)
    PROVE  token' \in 0..Len(log) /\ sync' = sync
<1>1. Len(log) \in Nat /\ token \in 0..Len(log)
  BY DEF TypeOK
<1> QED BY <1>1 DEF Advance

\* A tuple or a model frame.
LEMMA FrameKeepsTypes ==
    ASSUME TypeOK, token' \in 0..Len(log), sync' \in {sync, "refused"}, tuples' \in SUBSET Tuples,
           revision' \in 0..MaxRevision,
           UNCHANGED <<logVars, bundle, data, opened, guards, applying, load, mirror, faults>>
    PROVE  TypeOK'
<1>1. /\ environment' = environment /\ log' = log /\ horizon' = horizon /\ bundle' = bundle
      /\ data' = data /\ opened' = opened /\ rebootstraps' = rebootstraps
      /\ lastBundleVersion' = lastBundleVersion /\ lastData' = lastData
      /\ baselineData' = baselineData /\ applying' = applying /\ load' = load
      /\ mirror' = mirror /\ faults' = faults
  BY Zenon DEF logVars, guards
<1>2. sync' \in {"new", "connect", "streaming", "refused", "backoff"}
  BY Zenon DEF TypeOK
<1> QED BY <1>1, <1>2, Zenon DEF TypeOK

LEMMA TypeOfFrames ==
    ASSUME TypeOK, NEW i \in 1..Len(log), Receive(i)
    PROVE  TypeOK'
<1>0. i \in 1..Len(log)
  BY Zenon
     DEF Receive, ApplyTupleWrite, RefusesDelete, ApplyTupleDelete, ApplyModelUpdate, ApplyBundleGuard,
         ApplyPolicyData, Delivers
<1>b. ASSUME Refuse
      PROVE  token' \in 0..Len(log) /\ sync' = "refused"
  BY <1>b, Zenon DEF Refuse, TypeOK
<1>1. CASE ApplyTupleWrite(i)
  <2>1. log[i].mutation.tuple \in Tuples
    BY <1>0, <1>1, FrameTuple, Zenon DEF ApplyTupleWrite
  <2>2. /\ token' \in 0..Len(log)
        /\ sync' \in {sync, "refused"}
    BY <1>0, <1>1, <1>b, AdvanceType, Zenon DEF ApplyTupleWrite
  <2>3. tuples' \in SUBSET Tuples
    BY <1>1, <2>1, Zenon DEF ApplyTupleWrite, TypeOK
  <2>4. revision' \in 0..MaxRevision
    BY <1>1, Zenon DEF ApplyTupleWrite, TypeOK
  <2>5. UNCHANGED <<logVars, bundle, data, opened, guards, applying, load, mirror, faults>>
    BY <1>1, Zenon DEF ApplyTupleWrite
  <2> QED BY <2>2, <2>3, <2>4, <2>5, FrameKeepsTypes, Zenon
<1>2. CASE ApplyTupleDelete(i)
  <2>2. /\ token' \in 0..Len(log)
        /\ sync' \in {sync, "refused"}
    BY <1>0, <1>2, <1>b, AdvanceType, Zenon DEF ApplyTupleDelete
  <2>3. tuples' \in SUBSET Tuples
    BY <1>2, Zenon DEF RefusesDelete, ApplyTupleDelete, TypeOK
  <2>4. revision' \in 0..MaxRevision
    BY <1>2, Zenon DEF ApplyTupleDelete, TypeOK
  <2>5. UNCHANGED <<logVars, bundle, data, opened, guards, applying, load, mirror, faults>>
    BY <1>2, Zenon DEF ApplyTupleDelete
  <2> QED BY <2>2, <2>3, <2>4, <2>5, FrameKeepsTypes, Zenon
<1>3. CASE ApplyModelUpdate(i)
  <2>1. log[i].mutation.revision \in 1..MaxRevision
    BY <1>0, <1>3, FrameModel, Zenon DEF ApplyModelUpdate
  <2>2. token' \in 0..Len(log) /\ sync' = sync
    BY <1>0, <1>3, AdvanceType, Zenon DEF ApplyModelUpdate
  <2>3. revision' \in 0..MaxRevision
    <3>1. revision \in 0..MaxRevision
      BY Zenon DEF TypeOK
    <3>2. revision' \in {log[i].mutation.revision, revision}
      BY <1>3, Zenon DEF ApplyModelUpdate, ActivateModel
    <3> QED BY <2>1, <3>1, <3>2
  <2>4. tuples' \in SUBSET Tuples
    BY <1>3, Zenon DEF ApplyModelUpdate, TypeOK
  <2>5. UNCHANGED <<logVars, bundle, data, opened, guards, applying, load, mirror, faults>>
    BY <1>3, Zenon DEF ApplyModelUpdate
  <2> QED BY <2>2, <2>3, <2>4, <2>5, FrameKeepsTypes, Zenon
<1>4. CASE ApplyBundleGuard(i)
  <2>1. token' \in 0..Len(log) /\ sync' = sync
    BY <1>0, <1>4, AdvanceType, Zenon DEF ApplyBundleGuard, TypeOK
  <2>2. [p \in Paths |-> lastData[p].value] \in Data
    BY Zenon DEF TypeOK, Data
  <2>3. applying' \in [pc: {"idle", "load", "overlay"}, frame: 0..Len(log),
                      baseline: Data, overlays: Data, todo: SUBSET Paths]
    <3>1. i \in 0..Len(log)
      BY <1>0 DEF TypeOK
    <3>2. baselineData \in Data
      BY Zenon DEF TypeOK
    <3>3. {p \in Paths : lastData[p].value # NoValue} \in SUBSET Paths
      BY Zenon
    <3>4. CASE applying' = applying
      BY <3>4, Zenon DEF TypeOK
    <3>5. CASE applying' # applying
      BY <1>4, <3>5, <2>2, <3>1, <3>2, <3>3 DEF ApplyBundleGuard
    <3> QED BY <3>4, <3>5, Zenon
  <2> QED BY <1>4, <2>1, <2>3, Zenon DEF ApplyBundleGuard, TypeOK, logVars, engines, guards
<1>5. CASE ApplyPolicyData(i)
  <2>1. /\ log[i].mutation.path \in Paths
        /\ log[i].mutation.value \in Values
        /\ log[i].mutation.version \in Nat
    BY <1>0, <1>5, FrameData, Zenon DEF ApplyPolicyData
  <2>2. token' \in 0..Len(log) /\ sync' \in {sync, "refused"}
    BY <1>0, <1>5, <1>b, AdvanceType, Zenon DEF ApplyPolicyData
  <2>3. data' \in Data
    <3>1. data \in [Paths -> Values \cup {NoValue}]
      BY Zenon DEF TypeOK, Data
    <3>2. data' = data \/ data' = [data EXCEPT ![log[i].mutation.path] = log[i].mutation.value]
      BY <1>5, Zenon DEF ApplyPolicyData
    <3>3. data' \in [Paths -> Values \cup {NoValue}]
      BY <2>1, <3>1, <3>2, Zenon
    <3> QED BY <3>3, Zenon DEF Data
  <2>4. lastData' \in [Paths -> [version: Nat, value: Values \cup {NoValue}]]
    <3>1. [version |-> log[i].mutation.version, value |-> log[i].mutation.value]
             \in [version: Nat, value: Values \cup {NoValue}]
      BY <2>1, Zenon
    <3>2. lastData \in [Paths -> [version: Nat, value: Values \cup {NoValue}]]
      BY Zenon DEF TypeOK
    <3>3. \/ lastData' = lastData
          \/ lastData' = [lastData EXCEPT ![log[i].mutation.path] =
                 [version |-> log[i].mutation.version, value |-> log[i].mutation.value]]
      BY <1>5, Zenon DEF ApplyPolicyData
    <3> QED BY <2>1, <3>1, <3>2, <3>3, Zenon
  <2> QED BY <1>5, <2>2, <2>3, <2>4, Zenon DEF ApplyPolicyData, TypeOK, logVars
<1> QED BY <1>1, <1>2, <1>3, <1>4, <1>5, Zenon DEF Receive

LEMMA TypeOfBundles ==
    ASSUME TypeOK, ApplyOK, ApplyBundle
    PROVE  TypeOK'
<1>0. /\ applying.pc # "idle" /\ applying.frame \in 1..Len(log)
      /\ log[applying.frame].mutation.bundle \in Bundles
  BY FrameBundle, Zenon DEF ApplyBundle, ApplyBundleLoad, ApplyBundleOverlay, ApplyBundleRecord, ApplyOK
<1>1. CASE ApplyBundleLoad
  <2>1. log[applying.frame].mutation.bundle.embedded \in Data /\ applying.baseline \in Data
    BY <1>0, Zenon DEF Bundles, TypeOK
  <2>2. bundle' \in Bundles /\ data' \in Data
    BY <1>0, <1>1, <2>1, OverlayType, Zenon DEF ApplyBundleLoad, LoadBundle
  <2> QED BY <1>1, <2>2, Zenon DEF ApplyBundleLoad, TypeOK, logVars, guards
<1>2. ASSUME NEW p \in Paths, ApplyBundleOverlay(p)
      PROVE  TypeOK'
  <2>1. data' \in Data
    BY <1>2, Zenon DEF ApplyBundleOverlay, TypeOK, Data
  <2>2. applying' \in [pc: {"idle", "load", "overlay"}, frame: 0..Len(log),
                      baseline: Data, overlays: Data, todo: SUBSET Paths]
    BY <1>2, Zenon DEF ApplyBundleOverlay, TypeOK
  <2> QED BY <1>2, <2>1, <2>2, Zenon DEF ApplyBundleOverlay, TypeOK, logVars, guards
<1>3. CASE ApplyBundleRecord
  <2>1. lastBundleVersion' \in Nat
    BY <1>0, <1>3, Zenon DEF ApplyBundleRecord, Bundles
  <2>2. token' \in 0..Len(log) /\ sync' = sync
    BY <1>0, <1>3, AdvanceType, Zenon DEF ApplyBundleRecord
  <2>3. applying' \in [pc: {"idle", "load", "overlay"}, frame: 0..Len(log),
                      baseline: Data, overlays: Data, todo: SUBSET Paths]
    BY <1>3, InitialStateType DEF ApplyBundleRecord, NotApplying, TypeOK
  <2> QED BY <1>3, <2>1, <2>2, <2>3, Zenon DEF ApplyBundleRecord, TypeOK, logVars, engines
<1> QED BY <1>1, <1>2, <1>3, Zenon DEF ApplyBundle

LEMMA TypeOfFailures ==
    ASSUME TypeOK, ApplyOK, ApplyFails
    PROVE  TypeOK'
<1>1. Rejected
  BY FailedApply, Zenon
<1>2. Fault
  BY Zenon DEF ApplyFails, ApplyFrameFails, ApplyBundleFails, EngineFails
<1>3. faults' \in 0..environment.maxFaults
  BY <1>2, LogAssumption DEF Fault, TypeOK
<1>4. applying' \in [pc: {"idle", "load", "overlay"}, frame: 0..Len(log),
                    baseline: Data, overlays: Data, todo: SUBSET Paths]
  BY <1>1, InitialStateType DEF Rejected, NotApplying, TypeOK
<1> QED BY <1>1, <1>3, <1>4, Zenon DEF Rejected, TypeOK, logVars, engines, guards

LEMMA TypeOfTheRest ==
    ASSUME TypeOK, LogOK,
           ControlPlane \/ (\E t \in Tuples : RemoteCommit(t)) \/ MirrorLocally \/ UNCHANGED vars
    PROVE  TypeOK'
<1>0. LogType
  BY Zenon DEF TypeOK, LogType, Entries
<1>1. CASE ControlPlane \/ \E t \in Tuples : RemoteCommit(t)
  <2>1. LogGrows
    BY <1>0, <1>1, LogNextGrows, TuplesPublished, Zenon DEF ControlPlane, RemoteCommit
  <2>2. LogType' /\ 0..Len(log) \subseteq 0..Len(log') /\ environment' = environment
    BY <1>0, <2>1, PositionsStable, Zenon DEF LogGrows
  <2>3. mirror' \in {NoCall} \cup Calls
    <3>1. mirror \in {NoCall} \cup Calls
      BY Zenon DEF TypeOK
    <3>2. \/ mirror' = mirror
          \/ \E t \in Tuples : mirror' \in {[op |-> "write", tuple |-> t], [op |-> "delete", tuple |-> t]}
      BY <1>1, Zenon DEF ControlPlane, RemoteCommit
    <3> QED BY <3>1, <3>2 DEF Calls
  <2>4. UNCHANGED <<engines, sync, token, opened, guards, applying, load, faults>>
    BY <1>1, Zenon DEF ControlPlane, RemoteCommit
  <2>5. applying' \in [pc: {"idle", "load", "overlay"}, frame: 0..Len(log'),
                      baseline: Data, overlays: Data, todo: SUBSET Paths]
    BY <2>2, <2>4, Zenon DEF TypeOK
  <2>6. load' \in [Loaders -> [pc: {"idle", "model", "tuples", "finish"},
                             snap: 0..Len(log'), todo: SUBSET Tuples]]
    BY <2>2, <2>4, Zenon DEF TypeOK
  <2> QED BY <2>2, <2>3, <2>4, <2>5, <2>6, SMTT(30) DEF TypeOK, LogType, Entries, engines, guards
<1>2. CASE MirrorLocally
  <2>1. tuples' \in SUBSET Tuples
    BY <1>2, Zenon DEF MirrorLocally, TypeOK, Calls
  <2> QED BY <1>2, <2>1, Zenon DEF MirrorLocally, TypeOK, logVars, guards
<1>3. CASE UNCHANGED vars
  BY <1>3, Zenon DEF vars, TypeOK, logVars, engines, guards
<1> QED BY <1>1, <1>2, <1>3, Zenon

LEMMA TypeStep ==
    ASSUME TypeOK, LogOK, ApplyOK, [Next]_vars
    PROVE  TypeOK'
BY TypeOfLoads, TypeOfRun, TypeOfFrames, TypeOfBundles, TypeOfFailures, TypeOfTheRest, Zenon DEF Next

LEMMA ApplyStep ==
    ASSUME Inv, [Next]_vars
    PROVE  ApplyOK'
<1>0. TypeOK /\ LogOK /\ ApplyOK /\ LoadOK
  BY Zenon DEF Inv
<1>1. LogType /\ LogGrows
  BY <1>0, StepGrows, Zenon DEF TypeOK, LogType, Entries
<1>2. Len(log) \in Nat /\ Len(log') \in Nat /\ Len(log) <= Len(log') /\ token \in Nat
  BY <1>0, <1>1 DEF LogType, LogGrows, TypeOK
<1>3. ASSUME applying.pc # "idle", applying'.pc # "idle",
             applying'.frame = applying.frame, sync' = sync, token' >= token, token' \in Nat
      PROVE  ApplyOK'
  BY <1>0, <1>1, <1>2, <1>3 DEF ApplyOK, LogGrows, TypeOK
<1>4. CASE \E i \in 1..Len(log) : ApplyBundleGuard(i)
  <2> PICK i \in 1..Len(log) : ApplyBundleGuard(i)
    BY <1>4, Zenon
  <2>1. /\ sync = "streaming" /\ applying = NotApplying /\ i \in 1..Len(log) /\ i <= token + 1
        /\ log[i].mutation.kind = "bundle" /\ log' = log
    BY <1>2 DEF ApplyBundleGuard, Delivers, logVars
  <2>2. CASE applying' = applying
    BY <2>1, <2>2, Zenon DEF ApplyOK, NotApplying
  <2>3. CASE applying' # applying
    <3>1. applying'.frame = i /\ sync' = sync /\ token' = token
      BY <2>3 DEF ApplyBundleGuard
    <3> QED BY <2>1, <3>1, Zenon DEF ApplyOK
  <2> QED BY <2>2, <2>3, Zenon
<1>5. CASE ApplyBundle
  <2>1. CASE ApplyBundleLoad \/ \E p \in Paths : ApplyBundleOverlay(p)
    <3>1. /\ applying.pc # "idle" /\ applying'.pc # "idle" /\ applying'.frame = applying.frame
          /\ sync' = sync /\ token' = token
      BY <2>1, <1>0, Zenon DEF ApplyBundleLoad, ApplyBundleOverlay, TypeOK
    <3> QED BY <3>1, <1>2, <1>3
  <2>2. CASE ApplyBundleRecord
    BY <2>2, Zenon DEF ApplyBundleRecord, ApplyOK, NotApplying
  <2> QED BY <1>5, <2>1, <2>2, Zenon DEF ApplyBundle
<1>6. ASSUME applying' = applying, applying.pc = "idle"
      PROVE  ApplyOK'
  BY <1>6, Zenon DEF ApplyOK
<1>7. ASSUME ~ApplyBundle, ~ApplyFails, ~\E i \in 1..Len(log) : ApplyBundleGuard(i), applying.pc # "idle"
      PROVE  applying' = applying /\ sync' = sync /\ token' = token
  <2>1. sync = "streaming" /\ applying # NotApplying
    BY <1>0, <1>7 DEF ApplyOK, NotApplying
  <2>2. load["app"].pc = "idle" /\ load["sync"].pc = "idle"
    BY <1>0, <2>1, Zenon DEF LoadOK
  <2>3. ASSUME NEW l \in Loaders, LoaderStep(l) \/ LoadFails(l)
        PROVE  applying' = applying /\ sync' = sync /\ token' = token
    <3>1. CASE l = "sync"
      BY <2>1, <2>2, <2>3, <3>1, Zenon
         DEF LoaderStep, LoadFails, FetchSnapshot, LoadModelStep, LoadTuple,
         LoadTupleInvalid, LoadBundleStep, MayLoad
    <3>2. CASE l # "sync"
      BY <2>3, <3>2, Zenon DEF LoaderStep, LoadFails, FetchSnapshot, LoadModelStep, LoadTuple,
         LoadTupleInvalid, LoadBundleStep, AbandonLoad
    <3> QED BY <3>1, <3>2, Zenon
  <2>4. CASE ControlPlane \/ (\E t \in Tuples : RemoteCommit(t)) \/ MirrorLocally \/ UNCHANGED vars
    BY <2>4, Zenon DEF ControlPlane, RemoteCommit, MirrorLocally, vars
  <2>5. ASSUME Finish PROVE applying' = applying /\ sync' = sync /\ token' = token
    BY <2>2, <2>5, Zenon DEF Finish, FinishBootstrap, FinishRebootstrap, FinishInterval
  <2>6. ~(OpenStream \/ OpenFails \/ TokenRefused \/ Disconnect \/ BackoffElapsed)
    BY <2>1, Zenon DEF OpenStream, OpenFails, TokenRefused, Disconnect, BackoffElapsed
  <2>7. ~\E i \in 1..Len(log) : Receive(i)
    BY <2>1, Zenon DEF Receive, ApplyTupleWrite, RefusesDelete, ApplyTupleDelete, ApplyModelUpdate, ApplyBundleGuard,
         ApplyPolicyData, Delivers
  <2> QED BY <1>7, <2>3, <2>4, <2>5, <2>6, <2>7, Zenon DEF Next
<1>8. ASSUME ~ApplyBundle, ~ApplyFails, ~\E i \in 1..Len(log) : ApplyBundleGuard(i)
      PROVE  applying' = applying
  BY <1>8, Zenon DEF Next, vars, LoaderStep, FetchSnapshot, LoadModelStep, LoadTuple, LoadTupleInvalid,
              LoadBundleStep, AbandonLoad, LoadFails, Finish, FinishBootstrap, FinishRebootstrap,
              FinishInterval, OpenStream, OpenFails, TokenRefused, Disconnect, BackoffElapsed,
              Receive, ApplyTupleWrite, ApplyTupleDelete, ApplyModelUpdate,
              ApplyPolicyData, MirrorLocally, RemoteCommit, ControlPlane
<1>9. CASE ApplyFails
  <2>1. applying'.pc = "idle"
    BY <1>0, <1>9, FailedApply, IdleRecords, Zenon DEF Rejected
  <2> QED BY <2>1, Zenon DEF ApplyOK
<1> QED BY <1>2, <1>3, <1>4, <1>5, <1>6, <1>7, <1>8, <1>9

LEMMA FeaturesKept ==
    ASSUME Inv, [Next]_vars
    PROVE  Features' = Features
BY StepGrows, Zenon DEF Inv, LogGrows, Features

LEMMA MirrorStep ==
    ASSUME Inv, [Next]_vars
    PROVE  MirrorOK'
<1>0. Features' = Features
  BY FeaturesKept, Zenon
<1>1. CASE \E t \in Tuples : RemoteCommit(t)
  BY <1>0, <1>1, Zenon DEF RemoteCommit, MirrorOK
<1>2. CASE MirrorLocally
  BY <1>2, Zenon DEF MirrorLocally, MirrorOK
<1>3. ASSUME ~MirrorLocally, ~\E t \in Tuples : RemoteCommit(t)
      PROVE  mirror' = mirror
  BY <1>3, Zenon DEF Next, vars, LoaderStep, FetchSnapshot, LoadModelStep, LoadTuple, LoadTupleInvalid,
              LoadBundleStep, AbandonLoad, LoadFails, Finish, FinishBootstrap, FinishRebootstrap,
              FinishInterval, OpenStream, OpenFails, TokenRefused, Disconnect, BackoffElapsed,
              Receive, ApplyTupleWrite, ApplyTupleDelete, ApplyModelUpdate, ApplyBundleGuard,
              ApplyPolicyData, ApplyBundle, ApplyBundleLoad, ApplyBundleOverlay,
              ApplyBundleRecord, ApplyFails, ApplyFrameFails, ApplyBundleFails, ControlPlane
<1> QED BY <1>0, <1>1, <1>2, <1>3, Zenon DEF Inv, MirrorOK, NoCall

LEMMA StillLoading ==
    ASSUME [Next]_vars, ~Finish, ~\E l \in Loaders : LoaderStep(l) \/ LoadFails(l)
    PROVE  load' = load
BY Zenon DEF Next, vars, OpenStream, OpenFails, TokenRefused, Disconnect, BackoffElapsed,
       Receive, ApplyTupleWrite, ApplyTupleDelete, ApplyModelUpdate, ApplyBundleGuard,
       ApplyPolicyData, ApplyBundle, ApplyBundleLoad, ApplyBundleOverlay,
       ApplyBundleRecord, ApplyFails, ApplyFrameFails, ApplyBundleFails, ControlPlane,
       RemoteCommit, MirrorLocally

\* Steps of no loader: while a load the client waits for is in progress, only the
\* control plane and the application's own calls move.
LEMMA LoadIsLeftAlone ==
    ASSUME Inv, [Next]_vars, ~Finish, ~\E l \in Loaders : LoaderStep(l) \/ LoadFails(l)
    PROVE  LoadOK'
<1>0. TypeOK /\ LogOK /\ LoadOK /\ ApplyOK /\ MirrorOK
  BY Zenon DEF Inv
<1>1. load' = load
  BY StillLoading, Zenon
<1>2. CASE load["app"].pc = "idle" /\ load["sync"].pc = "idle"
  BY <1>1, <1>2, Zenon DEF LoadOK
<1>3. CASE ~(load["app"].pc = "idle" /\ load["sync"].pc = "idle")
  <2>1. sync \in {"new", "refused"} /\ applying.pc = "idle"
    BY <1>0, <1>3, Zenon DEF LoadOK, ApplyOK
  <2>2. ControlPlane \/ (\E t \in Tuples : RemoteCommit(t)) \/ MirrorLocally \/ UNCHANGED vars
    BY <2>1, Zenon DEF Next, OpenStream, OpenFails, TokenRefused, Disconnect, BackoffElapsed,
         Receive, ApplyTupleWrite, ApplyTupleDelete, ApplyModelUpdate, ApplyBundleGuard,
         ApplyPolicyData, Delivers, ApplyBundle, ApplyBundleLoad, ApplyBundleOverlay,
         ApplyBundleRecord, ApplyFails, ApplyFrameFails, ApplyBundleFails
  <2>3. sync' = sync /\ token' = token
    BY <2>2, Zenon DEF ControlPlane, RemoteCommit, MirrorLocally, vars
  <2>4. "mirror" \notin Features => tuples' = tuples
    BY <2>2, <1>0, Zenon DEF ControlPlane, RemoteCommit, MirrorLocally, vars, engines, MirrorOK
  <2>5. \A l \in {"app", "sync"} : load[l].snap \in 0..Len(log)
    BY <1>0, Zenon DEF TypeOK, Loaders
  <2>6. \A l \in {"app", "sync"} : StateAt(load[l].snap)' = StateAt(load[l].snap)
    <3>1. LogType /\ LogGrows
      BY <1>0, StepGrows, Zenon DEF TypeOK, LogType, Entries
    <3>2. \A n \in 0..Len(log) : StateAt(n)' = StateAt(n)
      BY <3>1, PositionsStable, Zenon
    <3> QED BY <3>2, <2>5, <1>1, Zenon DEF StateAt
  <2>7. Features' = Features
    BY FeaturesKept, Zenon
  <2> QED BY <1>0, <1>1, <2>3, <2>4, <2>6, <2>7, Zenon DEF LoadOK
<1> QED BY <1>2, <1>3, Zenon

LEMMA LoadByLoader ==
    ASSUME Inv, NEW l \in Loaders, LoaderStep(l) \/ LoadFails(l)
    PROVE  LoadOK'
<1>0. TypeOK /\ LogOK /\ LoadOK
  BY Zenon DEF Inv
<1>1. log' = log /\ token' = token /\ Features' = Features
  BY Zenon DEF Features, LoaderStep, FetchSnapshot, LoadModelStep, LoadTuple, LoadTupleInvalid,
         LoadBundleStep, AbandonLoad, LoadFails, logVars
<1>2. \A n : StateAt(n)' = StateAt(n)
  BY <1>1, Zenon DEF StateAt
<1>3. tuples \subseteq tuples'
  BY Zenon DEF LoaderStep, FetchSnapshot, LoadModelStep, LoadTuple, LoadTupleInvalid,
         LoadBundleStep, AbandonLoad, LoadFails, engines
<1>a. load \in [Loaders -> [pc: {"idle", "model", "tuples", "finish"},
                            snap: 0..Len(log), todo: SUBSET Tuples]]
      /\ token <= Len(log)
  BY <1>0 DEF TypeOK
<1>b. \A k \in Loaders \ {l} : load'[k] = load[k]
  BY <1>a, Zenon DEF LoaderStep, FetchSnapshot, LoadModelStep, LoadTuple, LoadTupleInvalid,
         LoadBundleStep, AbandonLoad, LoadFails
<1>4. CASE FetchSnapshot(l)
  <2>1. /\ sync' = sync /\ MayLoad(l)
        /\ load'[l] = [pc |-> "model", snap |-> Len(log), todo |-> Current.tuples]
    BY <1>4, <1>a, Zenon DEF FetchSnapshot
  <2>2. /\ load'[l].pc = "model" /\ load'[l].snap = Len(log)
        /\ load'[l].todo = StateAt(load'[l].snap).tuples
    <3>1. load'[l].todo = Current.tuples /\ load'[l].snap = Len(log) /\ load'[l].pc = "model"
      BY <2>1
    <3>2. Current = StateAt(Len(log))
      BY Zenon DEF Current
    <3> QED BY <3>1, <3>2, Zenon
  <2>3. \A k \in {"app", "sync"} :
          /\ load'[k].pc = "finish" => load'[k].todo = {}
          /\ "mirror" \notin Features /\ load'[k].pc # "idle" =>
                StateAt(load'[k].snap).tuples \ load'[k].todo \subseteq tuples'
    BY <1>0, <1>3, <1>b, <2>2, Zenon DEF LoadOK, Loaders
  <2>4. load'["app"].pc # "idle" => sync' = "new"
    BY <1>0, <1>b, <2>1, Zenon DEF LoadOK, Loaders, MayLoad
  <2>5. load'["sync"].pc # "idle" => sync' = "refused" /\ token' <= load'["sync"].snap
    BY <1>0, <1>1, <1>a, <1>b, <2>1, <2>2, Zenon DEF LoadOK, Loaders, MayLoad
  <2> QED BY <1>1, <1>2, <2>3, <2>4, <2>5, Zenon DEF LoadOK
<1>5. CASE LoadModelStep(l) \/ LoadBundleStep(l)
  <2>1. /\ sync' = sync /\ load[l].pc # "idle" /\ load[l].pc # "finish"
        /\ load'[l].snap = load[l].snap /\ load'[l].todo = load[l].todo
        /\ load'[l].pc \in {"tuples", "finish"}
        /\ load'[l].pc = "finish" => load'[l].todo = {}
    BY <1>5, <1>a DEF LoadModelStep, LoadBundleStep
  <2> QED BY <1>0, <1>1, <1>2, <1>3, <1>b, <2>1 DEF LoadOK, Loaders
<1>6. ASSUME NEW t \in Tuples, LoadTuple(l, t)
      PROVE  LoadOK'
  <2>1. /\ sync' = sync /\ load[l].pc # "idle"
        /\ load'[l].pc = "tuples"
        /\ load'[l].snap = load[l].snap /\ load'[l].todo = load[l].todo \ {t}
        /\ tuples' = tuples \cup {t}
    BY <1>6, <1>a, Zenon DEF LoadTuple
  <2> QED BY <1>0, <1>1, <1>2, <1>3, <1>b, <2>1 DEF LoadOK, Loaders
<1>7. CASE AbandonLoad(l)
  <2>1. load'[l].pc = "idle"
    BY <1>7, <1>a, Zenon DEF AbandonLoad, NotLoading
  <2>2. l # "sync" => sync' = sync
    BY <1>7, Zenon DEF AbandonLoad
  <2>3. l = "sync" => sync # "new"
    <3>1. LoadFails("sync") \/ (\E t \in Tuples : LoadTupleInvalid("sync", t)) \/ l # "sync"
          \/ ~AbandonLoad(l) \/ load["sync"].pc # "idle" \/ sync = "refused"
      BY <1>a, Zenon DEF LoaderStep, FetchSnapshot, MayLoad, LoadModelStep, LoadTuple, LoadBundleStep
    <3> QED BY <1>0, <1>7, <3>1, Zenon DEF LoadFails, LoadTupleInvalid, MayLoad, LoadOK
  <2> QED BY <1>0, <1>1, <1>2, <1>3, <1>b, <2>1, <2>2, <2>3, Zenon DEF LoadOK, Loaders
<1> QED BY <1>4, <1>5, <1>6, <1>7, Zenon DEF LoaderStep, LoadFails, LoadTupleInvalid

LEMMA LoadFinished ==
    ASSUME Inv, Finish
    PROVE  LoadOK'
<1>0. TypeOK /\ LoadOK
  BY Zenon DEF Inv
<1>1. log' = log /\ tuples' = tuples /\ Features' = Features
  BY Zenon DEF Features, Finish, FinishBootstrap, FinishRebootstrap, FinishInterval, logVars, engines
<1>2. \A n : StateAt(n)' = StateAt(n)
  BY <1>1, Zenon DEF StateAt
<1>a. load \in [Loaders -> [pc: {"idle", "model", "tuples", "finish"},
                            snap: 0..Len(log), todo: SUBSET Tuples]]
  BY <1>0, Zenon DEF TypeOK
<1>3. CASE FinishBootstrap
  <2>1. load'["app"].pc = "idle" /\ load'["sync"] = load["sync"] /\ sync = "new"
    BY <1>0, <1>3, <1>a, Zenon DEF FinishBootstrap, Loaders, NotLoading, LoadOK
  <2> QED BY <1>0, <1>1, <1>2, <2>1, Zenon DEF LoadOK
<1>4. CASE FinishRebootstrap
  <2>1. load'["sync"].pc = "idle" /\ load'["app"] = load["app"] /\ sync = "refused"
    BY <1>0, <1>4, <1>a, Zenon DEF FinishRebootstrap, Loaders, NotLoading, LoadOK
  <2> QED BY <1>0, <1>1, <1>2, <2>1, Zenon DEF LoadOK
<1>5. CASE FinishInterval
  <2>1. load'["app"] = load["app"] /\ load'["sync"] = load["sync"] /\ sync' = sync /\ token' = token
    BY <1>5, <1>a, Zenon DEF FinishInterval, Loaders
  <2> QED BY <1>0, <1>1, <1>2, <2>1, Zenon DEF LoadOK
<1> QED BY <1>3, <1>4, <1>5, Zenon DEF Finish

LEMMA AdvanceOverPolicy ==
    ASSUME TypeOK, LogOK, NEW i \in 1..Len(log), i <= token + 1, Advance(i), log' = log,
           log[i].mutation.kind \in {"model", "bundle", "data"}
    PROVE  StateAt(token)'.tuples = StateAt(token).tuples
<1>0. token \in 0..Len(log) /\ Len(log) \in Nat
  BY DEF TypeOK
<1>1. CASE i <= token
  BY <1>0, <1>1 DEF Advance, StateAt
<1>2. CASE i = token + 1
  <2>1. EntryOK(StateAt(token), log[i])
    BY <1>0, <1>2 DEF LogOK, Follows
  <2>2. StateAt(token)' = log[i].state
    BY <1>0, <1>2 DEF Advance, StateAt
  <2> QED BY <2>1, <2>2, Zenon DEF EntryOK
<1> QED BY <1>0, <1>1, <1>2

LEMMA FrameIsNext ==
    ASSUME NEW i, Delivers(i), TypeOK
    PROVE  /\ i \in 1..Len(log)
           /\ i <= token + 1
           /\ log[i].mutation.kind \notin {"bundle", "data"} => i = token + 1
BY DEF Delivers, TypeOK

LEMMA GrantStep ==
    ASSUME Inv, [Next]_vars
    PROVE  NoMissedGrant'
<1> SUFFICES ASSUME "mirror" \notin Features, sync' # "new"
             PROVE  StateAt(token)'.tuples \subseteq tuples'
  BY FeaturesKept, Zenon DEF NoMissedGrant
<1>0. TypeOK /\ LogOK /\ ApplyOK /\ LoadOK /\ MirrorOK /\ NoMissedGrant
  BY Zenon DEF Inv
<1>00. token \in 0..Len(log) /\ Len(log) \in Nat
  BY <1>0 DEF TypeOK
<1>1. ASSUME log' = log, token' = token, sync # "new", tuples \subseteq tuples'
      PROVE  StateAt(token)'.tuples \subseteq tuples'
  BY <1>0, <1>1, Zenon DEF NoMissedGrant, StateAt
<1>2. CASE FinishBootstrap \/ FinishRebootstrap
  <2>1. PICK l \in {"app", "sync"} :
           load[l].pc = "finish" /\ token' = load[l].snap /\ log' = log /\ tuples' = tuples
    BY <1>2, Zenon DEF FinishBootstrap, FinishRebootstrap, logVars, engines
  <2>2. StateAt(load[l].snap).tuples \subseteq tuples
    BY <1>0, <2>1, Zenon DEF LoadOK
  <2> QED BY <2>1, <2>2, Zenon DEF StateAt
<1>3. ASSUME NEW i \in 1..Len(log), ApplyTupleWrite(i) \/ ApplyTupleDelete(i)
      PROVE  StateAt(token)'.tuples \subseteq tuples'
  <2>1. /\ i = token + 1 /\ i \in 1..Len(log) /\ sync = "streaming" /\ log' = log
        /\ log[i].mutation.kind \in {"write", "delete"}
    BY <1>0, <1>3, FrameIsNext, Zenon
       DEF ApplyTupleWrite, RefusesDelete, ApplyTupleDelete, Delivers, logVars
  <2>2. EntryOK(StateAt(token), log[i]) /\ StateAt(token).tuples \subseteq tuples
    <3>1. i - 1 = token
      BY <1>00, <2>1
    <3>2. EntryOK(StateAt(i - 1), log[i])
      BY <1>0, <2>1, Zenon DEF LogOK, Follows
    <3>3. StateAt(token).tuples \subseteq tuples
      BY <1>0, <2>1, Zenon DEF NoMissedGrant
    <3> QED BY <3>1, <3>2, <3>3, Zenon
  <2>3. CASE token' = i
    <3>1. StateAt(token)' = log[i].state
      BY <1>00, <2>1, <2>3 DEF StateAt
    <3>2. CASE ApplyTupleWrite(i)
      <4>1. tuples' = tuples \cup {log[i].mutation.tuple}
        <5>1. token' # token
          BY <1>00, <2>1, <2>3
        <5> QED BY <3>2, <5>1, Zenon DEF ApplyTupleWrite, Refuse
      <4> QED BY <2>2, <3>1, <3>2, <4>1, Zenon DEF EntryOK, ApplyTupleWrite
    <3>3. CASE ApplyTupleDelete(i)
      <4>1. tuples' = tuples \ {log[i].mutation.tuple}
        <5>1. token' # token
          BY <1>00, <2>1, <2>3
        <5> QED BY <3>3, <5>1, Zenon DEF ApplyTupleDelete, Refuse
      <4> QED BY <2>2, <3>1, <3>3, <4>1, Zenon DEF EntryOK, ApplyTupleDelete
    <3> QED BY <1>3, <3>2, <3>3, Zenon
  <2>4. CASE token' # i
    <3>1. token' = token /\ tuples' = tuples
      <4>1. ~Advance(i)
        BY <1>00, <2>1, <2>4 DEF Advance
      <4> QED BY <1>3, <4>1, Zenon DEF ApplyTupleWrite, ApplyTupleDelete, Refuse
    <3> QED BY <1>1, <2>1, <3>1, Zenon
  <2> QED BY <2>3, <2>4, Zenon
<1>4. ASSUME NEW i \in 1..Len(log), ApplyModelUpdate(i) \/ ApplyBundleGuard(i) \/ ApplyPolicyData(i)
      PROVE  StateAt(token)'.tuples \subseteq tuples'
  <2>1. /\ i <= token + 1 /\ i \in 1..Len(log) /\ sync = "streaming" /\ log' = log /\ tuples' = tuples
        /\ log[i].mutation.kind \in {"model", "bundle", "data"}
    BY <1>0, <1>4, FrameIsNext, Zenon
       DEF ApplyModelUpdate, ApplyBundleGuard, ApplyPolicyData, Delivers, logVars, engines
  <2>2. Advance(i) \/ token' = token
    BY <1>4, Zenon DEF ApplyModelUpdate, ApplyBundleGuard, ApplyPolicyData, Refuse
  <2>3. CASE Advance(i)
    BY <1>0, <2>1, <2>3, AdvanceOverPolicy, Zenon DEF NoMissedGrant
  <2>4. CASE token' = token
    BY <1>1, <2>1, <2>4, Zenon
  <2> QED BY <2>2, <2>3, <2>4, Zenon
<1>5. CASE ApplyBundle
  <2>1. /\ applying.frame \in 1..Len(log) /\ applying.frame <= token + 1 /\ sync = "streaming"
        /\ log[applying.frame].mutation.kind = "bundle" /\ log' = log /\ tuples' = tuples
    BY <1>0, <1>5, Zenon
       DEF ApplyOK, ApplyBundle, ApplyBundleLoad, ApplyBundleOverlay, ApplyBundleRecord,
       logVars, engines
  <2>2. Advance(applying.frame) \/ token' = token
    BY <1>5, Zenon DEF ApplyBundle, ApplyBundleLoad, ApplyBundleOverlay, ApplyBundleRecord
  <2>3. CASE Advance(applying.frame)
    BY <1>0, <2>1, <2>3, AdvanceOverPolicy, Zenon DEF NoMissedGrant
  <2>4. CASE token' = token
    BY <1>1, <2>1, <2>4, Zenon
  <2> QED BY <2>2, <2>3, <2>4, Zenon
<1>6. CASE ControlPlane \/ \E t \in Tuples : RemoteCommit(t)
  <2>1. sync' = sync /\ token' = token /\ tuples' = tuples
    BY <1>6, Zenon DEF ControlPlane, RemoteCommit, engines
  <2>2. StateAt(token)' = StateAt(token)
    <3>1. LogType /\ LogGrows
      BY <1>0, StepGrows, Zenon DEF TypeOK, LogType, Entries
    <3>2. \A n \in 0..Len(log) : StateAt(n)' = StateAt(n)
      BY <3>1, PositionsStable, Zenon
    <3> QED BY <3>2, <1>00, <2>1, Zenon DEF StateAt
  <2> QED BY <1>0, <2>1, <2>2, Zenon DEF NoMissedGrant
<1>7. ASSUME NEW l \in Loaders, LoaderStep(l) \/ LoadFails(l)
      PROVE  StateAt(token)'.tuples \subseteq tuples'
  <2>1. log' = log /\ token' = token /\ tuples \subseteq tuples'
    BY <1>7, Zenon DEF LoaderStep, FetchSnapshot, LoadModelStep, LoadTuple, LoadTupleInvalid,
         LoadBundleStep, AbandonLoad, LoadFails, logVars, engines
  <2>2. sync # "new"
    BY <1>0, <1>7, Zenon DEF LoaderStep, FetchSnapshot, LoadModelStep, LoadTuple, LoadTupleInvalid,
         LoadBundleStep, AbandonLoad, LoadFails, MayLoad, LoadOK, NotLoading
  <2> QED BY <1>1, <2>1, <2>2, Zenon
<1>8. CASE OpenStream \/ OpenFails \/ TokenRefused \/ Disconnect \/ BackoffElapsed \/ FinishInterval
           \/ MirrorLocally \/ UNCHANGED vars
  <2>1. log' = log /\ token' = token /\ tuples' = tuples /\ sync # "new"
    BY <1>0, <1>8, Zenon
       DEF OpenStream, OpenFails, TokenRefused, Disconnect, BackoffElapsed, FinishInterval,
       MirrorLocally, MirrorOK, vars, logVars, engines
  <2> QED BY <1>1, <2>1, Zenon
<1>9. CASE ApplyFails
  <2>1. log' = log /\ token' = token /\ tuples' = tuples /\ sync # "new"
    BY <1>0, <1>9, FailedApply, Zenon DEF Rejected, logVars, engines
  <2> QED BY <1>1, <2>1, Zenon
<1> QED BY <1>2, <1>3, <1>4, <1>5, <1>6, <1>7, <1>8, <1>9, Zenon DEF Next, Receive, Finish

LEMMA NextInv == Inv /\ [Next]_vars => Inv'
<1> SUFFICES ASSUME Inv, [Next]_vars PROVE Inv'
  BY Zenon
<1>1. TypeOK' /\ LogOK'
  BY TypeStep, StepGrows, Zenon DEF Inv, LogGrows
<1>2. LoadOK'
  BY LoadIsLeftAlone, LoadByLoader, LoadFinished, Zenon
<1> QED BY <1>1, <1>2, ApplyStep, MirrorStep, GrantStep, Zenon DEF Inv

LEMMA SpecInv == Spec => []Inv
BY InitInv, NextInv, PTL DEF Spec

\* Every reachable state of the instance has its type (TypeOK).
THEOREM SyncTypes == Spec => []TypeOK
BY SpecInv, PTL DEF Inv

\* No reachable state misses a grant in force at the token (NoMissedGrant): for
\* every log and however loads, streams and the ticker interleave.
THEOREM GrantsReachTheStore == Spec => []NoMissedGrant
BY SpecInv, PTL DEF Inv

LEMMA FloorAgrees == Inv => DeletesNeverRefused
<1> SUFFICES ASSUME Inv, "mirror" \notin Features, sync = "streaming", token < Len(log),
                    log[token + 1].mutation.kind = "delete",
                    log[token + 1].mutation.tuple \in StateAt(token).tuples,
                    LastHolder(tuples, log[token + 1].mutation.tuple)
             PROVE  FALSE
  BY Zenon DEF DeletesNeverRefused, RefusesDelete
<1> DEFINE t == log[token + 1].mutation.tuple
<1>1. token + 1 \in 1..Len(log) /\ (token + 1) - 1 = token
  <2>1. token \in 0..Len(log) /\ log \in Seq([mutation: Mutations, state: States])
    BY Zenon DEF Inv, TypeOK
  <2>2. Len(log) \in Nat
    BY <2>1
  <2> QED BY <2>1, <2>2
<1>2. ~LastHolder(StateAt(token).tuples, t)
  BY <1>1, Zenon DEF Inv, LogOK, Follows, EntryOK
<1>3. StateAt(token).tuples \subseteq tuples
  BY Zenon DEF Inv, NoMissedGrant
<1>4. StateAt(token).tuples \cap Guarded = {t}
  BY <1>3, Zenon DEF LastHolder
<1> QED BY <1>2, <1>4, Zenon DEF LastHolder

\* A delete that removed a tuple at the control plane is accepted by the local
\* floor in every reachable state (DeletesNeverRefused).
THEOREM DeletesAccepted == Spec => []DeletesNeverRefused
BY SpecInv, FloorAgrees, PTL

LEMMA TokenStep ==
    ASSUME Inv, [Next]_vars, sync # "new"
    PROVE  token' >= token
<1>0. TypeOK /\ LoadOK /\ token \in Nat
  BY DEF Inv, TypeOK
<1>1. ASSUME NEW i \in 1..Len(log), Advance(i)
      PROVE  token' >= token
  BY <1>0, <1>1 DEF Advance
<1>2. CASE FinishRebootstrap
  <2>1. load["sync"].snap \in Nat
    BY <1>0 DEF TypeOK, Loaders
  <2> QED BY <1>0, <1>2, <2>1, Zenon DEF FinishRebootstrap, LoadOK
<1>3. ~FinishBootstrap
  BY <1>0, Zenon DEF FinishBootstrap, LoadOK
<1>4. ASSUME NEW i \in 1..Len(log), Receive(i)
      PROVE  token' >= token
  <2>1. i \in 1..Len(log) /\ (Advance(i) \/ token' = token)
    BY <1>4, Zenon DEF Receive, ApplyTupleWrite, RefusesDelete, ApplyTupleDelete, ApplyModelUpdate, ApplyBundleGuard,
       ApplyPolicyData, Delivers, Refuse
  <2> QED BY <1>0, <1>1, <2>1
<1>5. CASE ApplyBundleRecord
  <2>1. applying.frame \in 1..Len(log)
    BY <1>5, Zenon DEF Inv, ApplyOK, ApplyBundleRecord
  <2> QED BY <1>1, <1>5, <2>1, Zenon DEF ApplyBundleRecord
<1>6. ASSUME ~FinishRebootstrap, ~\E i \in 1..Len(log) : Receive(i), ~ApplyBundleRecord
      PROVE  token' = token
  BY <1>3, <1>6, Zenon
     DEF Next, vars, LoaderStep, FetchSnapshot, LoadModelStep, LoadTuple, LoadTupleInvalid,
              LoadBundleStep, AbandonLoad, LoadFails, Finish, FinishInterval,
              OpenStream, OpenFails, TokenRefused, Disconnect, BackoffElapsed,
              ApplyBundle, ApplyBundleLoad, ApplyBundleOverlay, ApplyFails, ApplyFrameFails,
              ApplyBundleFails, Refuse, ControlPlane, RemoteCommit, MirrorLocally
<1> QED BY <1>0, <1>2, <1>4, <1>5, <1>6

\* No step of a started client moves its token back (TokenNeverRegresses).
THEOREM TokenMonotone == Spec => TokenNeverRegresses
<1>1. Inv /\ [Next]_vars => [sync # "new" => token' >= token]_vars
  BY TokenStep, Zenon
<1> QED BY <1>1, SpecInv, PTL DEF Spec, TokenNeverRegresses

(***************************************************************************)
(* One step of the log, and one step of a load                             *)
(***************************************************************************)

LEMMA LogStep ==
    ASSUME Inv, [Next]_vars
    PROVE  /\ LogType /\ LogType' /\ Len(log) \in Nat
           /\ Features' = Features /\ Kinds' = Kinds
           /\ \A i \in 1..Len(log) : log'[i] = log[i]
           /\ \A n \in 0..Len(log) : StateAt(n)' = StateAt(n)
           /\ Len(log') = Len(log) \/ Len(log') = Len(log) + 1
           /\ Len(log') = Len(log) => Current' = Current
           /\ Len(log') = Len(log) + 1 =>
                 /\ Current' = log'[Len(log) + 1].state
                 /\ \A n \in 0..Len(log') : n \in 0..Len(log) \/ (n = Len(log) + 1 /\ StateAt(n)' = Current')
                 /\ Follows(Current, log'[Len(log) + 1])
<1>1. LogType /\ LogGrows
  BY StepGrows, Zenon DEF Inv, TypeOK, LogType, Entries
<1>2. /\ Len(log) \in Nat /\ Len(log') \in Nat
      /\ Len(log') = Len(log) \/ Len(log') = Len(log) + 1
      /\ LogType' /\ LogOK' /\ environment' = environment
      /\ \A i \in 1..Len(log) : log'[i] = log[i]
  BY <1>1 DEF LogType, LogGrows
<1>3. \A n \in 0..Len(log) : StateAt(n)' = StateAt(n)
  BY <1>1, PositionsStable, Zenon
<1>4. Len(log') = Len(log) => Current' = Current
  BY <1>2, <1>3 DEF Current, StateAt
<1>5. ASSUME Len(log') = Len(log) + 1
      PROVE  /\ Current' = log'[Len(log) + 1].state
             /\ \A n \in 0..Len(log') : n \in 0..Len(log) \/ (n = Len(log) + 1 /\ StateAt(n)' = Current')
             /\ Follows(Current, log'[Len(log) + 1])
  <2>0. PICK i \in Nat : i = Len(log) + 1
    BY <1>2
  <2>1. i \in 1..Len(log') /\ i - 1 = Len(log) /\ Len(log) \in 0..Len(log) /\ i # 0
    BY <1>2, <1>5, <2>0
  <2>2. Follows(StateAt(i - 1), log[i])'
    BY <1>2, <2>1, Zenon DEF LogOK
  <2>3. StateAt(i - 1)' = Current
    BY <1>3, <2>1, Zenon DEF Current, StateAt
  <2>4. StateAt(i)' = log'[i].state /\ Current' = StateAt(i)'
    BY <1>5, <2>0, <2>1, Zenon DEF Current, StateAt
  <2>5. Follows(Current, log'[i])
    BY <2>2, <2>3, Zenon
  <2>6. \A n \in 0..Len(log') : n \in 0..Len(log) \/ n = i
    BY <1>2, <1>5, <2>0
  <2>8. Current' = log'[Len(log) + 1].state /\ Follows(Current, log'[Len(log) + 1])
    BY <2>0, <2>4, <2>5, Zenon
  <2>9. \A n \in 0..Len(log') : n \in 0..Len(log) \/ (n = Len(log) + 1 /\ StateAt(n)' = Current')
    BY <2>0, <2>1, <2>6, <2>8, Zenon DEF StateAt
  <2> QED BY <2>8, <2>9, Zenon
<1> QED BY <1>1, <1>2, <1>3, <1>4, <1>5, Zenon DEF Features, Kinds

LEMMA LoadTypes ==
    ASSUME TypeOK
    PROVE  load \in [Loaders -> [pc: {"idle", "model", "tuples", "finish"},
                                 snap: 0..Len(log), todo: SUBSET Tuples]]
BY Zenon DEF TypeOK

\* What each step of a load leaves alone.
LoaderFrame(l) ==
    /\ log' = log /\ token' = token /\ applying' = applying /\ opened' = opened /\ mirror' = mirror
    /\ UNCHANGED guards /\ Features' = Features /\ Kinds' = Kinds
    /\ \A k \in Loaders \ {l} : load'[k] = load[k]

LEMMA FetchMoves ==
    ASSUME TypeOK, NEW l \in Loaders, FetchSnapshot(l)
    PROVE  /\ LoaderFrame(l) /\ MayLoad(l) /\ load[l].pc = "idle"
           /\ load'[l].pc = "model" /\ load'[l].snap = Len(log) /\ load'[l].todo = Current.tuples
           /\ UNCHANGED engines /\ sync' = sync
BY LoadTypes DEF FetchSnapshot, LoaderFrame, logVars, Features, Kinds, NotLoading

LEMMA ModelMoves ==
    ASSUME TypeOK, NEW l \in Loaders, LoadModelStep(l)
    PROVE  /\ LoaderFrame(l) /\ load[l].pc = "model"
           /\ load'[l].pc = "tuples" /\ load'[l].snap = load[l].snap /\ load'[l].todo = load[l].todo
           /\ ActivateModel(StateAt(load[l].snap).revision)
           /\ UNCHANGED <<tuples, bundle, data, sync>>
BY LoadTypes, Zenon DEF LoadModelStep, LoaderFrame, logVars, Features, Kinds

LEMMA TupleMoves ==
    ASSUME TypeOK, NEW l \in Loaders, NEW t \in Tuples, LoadTuple(l, t)
    PROVE  /\ LoaderFrame(l) /\ load[l].pc = "tuples" /\ t \in load[l].todo
           /\ load'[l].pc = "tuples" /\ load'[l].snap = load[l].snap
           /\ load'[l].todo = load[l].todo \ {t}
           /\ tuples' = tuples \cup {t}
           /\ UNCHANGED <<revision, bundle, data, sync>>
BY LoadTypes, Zenon DEF LoadTuple, LoaderFrame, logVars, Features, Kinds

LEMMA BundleMoves ==
    ASSUME TypeOK, NEW l \in Loaders, LoadBundleStep(l)
    PROVE  /\ LoaderFrame(l) /\ load[l].pc = "tuples" /\ load[l].todo = {}
           /\ load'[l].pc = "finish" /\ load'[l].snap = load[l].snap /\ load'[l].todo = load[l].todo
           /\ IF StateAt(load[l].snap).bundle = NoBundle
                THEN UNCHANGED <<bundle, data>>
                ELSE LoadBundle(StateAt(load[l].snap).bundle, StateAt(load[l].snap).data)
           /\ UNCHANGED <<tuples, revision, sync>>
<1>1. /\ load[l].pc = "tuples" /\ load[l].todo = {}
      /\ UNCHANGED <<logVars, tuples, revision, sync, token, opened, guards, applying, mirror>>
      /\ load' = [load EXCEPT ![l].pc = "finish"]
      /\ IF StateAt(load[l].snap).bundle = NoBundle
           THEN UNCHANGED <<bundle, data>>
           ELSE LoadBundle(StateAt(load[l].snap).bundle, StateAt(load[l].snap).data)
  BY Zenon DEF LoadBundleStep
<1>2. LoaderFrame(l) /\ load'[l].pc = "finish" /\ load'[l].snap = load[l].snap /\ load'[l].todo = load[l].todo
  BY <1>1, LoadTypes, Zenon DEF LoaderFrame, logVars, Features, Kinds
<1> QED BY <1>1, <1>2, Zenon

LEMMA AbandonMoves ==
    ASSUME TypeOK, NEW l \in Loaders, AbandonLoad(l)
    PROVE  /\ LoaderFrame(l) /\ load'[l] = NotLoading
           /\ sync' = IF l = "sync" THEN "backoff" ELSE sync
           /\ UNCHANGED engines
BY LoadTypes, Zenon DEF AbandonLoad, LoaderFrame, logVars, Features, Kinds, NotLoading

\* Without the ticker, at most one load is in progress.
TickerOK == "ticker" \notin Features => load["ticker"] = NotLoading

LEMMA NoInterval ==
    ASSUME TickerOK, "ticker" \notin Features
    PROVE  ~FinishInterval
BY DEF FinishInterval, TickerOK, NotLoading

LEMMA TickerStep ==
    ASSUME Inv, TickerOK, [Next]_vars
    PROVE  TickerOK'
<1> SUFFICES ASSUME "ticker" \notin Features PROVE load'["ticker"] = NotLoading
  BY LogStep, Zenon DEF TickerOK
<1>0. TypeOK /\ load["ticker"] = NotLoading
  BY Zenon DEF Inv, TickerOK
<1>1. ASSUME NEW l \in Loaders, LoaderStep(l) \/ LoadFails(l)
      PROVE  load'["ticker"] = NotLoading
  <2>1. CASE l = "ticker"
    <3>1. ~FetchSnapshot(l) /\ ~LoadModelStep(l) /\ ~LoadBundleStep(l)
          /\ ~\E t \in Tuples : LoadTuple(l, t) \/ LoadTupleInvalid(l, t)
      BY <1>0, <2>1 DEF FetchSnapshot, MayLoad, LoadModelStep, LoadBundleStep, LoadTuple,
         LoadTupleInvalid, NotLoading
    <3>2. ~LoadFails(l)
      BY <1>0, <2>1 DEF LoadFails, MayLoad, NotLoading
    <3> QED BY <1>1, <3>1, <3>2, Zenon DEF LoaderStep
  <2>2. CASE l # "ticker"
    <3>1. LoaderFrame(l)
      BY <1>0, <1>1, FetchMoves, ModelMoves, TupleMoves, BundleMoves, AbandonMoves, Zenon
         DEF LoaderStep, LoadFails, LoadTupleInvalid
    <3> QED BY <1>0, <2>2, <3>1, Zenon DEF LoaderFrame, Loaders
  <2> QED BY <2>1, <2>2, Zenon
<1>2. CASE Finish
  BY <1>0, <1>2, LoadTypes, Zenon
     DEF Finish, FinishBootstrap, FinishRebootstrap, FinishInterval, NotLoading, Loaders
<1>3. ASSUME ~Finish, ~\E l \in Loaders : LoaderStep(l) \/ LoadFails(l)
      PROVE  load' = load
  BY <1>3, StillLoading, Zenon
<1> QED BY <1>0, <1>1, <1>2, <1>3, Zenon

(***************************************************************************)
(* The model in force locally is one of the log's, and a snapshot is valid *)
(* for the model loaded with it                                            *)
(***************************************************************************)

ModelOK ==
    \A n \in 0..Len(log) :
        /\ StateAt(n).revision <= Current.revision
        /\ StateAt(n).tuples \subseteq Admits[StateAt(n).revision]
        /\ n # 0 /\ log[n].mutation.kind = "model" =>
              log[n].mutation.revision = StateAt(n).revision

\* Without the ticker no revision newer than the snapshot's is active while a load
\* writes that snapshot's tuples.
RevisionOK ==
    "ticker" \notin Features =>
        /\ revision <= Current.revision
        /\ \A l \in {"app", "sync"} : load[l].pc # "idle" =>
              /\ revision <= StateAt(load[l].snap).revision
              /\ load[l].pc # "model" => revision = StateAt(load[l].snap).revision
              /\ load[l].todo \subseteq StateAt(load[l].snap).tuples

LEMMA RevisionTypes ==
    ASSUME LogType
    PROVE  /\ \A n \in 0..Len(log) : StateAt(n).revision \in Nat
           /\ Current \in States /\ Current.revision \in Nat
<1>1. \A n \in 0..Len(log) : StateAt(n) \in States
  BY StateType, Zenon
<1>2. Current \in States
  BY StateType DEF Current, LogType
<1> QED BY <1>1, <1>2 DEF States

LEMMA ModelStep ==
    ASSUME Inv, ModelOK, [Next]_vars
    PROVE  ModelOK' /\ Current'.revision >= Current.revision
<1>1. /\ LogType /\ Len(log) \in Nat
      /\ \A i \in 1..Len(log) : log'[i] = log[i]
      /\ \A n \in 0..Len(log) : StateAt(n)' = StateAt(n)
      /\ Len(log') = Len(log) \/ Len(log') = Len(log) + 1
  BY LogStep, Zenon
<1>2. /\ \A n \in 0..Len(log) : StateAt(n).revision \in Nat
      /\ Current.revision \in Nat
  BY <1>1, RevisionTypes, Zenon
<1>3. CASE Len(log') = Len(log)
  <2>1. Current' = Current
    BY <1>3, LogStep, Zenon
  <2> QED BY <1>1, <1>2, <1>3, <2>1 DEF ModelOK
<1>4. CASE Len(log') = Len(log) + 1
  <2>1. /\ Current' = log'[Len(log) + 1].state
        /\ \A n \in 0..Len(log') : n \in 0..Len(log) \/ (n = Len(log) + 1 /\ StateAt(n)' = Current')
        /\ ModelEntryOK(Current, log'[Len(log) + 1])
    BY <1>4, LogStep, Zenon DEF Follows
  <2>2. Current.tuples \subseteq Admits[Current.revision]
    BY <1>1 DEF ModelOK, Current
  <2>3. /\ Current.revision <= Current'.revision
        /\ Current'.tuples \subseteq Admits[Current'.revision]
        /\ log'[Len(log) + 1].mutation.kind = "model" =>
              log'[Len(log) + 1].mutation.revision = Current'.revision
    BY <2>1, <2>2, Zenon DEF ModelEntryOK
  <2>4. Current'.revision \in Nat
    <3>1. LogType'
      BY LogStep, Zenon
    <3>2. log'[Len(log) + 1] \in Entries
      BY <1>1, <1>4, <3>1 DEF LogType
    <3> QED BY <2>1, <3>2 DEF Entries, States
  <2>5. ASSUME NEW n \in 0..Len(log')
        PROVE  /\ StateAt(n)'.revision <= Current'.revision
               /\ StateAt(n)'.tuples \subseteq Admits[StateAt(n)'.revision]
               /\ n # 0 /\ log'[n].mutation.kind = "model" =>
                     log'[n].mutation.revision = StateAt(n)'.revision
    <3>1. CASE n \in 0..Len(log)
      <4>1. /\ StateAt(n).revision <= Current.revision /\ StateAt(n)' = StateAt(n)
            /\ StateAt(n).tuples \subseteq Admits[StateAt(n).revision]
            /\ n # 0 /\ log[n].mutation.kind = "model" =>
                  log[n].mutation.revision = StateAt(n).revision
        BY <1>1, <3>1, Zenon DEF ModelOK
      <4>2. n # 0 => log'[n] = log[n]
        BY <1>1, <3>1
      <4>3. StateAt(n).revision \in Nat
        BY <1>2, <3>1, Zenon
      <4> QED BY <1>2, <2>3, <2>4, <4>1, <4>2, <4>3
    <3>2. CASE n = Len(log) + 1 /\ StateAt(n)' = Current'
      BY <2>3, <2>4, <3>2
    <3> QED BY <2>1, <3>1, <3>2, Zenon
  <2>6. ModelOK'
    BY <2>5, Zenon DEF ModelOK
  <2> QED BY <1>2, <2>3, <2>4, <2>6, Zenon
<1> QED BY <1>1, <1>3, <1>4, Zenon

\* A load the client waits for never meets a tuple the local model refuses.
LEMMA SnapshotIsValid ==
    ASSUME Inv, ModelOK, TickerOK, RevisionOK, "ticker" \notin Features,
           NEW l \in Loaders, NEW t \in Tuples
    PROVE  ~LoadTupleInvalid(l, t)
<1> SUFFICES ASSUME LoadTupleInvalid(l, t) PROVE FALSE
  BY Zenon
<1>1. load[l].pc = "tuples" /\ t \in load[l].todo /\ ~Validates(t)
  BY Zenon DEF LoadTupleInvalid
<1>2. l \in {"app", "sync"}
  BY <1>1 DEF TickerOK, NotLoading, Loaders
<1>3. /\ revision = StateAt(load[l].snap).revision
      /\ load[l].todo \subseteq StateAt(load[l].snap).tuples
  BY <1>1, <1>2, Zenon DEF RevisionOK
<1>4. load[l].snap \in 0..Len(log)
  BY LoadTypes, Zenon DEF Inv
<1>5. StateAt(load[l].snap).tuples \subseteq Admits[StateAt(load[l].snap).revision]
  BY <1>4, Zenon DEF ModelOK
<1> QED BY <1>1, <1>3, <1>5, Zenon DEF Validates

LEMMA LoadsExclude ==
    ASSUME Inv, TickerOK, "ticker" \notin Features, NEW l \in Loaders, load[l].pc # "idle" \/ MayLoad(l)
    PROVE  /\ l \in {"app", "sync"} /\ (l = "app" => sync = "new") /\ (l = "sync" => sync = "refused")
           /\ \A k \in Loaders \ {l} : load[k].pc = "idle"
BY DEF Inv, LoadOK, TickerOK, MayLoad, NotLoading, Loaders

LEMMA RevisionByLoader ==
    ASSUME Inv, ModelOK, TickerOK, RevisionOK, "ticker" \notin Features,
           NEW l \in Loaders, LoaderStep(l) \/ LoadFails(l)
    PROVE  RevisionOK'
<1>0. TypeOK /\ LogType /\ Len(log) \in Nat
  BY DEF Inv, TypeOK, LogType, Entries
<1>1. /\ \A n \in 0..Len(log) : StateAt(n).revision \in Nat
      /\ Current.revision \in Nat /\ revision \in Nat
  BY <1>0, RevisionTypes DEF TypeOK
<1>2. \A k \in Loaders : load[k].snap \in 0..Len(log)
  BY <1>0, LoadTypes, Zenon
<1>3. LoaderFrame(l)
  BY <1>0, FetchMoves, ModelMoves, TupleMoves, BundleMoves, AbandonMoves, Zenon
     DEF LoaderStep, LoadFails, LoadTupleInvalid
<1>4. /\ \A n : StateAt(n)' = StateAt(n)
      /\ Current' = Current /\ Features' = Features
  BY <1>3, Zenon DEF LoaderFrame, StateAt, Current
<1>5. ASSUME \A k \in Loaders \ {l} : load[k].pc = "idle",
             revision' <= Current.revision,
             load'[l].pc # "idle" =>
                /\ revision' <= StateAt(load'[l].snap).revision
                /\ load'[l].pc # "model" => revision' = StateAt(load'[l].snap).revision
                /\ load'[l].todo \subseteq StateAt(load'[l].snap).tuples
      PROVE  RevisionOK'
  <2>1. \A k \in {"app", "sync"} : k = l \/ load'[k].pc = "idle"
    BY <1>3, <1>5, Zenon DEF LoaderFrame, Loaders
  <2>2. StateAt(load[l].snap)' = StateAt(load'[l].snap)
    BY <1>3, Zenon DEF StateAt, LoaderFrame
  <2> QED BY <1>4, <1>5, <2>1, <2>2, Zenon DEF RevisionOK
<1>6. CASE FetchSnapshot(l)
  <2>1. /\ MayLoad(l) /\ revision' = revision
        /\ load'[l].snap = Len(log) /\ load'[l].pc = "model" /\ load'[l].todo = Current.tuples
    BY <1>0, <1>6, FetchMoves, Zenon DEF engines
  <2>2. StateAt(load'[l].snap) = Current
    BY <2>1, Zenon DEF Current
  <2>3. \A k \in Loaders \ {l} : load[k].pc = "idle"
    BY <2>1, LoadsExclude, Zenon
  <2> QED BY <1>5, <2>1, <2>2, <2>3, Zenon DEF RevisionOK
<1>7. ASSUME LoadModelStep(l) \/ (\E t \in Tuples : LoadTuple(l, t)) \/ LoadBundleStep(l)
      PROVE  RevisionOK'
  <2>1. /\ load[l].pc # "idle" /\ load'[l].snap = load[l].snap /\ load'[l].todo \subseteq load[l].todo
        /\ load'[l].pc # "model"
    BY <1>0, <1>7, ModelMoves, TupleMoves, BundleMoves, Zenon
  <2>2. l \in {"app", "sync"} /\ \A k \in Loaders \ {l} : load[k].pc = "idle"
    BY <2>1, LoadsExclude, Zenon
  <2>3. /\ revision <= StateAt(load[l].snap).revision
        /\ load[l].pc # "model" => revision = StateAt(load[l].snap).revision
        /\ load[l].todo \subseteq StateAt(load[l].snap).tuples
        /\ StateAt(load[l].snap).revision <= Current.revision
        /\ StateAt(load[l].snap).revision \in Nat
    BY <1>1, <1>2, <2>1, <2>2, Zenon DEF RevisionOK, ModelOK
  <2>4. revision' = StateAt(load[l].snap).revision
    <3>1. CASE LoadModelStep(l)
      BY <1>0, <1>1, <2>3, <3>1, ModelMoves DEF ActivateModel
    <3>2. CASE (\E t \in Tuples : LoadTuple(l, t)) \/ LoadBundleStep(l)
      BY <1>0, <2>3, <3>2, TupleMoves, BundleMoves, Zenon
    <3> QED BY <1>7, <3>1, <3>2, Zenon
  <2> QED BY <1>5, <2>1, <2>2, <2>3, <2>4
<1>8. CASE AbandonLoad(l)
  <2>1. /\ load'[l].pc = "idle" /\ revision' = revision
        /\ \A k \in Loaders \ {l} : load'[k] = load[k]
    BY <1>0, <1>8, AbandonMoves DEF engines, NotLoading, LoaderFrame
  <2>2. \A k \in {"app", "sync"} : k # l => StateAt(load[k].snap)' = StateAt(load[k].snap) /\ load'[k] = load[k]
    BY <1>3, <2>1, Zenon DEF StateAt, LoaderFrame, Loaders
  <2> QED BY <1>4, <2>1, <2>2, Zenon DEF RevisionOK
<1> QED BY <1>6, <1>7, <1>8, Zenon DEF LoaderStep, LoadFails, LoadTupleInvalid

LEMMA RevisionStep ==
    ASSUME Inv, ModelOK, TickerOK, RevisionOK, [Next]_vars
    PROVE  RevisionOK'
<1> SUFFICES ASSUME "ticker" \notin Features PROVE RevisionOK'
  BY LogStep, Zenon DEF RevisionOK
<1>0. /\ LogType /\ TypeOK /\ Len(log) \in Nat
      /\ \A n \in 0..Len(log) : StateAt(n)' = StateAt(n)
      /\ Current'.revision >= Current.revision
      /\ Features' = Features
  BY LogStep, ModelStep, Zenon DEF Inv
<1>1. /\ Current.revision \in Nat /\ Current'.revision \in Nat /\ revision \in Nat
      /\ \A k \in Loaders : load[k].snap \in 0..Len(log)
  <2>1. LogType'
    BY LogStep, Zenon
  <2>2. Current'.revision \in Nat
    <3>1. Len(log') \in 0..Len(log') /\ Len(log') \in Nat
      BY <2>1 DEF LogType
    <3>2. Current' = IF Len(log') = 0 THEN InitialState ELSE log'[Len(log')].state
      BY Zenon DEF Current, StateAt
    <3>3. CASE Len(log') = 0
      BY <3>2, <3>3, InitialStateType DEF States
    <3>4. CASE Len(log') # 0
      <4>1. log'[Len(log')] \in Entries
        BY <2>1, <3>1, <3>4 DEF LogType
      <4> QED BY <3>2, <3>4, <4>1 DEF Entries, States
    <3> QED BY <3>3, <3>4, Zenon
  <2> QED BY <1>0, <2>2, RevisionTypes, LoadTypes DEF TypeOK
<1>2. ASSUME load' = load, revision' = revision
      PROVE  RevisionOK'
  <2>1. \A l \in {"app", "sync"} : StateAt(load[l].snap)' = StateAt(load[l].snap)
    BY <1>0, <1>1, <1>2, Zenon DEF StateAt, Loaders
  <2> QED BY <1>0, <1>1, <1>2, <2>1 DEF RevisionOK
<1>3. CASE Finish
  <2>1. /\ revision' = revision /\ log' = log
        /\ \A l \in {"app", "sync"} : load'[l] = load[l] \/ load'[l] = NotLoading
    BY <1>0, <1>3, LoadTypes, Zenon
       DEF Finish, FinishBootstrap, FinishRebootstrap, FinishInterval, engines, logVars, Loaders
  <2>2. \A l \in {"app", "sync"} : load'[l].pc # "idle" =>
           load'[l] = load[l] /\ StateAt(load[l].snap)' = StateAt(load[l].snap)
    BY <2>1 DEF StateAt, NotLoading
  <2>3. Current' = Current
    BY <2>1, Zenon DEF Current, StateAt
  <2> QED BY <1>0, <2>1, <2>2, <2>3, Zenon DEF RevisionOK
<1>4. ASSUME NEW i \in 1..Len(log), ApplyModelUpdate(i)
      PROVE  RevisionOK'
  <2>1. /\ sync = "streaming" /\ load' = load /\ log' = log
        /\ log[i].mutation.kind = "model" /\ ActivateModel(log[i].mutation.revision)
    BY <1>4, Zenon DEF ApplyModelUpdate, Delivers, logVars
  <2>2. load["app"].pc = "idle" /\ load["sync"].pc = "idle"
    BY <2>1, Zenon DEF Inv, LoadOK
  <2>3. log[i].mutation.revision <= Current.revision
    BY <1>0, <2>1 DEF ModelOK
  <2>4. revision' <= Current.revision /\ Current' = Current
    BY <1>1, <2>1, <2>3, Zenon DEF ActivateModel, RevisionOK, Current, StateAt
  <2> QED BY <2>1, <2>2, <2>4, Zenon DEF RevisionOK
<1>5. ASSUME ~Finish, ~\E l \in Loaders : LoaderStep(l) \/ LoadFails(l),
             ~\E i \in 1..Len(log) : ApplyModelUpdate(i)
      PROVE  revision' = revision
  BY <1>5, Zenon DEF Next, vars, engines, OpenStream, OpenFails, TokenRefused, Disconnect, BackoffElapsed,
     Receive, ApplyTupleWrite, ApplyTupleDelete, ApplyBundleGuard, ApplyPolicyData, ApplyBundle,
     ApplyBundleLoad, ApplyBundleOverlay, ApplyBundleRecord, ApplyFails, ApplyFrameFails, ApplyBundleFails,
     ControlPlane, RemoteCommit, MirrorLocally
<1> QED BY <1>2, <1>3, <1>4, <1>5, RevisionByLoader, StillLoading, Zenon

(***************************************************************************)
(* While nothing is loaded twice and nothing is written through, the store *)
(* holds exactly the tuples of the token                                   *)
(***************************************************************************)

LEMMA OnlyRebootstrap ==
    ASSUME Inv, [Next]_vars
    PROVE  (FinishRebootstrap /\ rebootstraps') \/ rebootstraps' = rebootstraps
<1>1. CASE FinishRebootstrap
  BY <1>1, Zenon DEF FinishRebootstrap
<1>2. ASSUME ~FinishRebootstrap
      PROVE  rebootstraps' = rebootstraps
  BY <1>2, Zenon DEF Next, vars, guards, LoaderStep, FetchSnapshot, LoadModelStep, LoadTuple, LoadTupleInvalid,
              LoadBundleStep, AbandonLoad, LoadFails, Finish, FinishBootstrap, FinishInterval,
              OpenStream, OpenFails, TokenRefused, Disconnect, BackoffElapsed,
              Receive, ApplyTupleWrite, ApplyTupleDelete, ApplyModelUpdate, ApplyBundleGuard,
              ApplyPolicyData, ApplyBundle, ApplyBundleLoad, ApplyBundleOverlay,
              ApplyBundleRecord, ApplyFails, ApplyFrameFails, ApplyBundleFails, ControlPlane,
              RemoteCommit, MirrorLocally
<1> QED BY <1>1, <1>2, Zenon

FollowOK ==
    Features \cap {"ticker", "failures", "mirror"} = {} /\ ~rebootstraps =>
        /\ sync = "new" /\ load["app"].pc = "idle" => tuples = {}
        /\ load["app"].pc # "idle" => tuples = StateAt(load["app"].snap).tuples \ load["app"].todo
        /\ sync # "new" /\ load["sync"].pc = "idle" => tuples = StateAt(token).tuples

LEMMA FollowByLoader ==
    ASSUME Inv, ModelOK, TickerOK, RevisionOK, FollowOK, ~rebootstraps,
           Features \cap {"ticker", "failures", "mirror"} = {},
           NEW l \in Loaders, LoaderStep(l) \/ LoadFails(l)
    PROVE  FollowOK'
<1>0. TypeOK /\ LoadOK /\ "ticker" \notin Features /\ "failures" \notin Features
  BY Zenon DEF Inv
<1>1. ~LoadFails(l) /\ \A t \in Tuples : ~LoadTupleInvalid(l, t)
  BY <1>0, SnapshotIsValid, Zenon DEF LoadFails, EngineFails
<1>2. /\ LoaderFrame(l) /\ sync' = sync
      /\ load[l].pc # "idle" \/ MayLoad(l)
      /\ load'[l].pc # "idle"
  BY <1>0, <1>1, FetchMoves, ModelMoves, TupleMoves, BundleMoves, Zenon DEF LoaderStep
<1>3. /\ l \in {"app", "sync"} /\ (l = "app" => sync = "new") /\ (l = "sync" => sync = "refused")
      /\ \A k \in Loaders \ {l} : load[k].pc = "idle"
  BY <1>0, <1>2, LoadsExclude, Zenon
<1>4. CASE l = "sync"
  BY <1>2, <1>3, <1>4 DEF FollowOK, LoaderFrame, Loaders
<1>5. CASE l = "app"
  <2>1. ASSUME tuples' = StateAt(load'["app"].snap).tuples \ load'["app"].todo
        PROVE  FollowOK'
    <3>1. StateAt(load["app"].snap)' = StateAt(load'["app"].snap)
      BY <1>2, Zenon DEF StateAt, LoaderFrame
    <3> QED BY <1>2, <1>3, <1>5, <2>1, <3>1, Zenon DEF FollowOK
  <2>2. CASE FetchSnapshot(l)
    <3>1. load[l].pc = "idle" /\ tuples' = tuples /\ load'[l].snap = Len(log) /\ load'[l].todo = Current.tuples
      BY <1>0, <2>2, FetchMoves, Zenon DEF engines
    <3>2. tuples' = {}
      BY <1>3, <1>5, <3>1, Zenon DEF FollowOK
    <3>3. StateAt(load'[l].snap) = Current
      BY <3>1, Zenon DEF Current
    <3> QED BY <1>5, <2>1, <3>1, <3>2, <3>3, Zenon
  <2>3. CASE LoadModelStep(l) \/ LoadBundleStep(l)
    <3>1. /\ load[l].pc # "idle" /\ tuples' = tuples
          /\ load'[l].snap = load[l].snap /\ load'[l].todo = load[l].todo
      BY <1>0, <2>3, ModelMoves, BundleMoves, Zenon
    <3> QED BY <1>5, <2>1, <3>1, Zenon DEF FollowOK
  <2>4. ASSUME NEW t \in Tuples, LoadTuple(l, t)
        PROVE  FollowOK'
    <3>1. /\ load[l].pc # "idle" /\ tuples' = tuples \cup {t} /\ t \in load[l].todo
          /\ load'[l].snap = load[l].snap /\ load'[l].todo = load[l].todo \ {t}
      BY <1>0, <2>4, TupleMoves, Zenon
    <3>2. /\ load[l].todo \subseteq StateAt(load[l].snap).tuples
          /\ tuples = StateAt(load[l].snap).tuples \ load[l].todo
      BY <1>0, <1>5, <3>1, Zenon DEF RevisionOK, FollowOK
    <3>3. tuples' = StateAt(load[l].snap).tuples \ (load[l].todo \ {t})
      BY <3>1, <3>2, Zenon
    <3> QED BY <1>5, <2>1, <3>1, <3>3, Zenon
  <2> QED BY <1>1, <2>2, <2>3, <2>4, Zenon DEF LoaderStep
<1> QED BY <1>3, <1>4, <1>5, Zenon

LEMMA FollowByFrame ==
    ASSUME Inv, FollowOK, ~rebootstraps, Features \cap {"ticker", "failures", "mirror"} = {},
           (\E i \in 1..Len(log) : Receive(i)) \/ ApplyBundle
    PROVE  FollowOK'
<1>0. TypeOK /\ LogOK /\ LoadOK /\ ApplyOK
  BY Zenon DEF Inv
<1>00. token \in 0..Len(log) /\ Len(log) \in Nat
  BY <1>0 DEF TypeOK
<1>1. /\ sync = "streaming" /\ log' = log /\ load' = load /\ environment' = environment
      /\ sync' \in {"streaming", "refused"}
  BY <1>0 DEF ApplyOK, Receive, ApplyTupleWrite, ApplyTupleDelete, ApplyModelUpdate, ApplyBundleGuard,
     ApplyPolicyData, Delivers, ApplyBundle, ApplyBundleLoad, ApplyBundleOverlay, ApplyBundleRecord,
     logVars, Advance, Refuse
<1>2. load["app"].pc = "idle" /\ load["sync"].pc = "idle" /\ tuples = StateAt(token).tuples
  BY <1>0, <1>1, Zenon DEF LoadOK, FollowOK
<1>3. SUFFICES tuples' = StateAt(token)'.tuples
  BY <1>1, <1>2, Zenon DEF FollowOK
<1>4. ASSUME tuples' = tuples, token' = token
      PROVE  tuples' = StateAt(token)'.tuples
  BY <1>1, <1>2, <1>4, Zenon DEF StateAt
<1>5. ASSUME NEW i \in 1..Len(log), ApplyTupleWrite(i) \/ ApplyTupleDelete(i)
      PROVE  tuples' = StateAt(token)'.tuples
  <2>1. i = token + 1 /\ log[i].mutation.kind \in {"write", "delete"}
    BY <1>0, <1>5, FrameIsNext, Zenon DEF ApplyTupleWrite, RefusesDelete, ApplyTupleDelete, Delivers
  <2>2. EntryOK(StateAt(token), log[i])
    <3>1. i - 1 = token
      BY <1>00, <2>1
    <3>2. EntryOK(StateAt(i - 1), log[i])
      BY <1>0, <2>1, Zenon DEF LogOK, Follows
    <3> QED BY <3>1, <3>2, Zenon
  <2>3. CASE token' = token
    <3>1. ~Advance(i)
      BY <1>00, <2>1, <2>3 DEF Advance
    <3>2. tuples' = tuples
      BY <1>5, <3>1, Zenon DEF ApplyTupleWrite, ApplyTupleDelete, Refuse
    <3> QED BY <1>4, <2>3, <3>2, Zenon
  <2>4. CASE token' # token
    <3>0. Advance(i)
      BY <1>5, <2>4, Zenon DEF ApplyTupleWrite, ApplyTupleDelete, Refuse
    <3>1. StateAt(token)' = log[i].state
      BY <1>00, <1>1, <2>1, <3>0 DEF StateAt, Advance
    <3>2. CASE ApplyTupleWrite(i)
      <4>1. tuples' = tuples \cup {log[i].mutation.tuple}
        BY <3>2, <2>4, Zenon DEF ApplyTupleWrite, Refuse
      <4> QED BY <1>2, <2>2, <3>1, <3>2, <4>1, Zenon DEF EntryOK, ApplyTupleWrite
    <3>3. CASE ApplyTupleDelete(i)
      <4>1. tuples' = tuples \ {log[i].mutation.tuple}
        BY <3>3, <2>4, Zenon DEF ApplyTupleDelete, Refuse
      <4> QED BY <1>2, <2>2, <3>1, <3>3, <4>1, Zenon DEF EntryOK, ApplyTupleDelete
    <3> QED BY <1>5, <3>2, <3>3, Zenon
  <2> QED BY <2>3, <2>4, Zenon
<1>6. ASSUME NEW i \in 1..Len(log), i <= token + 1, log[i].mutation.kind \in {"model", "bundle", "data"},
             Advance(i) \/ token' = token, tuples' = tuples
      PROVE  tuples' = StateAt(token)'.tuples
  <2>1. CASE Advance(i)
    BY <1>0, <1>1, <1>2, <1>6, <2>1, AdvanceOverPolicy, Zenon
  <2>2. CASE token' = token
    BY <1>4, <1>6, <2>2, Zenon
  <2> QED BY <1>6, <2>1, <2>2, Zenon
<1>7. ASSUME NEW i \in 1..Len(log), ApplyModelUpdate(i) \/ ApplyBundleGuard(i) \/ ApplyPolicyData(i)
      PROVE  tuples' = StateAt(token)'.tuples
  <2>1. i <= token + 1 /\ tuples' = tuples /\ log[i].mutation.kind \in {"model", "bundle", "data"}
    BY <1>0, <1>7, FrameIsNext, Zenon
       DEF ApplyModelUpdate, ApplyBundleGuard, ApplyPolicyData, Delivers, engines
  <2>2. Advance(i) \/ token' = token
    BY <1>7, Zenon DEF ApplyModelUpdate, ApplyBundleGuard, ApplyPolicyData, Refuse
  <2> QED BY <1>6, <2>1, <2>2, Zenon
<1>8. CASE ApplyBundle
  <2>1. /\ applying.frame \in 1..Len(log) /\ applying.frame <= token + 1
        /\ log[applying.frame].mutation.kind = "bundle" /\ tuples' = tuples
    BY <1>0, <1>8, Zenon
       DEF ApplyOK, ApplyBundle, ApplyBundleLoad, ApplyBundleOverlay, ApplyBundleRecord, engines
  <2>2. Advance(applying.frame) \/ token' = token
    BY <1>8, Zenon DEF ApplyBundle, ApplyBundleLoad, ApplyBundleOverlay, ApplyBundleRecord
  <2> QED BY <1>6, <2>1, <2>2, Zenon
<1> QED BY <1>5, <1>7, <1>8, Zenon DEF Receive

LEMMA NoFailure ==
    ASSUME "failures" \notin Features
    PROVE  ~ApplyFails
BY Zenon DEF ApplyFails, ApplyFrameFails, ApplyBundleFails, EngineFails

LEMMA FollowStep ==
    ASSUME Inv, ModelOK, TickerOK, RevisionOK, FollowOK, [Next]_vars
    PROVE  FollowOK'
<1> SUFFICES ASSUME Features \cap {"ticker", "failures", "mirror"} = {}, ~rebootstraps'
             PROVE  FollowOK'
  BY LogStep, Zenon DEF FollowOK
<1>0. /\ TypeOK /\ LoadOK /\ MirrorOK /\ ~rebootstraps /\ ~FinishRebootstrap
      /\ "ticker" \notin Features /\ "mirror" \notin Features
      /\ token \in 0..Len(log)
  BY OnlyRebootstrap, Zenon DEF Inv, FinishRebootstrap, TypeOK
<1>1. /\ \A n \in 0..Len(log) : StateAt(n)' = StateAt(n)
      /\ Features' = Features
  BY LogStep, Zenon
<1>2. ASSUME load' = load, tuples' = tuples, token' = token, sync' = sync \/ (sync # "new" /\ sync' # "new")
      PROVE  FollowOK'
  <2>1. load["app"].snap \in 0..Len(log)
    BY <1>0, LoadTypes, Zenon DEF Loaders
  <2>2. StateAt(load["app"].snap)' = StateAt(load["app"].snap) /\ StateAt(token)' = StateAt(token)
    BY <1>0, <1>1, <1>2, <2>1, Zenon DEF StateAt
  <2> QED BY <1>0, <1>1, <1>2, <2>2, Zenon DEF FollowOK
<1>3. CASE ControlPlane \/ UNCHANGED vars
  BY <1>2, <1>3, Zenon DEF ControlPlane, vars, engines
<1>4. CASE OpenStream \/ OpenFails \/ TokenRefused \/ Disconnect \/ BackoffElapsed
  BY <1>2, <1>4, Zenon DEF OpenStream, OpenFails, TokenRefused, Disconnect, BackoffElapsed, engines
<1>5. ~MirrorLocally /\ ~\E t \in Tuples : RemoteCommit(t)
  BY <1>0, Zenon DEF MirrorLocally, RemoteCommit, MirrorOK
<1>6. CASE Finish
  <2>1. FinishBootstrap
    BY <1>0, <1>6 DEF Finish, FinishInterval, TickerOK, NotLoading
  <2>2. /\ load["app"].pc = "finish" /\ log' = log /\ tuples' = tuples /\ token' = load["app"].snap
        /\ load'["app"].pc = "idle" /\ sync' = "connect"
    BY <1>0, <2>1, LoadTypes, Zenon DEF FinishBootstrap, logVars, engines, NotLoading, Loaders
  <2>3. tuples = StateAt(load["app"].snap).tuples
    BY <1>0, <2>2, Zenon DEF FollowOK, LoadOK
  <2>4. StateAt(token)' = StateAt(load["app"].snap)
    BY <2>2, Zenon DEF StateAt
  <2> QED BY <2>2, <2>3, <2>4, Zenon DEF FollowOK
<1>7. ~ApplyFails
  BY NoFailure, Zenon
<1> QED BY <1>0, <1>3, <1>4, <1>5, <1>6, <1>7, FollowByLoader, FollowByFrame, Zenon DEF Next

(***************************************************************************)
(* Written through and replayed: for each tuple, either the stream has     *)
(* still to bring a change of it, or its call has still to be mirrored, or *)
(* the store and the control plane agree on it                             *)
(***************************************************************************)

Changes(i, t) == log[i].mutation.kind \in {"write", "delete"} /\ log[i].mutation.tuple = t
ChangedAfter(n, t) == \E i \in (n + 1)..Len(log) : Changes(i, t)

LogKeeps ==
    \A n \in 0..Len(log), t \in Tuples :
        ~ChangedAfter(n, t) => (t \in StateAt(n).tuples <=> t \in Current.tuples)

Pending(t) == mirror # NoCall /\ mirror.tuple = t
Agrees(t) == t \in tuples <=> t \in Current.tuples

Alone ==
    /\ "mirror" \in Features /\ Features \cap {"ticker", "failures"} = {}
    /\ Kinds \cap {"write", "delete"} = {} /\ ~rebootstraps

MirroredOK ==
    mirror # NoCall => (mirror.op = "write" <=> mirror.tuple \in Current.tuples)

WrittenTuple(t) ==
    /\ sync = "new" /\ load["app"].pc = "idle" /\ t \in tuples => Pending(t) \/ t \in Current.tuples
    /\ load["app"].pc # "idle" =>
          \/ ChangedAfter(load["app"].snap, t)
          \/ Pending(t)
          \/ t \in load["app"].todo /\ t \in Current.tuples
          \/ Agrees(t)
    /\ sync # "new" /\ load["sync"].pc = "idle" =>
          ChangedAfter(token, t) \/ Pending(t) \/ Agrees(t)

WrittenOK == Alone => MirroredOK /\ \A t \in Tuples : WrittenTuple(t)

LEMMA EntryKeeps ==
    ASSUME NEW s, NEW e \in Entries, EntryOK(s, e), NEW t,
           ~(e.mutation.kind \in {"write", "delete"} /\ e.mutation.tuple = t)
    PROVE  t \in e.state.tuples <=> t \in s.tuples
<1>1. e.mutation.kind \in {"write", "delete", "model", "bundle", "data"}
  BY Zenon DEF Entries, Mutations
<1> QED BY <1>1, Zenon DEF EntryOK

LEMMA KeepsStep ==
    ASSUME Inv, LogKeeps, [Next]_vars
    PROVE  LogKeeps'
<1>1. /\ LogType /\ LogType' /\ Len(log) \in Nat
      /\ \A i \in 1..Len(log) : log'[i] = log[i]
      /\ \A n \in 0..Len(log) : StateAt(n)' = StateAt(n)
      /\ Len(log') = Len(log) \/ Len(log') = Len(log) + 1
  BY LogStep, Zenon
<1> SUFFICES ASSUME NEW n \in 0..Len(log'), NEW t \in Tuples, ~ChangedAfter(n, t)'
             PROVE  t \in StateAt(n)'.tuples <=> t \in Current'.tuples
  BY Zenon DEF LogKeeps
<1>2. n \in 0..Len(log) => ~ChangedAfter(n, t)
  BY <1>1 DEF ChangedAfter, Changes
<1>3. CASE Len(log') = Len(log)
  <2>1. Current' = Current
    BY <1>3, LogStep, Zenon
  <2> QED BY <1>1, <1>2, <1>3, <2>1, Zenon DEF LogKeeps
<1>4. CASE Len(log') = Len(log) + 1
  <2>1. /\ Current' = log'[Len(log) + 1].state
        /\ n \in 0..Len(log) \/ (n = Len(log) + 1 /\ StateAt(n)' = Current')
        /\ EntryOK(Current, log'[Len(log) + 1])
    BY <1>4, LogStep, Zenon DEF Follows
  <2>2. log'[Len(log) + 1] \in Entries
    BY <1>1, <1>4 DEF LogType
  <2>3. CASE n \in 0..Len(log)
    <3>1. Len(log) + 1 \in (n + 1)..Len(log')
      BY <1>1, <1>4, <2>3
    <3>2. ~(log'[Len(log) + 1].mutation.kind \in {"write", "delete"} /\ log'[Len(log) + 1].mutation.tuple = t)
      BY <3>1, Zenon DEF ChangedAfter, Changes
    <3>3. t \in Current'.tuples <=> t \in Current.tuples
      BY <2>1, <2>2, <3>2, EntryKeeps, Zenon
    <3> QED BY <1>1, <1>2, <2>3, <3>3, Zenon DEF LogKeeps
  <2> QED BY <2>1, <2>3, Zenon
<1> QED BY <1>1, <1>3, <1>4, Zenon

LEMMA OthersChangeNoTuple ==
    ASSUME Inv, [Next]_vars, ControlPlane, Kinds \cap {"write", "delete"} = {}
    PROVE  Current'.tuples = Current.tuples
<1>0. LogType /\ Len(log) \in Nat
  BY LogStep, Zenon
<1>1. CASE Trim
  BY <1>1, Zenon DEF Trim, Current, StateAt
<1>2. ASSUME NEW m \in Mutations, NEW s, Publish(m, s), m.kind \notin {"write", "delete"}
      PROVE  Current'.tuples = Current.tuples
  <2>1. log' = Append(log, [mutation |-> m, state |-> s])
    BY <1>2, Zenon DEF Publish
  <2>2. Len(log') = Len(log) + 1 /\ log'[Len(log) + 1].mutation = m
    BY <1>0, <2>1 DEF LogType
  <2>3. Current' = log'[Len(log) + 1].state /\ EntryOK(Current, log'[Len(log) + 1])
    BY <2>2, LogStep, Zenon DEF Follows
  <2>4. m.kind \in {"model", "bundle", "data"}
    BY <1>2, Zenon DEF Mutations
  <2> QED BY <2>2, <2>3, <2>4, Zenon DEF EntryOK
<1>3. Current \in States
  BY <1>0, RevisionTypes, Zenon
<1>4. CASE PublishModel
  <2>1. Current.revision + 1 \in 1..MaxRevision
    BY <1>3, <1>4, LogAssumption DEF PublishModel, States
  <2>2. [kind |-> "model", revision |-> Current.revision + 1] \in Mutations
    BY <2>1, Zenon DEF Mutations
  <2> QED BY <1>2, <1>4, <2>2, Zenon DEF PublishModel
<1>5. ASSUME NEW d \in Data, PublishBundle(d) PROVE Current'.tuples = Current.tuples
  <2> DEFINE b == [version |-> Current.bundle.version + 1, embedded |-> d]
  <2>1. b \in Bundles
    BY <1>3 DEF States, Bundles
  <2>2. [kind |-> "bundle", bundle |-> b] \in Mutations
    BY <2>1, Zenon DEF Mutations
  <2> QED BY <1>2, <1>5, <2>2, Zenon DEF PublishBundle
<1>6. ASSUME NEW p \in Paths, NEW v \in Values, PublishData(p, v) PROVE Current'.tuples = Current.tuples
  <2>1. Current.dataVersion[p] + 1 \in Nat
    BY <1>3 DEF States
  <2>2. [kind |-> "data", path |-> p, value |-> v, version |-> Current.dataVersion[p] + 1] \in Mutations
    BY <2>1, Zenon DEF Mutations
  <2> QED BY <1>2, <1>6, <2>2, Zenon DEF PublishData
<1> QED BY <1>1, <1>4, <1>5, <1>6, Zenon DEF ControlPlane, LogNext

\* A step that moves nothing but the log and the call being mirrored.
LEMMA WrittenByLog ==
    ASSUME Inv, [Next]_vars, NEW t \in Tuples, WrittenTuple(t),
           load' = load, tuples' = tuples, token' = token,
           sync' = sync \/ (sync # "new" /\ sync' # "new"),
           \/ Pending(t)'
           \/ (Pending(t) => Pending(t)') /\ (t \in Current'.tuples <=> t \in Current.tuples)
    PROVE  WrittenTuple(t)'
<1>1. /\ Len(log) \in Nat
      /\ \A i \in 1..Len(log) : log'[i] = log[i]
      /\ Len(log') = Len(log) \/ Len(log') = Len(log) + 1
  BY LogStep, Zenon
<1>2. token \in 0..Len(log) /\ load["app"].snap \in 0..Len(log)
  BY LoadTypes, Zenon DEF Inv, TypeOK, Loaders
<1>3. /\ ChangedAfter(token, t) => ChangedAfter(token, t)'
      /\ ChangedAfter(load["app"].snap, t) => ChangedAfter(load["app"].snap, t)'
  BY <1>1, <1>2 DEF ChangedAfter, Changes
<1>4. CASE Pending(t)'
  BY <1>4, Zenon DEF WrittenTuple
<1>5. CASE (Pending(t) => Pending(t)') /\ (t \in Current'.tuples <=> t \in Current.tuples)
  <2>1. Agrees(t)' <=> Agrees(t)
    BY <1>5, Zenon DEF Agrees
  <2> QED BY <1>3, <1>5, <2>1, Zenon DEF WrittenTuple
<1> QED BY <1>4, <1>5, Zenon

LEMMA WrittenByLoader ==
    ASSUME Inv, ModelOK, TickerOK, RevisionOK, LogKeeps, Alone, WrittenOK,
           NEW l \in Loaders, LoaderStep(l) \/ LoadFails(l)
    PROVE  WrittenOK'
<1>0. TypeOK /\ LoadOK /\ "ticker" \notin Features /\ "failures" \notin Features
  BY Zenon DEF Inv, Alone
<1>1. ~LoadFails(l) /\ \A t \in Tuples : ~LoadTupleInvalid(l, t)
  BY <1>0, SnapshotIsValid, Zenon DEF LoadFails, EngineFails
<1>2. /\ LoaderFrame(l) /\ sync' = sync
      /\ load[l].pc # "idle" \/ MayLoad(l)
      /\ load'[l].pc # "idle"
  BY <1>0, <1>1, FetchMoves, ModelMoves, TupleMoves, BundleMoves, Zenon DEF LoaderStep
<1>3. /\ l \in {"app", "sync"} /\ (l = "app" => sync = "new") /\ (l = "sync" => sync = "refused")
      /\ \A k \in Loaders \ {l} : load[k].pc = "idle"
  BY <1>0, <1>2, LoadsExclude, Zenon
<1>4. Current' = Current /\ MirroredOK'
  BY <1>2, Zenon DEF Current, StateAt, LoaderFrame, WrittenOK, MirroredOK
<1> SUFFICES ASSUME NEW t \in Tuples PROVE WrittenTuple(t)'
  BY <1>4, Zenon DEF WrittenOK
<1>5. CASE l = "sync"
  BY <1>2, <1>3, <1>5, Zenon DEF WrittenTuple, LoaderFrame, Loaders
<1>6. CASE l = "app"
  <2>0. WrittenTuple(t) /\ load[l].snap \in 0..Len(log) /\ Len(log) \in Nat
    BY <1>0, LoadTypes DEF WrittenOK, TypeOK
  <2>1. /\ sync' = "new" /\ log' = log /\ mirror' = mirror /\ load'["app"].pc # "idle"
        /\ Pending(t)' = Pending(t)
    BY <1>2, <1>3, <1>6, Zenon DEF LoaderFrame, Pending
  <2>2. CASE FetchSnapshot(l)
    <3>1. load["app"].pc = "idle" /\ tuples' = tuples /\ load'["app"].todo = Current.tuples
      BY <1>0, <1>6, <2>2, FetchMoves, Zenon DEF engines
    <3>2. t \in tuples => Pending(t) \/ t \in Current.tuples
      BY <1>3, <1>6, <2>0, <3>1, Zenon DEF WrittenTuple
    <3>3. Pending(t)' \/ (t \in load'["app"].todo /\ t \in Current'.tuples) \/ Agrees(t)'
      BY <1>4, <2>1, <3>1, <3>2, Zenon DEF Agrees
    <3> QED BY <2>1, <3>3, Zenon DEF WrittenTuple
  <2>3. CASE LoadModelStep(l) \/ LoadBundleStep(l)
    <3>1. /\ load["app"].pc # "idle" /\ tuples' = tuples
          /\ load'["app"].snap = load["app"].snap /\ load'["app"].todo = load["app"].todo
      BY <1>0, <1>6, <2>3, ModelMoves, BundleMoves, Zenon
    <3>2. /\ ChangedAfter(load["app"].snap, t)' = ChangedAfter(load["app"].snap, t)
          /\ Agrees(t)' = Agrees(t)
      BY <1>4, <2>1, <3>1, Zenon DEF ChangedAfter, Changes, Agrees
    <3> QED BY <1>4, <2>0, <2>1, <3>1, <3>2, Zenon DEF WrittenTuple
  <2>4. ASSUME NEW u \in Tuples, LoadTuple(l, u)
        PROVE  WrittenTuple(t)'
    <3>1. /\ load["app"].pc # "idle" /\ tuples' = tuples \cup {u} /\ u \in load["app"].todo
          /\ load'["app"].snap = load["app"].snap /\ load'["app"].todo = load["app"].todo \ {u}
      BY <1>0, <1>6, <2>4, TupleMoves, Zenon
    <3>2. ChangedAfter(load["app"].snap, t)' = ChangedAfter(load["app"].snap, t)
      BY <2>1, <3>1, Zenon DEF ChangedAfter, Changes
    <3>3. CASE t # u
      <4>1. Agrees(t)' = Agrees(t)
        BY <1>4, <3>1, <3>3, Zenon DEF Agrees
      <4> QED BY <1>4, <2>0, <2>1, <3>1, <3>2, <3>3, <4>1, Zenon DEF WrittenTuple
    <3>4. CASE t = u
      <4>1. t \in StateAt(load["app"].snap).tuples
        BY <1>0, <3>1, <3>4, Zenon DEF RevisionOK
      <4>2. ChangedAfter(load["app"].snap, t) \/ t \in Current.tuples
        BY <1>6, <2>0, <4>1, Zenon DEF LogKeeps
      <4>3. ChangedAfter(load["app"].snap, t)' \/ Agrees(t)'
        BY <1>4, <3>1, <3>2, <3>4, <4>2, Zenon DEF Agrees
      <4> QED BY <2>1, <4>3, Zenon DEF WrittenTuple
    <3> QED BY <3>3, <3>4, Zenon
  <2> QED BY <1>1, <2>2, <2>3, <2>4, Zenon DEF LoaderStep
<1> QED BY <1>3, <1>5, <1>6, Zenon

LEMMA WrittenByFrame ==
    ASSUME Inv, LogKeeps, Alone, WrittenOK, (\E i \in 1..Len(log) : Receive(i)) \/ ApplyBundle
    PROVE  WrittenOK'
<1>0. TypeOK /\ LogOK /\ LoadOK /\ ApplyOK
  BY Zenon DEF Inv
<1>00. token \in 0..Len(log) /\ Len(log) \in Nat
  BY <1>0 DEF TypeOK
<1>1. /\ sync = "streaming" /\ log' = log /\ load' = load /\ mirror' = mirror
      /\ sync' \in {"streaming", "refused"}
  BY <1>0 DEF ApplyOK, Receive, ApplyTupleWrite, ApplyTupleDelete, ApplyModelUpdate, ApplyBundleGuard,
     ApplyPolicyData, Delivers, ApplyBundle, ApplyBundleLoad, ApplyBundleOverlay, ApplyBundleRecord,
     logVars, Advance, Refuse
<1>2. load["app"].pc = "idle" /\ load["sync"].pc = "idle" /\ Current' = Current /\ MirroredOK'
  BY <1>0, <1>1, Zenon DEF LoadOK, Current, StateAt, WrittenOK, MirroredOK
<1> SUFFICES ASSUME NEW t \in Tuples PROVE WrittenTuple(t)'
  BY <1>2, Zenon DEF WrittenOK
<1>3. /\ ChangedAfter(token, t) \/ Pending(t) \/ Agrees(t)
      /\ Pending(t)' = Pending(t)
  BY <1>1, <1>2, Zenon DEF WrittenOK, WrittenTuple, Pending
<1>4. SUFFICES ChangedAfter(token, t)' \/ Pending(t)' \/ Agrees(t)'
  BY <1>1, <1>2, Zenon DEF WrittenTuple
<1>5. ASSUME token' = token, tuples' = tuples
      PROVE  ChangedAfter(token, t)' \/ Pending(t)' \/ Agrees(t)'
  BY <1>1, <1>2, <1>3, <1>5, Zenon DEF ChangedAfter, Changes, Agrees
<1>6. ASSUME NEW i \in 1..Len(log), i = token + 1, token' = i, ~Changes(i, t),
             t \in tuples' <=> t \in tuples
      PROVE  ChangedAfter(token, t)' \/ Pending(t)' \/ Agrees(t)'
  <2>1. ChangedAfter(token, t) => ChangedAfter(token, t)'
    BY <1>00, <1>1, <1>6 DEF ChangedAfter, Changes
  <2> QED BY <1>2, <1>3, <1>6, <2>1, Zenon DEF Agrees
<1>7. ASSUME NEW i \in 1..Len(log), ApplyTupleWrite(i) \/ ApplyTupleDelete(i)
      PROVE  ChangedAfter(token, t)' \/ Pending(t)' \/ Agrees(t)'
  <2>1. i = token + 1 /\ log[i].mutation.kind \in {"write", "delete"}
    BY <1>0, <1>7, FrameIsNext, Zenon DEF ApplyTupleWrite, RefusesDelete, ApplyTupleDelete, Delivers
  <2>2. CASE token' = token
    <3>1. ~Advance(i)
      BY <1>00, <2>1, <2>2 DEF Advance
    <3>2. tuples' = tuples
      BY <1>7, <3>1, Zenon DEF ApplyTupleWrite, ApplyTupleDelete, Refuse
    <3> QED BY <1>5, <2>2, <3>2, Zenon
  <2>3. CASE token' # token
    <3>1. Advance(i)
      BY <1>7, <2>3, Zenon DEF ApplyTupleWrite, ApplyTupleDelete, Refuse
    <3>2. token' = i
      BY <1>00, <2>1, <3>1 DEF Advance
    <3>3. \/ log[i].mutation.kind = "write" /\ tuples' = tuples \cup {log[i].mutation.tuple}
          \/ log[i].mutation.kind = "delete" /\ tuples' = tuples \ {log[i].mutation.tuple}
      BY <1>7, <2>3, Zenon DEF ApplyTupleWrite, ApplyTupleDelete, Refuse
    <3>4. CASE log[i].mutation.tuple # t
      BY <1>6, <2>1, <3>2, <3>3, <3>4, Zenon DEF Changes
    <3>5. CASE log[i].mutation.tuple = t
      <4>1. EntryOK(StateAt(i - 1), log[i])
        BY <1>0, Zenon DEF LogOK, Follows
      <4>2. StateAt(i) = log[i].state
        BY DEF StateAt
      <4>3. t \in tuples' <=> t \in StateAt(i).tuples
        BY <3>3, <3>5, <4>1, <4>2, Zenon DEF EntryOK
      <4>4. ChangedAfter(i, t) \/ (t \in StateAt(i).tuples <=> t \in Current.tuples)
        BY <1>00 DEF LogKeeps
      <4>5. ChangedAfter(i, t) => ChangedAfter(token, t)'
        BY <1>1, <3>2, Zenon DEF ChangedAfter, Changes
      <4> QED BY <1>2, <4>3, <4>4, <4>5, Zenon DEF Agrees
    <3> QED BY <3>4, <3>5, Zenon
  <2> QED BY <2>2, <2>3, Zenon
<1>8. ASSUME NEW i \in 1..Len(log), i <= token + 1, log[i].mutation.kind \in {"model", "bundle", "data"},
             Advance(i) \/ token' = token, tuples' = tuples
      PROVE  ChangedAfter(token, t)' \/ Pending(t)' \/ Agrees(t)'
  <2>1. CASE token' = token
    BY <1>5, <1>8, <2>1, Zenon
  <2>2. CASE token' # token
    <3>1. i = token + 1 /\ token' = i
      BY <1>00, <1>8, <2>2 DEF Advance
    <3> QED BY <1>6, <1>8, <3>1, Zenon DEF Changes
  <2> QED BY <2>1, <2>2, Zenon
<1>9. ASSUME NEW i \in 1..Len(log), ApplyModelUpdate(i) \/ ApplyBundleGuard(i) \/ ApplyPolicyData(i)
      PROVE  ChangedAfter(token, t)' \/ Pending(t)' \/ Agrees(t)'
  <2>1. i <= token + 1 /\ tuples' = tuples /\ log[i].mutation.kind \in {"model", "bundle", "data"}
    BY <1>0, <1>9, FrameIsNext, Zenon
       DEF ApplyModelUpdate, ApplyBundleGuard, ApplyPolicyData, Delivers, engines
  <2>2. Advance(i) \/ token' = token
    BY <1>9, Zenon DEF ApplyModelUpdate, ApplyBundleGuard, ApplyPolicyData, Refuse
  <2> QED BY <1>8, <2>1, <2>2, Zenon
<1>10. CASE ApplyBundle
  <2>1. /\ applying.frame \in 1..Len(log) /\ applying.frame <= token + 1
        /\ log[applying.frame].mutation.kind = "bundle" /\ tuples' = tuples
    BY <1>0, <1>10, Zenon
       DEF ApplyOK, ApplyBundle, ApplyBundleLoad, ApplyBundleOverlay, ApplyBundleRecord, engines
  <2>2. Advance(applying.frame) \/ token' = token
    BY <1>10, Zenon DEF ApplyBundle, ApplyBundleLoad, ApplyBundleOverlay, ApplyBundleRecord
  <2> QED BY <1>8, <2>1, <2>2, Zenon
<1> QED BY <1>7, <1>9, <1>10, Zenon DEF Receive

LEMMA MirrorTypes ==
    ASSUME Inv
    PROVE  mirror = NoCall \/ (mirror.op \in {"write", "delete"} /\ mirror.tuple \in Tuples)
BY Zenon DEF Inv, TypeOK, Calls

LEMMA WrittenByCalls ==
    ASSUME Inv, Alone, WrittenOK, [Next]_vars, MirrorLocally \/ \E t \in Tuples : RemoteCommit(t)
    PROVE  WrittenOK'
<1>0. LogType /\ Len(log) \in Nat
  BY LogStep, Zenon
<1>1. CASE MirrorLocally
  <2>1. /\ mirror # NoCall /\ mirror' = NoCall /\ log' = log /\ sync' = sync /\ token' = token /\ load' = load
        /\ tuples' = IF mirror.op = "write" THEN tuples \cup {mirror.tuple} ELSE tuples \ {mirror.tuple}
    BY <1>1, Zenon DEF MirrorLocally, logVars
  <2>2. Current' = Current /\ MirroredOK' /\ (mirror.op = "write" <=> mirror.tuple \in Current.tuples)
    BY <2>1, Zenon DEF Current, StateAt, MirroredOK, WrittenOK
  <2> SUFFICES ASSUME NEW t \in Tuples PROVE WrittenTuple(t)'
    BY <2>2, Zenon DEF WrittenOK
  <2>3. WrittenTuple(t)
    BY Zenon DEF WrittenOK
  <2>4. /\ ChangedAfter(token, t) <=> ChangedAfter(token, t)'
        /\ ChangedAfter(load["app"].snap, t) <=> ChangedAfter(load["app"].snap, t)'
    BY <2>1, Zenon DEF ChangedAfter, Changes
  <2>5. CASE mirror.tuple = t
    <3>1. Agrees(t)'
      BY <2>1, <2>2, <2>5, Zenon DEF Agrees
    <3> QED BY <3>1, Zenon DEF WrittenTuple, Agrees
  <2>6. CASE mirror.tuple # t
    <3>1. (t \in tuples' <=> t \in tuples) /\ (Agrees(t)' <=> Agrees(t)) /\ ~Pending(t)
      BY <2>1, <2>2, <2>6, Zenon DEF Agrees, Pending
    <3> QED BY <2>1, <2>2, <2>3, <2>4, <3>1, Zenon DEF WrittenTuple
  <2> QED BY <2>5, <2>6, Zenon
<1>2. ASSUME NEW u \in Tuples, RemoteCommit(u)
      PROVE  WrittenOK'
  <2>1. /\ mirror = NoCall /\ sync' = sync /\ token' = token /\ load' = load /\ tuples' = tuples
        /\ \/ PublishWrite(u) /\ mirror' = [op |-> "write", tuple |-> u]
           \/ PublishDelete(u) /\ mirror' = [op |-> "delete", tuple |-> u]
    BY <1>2, Zenon DEF RemoteCommit, engines
  <2>2. /\ mirror' # NoCall /\ mirror'.tuple = u
        /\ mirror'.op = "write" <=> u \in Current'.tuples
        /\ \A t \in Tuples : t # u => (t \in Current'.tuples <=> t \in Current.tuples)
    <3>1. PICK k \in {"write", "delete"} :
             /\ mirror' = [op |-> k, tuple |-> u]
             /\ \E s : Publish([kind |-> k, tuple |-> u], s)
      <4>1. CASE PublishWrite(u) /\ mirror' = [op |-> "write", tuple |-> u]
        BY <4>1, Zenon DEF PublishWrite
      <4>2. CASE PublishDelete(u) /\ mirror' = [op |-> "delete", tuple |-> u]
        BY <4>2, Zenon DEF PublishDelete
      <4> QED BY <2>1, <4>1, <4>2, Zenon
    <3>2. PICK s : log' = Append(log, [mutation |-> [kind |-> k, tuple |-> u], state |-> s])
      BY <3>1, Zenon DEF Publish
    <3>3. Len(log') = Len(log) + 1 /\ log'[Len(log) + 1].mutation = [kind |-> k, tuple |-> u]
      BY <1>0, <3>2 DEF LogType
    <3>4. /\ Current' = log'[Len(log) + 1].state /\ EntryOK(Current, log'[Len(log) + 1])
          /\ log'[Len(log) + 1] \in Entries
      BY <1>0, <3>3, LogStep DEF Follows, LogType
    <3>5. k = "write" <=> u \in Current'.tuples
      BY <3>1, <3>3, <3>4 DEF EntryOK
    <3>6. \A t \in Tuples : t # u => (t \in Current'.tuples <=> t \in Current.tuples)
      BY <3>3, <3>4, EntryKeeps
    <3>7. mirror' # NoCall /\ mirror'.tuple = u /\ mirror'.op = k
      BY <3>1, Zenon DEF NoCall
    <3> QED BY <3>5, <3>6, <3>7, Zenon
  <2>3. MirroredOK'
    BY <2>2, Zenon DEF MirroredOK
  <2>4. ASSUME NEW t \in Tuples PROVE WrittenTuple(t)'
    <3>1. WrittenTuple(t)
      BY Zenon DEF WrittenOK
    <3>2. \/ Pending(t)'
          \/ (Pending(t) => Pending(t)') /\ (t \in Current'.tuples <=> t \in Current.tuples)
      BY <2>1, <2>2, Zenon DEF Pending
    <3> QED BY <2>1, <3>1, <3>2, WrittenByLog, Zenon
  <2> QED BY <2>3, <2>4, Zenon DEF WrittenOK
<1> QED BY <1>1, <1>2, Zenon

LEMMA WrittenStep ==
    ASSUME Inv, ModelOK, TickerOK, RevisionOK, LogKeeps, WrittenOK, [Next]_vars
    PROVE  WrittenOK'
<1> SUFFICES ASSUME Alone' PROVE WrittenOK'
  BY Zenon DEF WrittenOK
<1>0. /\ TypeOK /\ LoadOK /\ Alone /\ ~FinishRebootstrap /\ "ticker" \notin Features
      /\ Kinds \cap {"write", "delete"} = {} /\ MirroredOK
  <2>1. ~rebootstraps'
    BY Zenon DEF Alone
  <2>2. ~rebootstraps /\ ~FinishRebootstrap
    <3>1. rebootstraps \in BOOLEAN
      BY Zenon DEF Inv, TypeOK
    <3> QED BY <2>1, <3>1, OnlyRebootstrap, Zenon DEF FinishRebootstrap
  <2>3. Features' = Features /\ Kinds' = Kinds
    BY LogStep, Zenon
  <2>4. Alone
    BY <2>2, <2>3, Zenon DEF Alone
  <2> QED BY <2>2, <2>4, Zenon DEF Inv, Alone, WrittenOK
<1>1. ASSUME load' = load, tuples' = tuples, token' = token, mirror' = mirror,
             sync' = sync \/ (sync # "new" /\ sync' # "new"), Current'.tuples = Current.tuples
      PROVE  WrittenOK'
  <2>1. ASSUME NEW t \in Tuples PROVE WrittenTuple(t)'
    <3>1. WrittenTuple(t)
      BY <1>0, Zenon DEF WrittenOK
    <3>2. (Pending(t) => Pending(t)') /\ (t \in Current'.tuples <=> t \in Current.tuples)
      BY <1>1, Zenon DEF Pending
    <3> QED BY <1>1, <3>1, <3>2, WrittenByLog, Zenon
  <2> QED BY <1>0, <1>1, <2>1, Zenon DEF WrittenOK, MirroredOK
<1>2. CASE ControlPlane
  BY <1>0, <1>1, <1>2, OthersChangeNoTuple, Zenon DEF ControlPlane, engines
<1>3. CASE OpenStream \/ OpenFails \/ TokenRefused \/ Disconnect \/ BackoffElapsed \/ UNCHANGED vars
  <2>1. /\ load' = load /\ tuples' = tuples /\ token' = token /\ mirror' = mirror /\ log' = log
        /\ sync' = sync \/ (sync # "new" /\ sync' # "new")
    BY <1>3, Zenon
       DEF OpenStream, OpenFails, TokenRefused, Disconnect, BackoffElapsed, engines, vars, logVars
  <2> QED BY <1>1, <2>1, Zenon DEF Current, StateAt
<1>4. CASE Finish
  <2>1. FinishBootstrap
    BY <1>0, <1>4 DEF Finish, FinishInterval, TickerOK, NotLoading
  <2>2. /\ load["app"].pc = "finish" /\ log' = log /\ tuples' = tuples /\ token' = load["app"].snap
        /\ load'["app"].pc = "idle" /\ sync' = "connect" /\ mirror' = mirror
    BY <1>0, <2>1, LoadTypes, Zenon DEF FinishBootstrap, logVars, engines, NotLoading, Loaders
  <2>3. load["app"].todo = {}
    BY <1>0, <2>2, Zenon DEF LoadOK
  <2>4. Current' = Current
    BY <2>2, Zenon DEF Current, StateAt
  <2>5. ASSUME NEW t \in Tuples PROVE WrittenTuple(t)'
    <3>1. ChangedAfter(load["app"].snap, t) \/ Pending(t) \/ Agrees(t)
      BY <1>0, <2>2, <2>3, Zenon DEF WrittenOK, WrittenTuple
    <3>2. ChangedAfter(token, t)' \/ Pending(t)' \/ Agrees(t)'
      BY <2>2, <2>4, <3>1, Zenon DEF ChangedAfter, Changes, Pending, Agrees
    <3> QED BY <2>2, <3>2, Zenon DEF WrittenTuple
  <2> QED BY <1>0, <2>2, <2>4, <2>5, Zenon DEF WrittenOK, MirroredOK
<1>5. ~ApplyFails
  BY <1>0, NoFailure, Zenon DEF Alone
<1> QED BY <1>0, <1>2, <1>3, <1>4, <1>5, WrittenByLoader, WrittenByFrame, WrittenByCalls, Zenon DEF Next

\* What the store holds, next to Inv.
StoreInv == ModelOK /\ TickerOK /\ RevisionOK /\ FollowOK /\ LogKeeps /\ WrittenOK

LEMMA StoreInit == Init => StoreInv
<1> SUFFICES ASSUME Init PROVE StoreInv
  BY Zenon
<1>1. Len(log) = 0 /\ Current = InitialState /\ \A n \in 0..Len(log) : n = 0
  BY DEF Init, LogInit, Current, StateAt
<1>2. ModelOK
  BY <1>1 DEF ModelOK, StateAt, InitialState
<1>3. TickerOK /\ RevisionOK /\ FollowOK
  BY <1>1 DEF Init, TickerOK, RevisionOK, FollowOK, Loaders, NotLoading, InitialState
<1>4. LogKeeps
  BY <1>1, Zenon DEF LogKeeps, StateAt
<1>5. WrittenOK
  BY <1>1, Zenon DEF Init, WrittenOK, MirroredOK, WrittenTuple, Loaders, NotLoading, NoCall
<1> QED BY <1>2, <1>3, <1>4, <1>5, Zenon DEF StoreInv

LEMMA StoreNext == Inv /\ StoreInv /\ [Next]_vars => StoreInv'
BY ModelStep, TickerStep, RevisionStep, FollowStep, KeepsStep, WrittenStep, Zenon DEF StoreInv

LEMMA SpecStore == Spec => [](Inv /\ StoreInv)
BY SpecInv, StoreInit, StoreNext, PTL DEF Spec

LEMMA FollowsToken == Inv /\ StoreInv => TuplesFollowToken
BY DEF StoreInv, FollowOK, TuplesFollowToken, Settled, NotLoading, Loaders

LEMMA Converged == Inv /\ StoreInv => MirrorConverges
<1> SUFFICES ASSUME Inv, StoreInv, Alone, Settled, token = Len(log)
             PROVE  tuples = Current.tuples
  BY Zenon DEF MirrorConverges, Alone
<1>1. tuples \subseteq Tuples /\ Current.tuples \subseteq Tuples
  <2>1. LogType
    BY Zenon DEF Inv, TypeOK, LogType, Entries
  <2> QED BY <2>1, RevisionTypes, Zenon DEF Inv, TypeOK, States
<1>2. ASSUME NEW t \in Tuples PROVE t \in tuples <=> t \in Current.tuples
  <2>1. WrittenTuple(t) /\ sync # "new" /\ load["sync"].pc = "idle" /\ mirror = NoCall
    BY DEF StoreInv, WrittenOK, Settled, Loaders, NotLoading
  <2>2. ~ChangedAfter(token, t) /\ ~Pending(t)
    <3>1. (token + 1)..Len(log) = {}
      BY DEF Inv, TypeOK
    <3> QED BY <2>1, <3>1, Zenon DEF ChangedAfter, Pending
  <2> QED BY <2>1, <2>2, Zenon DEF WrittenTuple, Agrees
<1> QED BY <1>1, <1>2, Zenon

\* While nothing is loaded twice and nothing is written through, the store holds
\* exactly the tuples of the token between frames (TuplesFollowToken), for every
\* log and every number of lost connections.
THEOREM StoreFollowsToken == Spec => []TuplesFollowToken
BY SpecStore, FollowsToken, PTL

\* When the stream has caught up and no call is half mirrored, what GrantAccess and
\* RevokeAccess wrote through agrees with the control plane (MirrorConverges), in
\* whatever order the calls, their replays and the bootstrap load interleaved.
THEOREM WriteThroughConverges == Spec => []MirrorConverges
BY SpecStore, Converged, PTL

(***************************************************************************)
(* The policy bundle never falls behind the token                          *)
(***************************************************************************)

\* Bundle versions never decrease along the log, and version 0 means there is none.
VersionsOK ==
    \A n \in 0..Len(log) :
        /\ \A m \in 0..n : StateAt(m).bundle.version <= StateAt(n).bundle.version
        /\ StateAt(n).bundle.version = 0 => StateAt(n).bundle = NoBundle

\* Without the ticker the loaded bundle has reached the token, the version guard
\* has not passed it and covers every frame this stream has brought, and the only
\* bundle frame ever applied is the one after the token.
BundleOK ==
    "ticker" \notin Features =>
        /\ sync = "new" => lastBundleVersion = 0
        /\ sync # "new" =>
              /\ StateAt(token).bundle.version <= bundle.version
              /\ lastBundleVersion <= StateAt(token).bundle.version
        /\ sync = "streaming" =>
              \A i \in (opened + 1)..token : log[i].mutation.kind = "bundle" =>
                  log[i].mutation.bundle.version <= lastBundleVersion
        /\ applying.pc # "idle" => applying.frame = token + 1
        /\ applying.pc = "overlay" => bundle = log[applying.frame].mutation.bundle
        /\ \A l \in {"app", "sync"} : load[l].pc = "finish" =>
              StateAt(load[l].snap).bundle.version <= bundle.version

\* The types of the positions in the log, of the version guards and of the data.
LEMMA PositionTypes ==
    ASSUME TypeOK
    PROVE  /\ token \in 0..Len(log) /\ opened \in 0..Len(log) /\ Len(log) \in Nat
           /\ lastBundleVersion \in Nat
           /\ lastData \in [Paths -> [version: Nat, value: Values \cup {NoValue}]]
           /\ data \in Data
<1>1. log \in Seq([mutation: Mutations, state: States])
  BY Zenon DEF TypeOK
<1>2. Len(log) \in Nat
  <2> DEFINE E == [mutation: Mutations, state: States]
  <2>1. log \in Seq(E)
    BY <1>1, Zenon
  <2> HIDE DEF E
  <2> QED BY <2>1
<1> QED BY <1>2, Zenon DEF TypeOK

LEMMA VersionTypes ==
    ASSUME LogType
    PROVE  \A n \in 0..Len(log) : StateAt(n).bundle \in Bundles /\ StateAt(n).bundle.version \in Nat
<1>1. \A n \in 0..Len(log) : StateAt(n) \in States
  BY StateType, Zenon
<1> QED BY <1>1, Zenon DEF States, Bundles

LEMMA VersionsStep ==
    ASSUME Inv, VersionsOK, [Next]_vars
    PROVE  VersionsOK'
<1>1. /\ LogType /\ LogType' /\ Len(log) \in Nat
      /\ \A n \in 0..Len(log) : StateAt(n)' = StateAt(n)
      /\ Len(log') = Len(log) \/ Len(log') = Len(log) + 1
  BY LogStep, Zenon
<1>2. \A n \in 0..Len(log) : StateAt(n).bundle.version \in Nat
  BY <1>1, VersionTypes, Zenon
<1>3. CASE Len(log') = Len(log)
  BY <1>1, <1>3 DEF VersionsOK
<1>4. CASE Len(log') = Len(log) + 1
  <2>1. /\ Current' = log'[Len(log) + 1].state
        /\ \A n \in 0..Len(log') : n \in 0..Len(log) \/ (n = Len(log) + 1 /\ StateAt(n)' = Current')
        /\ PolicyEntryOK(Current, log'[Len(log) + 1])
    BY <1>4, LogStep, Zenon DEF Follows
  <2>2. Current.bundle.version \in Nat
    BY <1>1, <1>2 DEF Current
  <2>3. \/ Current'.bundle = Current.bundle
        \/ Current'.bundle.version = Current.bundle.version + 1
    BY <2>1, Zenon DEF PolicyEntryOK
  <2>4. /\ Current.bundle.version <= Current'.bundle.version /\ Current'.bundle.version \in Nat
        /\ Current'.bundle.version = 0 => Current'.bundle = NoBundle
    <3>1. Current.bundle.version = 0 => Current.bundle = NoBundle
      BY <1>1 DEF VersionsOK, Current
    <3>2. CASE Current'.bundle = Current.bundle
      BY <2>2, <3>1, <3>2
    <3>3. CASE Current'.bundle.version = Current.bundle.version + 1
      BY <2>2, <3>3
    <3> QED BY <2>3, <3>2, <3>3, Zenon
  <2>5. \A m \in 0..Len(log) : StateAt(m).bundle.version <= Current'.bundle.version
    <3>1. \A m \in 0..Len(log) : StateAt(m).bundle.version <= Current.bundle.version
      BY <1>1 DEF VersionsOK, Current
    <3> QED BY <1>2, <2>2, <2>4, <3>1
  <2>6. ASSUME NEW n \in 0..Len(log')
        PROVE  /\ \A m \in 0..n : StateAt(m)'.bundle.version <= StateAt(n)'.bundle.version
               /\ StateAt(n)'.bundle.version = 0 => StateAt(n)'.bundle = NoBundle
    <3>1. CASE n \in 0..Len(log)
      <4>1. \A m \in 0..n : m \in 0..Len(log)
        BY <1>1, <3>1
      <4> QED BY <1>1, <3>1, <4>1, Zenon DEF VersionsOK
    <3>2. CASE n = Len(log) + 1 /\ StateAt(n)' = Current'
      <4>1. ASSUME NEW m \in 0..n PROVE StateAt(m)'.bundle.version <= Current'.bundle.version
        <5>1. m \in 0..Len(log) \/ (m = Len(log) + 1 /\ StateAt(m)' = Current')
          BY <1>1, <1>4, <2>1, <3>2, Zenon
        <5> QED BY <1>1, <2>4, <2>5, <5>1
      <4> QED BY <2>4, <3>2, <4>1, Zenon
    <3> QED BY <2>1, <3>1, <3>2, Zenon
  <2> QED BY <2>6, Zenon DEF VersionsOK
<1> QED BY <1>1, <1>3, <1>4, Zenon

\* The entry after the token, and its effect on the policy.
LEMMA NextPolicy ==
    ASSUME TypeOK, LogOK, NEW i \in 1..Len(log)
    PROVE  /\ PolicyEntryOK(StateAt(i - 1), log[i])
           /\ StateAt(i) = log[i].state
           /\ i - 1 \in 0..Len(log) /\ i \in 0..Len(log)
           /\ StateAt(i - 1) \in States /\ StateAt(i) \in States
<1>1. LogType /\ Len(log) \in Nat
  BY DEF TypeOK, LogType, Entries
<1>2. i - 1 \in 0..Len(log) /\ i \in 0..Len(log) /\ i # 0
  BY <1>1
<1>3. StateAt(i - 1) \in States /\ StateAt(i) \in States
  BY <1>1, <1>2, StateType, Zenon
<1>4. PolicyEntryOK(StateAt(i - 1), log[i])
  BY Zenon DEF LogOK, Follows
<1> QED BY <1>2, <1>3, <1>4, Zenon DEF StateAt

\* A bundle frame is stale exactly when this stream has brought it before.
LEMMA BundleFrames ==
    ASSUME Inv, BundleOK, "ticker" \notin Features, NEW i \in 1..Len(log), Delivers(i),
           log[i].mutation.kind = "bundle"
    PROVE  /\ log[i].mutation.bundle = StateAt(i).bundle
           /\ log[i].mutation.bundle.version = StateAt(i - 1).bundle.version + 1
           /\ StaleBundle(log[i].mutation.bundle.version) => i \in 1..token
           /\ ~StaleBundle(log[i].mutation.bundle.version) => i = token + 1
<1>0. TypeOK /\ LogOK /\ LogType
  BY Zenon DEF Inv, TypeOK, LogType, Entries
<1>00. /\ token \in 0..Len(log) /\ opened \in 0..Len(log) /\ Len(log) \in Nat /\ lastBundleVersion \in Nat
       /\ \A n \in 0..Len(log) : StateAt(n).bundle.version \in Nat
  BY <1>0, VersionTypes, PositionTypes, Zenon
<1>1. /\ log[i].mutation.bundle = StateAt(i).bundle
      /\ log[i].mutation.bundle.version = StateAt(i - 1).bundle.version + 1
  BY <1>0, NextPolicy, Zenon DEF PolicyEntryOK
<1>2. sync = "streaming" /\ (i = token + 1 \/ i \in (opened + 1)..token)
  BY Zenon DEF Delivers
<1>3. log[i].mutation.bundle.version # 0 /\ StateAt(i - 1).bundle.version \in Nat
  BY <1>00, <1>1
<1>4. CASE i = token + 1
  <2>1. i - 1 = token
    BY <1>00, <1>4
  <2>2. lastBundleVersion <= StateAt(token).bundle.version
    BY <1>2, Zenon DEF BundleOK
  <2>3. ~StaleBundle(log[i].mutation.bundle.version)
    BY <1>00, <1>1, <1>3, <2>1, <2>2 DEF StaleBundle
  <2> QED BY <1>1, <1>4, <2>3, Zenon
<1>5. CASE i \in (opened + 1)..token
  <2>1. StaleBundle(log[i].mutation.bundle.version)
    BY <1>2, <1>3, <1>5, Zenon DEF BundleOK, StaleBundle
  <2> QED BY <1>00, <1>1, <1>5, <2>1
<1> QED BY <1>2, <1>4, <1>5, Zenon

LEMMA BundleByRun ==
    ASSUME Inv, BundleOK, [Next]_vars, "ticker" \notin Features,
           bundle' = bundle, token' = token, lastBundleVersion' = lastBundleVersion,
           applying' = applying, load' = load,
           \/ sync' = sync /\ opened' = opened
           \/ sync # "new" /\ sync' # "new" /\ (sync' # "streaming" \/ opened' = token)
    PROVE  BundleOK'
<1>0. TypeOK /\ ApplyOK
  BY Zenon DEF Inv
<1>00. token \in 0..Len(log) /\ opened \in 0..Len(log) /\ Len(log) \in Nat
  BY <1>0 DEF TypeOK
<1>1. /\ \A i \in 1..Len(log) : log'[i] = log[i]
      /\ \A n \in 0..Len(log) : StateAt(n)' = StateAt(n)
  BY LogStep, Zenon
<1>2. \A l \in {"app", "sync"} : load[l].snap \in 0..Len(log)
  BY <1>0, LoadTypes, Zenon DEF Loaders
<1>3. /\ StateAt(token)' = StateAt(token)
      /\ \A l \in {"app", "sync"} : StateAt(load[l].snap)' = StateAt(load[l].snap)
  BY <1>00, <1>1, <1>2, Zenon DEF StateAt
<1>4. applying.pc # "idle" => log'[applying.frame] = log[applying.frame]
  BY <1>0, <1>1, Zenon DEF ApplyOK
<1>5. sync' = "streaming" =>
         \A i \in (opened' + 1)..token : log'[i].mutation.kind = "bundle" =>
             log'[i].mutation.bundle.version <= lastBundleVersion
  <2>1. CASE sync' = sync /\ opened' = opened
    <3>1. \A i \in (opened + 1)..token : log'[i] = log[i]
      BY <1>00, <1>1
    <3> QED BY <2>1, <3>1, Zenon DEF BundleOK
  <2>2. CASE opened' = token
    BY <1>00, <2>2
  <2> QED BY <2>1, <2>2, Zenon
<1>6. sync' = "new" <=> sync = "new"
  BY Zenon
<1> QED BY <1>3, <1>4, <1>5, <1>6, Zenon DEF BundleOK

LEMMA BundleByLoader ==
    ASSUME Inv, TickerOK, VersionsOK, BundleOK, "ticker" \notin Features,
           NEW l \in Loaders, LoaderStep(l) \/ LoadFails(l)
    PROVE  BundleOK'
<1>0. TypeOK /\ LoadOK /\ LogType /\ ApplyOK
  BY Zenon DEF Inv, TypeOK, LogType, Entries
<1>00. /\ token \in 0..Len(log) /\ Len(log) \in Nat /\ bundle.version \in Nat
       /\ \A k \in Loaders : load[k].snap \in 0..Len(log)
       /\ \A n \in 0..Len(log) : StateAt(n).bundle.version \in Nat
  <2>1. token \in 0..Len(log) /\ bundle \in Bundles
    BY <1>0, Zenon DEF TypeOK
  <2>2. Len(log) \in Nat
    BY <1>0 DEF LogType
  <2>3. bundle.version \in Nat
    BY <2>1 DEF Bundles
  <2> QED BY <1>0, <2>1, <2>2, <2>3, VersionTypes, LoadTypes, Zenon
<1>1. LoaderFrame(l)
  BY <1>0, FetchMoves, ModelMoves, TupleMoves, BundleMoves, AbandonMoves, Zenon
     DEF LoaderStep, LoadFails, LoadTupleInvalid
<1>2. load[l].pc # "idle" \/ MayLoad(l)
  BY <1>0, FetchMoves, ModelMoves, TupleMoves, BundleMoves, Zenon
     DEF LoaderStep, LoadFails, LoadTupleInvalid
<1>3. /\ l \in {"app", "sync"} /\ (l = "app" => sync = "new") /\ (l = "sync" => sync = "refused")
      /\ \A k \in Loaders \ {l} : load[k].pc = "idle"
  BY <1>2, LoadsExclude, Zenon
<1>4. /\ log' = log /\ token' = token /\ applying' = applying /\ lastBundleVersion' = lastBundleVersion
      /\ Features' = Features /\ applying.pc = "idle"
      /\ \A k \in {"app", "sync"} : k # l => load'[k].pc = "idle"
  BY <1>0, <1>1, <1>3, Zenon DEF LoaderFrame, guards, ApplyOK, Loaders
<1>5. ASSUME sync' = sync \/ (l = "sync" /\ sync' = "backoff"),
             sync # "new" => StateAt(token).bundle.version <= bundle'.version,
             load'[l].pc = "finish" => StateAt(load'[l].snap).bundle.version <= bundle'.version
      PROVE  BundleOK'
  <2>1. StateAt(token)' = StateAt(token) /\ StateAt(load[l].snap)' = StateAt(load'[l].snap)
    BY <1>4, Zenon DEF StateAt
  <2>2. sync' # "streaming" /\ (sync' = "new" <=> sync = "new")
    BY <1>3, <1>5, Zenon
  <2> QED BY <1>4, <1>5, <2>1, <2>2, Zenon DEF BundleOK
<1>6. ASSUME bundle' = bundle, sync' = sync \/ (l = "sync" /\ sync' = "backoff"), load'[l].pc # "finish"
      PROVE  BundleOK'
  BY <1>5, <1>6, Zenon DEF BundleOK
<1>7. CASE FetchSnapshot(l) \/ LoadModelStep(l) \/ \E t \in Tuples : LoadTuple(l, t)
  BY <1>0, <1>6, <1>7, FetchMoves, ModelMoves, TupleMoves, Zenon DEF engines
<1>8. CASE AbandonLoad(l)
  BY <1>0, <1>6, <1>8, AbandonMoves DEF engines, NotLoading
<1>9. CASE LoadBundleStep(l)
  <2>1. /\ sync' = sync /\ load'[l].snap = load[l].snap
        /\ IF StateAt(load[l].snap).bundle = NoBundle
             THEN UNCHANGED <<bundle, data>>
             ELSE LoadBundle(StateAt(load[l].snap).bundle, StateAt(load[l].snap).data)
    BY <1>0, <1>9, BundleMoves, Zenon
  <2>2. CASE StateAt(load[l].snap).bundle = NoBundle
    <3>1. bundle' = bundle /\ StateAt(load[l].snap).bundle.version = 0
      BY <2>1, <2>2 DEF NoBundle
    <3>2. 0 <= bundle.version
      BY <1>00, FromZero, Zenon
    <3> QED BY <1>5, <2>1, <3>1, <3>2, Zenon DEF BundleOK
  <2>3. CASE StateAt(load[l].snap).bundle # NoBundle
    <3>1. bundle' = StateAt(load[l].snap).bundle
      BY <2>1, <2>3, Zenon DEF LoadBundle
    <3>2. sync # "new" => token <= load[l].snap
      BY <1>0, <1>3, <1>9, BundleMoves, Zenon DEF LoadOK
    <3>3. sync # "new" => StateAt(token).bundle.version <= StateAt(load[l].snap).bundle.version
      BY <1>00, <3>2 DEF VersionsOK
    <3>4. StateAt(load[l].snap).bundle.version <= StateAt(load[l].snap).bundle.version
      BY <1>00, Reflexive, Zenon
    <3> QED BY <1>5, <2>1, <3>1, <3>3, <3>4, Zenon
  <2> QED BY <2>2, <2>3, Zenon
<1> QED BY <1>7, <1>8, <1>9, Zenon DEF LoaderStep, LoadFails, LoadTupleInvalid

LEMMA BundleByFinish ==
    ASSUME Inv, TickerOK, VersionsOK, BundleOK, "ticker" \notin Features, Finish
    PROVE  BundleOK'
<1>0. TypeOK /\ LoadOK /\ LogType /\ ApplyOK
  BY Zenon DEF Inv, TypeOK, LogType, Entries
<1>00. /\ token \in 0..Len(log) /\ Len(log) \in Nat /\ lastBundleVersion \in Nat
       /\ \A k \in Loaders : load[k].snap \in 0..Len(log)
       /\ \A n \in 0..Len(log) : StateAt(n).bundle.version \in Nat
  BY <1>0, VersionTypes, LoadTypes, PositionTypes, Zenon
<1>1. PICK l \in {"app", "sync"} :
         /\ load[l].pc = "finish" /\ token' = load[l].snap /\ load' = [load EXCEPT ![l] = NotLoading]
         /\ sync' \in {"connect", "backoff"}
         /\ log' = log /\ bundle' = bundle /\ lastBundleVersion' = lastBundleVersion
         /\ applying' = applying /\ environment' = environment
  BY NoInterval, Zenon DEF Finish, FinishBootstrap, FinishRebootstrap, logVars, engines
<1>2. /\ l = "app" => sync = "new"
      /\ l = "sync" => sync = "refused" /\ token <= load[l].snap
  BY <1>0, <1>1, Zenon DEF LoadOK
<1>3. StateAt(load[l].snap).bundle.version <= bundle.version
  BY <1>1, Zenon DEF BundleOK
<1>4. lastBundleVersion <= StateAt(load[l].snap).bundle.version
  <2>1. CASE l = "app"
    BY <1>00, <1>2, <2>1, FromZero, Zenon DEF BundleOK, Loaders
  <2>2. CASE l = "sync"
    <3>1. lastBundleVersion <= StateAt(token).bundle.version
      BY <1>2, <2>2, Zenon DEF BundleOK
    <3>2. load[l].snap \in 0..Len(log)
      BY <1>00, <2>2, Zenon DEF Loaders
    <3>3. StateAt(token).bundle.version <= StateAt(load[l].snap).bundle.version
      BY <1>00, <1>2, <2>2, <3>2 DEF VersionsOK
    <3> QED BY <1>00, <3>1, <3>2, <3>3
  <2> QED BY <2>1, <2>2, Zenon
<1>5. StateAt(token)' = StateAt(load[l].snap)
  BY <1>1, Zenon DEF StateAt
<1>6. applying.pc = "idle" /\ \A k \in {"app", "sync"} : load'[k].pc = "idle"
  <2>1. applying.pc = "idle"
    BY <1>0, <1>2, Zenon DEF ApplyOK
  <2>2. load'[l].pc = "idle"
    BY <1>0, <1>1, LoadTypes, Zenon DEF NotLoading, Loaders
  <2>3. \A k \in {"app", "sync"} \ {l} : load'[k] = load[k] /\ load[k].pc = "idle"
    BY <1>0, <1>1, <1>2, LoadTypes, Zenon DEF LoadOK, Loaders
  <2> QED BY <2>1, <2>2, <2>3, Zenon
<1> QED BY <1>1, <1>3, <1>4, <1>5, <1>6, Zenon DEF BundleOK

LEMMA BundleByFrame ==
    ASSUME Inv, BundleOK, "ticker" \notin Features, NEW i \in 1..Len(log), Receive(i)
    PROVE  BundleOK'
<1>0. TypeOK /\ LogOK /\ LoadOK /\ LogType
  BY Zenon DEF Inv, TypeOK, LogType, Entries
<1>00. token \in 0..Len(log) /\ opened \in 0..Len(log) /\ Len(log) \in Nat
  BY <1>0 DEF TypeOK
<1>1. /\ Delivers(i) /\ sync' \in {"streaming", "refused"}
      /\ log' = log /\ environment' = environment /\ bundle' = bundle /\ opened' = opened
      /\ load' = load /\ lastBundleVersion' = lastBundleVersion
  BY Zenon DEF Receive, ApplyTupleWrite, ApplyTupleDelete, ApplyModelUpdate, ApplyBundleGuard,
     ApplyPolicyData, Delivers, logVars, engines, guards, Advance, Refuse
<1>2. /\ sync = "streaming" /\ applying.pc = "idle"
      /\ load["app"].pc = "idle" /\ load["sync"].pc = "idle"
  BY <1>0, <1>1, Zenon DEF Delivers, NotApplying, LoadOK
<1>3. ASSUME StateAt(token)'.bundle = StateAt(token).bundle,
             \A j \in (opened + 1)..token' : log[j].mutation.kind = "bundle" =>
                 log[j].mutation.bundle.version <= lastBundleVersion,
             applying'.pc # "idle" => applying'.frame = token' + 1 /\ applying'.pc = "load"
      PROVE  BundleOK'
  BY <1>1, <1>2, <1>3, Zenon DEF BundleOK
<1>4. ASSUME token' = token, applying'.pc # "idle" => applying'.frame = token' + 1 /\ applying'.pc = "load"
      PROVE  BundleOK'
  BY <1>1, <1>2, <1>3, <1>4, Zenon DEF BundleOK, StateAt
<1>5. ASSUME log[i].mutation.kind # "bundle", token' = token \/ Advance(i), applying' = applying
      PROVE  BundleOK'
  <2>1. CASE token' = token
    BY <1>2, <1>4, <1>5, <2>1, Zenon
  <2>2. CASE token' # token
    <3>1. i = token + 1 /\ token' = i
      BY <1>0, <1>00, <1>1, <1>5, <2>2, FrameIsNext DEF Advance
    <3>2. StateAt(i).bundle = StateAt(i - 1).bundle /\ i - 1 = token
      <4>1. i - 1 = token
        BY <1>00, <3>1
      <4>2. PolicyEntryOK(StateAt(i - 1), log[i]) /\ StateAt(i) = log[i].state
        BY <1>0, <1>00, NextPolicy, Zenon
      <4> QED BY <1>5, <4>1, <4>2, Zenon DEF PolicyEntryOK
    <3>3. StateAt(token)'.bundle = StateAt(token).bundle
      <4>1. StateAt(token)' = StateAt(i)
        BY <1>1, <3>1, Zenon DEF StateAt
      <4> QED BY <3>2, <4>1, Zenon
    <3>4. \A j \in (opened + 1)..token' : j = i \/ j \in (opened + 1)..token
      BY <1>00, <3>1
    <3> QED BY <1>2, <1>3, <1>5, <3>3, <3>4, Zenon DEF BundleOK
  <2> QED BY <2>1, <2>2, Zenon
<1>6. CASE ApplyTupleWrite(i) \/ ApplyTupleDelete(i) \/ ApplyModelUpdate(i) \/ ApplyPolicyData(i)
  <2>1. /\ log[i].mutation.kind # "bundle" /\ applying' = applying
        /\ Advance(i) \/ token' = token
    <3>1. log[i].mutation.kind \in {"write", "delete", "model", "data"}
      BY <1>6, Zenon DEF ApplyTupleWrite, ApplyTupleDelete, ApplyModelUpdate, ApplyPolicyData
    <3>2. applying' = applying /\ (Advance(i) \/ token' = token)
      BY <1>6, Zenon DEF ApplyTupleWrite, ApplyTupleDelete, ApplyModelUpdate, ApplyPolicyData, Refuse
    <3> QED BY <3>1, <3>2, Zenon
  <2> QED BY <1>5, <2>1, Zenon
<1>7. CASE ApplyBundleGuard(i)
  <2>1. log[i].mutation.kind = "bundle"
    BY <1>7, Zenon DEF ApplyBundleGuard
  <2>2. CASE StaleBundle(log[i].mutation.bundle.version)
    <3>1. Advance(i) /\ applying' = applying
      BY <1>7, <2>2, Zenon DEF ApplyBundleGuard
    <3>2. i \in 1..token
      BY <1>1, <2>1, <2>2, BundleFrames, Zenon
    <3>3. token' = token
      BY <1>00, <3>1, <3>2 DEF Advance
    <3> QED BY <1>2, <1>4, <3>1, <3>3, Zenon
  <2>3. CASE ~StaleBundle(log[i].mutation.bundle.version)
    <3>1. applying'.pc = "load" /\ applying'.frame = i /\ token' = token
      <4>1. /\ applying' = [pc |-> "load", frame |-> i, baseline |-> baselineData,
                            overlays |-> [p \in Paths |-> lastData[p].value],
                            todo |-> {p \in Paths : lastData[p].value # NoValue}]
            /\ token' = token
        BY <1>7, <2>3, Zenon DEF ApplyBundleGuard
      <4> QED BY <4>1, Zenon
    <3>2. i = token + 1
      BY <1>1, <2>1, <2>3, BundleFrames, Zenon
    <3> QED BY <1>4, <3>1, <3>2, Zenon
  <2> QED BY <2>2, <2>3, Zenon
<1> QED BY <1>6, <1>7, Zenon DEF Receive

LEMMA BundleByApply ==
    ASSUME Inv, BundleOK, "ticker" \notin Features, ApplyBundle
    PROVE  BundleOK'
<1>0. TypeOK /\ LogOK /\ LoadOK /\ LogType /\ ApplyOK
  BY Zenon DEF Inv, TypeOK, LogType, Entries
<1> DEFINE i == applying.frame
<1>1. /\ applying.pc # "idle" /\ sync = "streaming" /\ sync' = sync
      /\ log' = log /\ environment' = environment /\ opened' = opened /\ load' = load
  BY <1>0, Zenon
     DEF ApplyBundle, ApplyBundleLoad, ApplyBundleOverlay, ApplyBundleRecord, ApplyOK, logVars, Advance
<1>2. /\ i \in 1..Len(log) /\ i = token + 1 /\ log[i].mutation.kind = "bundle"
      /\ load["app"].pc = "idle" /\ load["sync"].pc = "idle"
  BY <1>0, <1>1, Zenon DEF ApplyOK, BundleOK, LoadOK
<1>00. /\ token \in 0..Len(log) /\ opened \in 0..Len(log) /\ Len(log) \in Nat /\ lastBundleVersion \in Nat
       /\ StateAt(token).bundle.version \in Nat
  BY <1>0, VersionTypes, PositionTypes, Zenon
<1>3. /\ log[i].mutation.bundle = StateAt(i).bundle
      /\ log[i].mutation.bundle.version = StateAt(token).bundle.version + 1
  <2>1. PolicyEntryOK(StateAt(i - 1), log[i]) /\ StateAt(i) = log[i].state /\ i - 1 = token
    BY <1>0, <1>00, <1>2, NextPolicy, OneAhead, Zenon
  <2> QED BY <1>2, <2>1, Zenon DEF PolicyEntryOK
<1>4. /\ StateAt(token).bundle.version <= bundle.version
      /\ lastBundleVersion <= StateAt(token).bundle.version
      /\ applying.pc = "overlay" => bundle = log[i].mutation.bundle
  BY <1>1, Zenon DEF BundleOK
<1>5. CASE ApplyBundleLoad \/ \E p \in Paths : ApplyBundleOverlay(p)
  <2>1. /\ token' = token /\ lastBundleVersion' = lastBundleVersion
        /\ applying'.frame = i /\ applying'.pc = "overlay"
        /\ bundle' = log[i].mutation.bundle
    <3>1. CASE ApplyBundleLoad
      BY <1>0, <3>1, Zenon DEF ApplyBundleLoad, LoadBundle, guards, TypeOK
    <3>2. CASE \E p \in Paths : ApplyBundleOverlay(p)
      BY <1>0, <1>4, <3>2, Zenon DEF ApplyBundleOverlay, guards, TypeOK
    <3> QED BY <1>5, <3>1, <3>2, Zenon
  <2>2. StateAt(token)' = StateAt(token)
    BY <1>1, <2>1, Zenon DEF StateAt
  <2>3. StateAt(token).bundle.version <= bundle'.version
    BY <1>00, <1>3, <2>1
  <2> HIDE DEF i
  <2> QED BY <1>1, <1>2, <1>4, <2>1, <2>2, <2>3, Zenon DEF BundleOK
<1>6. CASE ApplyBundleRecord
  <2>1. /\ token' = i /\ lastBundleVersion' = log[i].mutation.bundle.version
        /\ bundle' = bundle /\ applying'.pc = "idle" /\ applying.pc = "overlay"
    BY <1>00, <1>2, <1>6, OneAhead, Zenon DEF ApplyBundleRecord, Advance, engines, NotApplying
  <2>2. StateAt(token)' = StateAt(i)
    BY <1>1, <2>1, Zenon DEF StateAt
  <2>3. \A j \in (opened + 1)..i : log[j].mutation.kind = "bundle" =>
           log[j].mutation.bundle.version <= log[i].mutation.bundle.version
    <3>1. \A j \in (opened + 1)..i : j = i \/ (j \in (opened + 1)..token /\ j \in 1..Len(log))
      BY <1>00, <1>2
    <3>2. ASSUME NEW j \in (opened + 1)..token, j \in 1..Len(log), log[j].mutation.kind = "bundle"
          PROVE  log[j].mutation.bundle.version <= log[i].mutation.bundle.version
      <4>1. log[j].mutation.bundle.version <= lastBundleVersion
        BY <1>1, <3>2, Zenon DEF BundleOK
      <4>2. log[j].mutation.bundle.version \in Nat
        <5>1. PolicyEntryOK(StateAt(j - 1), log[j]) /\ StateAt(j) = log[j].state /\ j \in 0..Len(log)
          BY <1>0, <3>2, NextPolicy, Zenon
        <5>2. log[j].mutation.bundle = StateAt(j).bundle
          BY <3>2, <5>1, Zenon DEF PolicyEntryOK
        <5> QED BY <1>0, <5>1, <5>2, VersionTypes, Zenon
      <4> QED BY <1>00, <1>3, <1>4, <4>1, <4>2
    <3>3. log[i].mutation.bundle.version <= log[i].mutation.bundle.version
      BY <1>00, <1>3
    <3> QED BY <3>1, <3>2, <3>3, Zenon
  <2>4. StateAt(i).bundle.version \in Nat
    BY <1>00, <1>3
  <2>5. StateAt(i).bundle.version <= StateAt(i).bundle.version
    BY <2>4, Reflexive, Zenon
  <2> HIDE DEF i
  <2> QED BY <1>1, <1>2, <1>3, <1>4, <2>1, <2>2, <2>3, <2>5, Zenon DEF BundleOK
<1> QED BY <1>5, <1>6, Zenon DEF ApplyBundle

LEMMA BundleByFailure ==
    ASSUME Inv, BundleOK, "ticker" \notin Features, ApplyFails
    PROVE  BundleOK'
<1>1. Rejected /\ LoadOK
  BY FailedApply, Zenon DEF Inv
<1>2. /\ sync = "streaming" /\ sync' = "refused" /\ token' = token /\ log' = log /\ load' = load
      /\ bundle' = bundle /\ lastBundleVersion' = lastBundleVersion
      /\ applying' = NotApplying
  BY <1>1, Zenon DEF Rejected, logVars, engines, guards
<1>3. applying'.pc = "idle" /\ load["app"].pc = "idle" /\ load["sync"].pc = "idle"
  BY <1>1, <1>2, Zenon DEF NotApplying, LoadOK
<1>4. StateAt(token)' = StateAt(token)
  BY <1>2, Zenon DEF StateAt
<1> QED BY <1>2, <1>3, <1>4, Zenon DEF BundleOK

LEMMA BundleStep ==
    ASSUME Inv, TickerOK, VersionsOK, BundleOK, [Next]_vars
    PROVE  BundleOK'
<1> SUFFICES ASSUME "ticker" \notin Features PROVE BundleOK'
  BY LogStep, Zenon DEF BundleOK
<1>1. CASE ControlPlane \/ (\E t \in Tuples : RemoteCommit(t)) \/ MirrorLocally \/ UNCHANGED vars
  BY <1>1, BundleByRun, Zenon DEF ControlPlane, RemoteCommit, MirrorLocally, vars, engines, guards
<1>2. CASE OpenStream \/ OpenFails \/ TokenRefused \/ Disconnect \/ BackoffElapsed
  BY <1>2, BundleByRun, Zenon
     DEF OpenStream, OpenFails, TokenRefused, Disconnect, BackoffElapsed, engines, guards
<1> QED BY <1>1, <1>2, BundleByLoader, BundleByFinish, BundleByFrame, BundleByApply, BundleByFailure,
       Zenon DEF Next

(***************************************************************************)
(* The data evaluation reads never falls behind the token                  *)
(***************************************************************************)

\* Data versions never decrease along the log, and a version has one value.
HistoryOK ==
    \A n \in 0..Len(log) : \A m \in 0..n : \A p \in Paths :
        /\ StateAt(m).dataVersion[p] <= StateAt(n).dataVersion[p]
        /\ StateAt(m).dataVersion[p] = StateAt(n).dataVersion[p] =>
              StateAt(m).data[p] = StateAt(n).data[p]

LEMMA Between == \A a, b, c \in Nat : a <= b /\ b <= c => a <= c /\ (a = c => a = b /\ b = c)
  OBVIOUS

LEMMA JustAbove == \A a \in Nat : a <= a + 1 /\ a # a + 1 /\ a + 1 \in Nat /\ a + 1 # 0
  OBVIOUS

\* What one entry does to the data of a path.
LEMMA EntryHistory ==
    ASSUME NEW s \in States, NEW e, PolicyEntryOK(s, e), NEW p \in Paths
    PROVE  /\ s.dataVersion[p] \in Nat /\ e.state.dataVersion[p] \in Nat
           /\ s.dataVersion[p] <= e.state.dataVersion[p]
           /\ s.dataVersion[p] = e.state.dataVersion[p] => s.data[p] = e.state.data[p]
<1>1. s.dataVersion[p] \in Nat
  BY Zenon DEF States
<1>2. CASE e.mutation.kind = "data" /\ p = e.mutation.path
  <2>1. e.state.dataVersion[p] = s.dataVersion[p] + 1
    BY <1>2, Zenon DEF PolicyEntryOK
  <2> QED BY <1>1, <2>1, JustAbove, Zenon
<1>3. CASE ~(e.mutation.kind = "data" /\ p = e.mutation.path)
  <2>1. e.state.dataVersion[p] = s.dataVersion[p] /\ e.state.data[p] = s.data[p]
    BY <1>3, Zenon DEF PolicyEntryOK
  <2> QED BY <1>1, <2>1, Reflexive, Zenon
<1> QED BY <1>2, <1>3, Zenon

LEMMA HistoryStep ==
    ASSUME Inv, HistoryOK, [Next]_vars
    PROVE  HistoryOK'
<1>1. /\ LogType /\ Len(log) \in Nat
      /\ \A n \in 0..Len(log) : StateAt(n)' = StateAt(n)
      /\ Len(log') = Len(log) \/ Len(log') = Len(log) + 1
  BY LogStep, Zenon
<1>2. \A n \in 0..Len(log) : \A p \in Paths : StateAt(n).dataVersion[p] \in Nat
  BY <1>1, StateType, Zenon DEF States
<1>3. ASSUME NEW n \in 0..Len(log), NEW m \in 0..n, NEW p \in Paths
      PROVE  /\ StateAt(m)'.dataVersion[p] <= StateAt(n)'.dataVersion[p]
             /\ StateAt(m)'.dataVersion[p] = StateAt(n)'.dataVersion[p] =>
                   StateAt(m)'.data[p] = StateAt(n)'.data[p]
  <2>1. m \in 0..Len(log)
    BY <1>1
  <2> QED BY <1>1, <2>1, Zenon DEF HistoryOK
<1>4. CASE Len(log') = Len(log)
  BY <1>3, <1>4, Zenon DEF HistoryOK
<1>5. CASE Len(log') = Len(log) + 1
  <2>1. /\ Current' = log'[Len(log) + 1].state
        /\ \A n \in 0..Len(log') : n \in 0..Len(log) \/ (n = Len(log) + 1 /\ StateAt(n)' = Current')
        /\ PolicyEntryOK(Current, log'[Len(log) + 1])
    BY <1>5, LogStep, Zenon DEF Follows
  <2>2. Current = StateAt(Len(log)) /\ Len(log) \in 0..Len(log) /\ Current \in States
    BY <1>1, RevisionTypes DEF Current
  <2>3. ASSUME NEW p \in Paths
        PROVE  /\ Current.dataVersion[p] \in Nat /\ Current'.dataVersion[p] \in Nat
               /\ Current.dataVersion[p] <= Current'.dataVersion[p]
               /\ Current.dataVersion[p] = Current'.dataVersion[p] => Current.data[p] = Current'.data[p]
    BY <2>1, <2>2, EntryHistory, Zenon
  <2>4. ASSUME NEW m \in 0..Len(log), NEW p \in Paths
        PROVE  /\ StateAt(m)'.dataVersion[p] <= Current'.dataVersion[p]
               /\ StateAt(m)'.dataVersion[p] = Current'.dataVersion[p] =>
                     StateAt(m)'.data[p] = Current'.data[p]
    <3>1. /\ StateAt(m).dataVersion[p] <= Current.dataVersion[p]
          /\ StateAt(m).dataVersion[p] = Current.dataVersion[p] => StateAt(m).data[p] = Current.data[p]
      BY <2>2, Zenon DEF HistoryOK
    <3>2. StateAt(m).dataVersion[p] \in Nat /\ StateAt(m)' = StateAt(m)
      BY <1>1, <1>2, Zenon
    <3> DEFINE a == StateAt(m).dataVersion[p]
               b == Current.dataVersion[p]
               c == Current'.dataVersion[p]
    <3>3. a \in Nat /\ b \in Nat /\ c \in Nat /\ a <= b /\ b <= c
      BY <2>3, <3>1, <3>2, Zenon
    <3>4. a <= c /\ (a = c => a = b /\ b = c)
      <4> HIDE DEF a, b, c
      <4> QED BY <3>3, Between, Zenon
    <3> QED BY <2>3, <3>1, <3>2, <3>4, Zenon
  <2>5. ASSUME NEW n \in 0..Len(log'), NEW m \in 0..n, NEW p \in Paths
        PROVE  /\ StateAt(m)'.dataVersion[p] <= StateAt(n)'.dataVersion[p]
               /\ StateAt(m)'.dataVersion[p] = StateAt(n)'.dataVersion[p] =>
                     StateAt(m)'.data[p] = StateAt(n)'.data[p]
    <3>1. CASE n \in 0..Len(log)
      BY <1>3, <3>1, Zenon
    <3>2. CASE n = Len(log) + 1 /\ StateAt(n)' = Current'
      <4>1. m \in 0..Len(log')
        BY <1>1, <1>5, <3>2
      <4>2. CASE m \in 0..Len(log)
        BY <2>4, <3>2, <4>2, Zenon
      <4>3. CASE StateAt(m)' = Current'
        BY <2>3, <3>2, <4>3, Reflexive, Zenon
      <4> QED BY <2>1, <4>1, <4>2, <4>3, Zenon
    <3> QED BY <2>1, <3>1, <3>2, Zenon
  <2> QED BY <2>5, Zenon DEF HistoryOK
<1> QED BY <1>1, <1>4, <1>5, Zenon

\* Once the tenant has a bundle it always has one.
LEMMA BundleStays ==
    ASSUME Inv, VersionsOK, [Next]_vars
    PROVE  /\ Current.bundle # NoBundle => Current'.bundle # NoBundle
           /\ \A n \in 0..Len(log) : StateAt(n).bundle # NoBundle => Current.bundle # NoBundle
<1>1. /\ LogType /\ Len(log) \in Nat
      /\ Len(log') = Len(log) \/ Len(log') = Len(log) + 1
  BY LogStep, Zenon
<1>2. \A n \in 0..Len(log) : StateAt(n).bundle.version \in Nat
  BY <1>1, VersionTypes, Zenon
<1>3. NoBundle.version = 0
  BY Zenon DEF NoBundle
<1>4. ASSUME NEW n \in 0..Len(log), StateAt(n).bundle # NoBundle
      PROVE  Current.bundle # NoBundle
  <2>1. StateAt(n).bundle.version # 0 /\ StateAt(n).bundle.version <= Current.bundle.version
    BY <1>1, <1>4 DEF VersionsOK, Current
  <2> QED BY <1>1, <1>2, <1>3, <2>1 DEF Current
<1>5. ASSUME Current.bundle # NoBundle
      PROVE  Current'.bundle # NoBundle
  <2>1. CASE Len(log') = Len(log)
    <3>1. Current' = Current
      BY <2>1, LogStep, Zenon
    <3> QED BY <1>5, <3>1, Zenon
  <2>2. CASE Len(log') = Len(log) + 1
    <3>1. Current' = log'[Len(log) + 1].state /\ PolicyEntryOK(Current, log'[Len(log) + 1])
      BY <2>2, LogStep, Zenon DEF Follows
    <3>2. Current.bundle.version \in Nat
      BY <1>1, <1>2 DEF Current
    <3> QED BY <1>3, <1>5, <3>1, <3>2 DEF PolicyEntryOK
  <2> QED BY <1>1, <2>1, <2>2, Zenon
<1> QED BY <1>4, <1>5, Zenon

\* The policy engine: no data without a bundle, no bundle before the tenant has one,
\* and at the end of a load exactly what the snapshot holds.
EngineOK ==
    "ticker" \notin Features =>
        /\ bundle = NoBundle => data = NoData
        /\ bundle # NoBundle => Current.bundle # NoBundle
        /\ \A l \in {"app", "sync"} :
              /\ load[l].pc # "idle" /\ bundle # NoBundle => StateAt(load[l].snap).bundle # NoBundle
              /\ load[l].pc = "finish" =>
                    \A p \in Paths : data[p] = EffectiveData(StateAt(load[l].snap))[p]

LEMMA EngineKept ==
    ASSUME Inv, VersionsOK, EngineOK, [Next]_vars, bundle' = bundle, data' = data,
           \A l \in {"app", "sync"} : load'[l] = load[l] \/ load'[l].pc = "idle"
    PROVE  EngineOK'
<1>1. /\ \A n \in 0..Len(log) : StateAt(n)' = StateAt(n)
      /\ Features' = Features
  BY LogStep, Zenon
<1>2. Current.bundle # NoBundle => Current'.bundle # NoBundle
  BY BundleStays, Zenon
<1>3. \A l \in {"app", "sync"} : load'[l].pc # "idle" =>
         load'[l] = load[l] /\ StateAt(load[l].snap)' = StateAt(load[l].snap)
  <2>1. \A l \in {"app", "sync"} : load[l].snap \in 0..Len(log)
    BY LoadTypes, Zenon DEF Inv, Loaders
  <2> QED BY <1>1, <2>1, Zenon DEF StateAt
<1> QED BY <1>1, <1>2, <1>3, Zenon DEF EngineOK

\* A frame never meets a load the client waits for.
LEMMA EngineByStream ==
    ASSUME Inv, VersionsOK, EngineOK, [Next]_vars, sync = "streaming", load' = load,
           bundle' # NoBundle, Current.bundle # NoBundle
    PROVE  EngineOK'
<1>1. load["app"].pc = "idle" /\ load["sync"].pc = "idle"
  BY Zenon DEF Inv, LoadOK
<1>2. Current'.bundle # NoBundle
  BY BundleStays, Zenon
<1> QED BY <1>1, <1>2, Zenon DEF EngineOK

LEMMA EngineByLoader ==
    ASSUME Inv, TickerOK, VersionsOK, EngineOK, [Next]_vars, "ticker" \notin Features,
           NEW l \in Loaders, LoaderStep(l) \/ LoadFails(l)
    PROVE  EngineOK'
<1>0. TypeOK /\ LogType
  BY Zenon DEF Inv, TypeOK, LogType, Entries
<1>1. LoaderFrame(l)
  BY <1>0, FetchMoves, ModelMoves, TupleMoves, BundleMoves, AbandonMoves, Zenon
     DEF LoaderStep, LoadFails, LoadTupleInvalid
<1>2. load[l].pc # "idle" \/ MayLoad(l)
  BY <1>0, FetchMoves, ModelMoves, TupleMoves, BundleMoves, Zenon
     DEF LoaderStep, LoadFails, LoadTupleInvalid
<1>3. l \in {"app", "sync"} /\ \A k \in Loaders \ {l} : load[k].pc = "idle"
  BY <1>2, LoadsExclude, Zenon
<1>4. \A k \in {"app", "sync"} : k # l => load'[k] = load[k] /\ load'[k].pc = "idle"
  BY <1>1, <1>3, Zenon DEF LoaderFrame, Loaders
<1>5. Current' = Current /\ \A k \in {"app", "sync"} : StateAt(load[k].snap)' = StateAt(load'[k].snap)
  BY <1>1, Zenon DEF LoaderFrame, StateAt, Current
<1>6. ASSUME /\ bundle' = NoBundle => data' = NoData
             /\ bundle' # NoBundle =>
                   Current.bundle # NoBundle /\ StateAt(load'[l].snap).bundle # NoBundle
             /\ load'[l].pc = "finish" =>
                   \A p \in Paths : data'[p] = EffectiveData(StateAt(load'[l].snap))[p]
      PROVE  EngineOK'
  <2>1. ASSUME NEW k \in {"app", "sync"}, k # l
        PROVE  load'[k].pc = "idle"
    BY <1>4, <2>1, Zenon
  <2>2. ASSUME NEW k \in {"app", "sync"}
        PROVE  /\ load'[k].pc # "idle" /\ bundle' # NoBundle => StateAt(load[k].snap)'.bundle # NoBundle
               /\ load'[k].pc = "finish" =>
                     \A p \in Paths : data'[p] = EffectiveData(StateAt(load[k].snap)')[p]
    <3>1. CASE k = l
      BY <1>5, <1>6, <3>1, Zenon
    <3>2. CASE k # l
      <4>1. load'[k].pc = "idle"
        BY <2>1, <3>2, Zenon
      <4> QED BY <4>1, Zenon
    <3> QED BY <3>1, <3>2, Zenon
  <2> QED BY <1>5, <1>6, <2>2, Zenon DEF EngineOK, EffectiveData
<1>7. CASE FetchSnapshot(l)
  <2>1. bundle' = bundle /\ data' = data /\ load'[l].pc = "model" /\ load'[l].snap = Len(log)
    BY <1>0, <1>7, FetchMoves, Zenon DEF engines
  <2>2. StateAt(load'[l].snap) = Current
    BY <2>1, Zenon DEF Current
  <2> QED BY <1>6, <2>1, <2>2, Zenon DEF EngineOK
<1>8. CASE LoadModelStep(l) \/ \E t \in Tuples : LoadTuple(l, t)
  <2>1. /\ bundle' = bundle /\ data' = data /\ load[l].pc # "idle"
        /\ load'[l].pc = "tuples" /\ load'[l].snap = load[l].snap
    BY <1>0, <1>8, ModelMoves, TupleMoves, Zenon
  <2> QED BY <1>3, <1>6, <2>1, Zenon DEF EngineOK
<1>9. CASE AbandonLoad(l)
  <2>1. bundle' = bundle /\ data' = data /\ load'[l].pc = "idle"
    BY <1>0, <1>9, AbandonMoves, IdleRecords, Zenon DEF engines
  <2> QED BY <1>4, <2>1, EngineKept, Zenon
<1>10. CASE LoadBundleStep(l)
  <2> DEFINE s == StateAt(load[l].snap)
  <2>1. /\ load[l].pc = "tuples" /\ load'[l].pc = "finish" /\ load'[l].snap = load[l].snap
        /\ IF s.bundle = NoBundle THEN UNCHANGED <<bundle, data>> ELSE LoadBundle(s.bundle, s.data)
    BY <1>0, <1>10, BundleMoves, Zenon
  <2>2. load[l].snap \in 0..Len(log)
    BY <1>0, LoadTypes, Zenon
  <2>3. s.bundle # NoBundle => Current.bundle # NoBundle
    BY <2>2, BundleStays, Zenon
  <2>4. CASE s.bundle = NoBundle
    <3>1. bundle = NoBundle
      BY <1>3, <2>1, <2>4, Zenon DEF EngineOK
    <3>2. bundle' = NoBundle /\ data' = NoData
      BY <2>1, <2>4, <3>1, Zenon DEF EngineOK
    <3>3. data' = EffectiveData(s)
      BY <2>4, <3>2, Zenon DEF EffectiveData
    <3> QED BY <1>6, <2>1, <3>2, <3>3, Zenon
  <2>5. CASE s.bundle # NoBundle
    <3>1. bundle' = s.bundle /\ data' = Overlay(s.bundle.embedded, s.data)
      BY <2>1, <2>5, Zenon DEF LoadBundle
    <3>2. data' = EffectiveData(s)
      BY <2>5, <3>1, Zenon DEF EffectiveData
    <3> QED BY <1>6, <2>1, <2>3, <2>5, <3>1, <3>2, Zenon
  <2> QED BY <2>4, <2>5, Zenon
<1> QED BY <1>7, <1>8, <1>9, <1>10, Zenon DEF LoaderStep, LoadFails, LoadTupleInvalid

LEMMA EngineByFrame ==
    ASSUME Inv, VersionsOK, BundleOK, EngineOK, [Next]_vars, "ticker" \notin Features,
           (\E i \in 1..Len(log) : Receive(i)) \/ ApplyBundle
    PROVE  EngineOK'
<1>0. TypeOK /\ LogOK /\ LogType /\ ApplyOK
  BY Zenon DEF Inv, TypeOK, LogType, Entries
<1>1. ASSUME bundle' = bundle, data' = data, load' = load
      PROVE  EngineOK'
  BY <1>1, EngineKept, Zenon
<1>2. ASSUME NEW i \in 1..Len(log), Receive(i), ~ApplyPolicyData(i)
      PROVE  EngineOK'
  <2>1. bundle' = bundle /\ data' = data /\ load' = load
    BY <1>2, Zenon
       DEF Receive, ApplyTupleWrite, ApplyTupleDelete, ApplyModelUpdate, ApplyBundleGuard, engines
  <2> QED BY <1>1, <2>1, Zenon
<1>3. ASSUME NEW i \in 1..Len(log), ApplyPolicyData(i)
      PROVE  EngineOK'
  <2>1. sync = "streaming" /\ bundle' = bundle /\ load' = load /\ (bundle # NoBundle \/ data' = data)
    BY <1>3, Zenon DEF ApplyPolicyData, Delivers
  <2> QED BY <1>1, <2>1, EngineByStream, Zenon DEF EngineOK
<1>4. CASE ApplyBundleLoad \/ \E p \in Paths : ApplyBundleOverlay(p)
  <2> DEFINE i == applying.frame
  <2>1. /\ applying.pc # "idle" /\ sync = "streaming" /\ load' = load
        /\ bundle' = log[i].mutation.bundle
    <3>1. applying.pc # "idle" /\ load' = load
      BY <1>4, Zenon DEF ApplyBundleLoad, ApplyBundleOverlay
    <3>2. ApplyBundleLoad => bundle' = log[i].mutation.bundle
      BY Zenon DEF ApplyBundleLoad, LoadBundle
    <3>3. (\E p \in Paths : ApplyBundleOverlay(p)) => bundle' = log[i].mutation.bundle
      BY Zenon DEF ApplyBundleOverlay, BundleOK
    <3> QED BY <1>0, <1>4, <3>1, <3>2, <3>3, Zenon DEF ApplyOK
  <2>2. i \in 1..Len(log) /\ log[i].mutation.kind = "bundle"
    BY <1>0, <2>1, Zenon DEF ApplyOK
  <2>3. /\ PolicyEntryOK(StateAt(i - 1), log[i]) /\ StateAt(i) = log[i].state
        /\ i \in 0..Len(log) /\ StateAt(i - 1) \in States
    BY <1>0, <2>2, NextPolicy, Zenon
  <2>4. /\ log[i].mutation.bundle = StateAt(i).bundle
        /\ StateAt(i).bundle.version = StateAt(i - 1).bundle.version + 1
    BY <2>2, <2>3, Zenon DEF PolicyEntryOK
  <2>5. StateAt(i - 1).bundle.version \in Nat
    BY <2>3, Zenon DEF States, Bundles
  <2>6. StateAt(i).bundle.version # 0
    BY <2>4, <2>5, JustAbove, Zenon
  <2>7. StateAt(i).bundle # NoBundle
    BY <2>6, IdleRecords, Zenon
  <2>8. Current.bundle # NoBundle
    BY <2>3, <2>7, BundleStays, Zenon
  <2> HIDE DEF i
  <2> QED BY <2>1, <2>4, <2>7, <2>8, EngineByStream, Zenon
<1>5. CASE ApplyBundleRecord
  BY <1>1, <1>5, Zenon DEF ApplyBundleRecord, engines
<1> QED BY <1>2, <1>3, <1>4, <1>5, Zenon DEF ApplyBundle

LEMMA EngineStep ==
    ASSUME Inv, TickerOK, VersionsOK, BundleOK, EngineOK, [Next]_vars
    PROVE  EngineOK'
<1> SUFFICES ASSUME "ticker" \notin Features PROVE EngineOK'
  BY LogStep, Zenon DEF EngineOK
<1>0. TypeOK /\ ApplyOK
  BY Zenon DEF Inv
<1>1. CASE ControlPlane \/ (\E t \in Tuples : RemoteCommit(t)) \/ MirrorLocally \/ UNCHANGED vars
  BY <1>1, EngineKept, Zenon DEF ControlPlane, RemoteCommit, MirrorLocally, vars, engines
<1>2. CASE OpenStream \/ OpenFails \/ TokenRefused \/ Disconnect \/ BackoffElapsed
  BY <1>2, EngineKept, Zenon
     DEF OpenStream, OpenFails, TokenRefused, Disconnect, BackoffElapsed, engines
<1>3. CASE ApplyFails
  BY <1>0, <1>3, FailedApply, EngineKept, Zenon DEF Rejected, engines
<1>4. CASE Finish
  <2>1. PICK l \in {"app", "sync"} :
           load' = [load EXCEPT ![l] = NotLoading] /\ bundle' = bundle /\ data' = data
    BY <1>4, NoInterval, Zenon DEF Finish, FinishBootstrap, FinishRebootstrap, engines
  <2>2. \A k \in {"app", "sync"} : load'[k] = load[k] \/ load'[k].pc = "idle"
    BY <1>0, <2>1, LoadTypes, Zenon DEF NotLoading, Loaders
  <2> QED BY <2>1, <2>2, EngineKept, Zenon
<1> QED BY <1>1, <1>2, <1>3, <1>4, EngineByLoader, EngineByFrame, Zenon DEF Next

\* The dynamic value the client would lay over a new bundle.
Live(p) == IF lastData[p].value # NoValue THEN lastData[p].value ELSE baselineData[p]

LiveOK ==
    \A p \in Paths :
        /\ lastData[p].version <= StateAt(token).dataVersion[p]
        /\ lastData[p].version = 0 <=> lastData[p].value = NoValue
        /\ Tracked(p) => Live(p) = StateAt(token).data[p]

\* The version guards cover every data frame this stream has brought.
SeenOK ==
    \A i \in (opened + 1)..token : log[i].mutation.kind = "data" =>
        log[i].mutation.version <= lastData[log[i].mutation.path].version

Reached(p) == \E n \in token..Len(log) : data[p] \in InForce(n, p)

DataReached == HalfApplied \/ \A p \in Paths : Tracked(p) => Reached(p)

\* A bundle being applied keeps the overlays it read, and once the bundle is loaded
\* a tracked path is right as soon as it is off the list.
OverlayOK ==
    /\ applying.pc # "idle" =>
          /\ \A p \in Paths : applying.overlays[p] = lastData[p].value
          /\ \A p \in applying.todo : lastData[p].value # NoValue
    /\ applying.pc = "load" =>
          /\ applying.baseline = baselineData
          /\ \A p \in Paths \ applying.todo : lastData[p].value = NoValue
    /\ applying.pc = "overlay" =>
          \A p \in Paths \ applying.todo : Tracked(p) =>
              data[p] = Overlay(log[applying.frame].mutation.bundle.embedded, StateAt(token).data)[p]

\* Before the client is built no data frame has been applied.
FreshOK == \A p \in Paths : lastData[p].version = 0 /\ lastData[p].value = NoValue

DataOK ==
    "ticker" \notin Features =>
        /\ sync = "new" => FreshOK
        /\ sync # "new" => LiveOK
        /\ sync = "streaming" => SeenOK
        /\ sync # "new" /\ applying.pc # "overlay" => DataReached
        /\ OverlayOK

LEMMA EffectiveAt ==
    ASSUME NEW p \in Paths, NEW s
    PROVE  EffectiveData(s)[p] =
              IF s.bundle = NoBundle THEN NoValue
              ELSE IF s.data[p] = NoValue THEN s.bundle.embedded[p] ELSE s.data[p]
BY Zenon DEF EffectiveData, NoData, Overlay

LEMMA EffectiveWith ==
    ASSUME NEW p \in Paths, NEW s, s.bundle # NoBundle
    PROVE  EffectiveData(s)[p] = Overlay(s.bundle.embedded, s.data)[p]
BY Zenon DEF EffectiveData

LEMMA InForceKept ==
    ASSUME TypeOK, LogOK, NEW i \in 1..Len(log), NEW p \in Paths,
           log[i].mutation.kind # "bundle",
           log[i].mutation.kind = "data" => log[i].mutation.path # p
    PROVE  InForce(i, p) = InForce(i - 1, p)
<1>1. PolicyEntryOK(StateAt(i - 1), log[i]) /\ StateAt(i) = log[i].state
  BY NextPolicy, Zenon
<1>2. StateAt(i).bundle = StateAt(i - 1).bundle /\ StateAt(i).data[p] = StateAt(i - 1).data[p]
  BY <1>1, Zenon DEF PolicyEntryOK
<1>3. EffectiveData(StateAt(i))[p] = EffectiveData(StateAt(i - 1))[p]
  BY <1>2, EffectiveAt
<1> QED BY <1>2, <1>3, Zenon DEF InForce

LEMMA LaterThan == \A c \in Nat : \A a \in 0..c : \A n \in a..c : n # a => n \in (a + 1)..c
  OBVIOUS

\* The position of a path's value survives an entry that does not touch it.
LEMMA ReachedNext ==
    ASSUME Inv, NEW i \in 1..Len(log), i = token + 1, NEW p \in Paths, Reached(p),
           log[i].mutation.kind # "bundle",
           log[i].mutation.kind = "data" => log[i].mutation.path # p,
           token' = i, log' = log, data'[p] = data[p]
    PROVE  Reached(p)'
<1>0. TypeOK /\ LogOK /\ token \in 0..Len(log) /\ Len(log) \in Nat /\ i - 1 = token
  BY DEF Inv, TypeOK
<1>1. PICK n \in token..Len(log) : data[p] \in InForce(n, p)
  BY Zenon DEF Reached
<1>2. InForce(i, p) = InForce(token, p)
  BY <1>0, InForceKept, Zenon
<1>3. PICK k \in i..Len(log) : data[p] \in InForce(k, p)
  <2>1. CASE n = token
    <3>1. i \in i..Len(log) /\ data[p] \in InForce(i, p)
      BY <1>0, <1>1, <1>2, <2>1
    <3> QED BY <3>1, Zenon
  <2>2. CASE n # token
    <3>1. n \in i..Len(log)
      BY <1>0, <1>1, <2>2, LaterThan, Zenon
    <3> QED BY <1>1, <3>1, Zenon
  <2> QED BY <2>1, <2>2, Zenon
<1>4. InForce(k, p)' = InForce(k, p)
  BY Zenon DEF InForce, StateAt
<1> QED BY <1>3, <1>4, Zenon DEF Reached

LEMMA ReachedStays ==
    ASSUME Inv, [Next]_vars, NEW p \in Paths, Reached(p), token' = token, data'[p] = data[p]
    PROVE  Reached(p)'
<1>1. /\ Len(log) \in Nat /\ token \in 0..Len(log)
      /\ \A n \in 0..Len(log) : StateAt(n)' = StateAt(n)
      /\ Len(log') = Len(log) \/ Len(log') = Len(log) + 1
  BY LogStep, Zenon DEF Inv, TypeOK
<1>2. PICK n \in token..Len(log) : data[p] \in InForce(n, p)
  BY Zenon DEF Reached
<1>3. n \in 0..Len(log) /\ n \in token..Len(log')
  BY <1>1
<1>4. InForce(n, p)' = InForce(n, p)
  BY <1>1, <1>3, Zenon DEF InForce
<1> QED BY <1>2, <1>3, <1>4, Zenon DEF Reached

\* A step that leaves the token and the guards keeps what they say.
LEMMA LiveStays ==
    ASSUME Inv, [Next]_vars, token' = token, lastData' = lastData
    PROVE  /\ StateAt(token)' = StateAt(token)
           /\ \A p \in Paths : Tracked(p)' <=> Tracked(p)
           /\ LiveOK /\ baselineData' = baselineData => LiveOK'
<1>1. token \in 0..Len(log) /\ \A n \in 0..Len(log) : StateAt(n)' = StateAt(n)
  BY LogStep, Zenon DEF Inv, TypeOK
<1>2. StateAt(token)' = StateAt(token)
  BY <1>1, Zenon DEF StateAt
<1>3. \A p \in Paths : Tracked(p)' <=> Tracked(p)
  BY <1>2, Zenon DEF Tracked
<1>4. ASSUME LiveOK, baselineData' = baselineData PROVE LiveOK'
  BY <1>2, <1>3, <1>4, Zenon DEF LiveOK, Live
<1> QED BY <1>2, <1>3, <1>4, Zenon

\* A bundle that failed half-way stays after the token until the token moves.
LEMMA HalfStays ==
    ASSUME Inv, [Next]_vars, HalfApplied, token' = token, bundle' = bundle
    PROVE  HalfApplied'
<1>1. /\ Len(log) \in Nat /\ token \in 0..Len(log)
      /\ \A i \in 1..Len(log) : log'[i] = log[i]
      /\ Len(log') = Len(log) \/ Len(log') = Len(log) + 1
  BY LogStep, Zenon DEF Inv, TypeOK
<1>2. token < Len(log)
  BY Zenon DEF HalfApplied
<1>3. token + 1 \in 1..Len(log) /\ token < Len(log')
  BY <1>1, <1>2
<1>4. log'[token + 1] = log[token + 1]
  BY <1>1, <1>3, Zenon
<1> QED BY <1>3, <1>4, Zenon DEF HalfApplied

LEMMA DataReachedStays ==
    ASSUME Inv, [Next]_vars, DataReached, token' = token, lastData' = lastData,
           bundle' = bundle, data' = data
    PROVE  DataReached'
<1>1. CASE HalfApplied
  BY <1>1, HalfStays, Zenon DEF DataReached
<1>2. CASE \A p \in Paths : Tracked(p) => Reached(p)
  BY <1>2, LiveStays, ReachedStays, Zenon DEF DataReached
<1> QED BY <1>1, <1>2, Zenon DEF DataReached

\* The frame after the token is no bundle: nothing is half applied.
LEMMA NothingHalf ==
    ASSUME NEW i, i = token + 1, log[i].mutation.kind # "bundle", DataReached
    PROVE  \A p \in Paths : Tracked(p) => Reached(p)
BY Zenon DEF DataReached, HalfApplied

LEMMA DataByRun ==
    ASSUME Inv, DataOK, [Next]_vars, "ticker" \notin Features,
           bundle' = bundle, data' = data, token' = token, lastData' = lastData,
           baselineData' = baselineData, applying' = applying,
           \/ sync' = sync /\ opened' = opened
           \/ sync # "new" /\ sync' # "new" /\ (sync' # "streaming" \/ opened' = token)
    PROVE  DataOK'
<1>0. TypeOK /\ ApplyOK
  BY Zenon DEF Inv
<1>00. token \in 0..Len(log) /\ opened \in 0..Len(log) /\ Len(log) \in Nat
  BY <1>0, PositionTypes, Zenon
<1>1. \A i \in 1..Len(log) : log'[i] = log[i]
  BY LogStep, Zenon
<1>2. sync' = "new" <=> sync = "new"
  BY Zenon
<1>3. sync' = "new" => FreshOK'
  BY <1>2, Zenon DEF DataOK, FreshOK
<1>4. sync' # "new" => LiveOK'
  BY <1>2, LiveStays, Zenon DEF DataOK
<1>5. sync' = "streaming" => SeenOK'
  <2>1. CASE sync' = sync /\ opened' = opened
    <3>1. \A i \in (opened + 1)..token : log'[i] = log[i]
      BY <1>00, <1>1
    <3> QED BY <2>1, <3>1, Zenon DEF DataOK, SeenOK
  <2>2. CASE opened' = token
    BY <1>00, <2>2 DEF SeenOK
  <2> QED BY <2>1, <2>2, Zenon
<1>6. sync' # "new" /\ applying'.pc # "overlay" => DataReached'
  BY <1>2, DataReachedStays, Zenon DEF DataOK
<1>7. OverlayOK'
  <2>1. applying.pc # "idle" => log'[applying.frame] = log[applying.frame]
    BY <1>0, <1>1, Zenon DEF ApplyOK
  <2> QED BY <2>1, LiveStays, Zenon DEF DataOK, OverlayOK
<1> QED BY <1>3, <1>4, <1>5, <1>6, <1>7, Zenon DEF DataOK

\* While the client waits for a load, and when a frame has been given up.
LEMMA DataWhileWaiting ==
    ASSUME Inv, DataOK, [Next]_vars, "ticker" \notin Features, sync # "new",
           sync' \in {"refused", "backoff"}, applying'.pc = "idle",
           token' = token, lastData' = lastData, baselineData' = baselineData, DataReached'
    PROVE  DataOK'
<1>1. LiveOK'
  BY LiveStays, Zenon DEF DataOK
<1>2. OverlayOK'
  BY Zenon DEF OverlayOK
<1> QED BY <1>1, <1>2, Zenon DEF DataOK

LEMMA DataByLoader ==
    ASSUME Inv, TickerOK, DataOK, [Next]_vars, "ticker" \notin Features,
           NEW l \in Loaders, LoaderStep(l) \/ LoadFails(l)
    PROVE  DataOK'
<1>0. TypeOK /\ LoadOK /\ ApplyOK
  BY Zenon DEF Inv
<1>00. /\ token \in 0..Len(log) /\ Len(log) \in Nat
       /\ \A k \in Loaders : load[k].snap \in 0..Len(log)
  BY <1>0, LoadTypes, PositionTypes, Zenon
<1>1. LoaderFrame(l)
  BY <1>0, FetchMoves, ModelMoves, TupleMoves, BundleMoves, AbandonMoves, Zenon
     DEF LoaderStep, LoadFails, LoadTupleInvalid
<1>2. load[l].pc # "idle" \/ MayLoad(l)
  BY <1>0, FetchMoves, ModelMoves, TupleMoves, BundleMoves, Zenon
     DEF LoaderStep, LoadFails, LoadTupleInvalid
<1>3. l \in {"app", "sync"} /\ (l = "app" => sync = "new") /\ (l = "sync" => sync = "refused")
  BY <1>2, LoadsExclude, Zenon
<1>4. /\ log' = log /\ token' = token /\ applying' = applying
      /\ lastData' = lastData /\ baselineData' = baselineData /\ applying.pc = "idle"
  BY <1>0, <1>1, <1>3, Zenon DEF LoaderFrame, guards, ApplyOK
<1>5. CASE l = "app"
  <2>1. sync' = "new"
    BY <1>0, <1>3, <1>5, FetchMoves, ModelMoves, TupleMoves, BundleMoves, AbandonMoves, Zenon
       DEF LoaderStep, LoadFails, LoadTupleInvalid
  <2>2. FreshOK' /\ OverlayOK'
    BY <1>3, <1>4, <1>5, Zenon DEF DataOK, FreshOK, OverlayOK
  <2> QED BY <2>1, <2>2, Zenon DEF DataOK
<1>6. CASE l = "sync"
  <2>1. sync' \in {"refused", "backoff"}
    BY <1>0, <1>3, <1>6, FetchMoves, ModelMoves, TupleMoves, BundleMoves, AbandonMoves, Zenon
       DEF LoaderStep, LoadFails, LoadTupleInvalid
  <2>2. DataReached /\ sync # "new"
    BY <1>3, <1>4, <1>6, Zenon DEF DataOK
  <2>3. DataReached'
    <3>1. CASE bundle' = bundle /\ data' = data
      BY <1>4, <2>2, <3>1, DataReachedStays, Zenon
    <3>2. CASE ~(bundle' = bundle /\ data' = data)
      <4>1. LoadBundleStep(l)
        BY <1>0, <3>2, FetchMoves, ModelMoves, TupleMoves, AbandonMoves, Zenon
           DEF LoaderStep, LoadFails, LoadTupleInvalid, engines
      <4>2. /\ load[l].pc # "idle" /\ StateAt(load[l].snap).bundle # NoBundle
            /\ data' = Overlay(StateAt(load[l].snap).bundle.embedded, StateAt(load[l].snap).data)
        BY <1>0, <3>2, <4>1, BundleMoves, Zenon DEF LoadBundle
      <4>3. data' = EffectiveData(StateAt(load[l].snap))
        BY <4>2, Zenon DEF EffectiveData
      <4>4. load[l].snap \in token..Len(log)
        <5>1. token <= load[l].snap
          BY <1>0, <1>6, <4>2, Zenon DEF LoadOK
        <5> QED BY <1>00, <5>1
      <4>5. PICK n \in token..Len(log) : n = load[l].snap
        BY <4>4, Zenon
      <4>6. \A p \in Paths : data'[p] \in InForce(n, p)
        BY <4>3, <4>5, Zenon DEF InForce
      <4>7. \A p \in Paths : InForce(n, p)' = InForce(n, p)
        BY <1>4, Zenon DEF InForce, StateAt
      <4>8. \A p \in Paths : Reached(p)'
        BY <1>4, <4>6, <4>7, Zenon DEF Reached
      <4> QED BY <4>8, Zenon DEF DataReached
    <3> QED BY <3>1, <3>2, Zenon
  <2> QED BY <1>4, <2>1, <2>2, <2>3, DataWhileWaiting, Zenon
<1> QED BY <1>3, <1>5, <1>6, Zenon

LEMMA DataByFailure ==
    ASSUME Inv, BundleOK, DataOK, [Next]_vars, "ticker" \notin Features, ApplyFails
    PROVE  DataOK'
<1>0. TypeOK /\ ApplyOK
  BY Zenon DEF Inv
<1>1. Rejected
  BY <1>0, FailedApply, Zenon
<1>2. /\ sync = "streaming" /\ sync' = "refused" /\ token' = token /\ applying'.pc = "idle"
      /\ log' = log /\ bundle' = bundle /\ data' = data
      /\ lastData' = lastData /\ baselineData' = baselineData
  BY <1>1, Zenon DEF Rejected, NotApplying, logVars, engines, guards
<1>3. CASE applying.pc = "overlay"
  <2>1. /\ token + 1 \in 1..Len(log) /\ log[token + 1].mutation.kind = "bundle"
        /\ bundle = log[token + 1].mutation.bundle
    BY <1>0, <1>3, Zenon DEF ApplyOK, BundleOK
  <2>2. token < Len(log)
    <3>1. token \in 0..Len(log) /\ Len(log) \in Nat
      BY <1>0, PositionTypes, Zenon
    <3> QED BY <2>1, <3>1
  <2>3. HalfApplied
    BY <2>1, <2>2, Zenon DEF HalfApplied
  <2>4. DataReached'
    BY <1>2, <2>3, HalfStays, Zenon DEF DataReached
  <2> QED BY <1>2, <2>4, DataWhileWaiting, Zenon
<1>4. CASE applying.pc # "overlay"
  <2>1. DataReached'
    BY <1>2, <1>4, DataReachedStays, Zenon DEF DataOK
  <2> QED BY <1>2, <2>1, DataWhileWaiting, Zenon
<1> QED BY <1>3, <1>4, Zenon

\* The loads end with the token, the baseline and the data of one snapshot; a live
\* value is still the tenant's when its version is.
LEMMA DataByFinish ==
    ASSUME Inv, TickerOK, HistoryOK, EngineOK, DataOK, "ticker" \notin Features, Finish
    PROVE  DataOK'
<1>0. TypeOK /\ LoadOK /\ LogType /\ ApplyOK
  BY Zenon DEF Inv, TypeOK, LogType, Entries
<1>00. token \in 0..Len(log) /\ Len(log) \in Nat /\ \A p \in Paths : lastData[p].version \in Nat
  BY <1>0, PositionTypes, Zenon
<1>1. PICK l \in {"app", "sync"} :
         /\ load[l].pc = "finish" /\ token' = load[l].snap /\ sync' \in {"connect", "backoff"}
         /\ log' = log /\ data' = data /\ lastData' = lastData
         /\ baselineData' = StateAt(load[l].snap).data /\ applying' = applying
  BY NoInterval, Zenon DEF Finish, FinishBootstrap, FinishRebootstrap, logVars, engines
<1>2. /\ l = "app" => sync = "new"
      /\ l = "sync" => sync = "refused" /\ token <= load[l].snap
      /\ applying.pc = "idle"
  BY <1>0, <1>1, Zenon DEF LoadOK, ApplyOK
<1>3. PICK n \in 0..Len(log) : n = load[l].snap
  <2>1. l \in Loaders
    BY Zenon DEF Loaders
  <2> QED BY <1>0, <2>1, LoadTypes, Zenon
<1>4. /\ StateAt(token)' = StateAt(n) /\ StateAt(n) \in States /\ StateAt(token) \in States
      /\ \A p \in Paths : StateAt(n).dataVersion[p] \in Nat /\ StateAt(token).dataVersion[p] \in Nat
  <2>1. StateAt(token)' = StateAt(n) /\ StateAt(n) \in States /\ StateAt(token) \in States
    BY <1>0, <1>00, <1>1, <1>3, StateType, Zenon DEF StateAt
  <2> QED BY <2>1, Zenon DEF States
<1>5. ASSUME NEW p \in Paths
      PROVE  /\ lastData'[p].version <= StateAt(n).dataVersion[p]
             /\ lastData'[p].version = 0 <=> lastData'[p].value = NoValue
             /\ lastData'[p].version \in {0, StateAt(n).dataVersion[p]} => Live(p)' = StateAt(n).data[p]
  <2>1. baselineData'[p] = StateAt(n).data[p]
    BY <1>1, <1>3, Zenon
  <2>2. CASE l = "app"
    <3>1. lastData'[p].version = 0 /\ lastData'[p].value = NoValue
      BY <1>1, <1>2, <2>2, Zenon DEF DataOK, FreshOK
    <3> QED BY <1>4, <2>1, <3>1, FromZero, Zenon DEF Live
  <2>3. CASE l = "sync"
    <3>1. /\ lastData[p].version <= StateAt(token).dataVersion[p]
          /\ lastData[p].version = 0 <=> lastData[p].value = NoValue
          /\ Tracked(p) => Live(p) = StateAt(token).data[p]
      BY <1>2, <2>3, Zenon DEF DataOK, LiveOK
    <3>2. token \in 0..n
      BY <1>00, <1>2, <1>3, <2>3
    <3>3. /\ StateAt(token).dataVersion[p] <= StateAt(n).dataVersion[p]
          /\ StateAt(token).dataVersion[p] = StateAt(n).dataVersion[p] =>
                StateAt(token).data[p] = StateAt(n).data[p]
      BY <3>2, Zenon DEF HistoryOK
    <3>4. lastData[p].version \in Nat
      BY <1>00, Zenon
    <3>5. lastData[p].version <= StateAt(n).dataVersion[p]
      BY <1>4, <3>1, <3>3, <3>4, Transitive, Zenon
    <3>6. CASE lastData[p].value = NoValue
      BY <1>1, <2>1, <3>1, <3>5, <3>6, Zenon DEF Live
    <3>7. CASE lastData[p].value # NoValue
      <4>1. lastData[p].version # 0
        BY <3>1, <3>7, Zenon
      <4>2. ASSUME lastData[p].version = StateAt(n).dataVersion[p]
            PROVE  lastData[p].value = StateAt(n).data[p]
        <5>1. /\ lastData[p].version = StateAt(token).dataVersion[p]
              /\ StateAt(token).dataVersion[p] = StateAt(n).dataVersion[p]
          <6> DEFINE a == lastData[p].version
                     b == StateAt(token).dataVersion[p]
                     c == StateAt(n).dataVersion[p]
          <6>1. a \in Nat /\ b \in Nat /\ c \in Nat /\ a <= b /\ b <= c /\ a = c
            BY <1>4, <3>1, <3>3, <3>4, <4>2, Zenon
          <6>2. a = b /\ b = c
            <7> HIDE DEF a, b, c
            <7> QED BY <6>1, Between, Zenon
          <6> QED BY <6>2, Zenon
        <5>2. Live(p) = StateAt(token).data[p]
          BY <3>1, <5>1, Zenon DEF Tracked
        <5> QED BY <3>3, <3>7, <5>1, <5>2, Zenon DEF Live
      <4> QED BY <1>1, <3>1, <3>5, <3>7, <4>1, <4>2, Zenon DEF Live
    <3> QED BY <3>6, <3>7, Zenon
  <2> QED BY <2>2, <2>3, Zenon
<1>6. LiveOK'
  BY <1>4, <1>5, Zenon DEF LiveOK, Tracked
<1>7. ASSUME NEW p \in Paths PROVE Reached(p)'
  <2>1. data'[p] \in InForce(n, p)
    BY <1>1, <1>3, Zenon DEF EngineOK, InForce
  <2>2. InForce(n, p)' = InForce(n, p)
    BY <1>1, Zenon DEF InForce, StateAt
  <2>3. n \in token'..Len(log')
    BY <1>00, <1>1, <1>3
  <2> QED BY <2>1, <2>2, <2>3, Zenon DEF Reached
<1>8. OverlayOK' /\ DataReached'
  BY <1>1, <1>2, <1>7, Zenon DEF OverlayOK, DataReached
<1> QED BY <1>1, <1>6, <1>8, Zenon DEF DataOK

\* A data frame is stale exactly when this stream has brought it before.
LEMMA DataFrames ==
    ASSUME Inv, DataOK, "ticker" \notin Features, NEW i \in 1..Len(log), Delivers(i),
           log[i].mutation.kind = "data"
    PROVE  /\ log[i].mutation.path \in Paths /\ log[i].mutation.value \in Values
           /\ log[i].mutation.version \in Nat /\ log[i].mutation.version # 0
           /\ log[i].mutation.version = StateAt(i - 1).dataVersion[log[i].mutation.path] + 1
           /\ StaleData(log[i].mutation.path, log[i].mutation.version) => i \in 1..token
           /\ ~StaleData(log[i].mutation.path, log[i].mutation.version) => i = token + 1
<1> DEFINE m == log[i].mutation
<1>0. TypeOK /\ LogOK
  BY Zenon DEF Inv
<1>00. /\ token \in 0..Len(log) /\ opened \in 0..Len(log) /\ Len(log) \in Nat
       /\ \A p \in Paths : lastData[p].version \in Nat
  BY <1>0, PositionTypes, Zenon
<1>1. m \in Mutations /\ m.kind = "data"
  BY <1>0, FrameMutation, Zenon
<1>2. m.path \in Paths /\ m.value \in Values /\ m.version \in Nat
  BY <1>1, Zenon DEF Mutations
<1>3. /\ m.version = StateAt(i - 1).dataVersion[m.path] + 1
      /\ StateAt(i - 1).dataVersion[m.path] \in Nat /\ m.version # 0
  <2>1. PolicyEntryOK(StateAt(i - 1), log[i]) /\ StateAt(i - 1) \in States
    BY <1>0, NextPolicy, Zenon
  <2>2. /\ m.version = StateAt(i - 1).dataVersion[m.path] + 1
        /\ StateAt(i - 1).dataVersion[m.path] \in Nat
    BY <1>2, <2>1, Zenon DEF PolicyEntryOK, States
  <2> QED BY <2>2, JustAbove, Zenon
<1>4. sync = "streaming" /\ (i = token + 1 \/ i \in (opened + 1)..token)
  BY Zenon DEF Delivers
<1> HIDE DEF m
<1>5. CASE i = token + 1
  <2>1. i - 1 = token
    BY <1>00, <1>5
  <2>2. lastData[m.path].version <= StateAt(token).dataVersion[m.path]
    BY <1>2, <1>4, Zenon DEF DataOK, LiveOK
  <2>3. ~StaleData(m.path, m.version)
    BY <1>00, <1>2, <1>3, <2>1, <2>2 DEF StaleData
  <2> QED BY <1>2, <1>3, <1>5, <2>3, Zenon DEF m
<1>6. CASE i \in (opened + 1)..token
  <2>1. m.version <= lastData[m.path].version
    BY <1>4, <1>6, Zenon DEF DataOK, SeenOK, m
  <2>2. StaleData(m.path, m.version)
    BY <1>2, <1>3, <2>1 DEF StaleData
  <2> QED BY <1>00, <1>2, <1>3, <1>6, <2>2, PastStart, Zenon DEF m
<1> QED BY <1>4, <1>5, <1>6, Zenon

\* A frame that is applied and changes no policy.
LEMMA DataByOther ==
    ASSUME Inv, DataOK, "ticker" \notin Features, [Next]_vars,
           NEW i \in 1..Len(log), Delivers(i),
           log[i].mutation.kind \in {"write", "delete", "model"}, token' = token \/ Advance(i),
           sync' \in {"streaming", "refused"},
           log' = log, bundle' = bundle, data' = data, lastData' = lastData, baselineData' = baselineData,
           applying' = applying, opened' = opened
    PROVE  DataOK'
<1>0. TypeOK /\ LogOK /\ sync = "streaming" /\ applying.pc = "idle"
  BY Zenon DEF Inv, Delivers, NotApplying
<1>00. token \in 0..Len(log) /\ opened \in 0..Len(log) /\ Len(log) \in Nat
  BY <1>0, PositionTypes, Zenon
<1>1. LiveOK /\ SeenOK /\ DataReached
  BY <1>0, Zenon DEF DataOK
<1>2. OverlayOK'
  BY <1>0, Zenon DEF OverlayOK
<1>3. CASE token' = token
  <2>1. LiveOK' /\ DataReached'
    BY <1>1, <1>3, LiveStays, DataReachedStays, Zenon
  <2>2. SeenOK'
    BY <1>1, <1>3, Zenon DEF SeenOK
  <2> QED BY <1>2, <2>1, <2>2, Zenon DEF DataOK
<1>4. CASE token' # token
  <2>1. i = token + 1 /\ token' = i /\ i - 1 = token
    BY <1>0, <1>00, <1>4, FrameIsNext DEF Advance
  <2>2. StateAt(token)' = StateAt(i)
    BY <2>1, Zenon DEF StateAt
  <2>3. StateAt(i).data = StateAt(token).data /\ StateAt(i).dataVersion = StateAt(token).dataVersion
    BY <1>0, <2>1, NextPolicy DEF PolicyEntryOK
  <2>4. LiveOK' /\ \A p \in Paths : Tracked(p)' <=> Tracked(p)
    BY <1>1, <2>2, <2>3, Zenon DEF LiveOK, Live, Tracked
  <2>5. SeenOK'
    <3>1. \A j \in (opened + 1)..i : j = i \/ j \in (opened + 1)..token
      BY <1>00, <2>1, SMTT(30)
    <3> QED BY <1>1, <2>1, <3>1, Zenon DEF SeenOK
  <2>6. DataReached'
    <3>1. \A p \in Paths : Tracked(p) => Reached(p)
      BY <1>1, <2>1, NothingHalf, Zenon
    <3> QED BY <2>1, <2>4, <3>1, ReachedNext, Zenon DEF DataReached
  <2> QED BY <1>2, <2>4, <2>5, <2>6, Zenon DEF DataOK
<1> QED BY <1>3, <1>4, Zenon

LEMMA DataByData ==
    ASSUME Inv, DataOK, "ticker" \notin Features, [Next]_vars,
           NEW i \in 1..Len(log), ApplyPolicyData(i)
    PROVE  DataOK'
<1> DEFINE m == log[i].mutation
<1>0. /\ TypeOK /\ LogOK /\ sync = "streaming" /\ applying.pc = "idle" /\ Delivers(i)
      /\ log' = log /\ bundle' = bundle /\ baselineData' = baselineData /\ applying' = applying /\ opened' = opened
      /\ m.kind = "data"
  BY Zenon DEF Inv, ApplyPolicyData, Delivers, NotApplying, logVars
<1>00. /\ token \in 0..Len(log) /\ opened \in 0..Len(log) /\ Len(log) \in Nat
       /\ lastData \in [Paths -> [version: Nat, value: Values \cup {NoValue}]]
       /\ data \in Data
  BY <1>0, PositionTypes, Zenon
<1>1. LiveOK /\ SeenOK /\ DataReached
  BY <1>0, Zenon DEF DataOK
<1>2. OverlayOK'
  BY <1>0, Zenon DEF OverlayOK
<1>3. /\ m.path \in Paths /\ m.value \in Values /\ m.version \in Nat /\ m.version # 0
      /\ m.version = StateAt(i - 1).dataVersion[m.path] + 1
      /\ StaleData(m.path, m.version) => i \in 1..token
      /\ ~StaleData(m.path, m.version) => i = token + 1
  BY <1>0, DataFrames, Zenon
<1>4. ASSUME token' = token, data' = data, lastData' = lastData, sync' \in {"streaming", "refused"}
      PROVE  DataOK'
  <2>1. LiveOK' /\ DataReached'
    BY <1>0, <1>1, <1>4, LiveStays, DataReachedStays, Zenon
  <2>2. SeenOK'
    BY <1>0, <1>1, <1>4, Zenon DEF SeenOK
  <2> QED BY <1>2, <1>4, <2>1, <2>2, Zenon DEF DataOK
<1>5. CASE StaleData(m.path, m.version)
  <2>1. Advance(i) /\ data' = data /\ lastData' = lastData
    BY <1>5, Zenon DEF ApplyPolicyData
  <2>2. token' = token /\ sync' = sync
    BY <1>00, <1>3, <1>5, <2>1, NotAhead, Zenon DEF Advance
  <2> QED BY <1>0, <1>4, <2>1, <2>2, Zenon
<1>6. CASE ~StaleData(m.path, m.version) /\ bundle = NoBundle
  BY <1>4, <1>6, Zenon DEF ApplyPolicyData, Refuse
<1>7. CASE ~StaleData(m.path, m.version) /\ bundle # NoBundle
  <2>1. /\ data' = [data EXCEPT ![m.path] = m.value] /\ Advance(i)
        /\ lastData' = [lastData EXCEPT ![m.path] = [version |-> m.version, value |-> m.value]]
    BY <1>7, Zenon DEF ApplyPolicyData
  <2>2. i = token + 1 /\ token' = i /\ i - 1 = token /\ sync' = sync
    BY <1>00, <1>3, <1>7, <2>1, OneAhead, Zenon DEF Advance
  <2>3. StateAt(token)' = StateAt(i)
    BY <1>0, <2>2, Zenon DEF StateAt
  <2>4. /\ PolicyEntryOK(StateAt(token), log[i]) /\ StateAt(i) = log[i].state
        /\ StateAt(token) \in States
    BY <1>0, <2>2, NextPolicy, Zenon
  <2>5. \A p \in Paths :
          /\ StateAt(i).data[p] = IF p = m.path THEN m.value ELSE StateAt(token).data[p]
          /\ StateAt(i).dataVersion[p] = IF p = m.path THEN m.version ELSE StateAt(token).dataVersion[p]
    BY <1>0, <2>4, Zenon DEF PolicyEntryOK
  <2> HIDE DEF m
  <2>6. \A p \in Paths :
          /\ data'[p] = IF p = m.path THEN m.value ELSE data[p]
          /\ lastData'[p].value = IF p = m.path THEN m.value ELSE lastData[p].value
          /\ lastData'[p].version = IF p = m.path THEN m.version ELSE lastData[p].version
    BY <1>00, <1>3, <2>1, Zenon DEF Data
  <2>7. m.value # NoValue /\ m.version <= m.version /\ m.version # 0
    BY <1>3, LogAssumption, Reflexive, Zenon
  <2>8. LiveOK' /\ \A p \in Paths : p # m.path => (Tracked(p)' <=> Tracked(p))
    <3>1. ASSUME NEW p \in Paths, p # m.path
          PROVE  /\ lastData'[p].value = lastData[p].value /\ lastData'[p].version = lastData[p].version
                 /\ StateAt(i).data[p] = StateAt(token).data[p]
                 /\ StateAt(i).dataVersion[p] = StateAt(token).dataVersion[p]
      BY <2>5, <2>6, <3>1, Zenon
    <3>2. \A p \in Paths : p # m.path => (Tracked(p)' <=> Tracked(p))
      BY <2>3, <3>1, Zenon DEF Tracked
    <3>3. ASSUME NEW p \in Paths
          PROVE  /\ lastData'[p].version <= StateAt(i).dataVersion[p]
                 /\ lastData'[p].version = 0 <=> lastData'[p].value = NoValue
                 /\ Tracked(p)' => Live(p)' = StateAt(i).data[p]
      <4>1. CASE p = m.path
        BY <2>5, <2>6, <2>7, <4>1, Zenon DEF Live
      <4>2. CASE p # m.path
        <5>1. /\ lastData[p].version <= StateAt(token).dataVersion[p]
              /\ lastData[p].version = 0 <=> lastData[p].value = NoValue
              /\ Tracked(p) => Live(p) = StateAt(token).data[p]
          BY <1>1, Zenon DEF LiveOK
        <5> QED BY <1>0, <3>1, <3>2, <4>2, <5>1, Zenon DEF Live
      <4> QED BY <4>1, <4>2, Zenon
    <3>4. LiveOK'
      BY <2>3, <3>3, Zenon DEF LiveOK
    <3> QED BY <3>2, <3>4, Zenon
  <2>9. SeenOK'
    <3>1. ASSUME NEW j \in (opened + 1)..i, log[j].mutation.kind = "data"
          PROVE  log[j].mutation.version <= lastData'[log[j].mutation.path].version
      <4>0. j \in 1..Len(log)
        BY <1>00
      <4>1. CASE j = i
        BY <1>3, <2>6, <2>7, <4>1, Zenon DEF m
      <4>2. CASE j # i
        <5>1. j \in (opened + 1)..token
          BY <1>00, <2>2, <4>2
        <5>2. log[j].mutation.version <= lastData[log[j].mutation.path].version
          BY <1>1, <3>1, <5>1, Zenon DEF SeenOK
        <5>3. log[j].mutation \in Mutations
          BY <1>0, <4>0, FrameMutation, Zenon
        <5>4. log[j].mutation.path \in Paths /\ log[j].mutation.version \in Nat
          BY <3>1, <5>3, Zenon DEF Mutations
        <5>5. lastData[m.path].version <= m.version
          <6>1. lastData[m.path].version <= StateAt(token).dataVersion[m.path]
            BY <1>1, <1>3, Zenon DEF LiveOK
          <6>2. StateAt(token).dataVersion[m.path] \in Nat /\ lastData[m.path].version \in Nat
            BY <1>00, <1>3, <2>4, Zenon DEF States
          <6> QED BY <1>3, <2>2, <6>1, <6>2, BelowNext, Zenon
        <5>6. lastData[m.path].version \in Nat /\ lastData[log[j].mutation.path].version \in Nat
          BY <1>00, <1>3, <5>4, Zenon
        <5>7. CASE log[j].mutation.path = m.path
          <6>1. lastData'[log[j].mutation.path].version = m.version
            BY <2>6, <5>4, <5>7, Zenon
          <6>2. log[j].mutation.version <= lastData[m.path].version
            BY <5>2, <5>7, Zenon
          <6>3. m.version \in Nat
            BY <1>3, Zenon
          <6> HIDE DEF m
          <6> QED BY <5>4, <5>5, <5>6, <6>1, <6>2, <6>3, Transitive, Zenon
        <5>8. CASE log[j].mutation.path # m.path
          BY <2>6, <5>2, <5>4, <5>8, Zenon
        <5> QED BY <5>7, <5>8, Zenon
      <4> QED BY <4>1, <4>2, Zenon
    <3> QED BY <1>0, <2>2, <3>1, Zenon DEF SeenOK
  <2>10. ASSUME NEW p \in Paths, Tracked(p)' PROVE Reached(p)'
    <3>1. CASE p = m.path
      <4>1. data'[p] \in InForce(i, p)
        BY <2>5, <2>6, <2>7, <3>1, Zenon DEF InForce
      <4>2. InForce(i, p)' = InForce(i, p)
        BY <1>0, Zenon DEF InForce, StateAt
      <4>3. i \in token'..Len(log')
        BY <1>0, <1>00, <2>2
      <4> QED BY <4>1, <4>2, <4>3, Zenon DEF Reached
    <3>2. CASE p # m.path
      <4>1. data'[p] = data[p] /\ log[i].mutation.path # p /\ log[i].mutation.kind # "bundle"
        BY <1>0, <2>6, <3>2, Zenon DEF m
      <4>2. log[i].mutation.kind # "bundle" /\ Tracked(p)
        BY <1>0, <2>8, <2>10, <3>2, <4>1, Zenon
      <4>3. Reached(p)
        BY <1>1, <2>2, <4>2, NothingHalf, Zenon
      <4> QED BY <1>0, <2>2, <4>1, <4>3, ReachedNext, Zenon
    <3> QED BY <3>1, <3>2, Zenon
  <2>11. DataReached'
    BY <2>10, Zenon DEF DataReached
  <2> QED BY <1>0, <1>2, <2>2, <2>8, <2>9, <2>11, Zenon DEF DataOK
<1> QED BY <1>5, <1>6, <1>7, Zenon

LEMMA DataByGuard ==
    ASSUME Inv, BundleOK, DataOK, "ticker" \notin Features, [Next]_vars,
           NEW i \in 1..Len(log), ApplyBundleGuard(i)
    PROVE  DataOK'
<1>0. /\ TypeOK /\ sync = "streaming" /\ applying.pc = "idle" /\ Delivers(i)
      /\ log' = log /\ bundle' = bundle /\ data' = data /\ lastData' = lastData /\ baselineData' = baselineData
      /\ opened' = opened /\ sync' = sync /\ log[i].mutation.kind = "bundle"
  BY Zenon DEF Inv, ApplyBundleGuard, Delivers, NotApplying, logVars, engines, guards, Advance
<1>00. token \in 0..Len(log) /\ Len(log) \in Nat
  BY <1>0, PositionTypes, Zenon
<1>1. token' = token
  <2>1. CASE StaleBundle(log[i].mutation.bundle.version)
    <3>1. i \in 1..token /\ Advance(i)
      BY <1>0, <2>1, BundleFrames, Zenon DEF ApplyBundleGuard
    <3> QED BY <1>00, <3>1 DEF Advance
  <2>2. CASE ~StaleBundle(log[i].mutation.bundle.version)
    BY <2>2, Zenon DEF ApplyBundleGuard
  <2> QED BY <2>1, <2>2, Zenon
<1>2. OverlayOK'
  <2>1. CASE StaleBundle(log[i].mutation.bundle.version)
    BY <1>0, <2>1, Zenon DEF ApplyBundleGuard, OverlayOK
  <2>2. CASE ~StaleBundle(log[i].mutation.bundle.version)
    <3>1. /\ applying'.pc = "load" /\ applying'.baseline = baselineData
          /\ applying'.overlays = [p \in Paths |-> lastData[p].value]
          /\ applying'.todo = {p \in Paths : lastData[p].value # NoValue}
      BY <2>2 DEF ApplyBundleGuard
    <3> QED BY <1>0, <3>1, Zenon DEF OverlayOK
  <2> QED BY <2>1, <2>2, Zenon
<1>3. LiveOK /\ SeenOK /\ DataReached
  BY <1>0, Zenon DEF DataOK
<1>4. LiveOK' /\ DataReached'
  BY <1>0, <1>1, <1>3, LiveStays, DataReachedStays, Zenon
<1>5. SeenOK'
  BY <1>0, <1>1, <1>3, Zenon DEF SeenOK
<1> QED BY <1>0, <1>2, <1>4, <1>5, Zenon DEF DataOK

LEMMA DataByFrame ==
    ASSUME Inv, BundleOK, DataOK, "ticker" \notin Features, [Next]_vars,
           NEW i \in 1..Len(log), Receive(i)
    PROVE  DataOK'
<1>1. CASE ApplyTupleWrite(i) \/ ApplyTupleDelete(i) \/ ApplyModelUpdate(i)
  <2>1. Delivers(i) /\ log[i].mutation.kind \in {"write", "delete", "model"}
    BY <1>1, Zenon DEF ApplyTupleWrite, ApplyTupleDelete, ApplyModelUpdate
  <2>2. /\ token' = token \/ Advance(i)
        /\ log' = log /\ bundle' = bundle /\ data' = data /\ lastData' = lastData /\ baselineData' = baselineData
        /\ applying' = applying /\ opened' = opened
    BY <1>1, Zenon DEF ApplyTupleWrite, ApplyTupleDelete, ApplyModelUpdate, Refuse, logVars, guards
  <2>3. sync' \in {"streaming", "refused"}
    BY <1>1, <2>1, Zenon
       DEF ApplyTupleWrite, ApplyTupleDelete, ApplyModelUpdate, Advance, Refuse, Delivers
  <2> QED BY <2>1, <2>2, <2>3, DataByOther, Zenon
<1> QED BY <1>1, DataByGuard, DataByData, Zenon DEF Receive

LEMMA DataByApply ==
    ASSUME Inv, BundleOK, DataOK, "ticker" \notin Features, [Next]_vars, ApplyBundle
    PROVE  DataOK'
<1> DEFINE i == applying.frame
           b == log[i].mutation.bundle
<1>0. TypeOK /\ LogOK /\ LogType /\ ApplyOK
  BY Zenon DEF Inv, TypeOK, LogType, Entries
<1>1. /\ applying.pc # "idle" /\ sync = "streaming" /\ sync' = sync
      /\ log' = log /\ opened' = opened /\ lastData' = lastData /\ baselineData' = baselineData
  BY <1>0, Zenon
     DEF ApplyBundle, ApplyBundleLoad, ApplyBundleOverlay, ApplyBundleRecord, ApplyOK, logVars,
     guards, Advance
<1>2. i \in 1..Len(log) /\ i = token + 1 /\ log[i].mutation.kind = "bundle"
  BY <1>0, <1>1, Zenon DEF ApplyOK, BundleOK
<1>00. /\ token \in 0..Len(log) /\ opened \in 0..Len(log) /\ Len(log) \in Nat /\ data \in Data
       /\ StateAt(token).bundle.version \in Nat
  BY <1>0, VersionTypes, PositionTypes, Zenon
<1>3. LiveOK /\ SeenOK /\ OverlayOK
  BY <1>1, Zenon DEF DataOK
<1>4. /\ b = StateAt(i).bundle /\ b.version = StateAt(token).bundle.version + 1
      /\ StateAt(i).data = StateAt(token).data /\ StateAt(i).dataVersion = StateAt(token).dataVersion
  <2>1. PolicyEntryOK(StateAt(i - 1), log[i]) /\ StateAt(i) = log[i].state /\ i - 1 = token
    BY <1>0, <1>00, <1>2, NextPolicy, OneAhead, Zenon
  <2> QED BY <1>2, <2>1, Zenon DEF PolicyEntryOK
<1>5. ASSUME token' = token, applying'.pc = "overlay", OverlayOK'
      PROVE  DataOK'
  <2>1. LiveOK'
    BY <1>1, <1>3, <1>5, LiveStays, Zenon
  <2>2. SeenOK'
    BY <1>1, <1>3, <1>5, Zenon DEF SeenOK
  <2> QED BY <1>1, <1>5, <2>1, <2>2, Zenon DEF DataOK
<1>6. \A p \in Paths : Overlay(b.embedded, StateAt(token).data)[p] =
          IF StateAt(token).data[p] = NoValue THEN b.embedded[p] ELSE StateAt(token).data[p]
  BY Zenon DEF Overlay
<1>7. CASE ApplyBundleLoad
  <2>1. /\ applying.pc = "load" /\ token' = token /\ data' = Overlay(b.embedded, baselineData)
        /\ applying'.pc = "overlay" /\ applying'.frame = i
        /\ applying'.overlays = applying.overlays /\ applying'.todo = applying.todo
    BY <1>0, <1>3, <1>7, Zenon DEF ApplyBundleLoad, LoadBundle, TypeOK, OverlayOK
  <2>2. StateAt(token)' = StateAt(token) /\ \A p \in Paths : Tracked(p)' <=> Tracked(p)
    BY <1>1, <2>1, LiveStays, Zenon
  <2>3. ASSUME NEW p \in Paths \ applying.todo
        PROVE  data'[p] = Overlay(b.embedded, StateAt(token).data)[p]
    <3>1. lastData[p].value = NoValue
      BY <1>3, <2>1, Zenon DEF OverlayOK
    <3>2. baselineData[p] = StateAt(token).data[p]
      BY <1>3, <3>1, Zenon DEF LiveOK, Live, Tracked
    <3> QED BY <2>1, <3>2, Zenon DEF Overlay
  <2>4. /\ \A p \in Paths : applying'.overlays[p] = lastData'[p].value
        /\ \A p \in applying'.todo : lastData'[p].value # NoValue
    BY <1>1, <1>3, <2>1, Zenon DEF OverlayOK
  <2>5. \A p \in Paths \ applying'.todo :
            data'[p] = Overlay(log'[applying'.frame].mutation.bundle.embedded, StateAt(token)'.data)[p]
    BY <1>1, <2>1, <2>2, <2>3, Zenon
  <2>6. OverlayOK'
    BY <2>1, <2>4, <2>5, Zenon DEF OverlayOK
  <2> QED BY <1>5, <2>1, <2>6, Zenon
<1>8. ASSUME NEW q \in Paths, ApplyBundleOverlay(q)
      PROVE  DataOK'
  <2>1. /\ applying.pc = "overlay" /\ q \in applying.todo /\ token' = token
        /\ data' = [data EXCEPT ![q] = applying.overlays[q]]
        /\ applying'.pc = "overlay" /\ applying'.frame = i
        /\ applying'.overlays = applying.overlays /\ applying'.todo = applying.todo \ {q}
    BY <1>0, <1>8, Zenon DEF ApplyBundleOverlay, TypeOK
  <2>2. StateAt(token)' = StateAt(token) /\ \A p \in Paths : Tracked(p)' <=> Tracked(p)
    BY <1>1, <2>1, LiveStays, Zenon
  <2>3. applying.overlays[q] = lastData[q].value /\ lastData[q].value # NoValue
    BY <1>3, <2>1, Zenon DEF OverlayOK
  <2>4. Tracked(q) => lastData[q].value = StateAt(token).data[q]
    BY <1>3, <2>3, Zenon DEF LiveOK, Live
  <2>5. ASSUME NEW p \in Paths \ (applying.todo \ {q}), Tracked(p)
        PROVE  data'[p] = Overlay(b.embedded, StateAt(token).data)[p]
    <3>1. CASE p = q
      <4>1. data'[q] = StateAt(token).data[q] /\ StateAt(token).data[q] # NoValue
        BY <1>00, <2>1, <2>3, <2>4, <2>5, <3>1, Zenon DEF Data
      <4> QED BY <1>6, <3>1, <4>1
    <3>2. CASE p # q
      <4>1. data'[p] = data[p] /\ p \in Paths \ applying.todo
        BY <1>00, <2>1, <3>2, Zenon DEF Data
      <4> QED BY <1>3, <2>1, <2>5, <4>1, Zenon DEF OverlayOK
    <3> QED BY <3>1, <3>2, Zenon
  <2>6. /\ \A p \in Paths : applying'.overlays[p] = lastData'[p].value
        /\ \A p \in applying'.todo : lastData'[p].value # NoValue
    BY <1>1, <1>3, <2>1, Zenon DEF OverlayOK
  <2>7. \A p \in Paths \ applying'.todo : Tracked(p)' =>
            data'[p] = Overlay(log'[applying'.frame].mutation.bundle.embedded, StateAt(token)'.data)[p]
    BY <1>1, <2>1, <2>2, <2>5, Zenon
  <2>8. OverlayOK'
    BY <2>1, <2>6, <2>7, Zenon DEF OverlayOK
  <2> QED BY <1>5, <2>1, <2>8, Zenon
<1>9. CASE ApplyBundleRecord
  <2>1. /\ applying.pc = "overlay" /\ applying.todo = {} /\ token' = i /\ data' = data
        /\ applying'.pc = "idle"
    BY <1>00, <1>2, <1>9, OneAhead, Zenon DEF ApplyBundleRecord, Advance, engines, NotApplying
  <2>2. StateAt(token)' = StateAt(i)
    BY <1>1, <2>1, Zenon DEF StateAt
  <2>3. LiveOK' /\ \A p \in Paths : Tracked(p)' <=> Tracked(p)
    BY <1>1, <1>3, <1>4, <2>2, Zenon DEF LiveOK, Live, Tracked
  <2>4. SeenOK'
    <3>1. \A j \in (opened + 1)..i : j = i \/ j \in (opened + 1)..token
      BY <1>00, <1>2
    <3> QED BY <1>1, <1>2, <1>3, <2>1, <3>1, Zenon DEF SeenOK
  <2>5. OverlayOK'
    BY <2>1, Zenon DEF OverlayOK
  <2>6. b # NoBundle
    BY <1>00, <1>4 DEF NoBundle
  <2>7. ASSUME NEW p \in Paths, Tracked(p)' PROVE Reached(p)'
    <3>1. data[p] = Overlay(b.embedded, StateAt(token).data)[p]
      BY <1>3, <2>1, <2>3, <2>7, Zenon DEF OverlayOK
    <3>2. data[p] = EffectiveData(StateAt(i))[p]
      BY <1>4, <2>6, <3>1, EffectiveWith, Zenon
    <3>3. data[p] \in InForce(i, p)
      BY <3>2, Zenon DEF InForce
    <3>4. \A n : InForce(n, p)' = InForce(n, p)
      BY <1>1, Zenon DEF InForce, StateAt
    <3>5. i \in token'..Len(log')
      BY <1>00, <1>1, <1>2, <2>1
    <3> HIDE DEF i
    <3> QED BY <2>1, <3>3, <3>4, <3>5, Zenon DEF Reached
  <2>8. DataReached'
    BY <2>7, Zenon DEF DataReached
  <2> QED BY <1>1, <2>3, <2>4, <2>5, <2>8, Zenon DEF DataOK
<1> QED BY <1>7, <1>8, <1>9, Zenon DEF ApplyBundle

LEMMA DataStep ==
    ASSUME Inv, TickerOK, HistoryOK, BundleOK, EngineOK, DataOK, [Next]_vars
    PROVE  DataOK'
<1> SUFFICES ASSUME "ticker" \notin Features PROVE DataOK'
  BY LogStep, Zenon DEF DataOK
<1>1. CASE ControlPlane \/ (\E t \in Tuples : RemoteCommit(t)) \/ MirrorLocally \/ UNCHANGED vars
  BY <1>1, DataByRun, Zenon DEF ControlPlane, RemoteCommit, MirrorLocally, vars, engines, guards
<1>2. CASE OpenStream \/ OpenFails \/ TokenRefused \/ Disconnect \/ BackoffElapsed
  BY <1>2, DataByRun, Zenon
     DEF OpenStream, OpenFails, TokenRefused, Disconnect, BackoffElapsed, engines, guards
<1> QED BY <1>1, <1>2, DataByLoader, DataByFinish, DataByFrame, DataByApply, DataByFailure, Zenon DEF Next

PolicyInv == VersionsOK /\ HistoryOK /\ BundleOK /\ EngineOK /\ DataOK

LEMMA PolicyInit == Init => PolicyInv
<1> SUFFICES ASSUME Init PROVE PolicyInv
  BY Zenon
<1>1. /\ Len(log) = 0 /\ StateAt(0) = InitialState /\ \A n \in 0..Len(log) : n = 0
      /\ InitialState.bundle = NoBundle /\ NoBundle.version = 0
  BY EmptyLog, Zenon DEF InitialState, NoBundle
<1>2. VersionsOK
  BY <1>1 DEF VersionsOK
<1>3. sync = "new" /\ applying.pc = "idle" /\ load["app"].pc = "idle" /\ load["sync"].pc = "idle"
  BY Zenon DEF Init, NotApplying, NotLoading, Loaders
<1>4. BundleOK
  BY <1>3, Zenon DEF BundleOK, Init
<1>5. HistoryOK
  <2>1. \A p \in Paths : InitialState.dataVersion[p] \in Nat
    BY InitialStateType, Zenon DEF States
  <2>2. \A n \in 0..Len(log) : \A m \in 0..n : m = 0 /\ n = 0
    BY <1>1
  <2> QED BY <1>1, <2>1, <2>2, Reflexive, Zenon DEF HistoryOK
<1>6. EngineOK
  BY <1>3, Zenon DEF EngineOK, Init
<1>7. FreshOK
  BY Zenon DEF FreshOK, Init
<1>8. DataOK
  BY <1>3, <1>7, Zenon DEF DataOK, OverlayOK
<1> QED BY <1>2, <1>4, <1>5, <1>6, <1>8, Zenon DEF PolicyInv

LEMMA PolicyNext == Inv /\ StoreInv /\ PolicyInv /\ [Next]_vars => PolicyInv'
BY VersionsStep, HistoryStep, BundleStep, EngineStep, DataStep, Zenon DEF PolicyInv, StoreInv

LEMMA SpecPolicy == Spec => [](Inv /\ PolicyInv)
BY SpecStore, PolicyInit, PolicyNext, PTL DEF Spec

LEMMA PolicyReached == Inv /\ PolicyInv => PolicyNotBehindToken
<1> SUFFICES ASSUME Inv, PolicyInv, "ticker" \notin Features, sync = "streaming", applying = NotApplying
             PROVE  bundle.version >= StateAt(token).bundle.version /\ DataReached
  BY Zenon DEF PolicyNotBehindToken, DataReached, Reached
<1>1. LogType /\ token \in 0..Len(log) /\ bundle.version \in Nat
  BY Zenon DEF Inv, TypeOK, LogType, Entries, Bundles
<1>2. StateAt(token).bundle.version \in Nat /\ StateAt(token).bundle.version <= bundle.version
  BY <1>1, VersionTypes, Zenon DEF PolicyInv, BundleOK
<1>3. bundle.version >= StateAt(token).bundle.version
  BY <1>1, <1>2
<1>4. DataReached
  BY Zenon DEF PolicyInv, DataOK, NotApplying
<1> QED BY <1>3, <1>4, Zenon

\* Between frames of a client without the refresh ticker the loaded bundle has reached
\* the client's token, and so has the value evaluation reads at every path whose last
\* update the client has (PolicyNotBehindToken): repeated frames, lost connections,
\* engine calls that fail in a load or in a frame, rebootstraps and bundle swaps, in
\* any order, roll no policy back (sync.go:403-460).  Excepted are the data of a bundle
\* frame that failed after its bundle was swapped in (HalfApplied), and a path that was
\* updated in a window the stream did not bring (Tracked).
THEOREM PolicyReachesToken == Spec => []PolicyNotBehindToken
BY SpecPolicy, PolicyReached, PTL

=============================================================================
