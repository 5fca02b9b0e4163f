----------------------------- MODULE ModelCache ------------------------------
(***************************************************************************)
(* The authorization models of the engine (zanzibar/zanzibar.go,           *)
(* zanzibar/model_cache.go): each process keeps a default model and a      *)
(* cache of tenant models; the model store, which processes share,         *)
(* numbers every model saved for a tenant.  Every operation refreshes the  *)
(* tenant's model before it evaluates.                                     *)
(*                                                                         *)
(* A model is a model value; an entry pairs it with its revision.  A call  *)
(* runs on one engine, one step at a time, so calls interleave between     *)
(* their reads and writes of the store, the cache and the notifier.  The   *)
(* model store is external: Save allocates revisions atomically.           *)
(***************************************************************************)
EXTENDS Naturals, Sequences

CONSTANTS
    Engines,       \* processes with an engine
    Tenants,
    Callers,       \* goroutines, each in at most one call
    Models,        \* model sources
    Invalid,       \* those that do not compile
    Deployments    \* the deployments of an instance

\* Which engines run, whether they have a model store, the models they are given,
\* and the bounds on the revisions of one tenant and of a default model.
ASSUME ModelCacheAssumption ==
    /\ Invalid \subseteq Models
    /\ Deployments \subseteq [engines : SUBSET Engines, persistent : BOOLEAN,
                             sources : SUBSET Models, maxSaves : Nat, maxDefault : Nat]

\* Chosen once.
VARIABLE deployment

Persistent == deployment.persistent
MaxSaves == deployment.maxSaves
MaxDefault == deployment.maxDefault

VARIABLES
    stored,        \* model store: per tenant, the model of each revision
    models,        \* e.cache.models
    defaultModel,  \* e.defaultModel
    modelUpdateMu, \* per engine: the callers that hold e.modelUpdateMu
    notified,      \* per engine and tenant: what OnModelUpdate was last given
    listed,        \* per engine: what LoadPersistedModels has still to activate
    call           \* per caller: its call

vars == <<deployment, stored, models, defaultModel, modelUpdateMu, notified, listed, call>>

Entries == [model : Models, revision : Nat]

\* No entry: a nil *tenantModel, whose revision reads as 0.
Nil == [model |-> "nil", revision |-> 0]

Idle == [pc |-> "idle"]

\* A call: LoadModelForTenant, SaveModelForTenant, or an operation that needs a
\* model.  since: the tenant's last committed revision when it began.
Call(pc, kind, e, t, entry) ==
    [pc |-> pc, kind |-> kind, engine |-> e, tenant |-> t, entry |-> entry,
     since |-> Len(stored[t])]

Compiles(m) == m \in Models \ Invalid

(***************************************************************************)
(* Reads and the activation fence                                          *)
(***************************************************************************)

resolveModel(e, t) == IF models[e][t] # Nil THEN models[e][t] ELSE defaultModel[e]

\* Fault: the fence is off by one.
ActivatedOffByOne(e, t, entry) ==
    IF models[e][t] # Nil /\ entry.revision <= models[e][t].revision + 1
      THEN models
      ELSE [models EXCEPT ![e][t] = entry]

\* The cache after ActivateModelForTenant.
Activated(e, t, entry) ==
    IF models[e][t] # Nil /\ entry.revision <= models[e][t].revision
      THEN models
      ELSE [models EXCEPT ![e][t] = entry]

Goto(c, fields) == call' = [call EXCEPT ![c] = fields]

Unlock(c) == modelUpdateMu' = [e \in Engines |-> modelUpdateMu[e] \ {c}]

(***************************************************************************)
(* LoadModelForTenant, SaveModelForTenant                                  *)
(***************************************************************************)

\* LoadModelForTenant takes the lock and reads the current revision, which is
\* used only when there is no store.
BeginLoad(c, e, t, m) ==
    /\ call[c].pc = "idle"
    /\ modelUpdateMu[e] = {}
    /\ Persistent \/ resolveModel(e, t).revision < MaxSaves
    /\ modelUpdateMu' = [modelUpdateMu EXCEPT ![e] = {c}]
    /\ Goto(c, Call(IF Persistent THEN "save" ELSE "activate", "load", e, t,
                    [model |-> m, revision |-> resolveModel(e, t).revision + 1]))
    /\ UNCHANGED <<stored, models, defaultModel, notified, listed>>

\* SaveModelForTenant called by itself, inside its caller's transaction.
BeginSave(c, e, t, m) ==
    /\ call[c].pc = "idle"
    /\ Persistent
    /\ Goto(c, Call("save", "save", e, t, [model |-> m, revision |-> 0]))
    /\ UNCHANGED <<stored, models, defaultModel, modelUpdateMu, notified, listed>>

\* ModelStore.Save commits the model as the tenant's next revision.
Save(c) ==
    LET k == call[c] IN
    /\ k.pc = "save"
    /\ Compiles(k.entry.model)
    /\ Len(stored[k.tenant]) < MaxSaves
    /\ stored' = [stored EXCEPT ![k.tenant] = Append(@, k.entry.model)]
    /\ Goto(c, [k EXCEPT !.pc = "activate", !.entry.revision = Len(stored[k.tenant]) + 1])
    /\ UNCHANGED <<models, defaultModel, modelUpdateMu, notified, listed>>

\* The model does not compile, or the store returns an error.
SaveFails(c) ==
    /\ call[c].pc = "save"
    /\ Goto(c, Idle)
    /\ Unlock(c)
    /\ UNCHANGED <<stored, models, defaultModel, notified, listed>>

\* ActivateModelForTenant: at the end of a load, from a post-commit hook after a
\* save, or with what a refresh has read.
Activate(c) ==
    LET k == call[c] IN
    /\ k.pc = "activate"
    /\ Compiles(k.entry.model)
    /\ models' = Activated(k.engine, k.tenant, k.entry)
    /\ IF k.kind = "save" THEN Goto(c, Idle)
       ELSE Goto(c, [k EXCEPT !.pc = IF k.kind = "load" THEN "notify" ELSE "resolve"])
    /\ UNCHANGED <<stored, defaultModel, modelUpdateMu, notified, listed>>

\* Without a store the model is compiled only here.
ActivateFails(c) ==
    /\ call[c].pc = "activate"
    /\ ~Compiles(call[c].entry.model)
    /\ Goto(c, Idle)
    /\ Unlock(c)
    /\ UNCHANGED <<stored, models, defaultModel, notified, listed>>

\* The hook belongs to the caller of SaveModelForTenant, which may have none.
NoHook(c) ==
    /\ call[c].pc = "activate"
    /\ call[c].kind = "save"
    /\ Goto(c, Idle)
    /\ UNCHANGED <<stored, models, defaultModel, modelUpdateMu, notified, listed>>

\* Fault: the lock is released before the subscribers are told.
ReadForNotifyUnlocks(c) ==
    LET k == call[c] IN
    /\ k.pc = "notify"
    /\ Goto(c, [k EXCEPT !.pc = "publish", !.entry = resolveModel(k.engine, k.tenant)])
    /\ Unlock(c)
    /\ UNCHANGED <<stored, models, defaultModel, notified, listed>>

\* LoadModelForTenant reads the active model for its subscribers...
ReadForNotify(c) ==
    LET k == call[c] IN
    /\ k.pc = "notify"
    /\ Goto(c, [k EXCEPT !.pc = "publish", !.entry = resolveModel(k.engine, k.tenant)])
    /\ UNCHANGED <<stored, models, defaultModel, modelUpdateMu, notified, listed>>

\* ...and tells them, still under the lock.
OnModelUpdate(c) ==
    LET k == call[c] IN
    /\ k.pc = "publish"
    /\ notified' = [notified EXCEPT ![k.engine][k.tenant] = k.entry]
    /\ Unlock(c)
    /\ Goto(c, Idle)
    /\ UNCHANGED <<stored, models, defaultModel, listed>>

(***************************************************************************)
(* Operations: modelForOperation, and LoadPersistedModels                  *)
(***************************************************************************)

BeginOperation(c, e, t) ==
    /\ call[c].pc = "idle"
    /\ Goto(c, Call(IF Persistent THEN "get" ELSE "resolve", "operate", e, t, Nil))
    /\ UNCHANGED <<stored, models, defaultModel, modelUpdateMu, notified, listed>>

\* Fault: a cached tenant model is good enough.
GetUnlessCached(c) ==
    LET k == call[c]
        s == stored[k.tenant]
    IN
    /\ k.pc = "get"
    /\ Goto(c, IF s = <<>> \/ models[k.engine][k.tenant] # Nil THEN [k EXCEPT !.pc = "resolve"]
               ELSE [k EXCEPT !.pc = "activate",
                              !.entry = [model |-> s[Len(s)], revision |-> Len(s)]])
    /\ UNCHANGED <<stored, models, defaultModel, modelUpdateMu, notified, listed>>

\* RefreshModelForTenant reads the store; a tenant with no model keeps the default.
Get(c) ==
    LET k == call[c]
        s == stored[k.tenant]
    IN
    /\ k.pc = "get"
    /\ Goto(c, IF s = <<>> THEN [k EXCEPT !.pc = "resolve"]
               ELSE [k EXCEPT !.pc = "activate",
                              !.entry = [model |-> s[Len(s)], revision |-> Len(s)]])
    /\ UNCHANGED <<stored, models, defaultModel, modelUpdateMu, notified, listed>>

GetFails(c) ==
    /\ call[c].pc = "get"
    /\ Goto(c, Idle)
    /\ UNCHANGED <<stored, models, defaultModel, modelUpdateMu, notified, listed>>

\* The model the operation evaluates against.
Resolve(c) ==
    LET k == call[c] IN
    /\ k.pc = "resolve"
    /\ Goto(c, [k EXCEPT !.pc = "evaluate", !.entry = resolveModel(k.engine, k.tenant)])
    /\ UNCHANGED <<stored, models, defaultModel, modelUpdateMu, notified, listed>>

Return(c) ==
    /\ call[c].pc = "evaluate"
    /\ Goto(c, Idle)
    /\ UNCHANGED <<stored, models, defaultModel, modelUpdateMu, notified, listed>>

\* LoadPersistedModels lists the store at startup and then activates one tenant
\* after another.
ListAll(e) ==
    /\ Persistent
    /\ listed[e] = [t \in Tenants |-> <<>>]
    /\ listed' = [listed EXCEPT ![e] = stored]
    /\ UNCHANGED <<stored, models, defaultModel, modelUpdateMu, notified, call>>

LoadPersistedModels(e, t) ==
    LET s == listed[e][t] IN
    /\ s # <<>>
    /\ models' = Activated(e, t, [model |-> s[Len(s)], revision |-> Len(s)])
    /\ listed' = [listed EXCEPT ![e][t] = <<>>]
    /\ UNCHANGED <<stored, defaultModel, modelUpdateMu, notified, call>>

(***************************************************************************)
(* The default model, and restarts                                         *)
(***************************************************************************)

\* LoadModel and SetModel install a model with no revision.  They notify of it under no
\* tenant, after e.mu is released; `notified` holds the notifications of tenant models.
SetModel(e, m) ==
    /\ Compiles(m)
    /\ defaultModel' = [defaultModel EXCEPT ![e] = [model |-> m, revision |-> 0]]
    /\ UNCHANGED <<stored, models, modelUpdateMu, notified, listed, call>>

\* Fault: the default model has no fence.
ActivateModelUnfenced(e, m, r) ==
    /\ Compiles(m)
    /\ defaultModel' = [defaultModel EXCEPT ![e] = [model |-> m, revision |-> r]]
    /\ UNCHANGED <<stored, models, modelUpdateMu, notified, listed, call>>

ActivateModel(e, m, r) ==
    /\ Compiles(m)
    /\ r > 0
    /\ defaultModel[e] = Nil \/ r > defaultModel[e].revision
    /\ defaultModel' = [defaultModel EXCEPT ![e] = [model |-> m, revision |-> r]]
    /\ UNCHANGED <<stored, models, modelUpdateMu, notified, listed, call>>

\* The process dies with its calls; the store stays.
Restart(e) ==
    /\ models' = [models EXCEPT ![e] = [t \in Tenants |-> Nil]]
    /\ defaultModel' = [defaultModel EXCEPT ![e] = Nil]
    /\ modelUpdateMu' = [modelUpdateMu EXCEPT ![e] = {}]
    /\ notified' = [notified EXCEPT ![e] = [t \in Tenants |-> Nil]]
    /\ listed' = [listed EXCEPT ![e] = [t \in Tenants |-> <<>>]]
    /\ call' = [c \in Callers |->
                  IF call[c].pc # "idle" /\ call[c].engine = e THEN Idle ELSE call[c]]
    /\ UNCHANGED stored

(***************************************************************************)
(* Specification                                                           *)
(***************************************************************************)

Init ==
    /\ deployment \in Deployments
    /\ stored = [t \in Tenants |-> <<>>]
    /\ models = [e \in Engines |-> [t \in Tenants |-> Nil]]
    /\ defaultModel = [e \in Engines |-> Nil]
    /\ modelUpdateMu = [e \in Engines |-> {}]
    /\ notified = [e \in Engines |-> [t \in Tenants |-> Nil]]
    /\ listed = [e \in Engines |-> [t \in Tenants |-> <<>>]]
    /\ call = [c \in Callers |-> Idle]

CallStep(c) ==
    \/ \E e \in deployment.engines, t \in Tenants, m \in deployment.sources :
          BeginLoad(c, e, t, m) \/ BeginSave(c, e, t, m)
    \/ Save(c)
    \/ SaveFails(c)
    \/ Activate(c)
    \/ ActivateFails(c)
    \/ NoHook(c)
    \/ ReadForNotify(c)
    \/ OnModelUpdate(c)
    \/ \E e \in deployment.engines, t \in Tenants : BeginOperation(c, e, t)
    \/ Get(c)
    \/ GetFails(c)
    \/ Resolve(c)
    \/ Return(c)

EngineStep(e) ==
    \/ ListAll(e)
    \/ \E t \in Tenants : LoadPersistedModels(e, t)
    \/ \E m \in deployment.sources : SetModel(e, m)
    \/ \E m \in deployment.sources, r \in 1..MaxDefault : ActivateModel(e, m, r)
    \/ Restart(e)

Next ==
    /\ UNCHANGED deployment
    /\ \/ \E c \in Callers : CallStep(c)
       \/ \E e \in deployment.engines : EngineStep(e)

Spec == Init /\ [][Next]_vars

(***************************************************************************)
(* Properties                                                              *)
(***************************************************************************)

Steps == {"save", "activate", "notify", "publish", "get", "resolve", "evaluate"}

BusyCalls == [pc : Steps, kind : {"load", "save", "operate"}, engine : Engines, tenant : Tenants,
              entry : Entries \cup {Nil}, since : Nat]

\* Every variable has its shape; one caller at a time holds an engine's update lock.
TypeOK ==
    /\ deployment \in Deployments
    /\ stored \in [Tenants -> Seq(Models)]
    /\ models \in [Engines -> [Tenants -> Entries \cup {Nil}]]
    /\ defaultModel \in [Engines -> Entries \cup {Nil}]
    /\ modelUpdateMu \in [Engines -> SUBSET Callers]
    /\ notified \in [Engines -> [Tenants -> Entries \cup {Nil}]]
    /\ listed \in [Engines -> [Tenants -> Seq(Models)]]
    /\ call \in [Callers -> {Idle} \cup BusyCalls]
    /\ \A e \in Engines : \A c, d \in modelUpdateMu[e] : c = d

\* An operation evaluates a model at least as new as every model committed before
\* it began, whichever engine committed it ("reconciling the current tenant with
\* the authoritative model store", model_cache.go:65-88).
OperationsAreFresh ==
    Persistent =>
      \A c \in Callers :
         LET k == call[c] IN
         k.pc = "evaluate" /\ k.since > 0 =>
           /\ k.entry.revision \in k.since..Len(stored[k.tenant])
           /\ k.entry.model = stored[k.tenant][k.entry.revision]

\* A load that reports success is visible: the active model is the loaded one, or
\* a later revision, never another model under the same revision
\* (zanzibar.go:126-147).
LoadIsVisible ==
    \A c \in Callers :
       LET k == call[c] IN
       k.pc = "notify" =>
         /\ models[k.engine][k.tenant].revision >= k.entry.revision
         /\ models[k.engine][k.tenant].revision = k.entry.revision
              => models[k.engine][k.tenant].model = k.entry.model

\* An active model is never replaced by an older one, while the process lives:
\* not by a refresh that was overtaken, a late hook or a startup load
\* (zanzibar.go:192-198); and the default one only by LoadModel or SetModel,
\* which carry no revision (zanzibar.go:94-100).
ActivationIsMonotone ==
    [][/\ \A e \in Engines, t \in Tenants :
             models'[e][t] # models[e][t] =>
               models'[e][t] = Nil \/ models'[e][t].revision > models[e][t].revision
       /\ \A e \in Engines :
             defaultModel'[e].revision < defaultModel[e].revision => defaultModel'[e].revision = 0]_vars

\* Subscribers of one engine are told of a tenant's models in the order of their
\* revisions ("Serialize persistence, activation, and notification",
\* zanzibar.go:127-130).
NotifiedInOrder ==
    [][\A e \in Engines, t \in Tenants :
          notified'[e][t] = Nil \/ notified'[e][t].revision >= notified[e][t].revision]_vars
=============================================================================
