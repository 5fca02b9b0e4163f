-------------------------- MODULE ModelCacheProofs ---------------------------
(***************************************************************************)
(* What the activation fence and the update lock give, for any number of   *)
(* engines, tenants and callers, with and without a model store.           *)
(*                                                                         *)
(* Neither OperationsAreFresh nor LoadIsVisible is inductive.  With a      *)
(* store, a revision names one model wherever it is held: in the cache, in *)
(* what a startup load has still to activate, in the entry a call carries  *)
(* (IsStored).  Without one, the revisions are the engine's own, and only  *)
(* the update lock keeps two loads from taking the same one (LocalOK).     *)
(***************************************************************************)
EXTENDS ModelCache, TLAPS

Active(k) == models[k.engine][k.tenant]
Told(k) == notified[k.engine][k.tenant]

\* The model store has this model under this revision.
IsStored(t, entry) ==
    /\ entry.revision \in 1..Len(stored[t])
    /\ entry.model = stored[t][entry.revision]

\* Which calls are at which step.
KindOK(k) ==
    /\ k.pc \in {"notify", "publish"} => k.kind = "load"
    /\ k.pc \in {"get", "resolve", "evaluate"} => k.kind = "operate"
    /\ k.pc = "save" => k.kind # "operate"
    /\ k.kind = "save" \/ k.pc \in {"save", "get"} \/ (k.kind = "operate" /\ k.pc = "activate")
          => Persistent

\* With a store: what a call carries was committed, and is as new as it must be.
StoredOK(k) ==
    Persistent =>
       /\ k.since <= Len(stored[k.tenant])
       /\ k.pc \in {"activate", "notify"} => IsStored(k.tenant, k.entry)
       /\ k.pc = "activate" /\ k.kind = "operate" => k.entry.revision >= k.since
       /\ k.pc = "resolve" /\ k.since > 0 => Active(k) # Nil /\ Active(k).revision >= k.since
       /\ k.pc = "evaluate" /\ k.since > 0 =>
             k.entry.revision >= k.since /\ IsStored(k.tenant, k.entry)

\* Without one: the revision a load takes is above the active one until it is active.
LocalOK(k) ==
    ~Persistent =>
       /\ k.pc = "activate" => Active(k).revision < k.entry.revision
       /\ k.pc = "notify" => Active(k) = k.entry

\* What a load tells its subscribers is no older than what they were told.
ToldOK(k) ==
    /\ k.pc \in {"activate", "notify"} => k.entry.revision > 0
    /\ k.pc = "notify" => Active(k).revision >= k.entry.revision
    /\ k.pc = "publish" =>
          Told(k).revision <= k.entry.revision /\ k.entry.revision <= Active(k).revision

CallOK(c) ==
    call[c].pc # "idle" =>
       /\ KindOK(call[c]) /\ StoredOK(call[c]) /\ LocalOK(call[c]) /\ ToldOK(call[c])
       /\ call[c].kind = "load" => c \in modelUpdateMu[call[c].engine]

\* What is active was activated with a revision, which the store has.
ActiveOK(e, t) ==
    models[e][t] # Nil =>
       /\ models[e][t].revision > 0
       /\ Persistent => IsStored(t, models[e][t])

\* A startup load has read a prefix of what the store has by now.
ListedOK(e, t) ==
    /\ Len(listed[e][t]) <= Len(stored[t])
    /\ \A i \in 1..Len(listed[e][t]) : listed[e][t][i] = stored[t][i]
    /\ listed[e][t] # <<>> => Persistent

CacheOK(e, t) ==
    ActiveOK(e, t) /\ ListedOK(e, t) /\ notified[e][t].revision <= models[e][t].revision

Inv ==
    /\ TypeOK
    /\ \A e \in Engines, t \in Tenants : CacheOK(e, t)
    /\ \A c \in Callers : CallOK(c)

-----------------------------------------------------------------------------
LEMMA NilFacts == Nil.revision = 0 /\ Idle.pc = "idle" /\ Nil \in Entries \cup {Nil}
BY Zenon DEF Nil, Idle

LEMMA EntryFacts ==
    /\ \A n \in Entries \cup {Nil} : n.revision \in Nat
    /\ \A n \in Entries \cup {Nil} : n.revision > 0 => n \in Entries /\ n # Nil
BY DEF Entries, Nil

LEMMA BusyFacts ==
    ASSUME TypeOK, NEW c \in Callers, call[c].pc # "idle"
    PROVE  call[c] \in BusyCalls
BY NilFacts, Zenon DEF TypeOK

LEMMA CacheTypes ==
    ASSUME TypeOK, NEW e \in Engines, NEW t \in Tenants
    PROVE  /\ models[e][t] \in Entries \cup {Nil} /\ models[e][t].revision \in Nat
           /\ notified[e][t] \in Entries \cup {Nil} /\ notified[e][t].revision \in Nat
           /\ stored[t] \in Seq(Models) /\ Len(stored[t]) \in Nat
           /\ listed[e][t] \in Seq(Models) /\ Len(listed[e][t]) \in Nat
<1>1. /\ models \in [Engines -> [Tenants -> Entries \cup {Nil}]]
      /\ notified \in [Engines -> [Tenants -> Entries \cup {Nil}]]
      /\ stored \in [Tenants -> Seq(Models)] /\ listed \in [Engines -> [Tenants -> Seq(Models)]]
  BY Zenon DEF TypeOK
<1>2. models[e][t] \in Entries \cup {Nil} /\ notified[e][t] \in Entries \cup {Nil}
  BY <1>1
<1>3. stored[t] \in Seq(Models) /\ listed[e][t] \in Seq(Models)
  BY <1>1, Zenon
<1>4. Len(stored[t]) \in Nat /\ Len(listed[e][t]) \in Nat
  BY <1>3
<1> QED
  BY <1>2, <1>3, <1>4, EntryFacts, Zenon

LEMMA CacheTypesNext ==
    ASSUME TypeOK', NEW e \in Engines, NEW t \in Tenants
    PROVE  /\ models'[e][t] \in Entries \cup {Nil} /\ models'[e][t].revision \in Nat
           /\ notified'[e][t] \in Entries \cup {Nil} /\ notified'[e][t].revision \in Nat
           /\ stored'[t] \in Seq(Models) /\ Len(stored'[t]) \in Nat
           /\ listed'[e][t] \in Seq(Models) /\ Len(listed'[e][t]) \in Nat
<1>1. /\ models' \in [Engines -> [Tenants -> Entries \cup {Nil}]]
      /\ notified' \in [Engines -> [Tenants -> Entries \cup {Nil}]]
      /\ stored' \in [Tenants -> Seq(Models)] /\ listed' \in [Engines -> [Tenants -> Seq(Models)]]
  BY Zenon DEF TypeOK
<1>2. models'[e][t] \in Entries \cup {Nil} /\ notified'[e][t] \in Entries \cup {Nil}
  BY <1>1
<1>3. stored'[t] \in Seq(Models) /\ listed'[e][t] \in Seq(Models)
  BY <1>1, Zenon
<1>4. Len(stored'[t]) \in Nat /\ Len(listed'[e][t]) \in Nat
  BY <1>3
<1> QED
  BY <1>2, <1>3, <1>4, EntryFacts, Zenon

LEMMA InitInv == Init => Inv
<1> SUFFICES ASSUME Init PROVE Inv
  BY Zenon
<1>1. <<>> \in Seq(Models) /\ Len(<<>>) = 0 /\ 0 <= 0 /\ {} \in SUBSET Callers
  OBVIOUS
<1>2. TypeOK
  BY <1>1, Zenon DEF Init, TypeOK
<1>3. ASSUME NEW e \in Engines, NEW t \in Tenants
      PROVE  CacheOK(e, t)
  <2>1. /\ models[e][t] = Nil /\ notified[e][t] = Nil /\ listed[e][t] = <<>> /\ stored[t] = <<>>
    BY Zenon DEF Init
  <2>2. \A i \in 1..Len(<<>>) : FALSE
    BY <1>1
  <2> QED
    BY <1>1, <2>1, <2>2, NilFacts, Zenon DEF CacheOK, ActiveOK, ListedOK
<1>4. \A c \in Callers : CallOK(c)
  BY NilFacts, Zenon DEF Init, CallOK
<1> QED
  BY <1>2, <1>3, <1>4, Zenon DEF Inv

-----------------------------------------------------------------------------
(* The fence, and what no step of another call disturbs *)

\* The fence lets an entry in only above the active revision, and leaves one in force
\* that is at least as new as the entry.
LEMMA ActivatedFacts ==
    ASSUME TypeOK, NEW e \in Engines, NEW t \in Tenants, NEW n \in Entries, n.revision > 0
    PROVE  /\ Activated(e, t, n) \in [Engines -> [Tenants -> Entries \cup {Nil}]]
           /\ \A f \in Engines, u \in Tenants :
                 f # e \/ u # t => Activated(e, t, n)[f][u] = models[f][u]
           /\ \/ /\ Activated(e, t, n)[e][t] = models[e][t] /\ models[e][t] # Nil
                 /\ n.revision <= models[e][t].revision
              \/ Activated(e, t, n)[e][t] = n /\ models[e][t].revision < n.revision
<1> DEFINE put == [models EXCEPT ![e][t] = n]
<1>1. models \in [Engines -> [Tenants -> Entries \cup {Nil}]]
  BY Zenon DEF TypeOK
<1>2. /\ put \in [Engines -> [Tenants -> Entries \cup {Nil}]]
      /\ \A f \in Engines, u \in Tenants : f # e \/ u # t => put[f][u] = models[f][u]
      /\ put[e][t] = n
  BY <1>1, Zenon
<1>3. models[e][t].revision \in Nat /\ n.revision \in Nat
  BY <1>1, EntryFacts, Zenon
<1> HIDE DEF put
<1>4. CASE models[e][t] # Nil /\ n.revision <= models[e][t].revision
  <2>1. Activated(e, t, n) = models
    BY <1>4, Zenon DEF Activated
  <2> QED
    BY <1>1, <1>4, <2>1, Zenon
<1>5. CASE ~(models[e][t] # Nil /\ n.revision <= models[e][t].revision)
  <2>1. Activated(e, t, n) = put
    BY <1>5, Zenon DEF Activated, put
  <2>2. models[e][t].revision < n.revision
    BY <1>3, <1>5, NilFacts
  <2> QED
    BY <1>2, <2>1, <2>2, Zenon
<1> QED
  BY <1>4, <1>5, Zenon

\* The store of a tenant only grows.
Grows(t) ==
    /\ Len(stored[t]) <= Len(stored'[t])
    /\ \A i \in 1..Len(stored[t]) : stored'[t][i] = stored[t][i]

LEMMA StoredStays ==
    ASSUME TypeOK, TypeOK', NEW t \in Tenants, Grows(t), NEW n \in Entries \cup {Nil}, IsStored(t, n)
    PROVE  IsStored(t, n)'
<1>1. Len(stored[t]) \in Nat /\ Len(stored'[t]) \in Nat
  BY DEF TypeOK
<1>2. n.revision \in 1..Len(stored[t]) /\ n.model = stored[t][n.revision]
  BY Zenon DEF IsStored
<1>3. n.revision \in 1..Len(stored'[t])
  BY <1>1, <1>2 DEF Grows
<1> QED
  BY <1>2, <1>3, Zenon DEF IsStored, Grows

\* What a step may do to the cache under the feet of a call it is not part of.
Rises(k) ==
    \/ models'[k.engine][k.tenant] = models[k.engine][k.tenant]
    \/ /\ models'[k.engine][k.tenant].revision > models[k.engine][k.tenant].revision
       /\ Persistent \/ k.kind # "load"

LEMMA OthersStay ==
    ASSUME Inv, TypeOK', UNCHANGED deployment, NEW d \in Callers,
           call'[d] = call[d],
           call[d].pc # "idle" =>
              /\ call[d].kind = "load" => d \in modelUpdateMu'[call[d].engine]
              /\ Grows(call[d].tenant) /\ Rises(call[d])
              /\ call[d].kind = "load" =>
                    notified'[call[d].engine][call[d].tenant] = notified[call[d].engine][call[d].tenant]
    PROVE  CallOK(d)'
<1> SUFFICES ASSUME call[d].pc # "idle" PROVE CallOK(d)'
  BY Zenon DEF CallOK
<1>1. PICK k : k = call[d]
  BY Zenon
<1>2. /\ TypeOK /\ k.engine \in Engines /\ k.tenant \in Tenants
      /\ k.entry \in Entries \cup {Nil} /\ k.since \in Nat
  BY <1>1, BusyFacts, Zenon DEF Inv, BusyCalls
<1>3. KindOK(k) /\ StoredOK(k) /\ LocalOK(k) /\ ToldOK(k)
  BY <1>1, Zenon DEF Inv, CallOK
<1>4. Persistent' = Persistent /\ Grows(k.tenant) /\ Rises(k)
  BY <1>1, Zenon DEF Persistent
<1>5. /\ Active(k).revision \in Nat /\ Active(k)'.revision \in Nat
      /\ Told(k).revision \in Nat /\ k.entry.revision \in Nat
  BY <1>2, CacheTypes, CacheTypesNext, EntryFacts, Zenon DEF Active, Told
<1>6. Len(stored[k.tenant]) \in Nat /\ Len(stored'[k.tenant]) \in Nat
  BY <1>2, CacheTypes, CacheTypesNext, Zenon
<1>7. Active(k).revision <= Active(k)'.revision
  BY <1>4, <1>5 DEF Rises, Active
<1>8. Active(k) # Nil => Active(k)' # Nil
  <2>1. CASE Active(k)' = Active(k)
    BY <2>1, Zenon
  <2>2. CASE Active(k)'.revision > Active(k).revision
    BY <1>5, <2>2, NilFacts
  <2> QED
    BY <1>4, <2>1, <2>2, Zenon DEF Rises, Active
<1>9. KindOK(k)'
  BY <1>3, <1>4, Zenon DEF KindOK
<1>10. StoredOK(k)'
  <2> SUFFICES ASSUME Persistent PROVE StoredOK(k)'
    BY <1>4, Zenon DEF StoredOK
  <2>1. k.since <= Len(stored'[k.tenant])
    BY <1>2, <1>3, <1>4, <1>6 DEF StoredOK, Grows
  <2>2. k.pc \in {"activate", "notify"} => IsStored(k.tenant, k.entry)'
    BY <1>2, <1>3, <1>4, StoredStays, Zenon DEF StoredOK
  <2>3. k.pc = "resolve" /\ k.since > 0 => Active(k)' # Nil /\ Active(k)'.revision >= k.since
    <3>1. k.pc = "resolve" /\ k.since > 0 => Active(k) # Nil /\ Active(k).revision >= k.since
      BY <1>3, Zenon DEF StoredOK
    <3> QED
      BY <1>2, <1>5, <1>7, <1>8, <3>1
  <2>4. k.pc = "evaluate" /\ k.since > 0 => k.entry.revision >= k.since /\ IsStored(k.tenant, k.entry)'
    BY <1>2, <1>3, <1>4, StoredStays, Zenon DEF StoredOK
  <2> QED
    BY <1>3, <2>1, <2>2, <2>3, <2>4, Zenon DEF StoredOK
<1>11. LocalOK(k)'
  <2> SUFFICES ASSUME ~Persistent, k.pc \in {"activate", "notify"} PROVE LocalOK(k)'
    BY <1>4, Zenon DEF LocalOK
  <2>1. k.kind = "load"
    BY <1>1, <1>2, <1>3, BusyFacts, Zenon DEF KindOK, BusyCalls
  <2>2. Active(k)' = Active(k)
    BY <1>4, <2>1, Zenon DEF Rises, Active
  <2> QED
    BY <1>3, <2>2, Zenon DEF LocalOK
<1>12. ToldOK(k)'
  <2>1. k.pc = "publish" => Told(k)' = Told(k)
    BY <1>1, <1>3, Zenon DEF KindOK, Told
  <2>2. k.pc = "notify" => Active(k)'.revision >= k.entry.revision
    BY <1>3, <1>5, <1>7 DEF ToldOK
  <2>3. k.pc = "publish" => k.entry.revision <= Active(k)'.revision
    BY <1>3, <1>5, <1>7 DEF ToldOK
  <2> QED
    BY <1>3, <2>1, <2>2, <2>3, Zenon DEF ToldOK
<1>13. k.kind = "load" => d \in modelUpdateMu'[k.engine]
  BY <1>1, Zenon
<1> QED
  BY <1>1, <1>9, <1>10, <1>11, <1>12, <1>13, Zenon DEF CallOK

LEMMA CacheStays ==
    ASSUME Inv, TypeOK', UNCHANGED deployment, NEW e \in Engines, NEW t \in Tenants, Grows(t),
           models'[e][t] = models[e][t], notified'[e][t] = notified[e][t],
           listed'[e][t] = listed[e][t] \/ listed'[e][t] = <<>>
    PROVE  CacheOK(e, t)'
<1>1. TypeOK /\ CacheOK(e, t) /\ Persistent' = Persistent
  BY Zenon DEF Inv, Persistent
<1>2. /\ Len(stored[t]) \in Nat /\ Len(stored'[t]) \in Nat /\ Len(listed[e][t]) \in Nat
      /\ models[e][t] \in Entries \cup {Nil}
  BY <1>1, CacheTypes, CacheTypesNext, Zenon
<1>3. ActiveOK(e, t)'
  BY <1>1, <1>2, StoredStays, Zenon DEF CacheOK, ActiveOK
<1>4. ListedOK(e, t)'
  <2>1. CASE listed'[e][t] = <<>>
    BY <1>2, <2>1 DEF ListedOK
  <2>2. CASE listed'[e][t] = listed[e][t]
    <3>1. Len(listed[e][t]) <= Len(stored'[t])
      BY <1>1, <1>2 DEF CacheOK, ListedOK, Grows
    <3>2. ASSUME NEW i \in 1..Len(listed[e][t]) PROVE listed[e][t][i] = stored'[t][i]
      <4>1. i \in 1..Len(stored[t])
        BY <1>1, <1>2 DEF CacheOK, ListedOK
      <4> QED
        BY <1>1, <4>1, Zenon DEF CacheOK, ListedOK, Grows
    <3> QED
      BY <1>1, <2>2, <3>1, <3>2, Zenon DEF CacheOK, ListedOK
  <2> QED
    BY <2>1, <2>2, Zenon
<1> QED
  BY <1>1, <1>3, <1>4, Zenon DEF CacheOK

LEMMA UnchangedGrows ==
    ASSUME TypeOK, stored' = stored
    PROVE  \A t \in Tenants : Grows(t)
<1>1. \A t \in Tenants : Len(stored[t]) \in Nat
  BY DEF TypeOK
<1> QED
  BY <1>1 DEF Grows

\* A step that changes only one call, and the lock, leaves the invariant if the new
\* state of this call is right.
LEMMA CallOnly ==
    ASSUME Inv, NEW c \in Callers, NEW k \in {Idle} \cup BusyCalls, Goto(c, k),
           UNCHANGED <<deployment, stored, models, defaultModel, notified, listed>>,
           modelUpdateMu' \in [Engines -> SUBSET Callers],
           \A e \in Engines : \A b, d \in modelUpdateMu'[e] : b = d,
           \A e \in Engines : \A d \in modelUpdateMu[e] : d = c \/ d \in modelUpdateMu'[e],
           k.pc # "idle" =>
              /\ KindOK(k) /\ StoredOK(k) /\ LocalOK(k) /\ ToldOK(k)
              /\ k.kind = "load" => c \in modelUpdateMu'[k.engine]
    PROVE  Inv'
<1>1. TypeOK /\ call \in [Callers -> {Idle} \cup BusyCalls]
  BY Zenon DEF Inv, TypeOK
<1>2. /\ call' \in [Callers -> {Idle} \cup BusyCalls] /\ call'[c] = k
      /\ \A d \in Callers \ {c} : call'[d] = call[d]
  BY <1>1 DEF Goto
<1>3. TypeOK'
  BY <1>1, <1>2, Zenon DEF TypeOK
<1>4. \A t \in Tenants : Grows(t)
  BY <1>1, UnchangedGrows, Zenon
<1>5. ASSUME NEW e \in Engines, NEW t \in Tenants PROVE CacheOK(e, t)'
  BY <1>3, <1>4, CacheStays, Zenon
<1>6. ASSUME NEW d \in Callers \ {c} PROVE CallOK(d)'
  <2>1. /\ call[d].pc # "idle" => call[d].tenant \in Tenants /\ call[d].engine \in Engines
    BY <1>1, BusyFacts, Zenon DEF BusyCalls
  <2>2. call[d].pc # "idle" /\ call[d].kind = "load" => d \in modelUpdateMu'[call[d].engine]
    BY <2>1, Zenon DEF Inv, CallOK
  <2>3. Rises(call[d])
    BY Zenon DEF Rises
  <2> QED
    BY <1>2, <1>3, <1>4, <2>1, <2>2, <2>3, OthersStay, Zenon
<1>7. CallOK(c)'
  <2>1. Persistent' = Persistent /\ Active(k)' = Active(k) /\ Told(k)' = Told(k)
    BY Zenon DEF Persistent, Active, Told
  <2>2. KindOK(k)' = KindOK(k) /\ LocalOK(k)' = LocalOK(k) /\ ToldOK(k)' = ToldOK(k)
    BY <2>1, Zenon DEF KindOK, LocalOK, ToldOK
  <2>3. StoredOK(k)' = StoredOK(k)
    BY <2>1, Zenon DEF StoredOK, IsStored
  <2> QED
    BY <1>2, <2>2, <2>3, Zenon DEF CallOK
<1> QED
  BY <1>3, <1>5, <1>6, <1>7, Zenon DEF Inv

LEMMA UnlockFacts ==
    ASSUME TypeOK, NEW c \in Callers, Unlock(c)
    PROVE  /\ modelUpdateMu' \in [Engines -> SUBSET Callers]
           /\ \A e \in Engines : \A b, d \in modelUpdateMu'[e] : b = d
           /\ \A e \in Engines : \A d \in modelUpdateMu[e] : d = c \/ d \in modelUpdateMu'[e]
<1>1. /\ modelUpdateMu \in [Engines -> SUBSET Callers]
      /\ \A e \in Engines : \A b, d \in modelUpdateMu[e] : b = d
  BY Zenon DEF TypeOK
<1> QED
  BY <1>1, Zenon DEF Unlock

-----------------------------------------------------------------------------
(* The steps that change one call *)

LEMMA CallTypes ==
    ASSUME TypeOK, NEW c \in Callers, call[c].pc # "idle"
    PROVE  /\ call[c] \in BusyCalls
           /\ call[c].engine \in Engines /\ call[c].tenant \in Tenants
           /\ call[c].entry \in Entries \cup {Nil} /\ call[c].entry.revision \in Nat
           /\ call[c].since \in Nat /\ call[c].kind \in {"load", "save", "operate"}
<1>1. call[c] \in BusyCalls
  BY BusyFacts, Zenon
<1>2. /\ call[c].engine \in Engines /\ call[c].tenant \in Tenants
      /\ call[c].entry \in Entries \cup {Nil}
      /\ call[c].since \in Nat /\ call[c].kind \in {"load", "save", "operate"}
  BY <1>1, Zenon DEF BusyCalls
<1> QED
  BY <1>1, <1>2, EntryFacts, Zenon

\* The call is over.
LEMMA CallEnds ==
    ASSUME Inv, NEW c \in Callers, Goto(c, Idle),
           UNCHANGED <<deployment, stored, models, defaultModel, notified, listed>>,
           modelUpdateMu' = modelUpdateMu \/ Unlock(c)
    PROVE  Inv'
<1>1. TypeOK
  BY Zenon DEF Inv
<1>2. /\ modelUpdateMu' \in [Engines -> SUBSET Callers]
      /\ \A e \in Engines : \A b, d \in modelUpdateMu'[e] : b = d
      /\ \A e \in Engines : \A d \in modelUpdateMu[e] : d = c \/ d \in modelUpdateMu'[e]
  BY <1>1, UnlockFacts, Zenon DEF TypeOK
<1>3. PICK k : k = Idle
  BY Zenon
<1> QED
  BY <1>2, <1>3, NilFacts, CallOnly, Zenon

LEMMA BeginLoadStep ==
    ASSUME Inv, UNCHANGED deployment, NEW c \in Callers, NEW e \in Engines, NEW t \in Tenants,
           NEW m \in Models, BeginLoad(c, e, t, m)
    PROVE  Inv'
<1>1. TypeOK /\ CacheOK(e, t)
  BY Zenon DEF Inv
<1>2. /\ models[e][t].revision \in Nat /\ Len(stored[t]) \in Nat /\ defaultModel[e].revision \in Nat
  BY <1>1, CacheTypes, EntryFacts, Zenon DEF TypeOK
<1>3. /\ resolveModel(e, t).revision + 1 \in Nat /\ resolveModel(e, t).revision + 1 > 0
      /\ models[e][t].revision < resolveModel(e, t).revision + 1
  <2>1. CASE models[e][t] = Nil
    BY <1>2, <2>1, NilFacts DEF resolveModel
  <2>2. CASE models[e][t] # Nil
    BY <1>2, <2>2 DEF resolveModel
  <2> QED
    BY <2>1, <2>2, Zenon
<1>4. PICK k : k = Call(IF Persistent THEN "save" ELSE "activate", "load", e, t,
                        [model |-> m, revision |-> resolveModel(e, t).revision + 1])
  BY Zenon
<1>5. /\ k.pc = IF Persistent THEN "save" ELSE "activate"
      /\ k.kind = "load" /\ k.engine = e /\ k.tenant = t /\ k.since = Len(stored[t])
      /\ k.entry.revision = resolveModel(e, t).revision + 1 /\ k.entry.model = m
      /\ k.entry \in Entries
  BY <1>3, <1>4, Zenon DEF Call, Entries
<1>6. k \in BusyCalls
  <2>1. (IF Persistent THEN "save" ELSE "activate") \in Steps
    BY Zenon DEF Steps
  <2>2. [model |-> m, revision |-> resolveModel(e, t).revision + 1] \in Entries \cup {Nil}
    BY <1>3, Zenon DEF Entries
  <2> QED
    BY <1>2, <1>4, <2>1, <2>2, Zenon DEF Call, BusyCalls
<1>7. /\ modelUpdateMu' = [modelUpdateMu EXCEPT ![e] = {c}] /\ modelUpdateMu[e] = {}
      /\ Goto(c, k) /\ UNCHANGED <<deployment, stored, models, defaultModel, notified, listed>>
  BY <1>4, Zenon DEF BeginLoad
<1>8. /\ modelUpdateMu' \in [Engines -> SUBSET Callers] /\ c \in modelUpdateMu'[e]
      /\ \A f \in Engines : \A b, d \in modelUpdateMu'[f] : b = d
      /\ \A f \in Engines : \A d \in modelUpdateMu[f] : d = c \/ d \in modelUpdateMu'[f]
  <2>1. /\ modelUpdateMu \in [Engines -> SUBSET Callers]
        /\ \A f \in Engines : \A b, d \in modelUpdateMu[f] : b = d
    BY <1>1, Zenon DEF TypeOK
  <2> QED
    BY <1>7, <2>1, Zenon
<1>9. KindOK(k) /\ LocalOK(k) /\ ToldOK(k)
  BY <1>3, <1>5, Zenon DEF KindOK, LocalOK, ToldOK, Active
<1>10. StoredOK(k)
  <2>1. k.since <= Len(stored[k.tenant])
    BY <1>2, <1>5
  <2> QED
    BY <1>5, <2>1, Zenon DEF StoredOK
<1> QED
  BY <1>5, <1>6, <1>7, <1>8, <1>9, <1>10, CallOnly, Zenon

LEMMA BeginOtherStep ==
    ASSUME Inv, UNCHANGED deployment, NEW c \in Callers, NEW e \in Engines, NEW t \in Tenants,
           BeginOperation(c, e, t) \/ \E m \in Models : BeginSave(c, e, t, m)
    PROVE  Inv'
<1>1. TypeOK
  BY Zenon DEF Inv
<1>2. Len(stored[t]) \in Nat /\ 0 \in Nat /\ Len(stored[t]) <= Len(stored[t])
  BY <1>1, CacheTypes
<1>3. ASSUME NEW k \in BusyCalls, Goto(c, k), k.tenant = t, k.since = Len(stored[t]),
             UNCHANGED <<stored, models, defaultModel, modelUpdateMu, notified, listed>>,
             \/ k.pc = "save" /\ k.kind = "save" /\ Persistent
             \/ k.pc = "get" /\ k.kind = "operate" /\ Persistent
             \/ k.pc = "resolve" /\ k.kind = "operate" /\ ~Persistent
      PROVE  Inv'
  <2>1. KindOK(k) /\ StoredOK(k) /\ LocalOK(k) /\ ToldOK(k)
    BY <1>2, <1>3, Zenon DEF KindOK, StoredOK, LocalOK, ToldOK
  <2>2. k.kind # "load"
    BY <1>3, Zenon
  <2> QED
    BY <1>1, <1>3, <2>1, <2>2, CallOnly, Zenon DEF TypeOK
<1>4. ASSUME NEW m \in Models, BeginSave(c, e, t, m) PROVE Inv'
  <2>1. PICK k : k = Call("save", "save", e, t, [model |-> m, revision |-> 0])
    BY Zenon
  <2>2. /\ k.pc = "save" /\ k.kind = "save" /\ k.tenant = t /\ k.since = Len(stored[t])
    BY <2>1, Zenon DEF Call
  <2>3. k \in BusyCalls
    <3>1. [model |-> m, revision |-> 0] \in Entries \cup {Nil}
      BY <1>2, Zenon DEF Entries
    <3> QED
      BY <1>2, <2>1, <3>1, Zenon DEF Call, BusyCalls, Steps
  <2> QED
    BY <1>3, <1>4, <2>1, <2>2, <2>3, Zenon DEF BeginSave
<1>5. CASE BeginOperation(c, e, t)
  <2>1. PICK k : k = Call(IF Persistent THEN "get" ELSE "resolve", "operate", e, t, Nil)
    BY Zenon
  <2>2. /\ k.pc = IF Persistent THEN "get" ELSE "resolve"
        /\ k.kind = "operate" /\ k.tenant = t /\ k.since = Len(stored[t])
    BY <2>1, Zenon DEF Call
  <2>3. k \in BusyCalls
    <3>1. (IF Persistent THEN "get" ELSE "resolve") \in Steps
      BY Zenon DEF Steps
    <3> QED
      BY <1>2, <2>1, <3>1, NilFacts, Zenon DEF Call, BusyCalls
  <2> QED
    BY <1>3, <1>5, <2>1, <2>2, <2>3, Zenon DEF BeginOperation
<1> QED
  BY <1>4, <1>5, Zenon

\* A call goes on to another step with another entry, and changes nothing else.
LEMMA CallMoves ==
    ASSUME Inv, UNCHANGED <<deployment, stored, models, defaultModel, modelUpdateMu, notified, listed>>,
           NEW c \in Callers, call[c].pc # "idle", NEW pc \in Steps, NEW n \in Entries \cup {Nil},
           NEW k, k = [call[c] EXCEPT !.pc = pc, !.entry = n], Goto(c, k),
           KindOK(k) /\ StoredOK(k) /\ LocalOK(k) /\ ToldOK(k)
    PROVE  Inv'
<1>1. TypeOK /\ call[c] \in BusyCalls
  BY CallTypes, Zenon DEF Inv
<1>2. k \in BusyCalls /\ k.kind = call[c].kind /\ k.engine = call[c].engine
  BY <1>1, Zenon DEF BusyCalls
<1>3. k.kind = "load" => c \in modelUpdateMu'[k.engine]
  BY <1>2, Zenon DEF Inv, CallOK
<1> QED
  BY <1>1, <1>2, <1>3, CallOnly, ZenonT(30) DEF TypeOK

LEMMA ReadForNotifyStep ==
    ASSUME Inv, UNCHANGED deployment, NEW c \in Callers, ReadForNotify(c)
    PROVE  Inv'
<1>1. PICK e, t : e = call[c].engine /\ t = call[c].tenant
  BY Zenon
<1>2. call[c].pc = "notify" /\ call[c].pc # "idle" /\ TypeOK
  BY Zenon DEF ReadForNotify, Inv
<1>3. e \in Engines /\ t \in Tenants /\ call[c].entry.revision \in Nat /\ call[c] \in BusyCalls
  BY <1>1, <1>2, CallTypes, Zenon
<1>4. CacheOK(e, t) /\ KindOK(call[c]) /\ StoredOK(call[c]) /\ ToldOK(call[c])
  BY <1>2, <1>3, Zenon DEF Inv, CallOK
<1>5. /\ models[e][t].revision \in Nat /\ models[e][t] \in Entries \cup {Nil}
      /\ notified[e][t].revision \in Nat
  BY <1>2, <1>3, CacheTypes, Zenon
<1>6. /\ models[e][t].revision > 0 /\ models[e][t] # Nil
  <2>1. call[c].entry.revision > 0 /\ models[e][t].revision >= call[c].entry.revision
    BY <1>1, <1>2, <1>4, Zenon DEF ToldOK, Active
  <2>2. models[e][t].revision > 0
    BY <1>3, <1>5, <2>1
  <2> QED
    BY <1>5, <2>2, EntryFacts, Zenon
<1>7. PICK k : k = [call[c] EXCEPT !.pc = "publish", !.entry = models[e][t]]
  BY Zenon
<1>8. /\ k.pc = "publish" /\ k.entry = models[e][t] /\ k.kind = call[c].kind /\ k.engine = e /\ k.tenant = t
      /\ k.since = call[c].since
  BY <1>1, <1>3, <1>7, Zenon DEF BusyCalls
<1>9. /\ Goto(c, k) /\ UNCHANGED <<deployment, stored, models, defaultModel, modelUpdateMu, notified, listed>>
  BY <1>1, <1>6, <1>7, Zenon DEF ReadForNotify, resolveModel
<1>10. KindOK(k) /\ LocalOK(k)
  BY <1>2, <1>4, <1>8, Zenon DEF KindOK, LocalOK
<1>11. StoredOK(k)
  BY <1>1, <1>4, <1>8, Zenon DEF StoredOK
<1>12. ToldOK(k)
  <2>1. models[e][t].revision <= models[e][t].revision
    BY <1>5
  <2>2. notified[e][t].revision <= models[e][t].revision
    BY <1>4, Zenon DEF CacheOK
  <2> QED
    BY <1>8, <2>1, <2>2, Zenon DEF ToldOK, Active, Told
<1>13. "publish" \in Steps
  BY Zenon DEF Steps
<1> QED
  BY <1>2, <1>5, <1>7, <1>9, <1>10, <1>11, <1>12, <1>13, CallMoves, Zenon

LEMMA ResolveStep ==
    ASSUME Inv, UNCHANGED deployment, NEW c \in Callers, Resolve(c)
    PROVE  Inv'
<1>1. PICK e, t : e = call[c].engine /\ t = call[c].tenant
  BY Zenon
<1>2. call[c].pc = "resolve" /\ call[c].pc # "idle" /\ TypeOK
  BY Zenon DEF Resolve, Inv
<1>3. e \in Engines /\ t \in Tenants /\ call[c].since \in Nat /\ call[c] \in BusyCalls
  BY <1>1, <1>2, CallTypes, Zenon
<1>4. CacheOK(e, t) /\ KindOK(call[c]) /\ StoredOK(call[c])
  BY <1>2, <1>3, Zenon DEF Inv, CallOK
<1>5. resolveModel(e, t) \in Entries \cup {Nil}
  <2>1. models[e][t] \in Entries \cup {Nil} /\ defaultModel[e] \in Entries \cup {Nil}
    BY <1>2, <1>3, CacheTypes, Zenon DEF TypeOK
  <2> QED
    BY <2>1, Zenon DEF resolveModel
<1>6. PICK k : k = [call[c] EXCEPT !.pc = "evaluate", !.entry = resolveModel(e, t)]
  BY Zenon
<1>7. /\ k.pc = "evaluate" /\ k.entry = resolveModel(e, t) /\ k.kind = call[c].kind /\ k.engine = e
      /\ k.tenant = t /\ k.since = call[c].since
  BY <1>1, <1>3, <1>6, Zenon DEF BusyCalls
<1>8. /\ Goto(c, k) /\ UNCHANGED <<deployment, stored, models, defaultModel, modelUpdateMu, notified, listed>>
  BY <1>1, <1>6, Zenon DEF Resolve
<1>9. KindOK(k) /\ LocalOK(k) /\ ToldOK(k)
  BY <1>2, <1>4, <1>7, Zenon DEF KindOK, LocalOK, ToldOK
<1>10. StoredOK(k)
  <2>1. ASSUME Persistent, k.since > 0
        PROVE  k.entry.revision >= k.since /\ IsStored(k.tenant, k.entry)
    <3>1. models[e][t] # Nil /\ models[e][t].revision >= k.since
      BY <1>1, <1>2, <1>4, <1>7, <2>1, Zenon DEF StoredOK, Active
    <3>2. k.entry = models[e][t]
      BY <1>7, <3>1, Zenon DEF resolveModel
    <3> QED
      BY <1>4, <1>7, <2>1, <3>1, <3>2, Zenon DEF CacheOK, ActiveOK
  <2> QED
    BY <1>1, <1>4, <1>7, <2>1, Zenon DEF StoredOK
<1>11. "evaluate" \in Steps
  BY Zenon DEF Steps
<1> QED
  BY <1>2, <1>5, <1>6, <1>8, <1>9, <1>10, <1>11, CallMoves, Zenon

LEMMA GetStep ==
    ASSUME Inv, UNCHANGED deployment, NEW c \in Callers, Get(c)
    PROVE  Inv'
<1>1. PICK e, t : e = call[c].engine /\ t = call[c].tenant
  BY Zenon
<1>2. call[c].pc = "get" /\ call[c].pc # "idle" /\ TypeOK
  BY Zenon DEF Get, Inv
<1>3. /\ e \in Engines /\ t \in Tenants /\ call[c].since \in Nat /\ call[c] \in BusyCalls
      /\ call[c].entry \in Entries \cup {Nil}
  BY <1>1, <1>2, CallTypes, Zenon
<1>4. KindOK(call[c]) /\ StoredOK(call[c]) /\ Persistent /\ call[c].kind = "operate"
  BY <1>2, <1>3, Zenon DEF Inv, CallOK, KindOK
<1>5. /\ stored[t] \in Seq(Models) /\ Len(stored[t]) \in Nat /\ call[c].since <= Len(stored[t])
  BY <1>1, <1>2, <1>3, <1>4, CacheTypes, Zenon DEF StoredOK
<1>6. UNCHANGED <<deployment, stored, models, defaultModel, modelUpdateMu, notified, listed>>
  BY Zenon DEF Get
<1>7. CASE stored[t] = <<>>
  <2>1. PICK k : k = [call[c] EXCEPT !.pc = "resolve"]
    BY Zenon
  <2>2. /\ k.pc = "resolve" /\ k.kind = "operate" /\ k.tenant = t /\ k.since = call[c].since
        /\ k = [call[c] EXCEPT !.pc = "resolve", !.entry = call[c].entry]
    BY <1>1, <1>3, <1>4, <2>1, Zenon DEF BusyCalls
  <2>3. Goto(c, k)
    BY <1>1, <1>7, <2>1, Zenon DEF Get
  <2>4. ~(k.since > 0)
    BY <1>3, <1>5, <1>7, <2>2
  <2>5. KindOK(k) /\ LocalOK(k) /\ ToldOK(k) /\ StoredOK(k)
    BY <1>4, <1>5, <2>2, <2>4, Zenon DEF KindOK, LocalOK, ToldOK, StoredOK
  <2>6. "resolve" \in Steps
    BY Zenon DEF Steps
  <2> QED
    BY <1>2, <1>3, <1>6, <2>2, <2>3, <2>5, <2>6, CallMoves, Zenon
<1>8. CASE stored[t] # <<>>
  <2>0. PICK n : n = [model |-> stored[t][Len(stored[t])], revision |-> Len(stored[t])]
    BY Zenon
  <2>1. PICK k : k = [call[c] EXCEPT !.pc = "activate", !.entry = n]
    BY Zenon
  <2>2. /\ k.pc = "activate" /\ k.kind = "operate" /\ k.tenant = t /\ k.since = call[c].since
        /\ k.entry = n
    BY <1>1, <1>3, <1>4, <2>1, Zenon DEF BusyCalls
  <2>3. Goto(c, k)
    BY <1>1, <1>8, <2>0, <2>1, Zenon DEF Get
  <2>4. Len(stored[t]) \in 1..Len(stored[t]) /\ stored[t][Len(stored[t])] \in Models
    BY <1>5, <1>8
  <2>5. n.revision = Len(stored[t]) /\ n.model = stored[t][Len(stored[t])] /\ n \in Entries
    BY <1>5, <2>0, <2>4, Zenon DEF Entries
  <2>6. n.revision > 0 /\ n.revision >= k.since
    BY <1>3, <1>5, <2>2, <2>4, <2>5
  <2>7. IsStored(t, n)
    BY <2>4, <2>5, Zenon DEF IsStored
  <2>8. KindOK(k) /\ LocalOK(k) /\ ToldOK(k) /\ StoredOK(k)
    BY <1>4, <1>5, <2>2, <2>6, <2>7, Zenon DEF KindOK, LocalOK, ToldOK, StoredOK
  <2>9. "activate" \in Steps /\ n \in Entries \cup {Nil}
    BY <2>5, Zenon DEF Steps
  <2> QED
    BY <1>2, <1>6, <2>1, <2>3, <2>8, <2>9, CallMoves, Zenon
<1> QED
  BY <1>7, <1>8, Zenon

-----------------------------------------------------------------------------
(* The steps that change the store, the cache or what subscribers were told *)

LEMMA SaveStep ==
    ASSUME Inv, UNCHANGED deployment, NEW c \in Callers, Save(c)
    PROVE  Inv'
<1>1. PICK t, m, k : /\ t = call[c].tenant /\ m = call[c].entry.model
                     /\ k = [call[c] EXCEPT !.pc = "activate", !.entry.revision = Len(stored[t]) + 1]
  BY Zenon
<1>2. call[c].pc = "save" /\ call[c].pc # "idle" /\ TypeOK /\ m \in Models
  BY <1>1, Zenon DEF Save, Inv, Compiles
<1>3. /\ t \in Tenants /\ call[c] \in BusyCalls /\ call[c].entry \in Entries \cup {Nil}
      /\ call[c].since \in Nat
  BY <1>1, <1>2, CallTypes, Zenon
<1>4. /\ KindOK(call[c]) /\ StoredOK(call[c]) /\ Persistent /\ call[c].kind # "operate"
      /\ call[c].kind = "load" => c \in modelUpdateMu[call[c].engine]
  BY <1>2, <1>3, Zenon DEF Inv, CallOK, KindOK
<1>5. stored \in [Tenants -> Seq(Models)] /\ stored[t] \in Seq(Models) /\ Len(stored[t]) \in Nat
  BY <1>2, <1>3 DEF TypeOK
<1>6. /\ stored' = [stored EXCEPT ![t] = Append(stored[t], m)] /\ Goto(c, k)
      /\ UNCHANGED <<models, defaultModel, modelUpdateMu, notified, listed>>
  BY <1>1, Zenon DEF Save
<1>7. /\ Append(stored[t], m) \in Seq(Models) /\ Len(Append(stored[t], m)) = Len(stored[t]) + 1
      /\ \A i \in 1..Len(stored[t]) : Append(stored[t], m)[i] = stored[t][i]
      /\ Append(stored[t], m)[Len(stored[t]) + 1] = m
      /\ Len(stored[t]) + 1 \in Nat /\ Len(stored[t]) + 1 \in 1..(Len(stored[t]) + 1)
      /\ Len(stored[t]) + 1 > 0 /\ Len(stored[t]) <= Len(stored[t]) + 1
  BY <1>2, <1>5
<1>8. /\ stored' \in [Tenants -> Seq(Models)] /\ stored'[t] = Append(stored[t], m)
      /\ \A u \in Tenants \ {t} : stored'[u] = stored[u]
  BY <1>3, <1>5, <1>6, <1>7, Zenon
<1>9. \A u \in Tenants : Grows(u)
  <2>1. \A u \in Tenants \ {t} : Grows(u)
    <3>1. \A u \in Tenants : Len(stored[u]) \in Nat
      BY <1>5
    <3>2. \A u \in Tenants : Len(stored[u]) <= Len(stored[u])
      BY <3>1
    <3> QED
      BY <1>8, <3>2, Zenon DEF Grows
  <2>2. Grows(t)
    BY <1>7, <1>8, Zenon DEF Grows
  <2> QED
    BY <2>1, <2>2, Zenon
<1>10. /\ k.pc = "activate" /\ k.kind = call[c].kind /\ k.tenant = t /\ k.engine = call[c].engine
       /\ k.since = call[c].since /\ k.entry.revision = Len(stored[t]) + 1 /\ k.entry.model = m
       /\ k \in BusyCalls
  <2>1. PICK n : n = [call[c].entry EXCEPT !.revision = Len(stored[t]) + 1]
    BY Zenon
  <2>2. n.revision = Len(stored[t]) + 1 /\ n.model = m /\ n \in Entries
    <3>1. call[c].entry = [model |-> m, revision |-> call[c].entry.revision]
      BY <1>1, <1>3, Zenon DEF Entries, Nil
    <3>2. n = [model |-> m, revision |-> Len(stored[t]) + 1]
      BY <2>1, <3>1
    <3> QED
      BY <1>2, <1>7, <3>2, Zenon DEF Entries
  <2>3. k = [call[c] EXCEPT !.pc = "activate", !.entry = n]
    BY <1>1, <1>3, <2>1, Zenon DEF BusyCalls
  <2> QED
    BY <1>1, <1>3, <2>2, <2>3, Zenon DEF BusyCalls, Steps
<1>11. /\ call' \in [Callers -> {Idle} \cup BusyCalls] /\ call'[c] = k
       /\ \A d \in Callers \ {c} : call'[d] = call[d]
  <2>1. call \in [Callers -> {Idle} \cup BusyCalls]
    BY <1>2, Zenon DEF TypeOK
  <2> QED
    BY <1>6, <1>10, <2>1 DEF Goto
<1>12. TypeOK'
  BY <1>2, <1>6, <1>8, <1>11, Zenon DEF TypeOK
<1>13. ASSUME NEW e \in Engines, NEW u \in Tenants PROVE CacheOK(e, u)'
  BY <1>6, <1>9, <1>12, CacheStays, Zenon
<1>14. ASSUME NEW d \in Callers \ {c} PROVE CallOK(d)'
  <2>1. call[d].pc # "idle" => call[d].tenant \in Tenants /\ call[d].engine \in Engines
    BY <1>2, CallTypes, Zenon
  <2>2. call[d].pc # "idle" /\ call[d].kind = "load" => d \in modelUpdateMu'[call[d].engine]
    BY <1>6, Zenon DEF Inv, CallOK
  <2>3. Rises(call[d])
    BY <1>6, Zenon DEF Rises
  <2> QED
    BY <1>6, <1>9, <1>11, <1>12, <2>1, <2>2, <2>3, OthersStay, Zenon
<1>15. CallOK(c)'
  <2>1. Persistent' = Persistent
    BY Zenon DEF Persistent
  <2>2. IsStored(t, k.entry)'
    BY <1>7, <1>8, <1>10, Zenon DEF IsStored
  <2>3. k.since <= Len(stored'[t])
    <3>1. call[c].since <= Len(stored[t])
      BY <1>1, <1>4, Zenon DEF StoredOK
    <3> QED
      BY <1>3, <1>5, <1>7, <1>8, <1>10, <3>1
  <2>4. StoredOK(k)'
    BY <1>4, <1>10, <2>2, <2>3, Zenon DEF StoredOK
  <2>5. KindOK(k)' /\ LocalOK(k)' /\ ToldOK(k)'
    BY <1>4, <1>7, <1>10, <2>1, Zenon DEF KindOK, LocalOK, ToldOK
  <2>6. k.kind = "load" => c \in modelUpdateMu'[k.engine]
    BY <1>4, <1>6, <1>10, Zenon
  <2> QED
    BY <1>11, <2>4, <2>5, <2>6, Zenon DEF CallOK
<1> QED
  BY <1>12, <1>13, <1>14, <1>15, Zenon DEF Inv

\* An activation, by whoever it is, leaves the cache in order.
LEMMA CacheRises ==
    ASSUME Inv, TypeOK', UNCHANGED <<deployment, stored, notified>>,
           NEW e \in Engines, NEW t \in Tenants, NEW n \in Entries, n.revision > 0,
           Persistent => IsStored(t, n), models' = Activated(e, t, n),
           \A f \in Engines, u \in Tenants : listed'[f][u] = listed[f][u] \/ listed'[f][u] = <<>>
    PROVE  /\ \A f \in Engines, u \in Tenants : CacheOK(f, u)'
           /\ models'[e][t].revision >= n.revision /\ models'[e][t] # Nil
           /\ models[e][t].revision < n.revision => models'[e][t] = n
           /\ \A f \in Engines, u \in Tenants :
                 \/ models'[f][u] = models[f][u]
                 \/ f = e /\ u = t /\ models'[f][u].revision > models[f][u].revision
<1>1. TypeOK /\ Persistent' = Persistent /\ (\A u \in Tenants : Grows(u))
  BY UnchangedGrows, Zenon DEF Inv, Persistent
<1>2. /\ models[e][t].revision \in Nat /\ n.revision \in Nat /\ notified[e][t].revision \in Nat
      /\ models[e][t] \in Entries \cup {Nil}
  BY <1>1, CacheTypes, EntryFacts, Zenon
<1>3. /\ \A f \in Engines, u \in Tenants : f # e \/ u # t => models'[f][u] = models[f][u]
      /\ \/ /\ models'[e][t] = models[e][t] /\ models[e][t] # Nil
            /\ n.revision <= models[e][t].revision
         \/ models'[e][t] = n /\ models[e][t].revision < n.revision
  <2>1. /\ \A f \in Engines, u \in Tenants : f # e \/ u # t => Activated(e, t, n)[f][u] = models[f][u]
        /\ \/ /\ Activated(e, t, n)[e][t] = models[e][t] /\ models[e][t] # Nil
              /\ n.revision <= models[e][t].revision
           \/ Activated(e, t, n)[e][t] = n /\ models[e][t].revision < n.revision
    BY <1>1, ActivatedFacts
  <2>2. PICK a : a = Activated(e, t, n)
    BY Zenon
  <2>3. models' = a
    BY <2>2, Zenon
  <2> QED
    BY <2>1, <2>2, <2>3, Zenon
<1>4. models'[e][t].revision >= n.revision /\ models'[e][t].revision >= models[e][t].revision
  BY <1>2, <1>3
<1>5. models[e][t].revision < n.revision => models'[e][t] = n
  BY <1>2, <1>3
<1>6. models'[e][t] # Nil
  BY <1>3, EntryFacts, Zenon
<1>7. ASSUME NEW f \in Engines, NEW u \in Tenants, models'[f][u] = models[f][u]
      PROVE  CacheOK(f, u)'
  BY <1>1, <1>7, CacheStays, Zenon
<1>8. ASSUME models'[e][t] = n PROVE CacheOK(e, t)'
  <2>1. ActiveOK(e, t)'
    <3>1. Persistent => IsStored(t, n)'
      BY Zenon DEF IsStored
    <3> QED
      BY <1>1, <1>8, <3>1, Zenon DEF ActiveOK
  <2>2. CacheOK(e, t) /\ Len(stored[t]) \in Nat
    BY <1>1, CacheTypes, Zenon DEF Inv
  <2>3. ListedOK(e, t)'
    <3>1. CASE listed'[e][t] = listed[e][t]
      BY <1>1, <2>2, <3>1, Zenon DEF CacheOK, ListedOK
    <3>2. CASE listed'[e][t] = <<>>
      BY <2>2, <3>2 DEF ListedOK
    <3> QED
      BY <3>1, <3>2, Zenon
  <2>4. notified'[e][t].revision <= models'[e][t].revision
    <3>1. notified[e][t].revision <= models[e][t].revision
      BY <2>2, Zenon DEF CacheOK
    <3> QED
      BY <1>2, <1>4, <1>8, <3>1
  <2> QED
    BY <2>1, <2>3, <2>4, Zenon DEF CacheOK
<1> QED
  BY <1>3, <1>4, <1>5, <1>6, <1>7, <1>8, Zenon

\* Two loads never run on one engine.
LEMMA LoadsExclude ==
    ASSUME Inv, NEW c \in Callers, NEW d \in Callers, call[c].pc # "idle", call[d].pc # "idle",
           call[c].kind = "load", call[d].kind = "load", call[c].engine = call[d].engine
    PROVE  c = d
<1>1. c \in modelUpdateMu[call[c].engine] /\ d \in modelUpdateMu[call[c].engine]
  BY Zenon DEF Inv, CallOK
<1>2. TypeOK /\ call[c].engine \in Engines
  BY CallTypes, Zenon DEF Inv
<1> QED
  BY <1>1, <1>2, Zenon DEF TypeOK

LEMMA ActivateStep ==
    ASSUME Inv, UNCHANGED deployment, NEW c \in Callers, Activate(c)
    PROVE  Inv'
<1>1. PICK e, t, n : e = call[c].engine /\ t = call[c].tenant /\ n = call[c].entry
  BY Zenon
<1>2. /\ call[c].pc = "activate" /\ call[c].pc # "idle" /\ TypeOK
      /\ models' = Activated(e, t, n)
      /\ UNCHANGED <<deployment, stored, defaultModel, modelUpdateMu, notified, listed>>
  BY <1>1, Zenon DEF Activate, Inv
<1>3. /\ e \in Engines /\ t \in Tenants /\ call[c] \in BusyCalls /\ n \in Entries \cup {Nil}
      /\ n.revision \in Nat /\ call[c].since \in Nat /\ call[c].kind \in {"load", "save", "operate"}
  BY <1>1, <1>2, CallTypes, Zenon
<1>4. /\ KindOK(call[c]) /\ StoredOK(call[c]) /\ LocalOK(call[c]) /\ ToldOK(call[c])
      /\ call[c].kind = "load" => c \in modelUpdateMu[e]
  BY <1>1, <1>2, Zenon DEF Inv, CallOK
<1>5. n.revision > 0 /\ n \in Entries
  BY <1>1, <1>2, <1>3, <1>4, EntryFacts, Zenon DEF ToldOK
<1>6. PICK k : k = IF call[c].kind = "save" THEN Idle
                   ELSE [call[c] EXCEPT !.pc = IF call[c].kind = "load" THEN "notify" ELSE "resolve"]
  BY Zenon
<1>7. Goto(c, k)
  BY <1>6, Zenon DEF Activate
<1>8. /\ call[c].kind = "save" => k = Idle
      /\ call[c].kind # "save" =>
            /\ k \in BusyCalls /\ k.kind = call[c].kind /\ k.engine = e /\ k.tenant = t /\ k.entry = n
            /\ k.since = call[c].since /\ k.pc = IF call[c].kind = "load" THEN "notify" ELSE "resolve"
  <2>1. (IF call[c].kind = "load" THEN "notify" ELSE "resolve") \in Steps
    BY Zenon DEF Steps
  <2> QED
    BY <1>1, <1>3, <1>6, <2>1, Zenon DEF BusyCalls
<1>9. /\ call' \in [Callers -> {Idle} \cup BusyCalls] /\ call'[c] = k
      /\ \A d \in Callers \ {c} : call'[d] = call[d]
  <2>1. call \in [Callers -> {Idle} \cup BusyCalls]
    BY <1>2, Zenon DEF TypeOK
  <2> QED
    BY <1>3, <1>7, <1>8, <2>1 DEF Goto
<1>10. models' \in [Engines -> [Tenants -> Entries \cup {Nil}]]
  BY <1>2, <1>3, <1>5, ActivatedFacts
<1>11. TypeOK'
  BY <1>2, <1>9, <1>10, Zenon DEF TypeOK
<1>12. Persistent => IsStored(t, n)
  BY <1>1, <1>2, <1>4, Zenon DEF StoredOK
<1>13. /\ \A f \in Engines, u \in Tenants : CacheOK(f, u)'
       /\ models'[e][t].revision >= n.revision /\ models'[e][t] # Nil
       /\ models[e][t].revision < n.revision => models'[e][t] = n
       /\ \A f \in Engines, u \in Tenants :
             \/ models'[f][u] = models[f][u]
             \/ f = e /\ u = t /\ models'[f][u].revision > models[f][u].revision
  BY <1>2, <1>3, <1>5, <1>11, <1>12, CacheRises
<1>14. ASSUME NEW d \in Callers \ {c} PROVE CallOK(d)'
  <2>1. call[d].pc # "idle" => call[d].tenant \in Tenants /\ call[d].engine \in Engines
    BY <1>2, CallTypes, Zenon
  <2>2. call[d].pc # "idle" /\ call[d].kind = "load" => d \in modelUpdateMu'[call[d].engine]
    BY <1>2, Zenon DEF Inv, CallOK
  <2>3. ASSUME call[d].pc # "idle" PROVE Rises(call[d])
    <3>1. CASE models'[call[d].engine][call[d].tenant] = models[call[d].engine][call[d].tenant]
      BY <3>1, Zenon DEF Rises
    <3>2. CASE /\ call[d].engine = e
               /\ models'[call[d].engine][call[d].tenant].revision
                     > models[call[d].engine][call[d].tenant].revision
      <4>1. ASSUME ~Persistent PROVE call[d].kind # "load"
        <5>1. call[c].kind = "load"
          BY <1>2, <1>3, <1>4, <4>1, Zenon DEF KindOK
        <5> QED
          BY <1>1, <1>2, <2>3, <3>2, <5>1, LoadsExclude, Zenon
      <4> QED
        BY <3>2, <4>1, Zenon DEF Rises
    <3> QED
      BY <1>13, <2>1, <2>3, <3>1, <3>2, Zenon
  <2>4. call[d].pc # "idle" => Grows(call[d].tenant)
    BY <1>2, <2>1, UnchangedGrows, Zenon
  <2> QED
    BY <1>2, <1>9, <1>11, <2>2, <2>3, <2>4, OthersStay, Zenon
<1>15. CallOK(c)'
  <2> SUFFICES ASSUME call[c].kind # "save" PROVE CallOK(c)'
    BY <1>8, <1>9, NilFacts, Zenon DEF CallOK
  <2>1. Persistent' = Persistent
    BY Zenon DEF Persistent
  <2>2. Persistent => IsStored(t, n)'
    BY <1>2, <1>12, Zenon DEF IsStored
  <2>3. KindOK(k)'
    BY <1>3, <1>8, Zenon DEF KindOK
  <2>4. LocalOK(k)'
    <3>1. ~Persistent => models'[e][t] = n
      BY <1>1, <1>2, <1>4, <1>13, Zenon DEF LocalOK, Active
    <3> QED
      BY <1>8, <2>1, <3>1, Zenon DEF LocalOK, Active
  <2>5. ToldOK(k)'
    BY <1>5, <1>8, <1>13, Zenon DEF ToldOK, Active
  <2>6. StoredOK(k)'
    <3> SUFFICES ASSUME Persistent PROVE StoredOK(k)'
      BY <2>1, Zenon DEF StoredOK
    <3>1. k.since <= Len(stored'[t])
      BY <1>1, <1>2, <1>4, <1>8, Zenon DEF StoredOK
    <3>2. k.kind = "operate" => models'[e][t].revision >= k.since
      <4>1. k.kind = "operate" => n.revision >= k.since
        BY <1>1, <1>2, <1>4, <1>8, Zenon DEF StoredOK
      <4>2. models'[e][t].revision \in Nat
        BY <1>3, <1>11, CacheTypesNext, Zenon
      <4> QED
        BY <1>3, <1>8, <1>13, <4>1, <4>2
    <3> QED
      BY <1>3, <1>8, <1>13, <2>2, <3>1, <3>2, Zenon DEF StoredOK, Active
  <2>7. k.kind = "load" => c \in modelUpdateMu'[k.engine]
    BY <1>2, <1>4, <1>8, Zenon
  <2> QED
    BY <1>9, <2>3, <2>4, <2>5, <2>6, <2>7, Zenon DEF CallOK
<1> QED
  BY <1>11, <1>13, <1>14, <1>15, Zenon DEF Inv

LEMMA OnModelUpdateStep ==
    ASSUME Inv, UNCHANGED deployment, NEW c \in Callers, OnModelUpdate(c)
    PROVE  Inv'
<1>1. PICK e, t, n : e = call[c].engine /\ t = call[c].tenant /\ n = call[c].entry
  BY Zenon
<1>2. /\ call[c].pc = "publish" /\ call[c].pc # "idle" /\ TypeOK /\ Unlock(c) /\ Goto(c, Idle)
      /\ notified' = [notified EXCEPT ![e][t] = n]
      /\ UNCHANGED <<deployment, stored, models, defaultModel, listed>>
  BY <1>1, Zenon DEF OnModelUpdate, Inv
<1>3. e \in Engines /\ t \in Tenants /\ n \in Entries \cup {Nil}
  BY <1>1, <1>2, CallTypes, Zenon
<1>4. n.revision <= models[e][t].revision /\ call[c].kind = "load"
  BY <1>1, <1>2, Zenon DEF Inv, CallOK, ToldOK, KindOK, Active
<1>5. /\ notified' \in [Engines -> [Tenants -> Entries \cup {Nil}]] /\ notified'[e][t] = n
      /\ \A f \in Engines, u \in Tenants : f # e \/ u # t => notified'[f][u] = notified[f][u]
  <2>1. notified \in [Engines -> [Tenants -> Entries \cup {Nil}]]
    BY <1>2, Zenon DEF TypeOK
  <2> QED
    BY <1>2, <1>3, <2>1
<1>6. /\ call' \in [Callers -> {Idle} \cup BusyCalls] /\ call'[c] = Idle
      /\ \A d \in Callers \ {c} : call'[d] = call[d]
  <2>1. call \in [Callers -> {Idle} \cup BusyCalls]
    BY <1>2, Zenon DEF TypeOK
  <2> QED
    BY <1>2, <2>1 DEF Goto
<1>7. /\ modelUpdateMu' \in [Engines -> SUBSET Callers]
      /\ \A f \in Engines : \A b, d \in modelUpdateMu'[f] : b = d
      /\ \A f \in Engines : \A d \in modelUpdateMu[f] : d = c \/ d \in modelUpdateMu'[f]
  BY <1>2, UnlockFacts, Zenon
<1>8. TypeOK' /\ (\A u \in Tenants : Grows(u))
  BY <1>2, <1>5, <1>6, <1>7, UnchangedGrows, Zenon DEF TypeOK
<1>9. ASSUME NEW f \in Engines, NEW u \in Tenants PROVE CacheOK(f, u)'
  <2>1. CASE f # e \/ u # t
    BY <1>2, <1>5, <1>8, <2>1, CacheStays, Zenon
  <2>2. CASE f = e /\ u = t
    <3>1. CacheOK(e, t) /\ Persistent' = Persistent
      BY <1>2, <1>3, Zenon DEF Inv, Persistent
    <3>2. ActiveOK(e, t)' /\ ListedOK(e, t)'
      BY <1>2, <3>1, Zenon DEF CacheOK, ActiveOK, ListedOK, IsStored
    <3> QED
      BY <1>2, <1>4, <1>5, <2>2, <3>2, Zenon DEF CacheOK
  <2> QED
    BY <2>1, <2>2, Zenon
<1>10. ASSUME NEW d \in Callers \ {c} PROVE CallOK(d)'
  <2>1. call[d].pc # "idle" => call[d].tenant \in Tenants /\ call[d].engine \in Engines
    BY <1>2, CallTypes, Zenon
  <2>2. call[d].pc # "idle" /\ call[d].kind = "load" => d \in modelUpdateMu'[call[d].engine]
    BY <1>7, <2>1, Zenon DEF Inv, CallOK
  <2>3. ASSUME call[d].pc # "idle", call[d].kind = "load" PROVE call[d].engine # e
    BY <1>1, <1>2, <1>4, <2>3, LoadsExclude, Zenon
  <2>4. call[d].pc # "idle" /\ call[d].kind = "load" =>
           notified'[call[d].engine][call[d].tenant] = notified[call[d].engine][call[d].tenant]
    BY <1>5, <2>1, <2>3, Zenon
  <2>5. Rises(call[d])
    BY <1>2, Zenon DEF Rises
  <2> QED
    BY <1>6, <1>8, <2>1, <2>2, <2>4, <2>5, OthersStay, Zenon
<1>11. CallOK(c)'
  BY <1>6, NilFacts, Zenon DEF CallOK
<1> QED
  BY <1>8, <1>9, <1>10, <1>11, Zenon DEF Inv

-----------------------------------------------------------------------------
(* The steps of an engine *)

LEMMA ListAllStep ==
    ASSUME Inv, UNCHANGED deployment, NEW e \in Engines, ListAll(e)
    PROVE  Inv'
<1>1. /\ TypeOK /\ Persistent /\ listed' = [listed EXCEPT ![e] = stored]
      /\ UNCHANGED <<deployment, stored, models, defaultModel, modelUpdateMu, notified, call>>
  BY Zenon DEF Inv, ListAll
<1>2. listed' \in [Engines -> [Tenants -> Seq(Models)]]
  BY <1>1, Zenon DEF TypeOK
<1>3. /\ \A t \in Tenants : listed'[e][t] = stored[t]
      /\ \A f \in Engines \ {e}, t \in Tenants : listed'[f][t] = listed[f][t]
  BY <1>1, Zenon DEF TypeOK
<1>4. TypeOK' /\ (\A u \in Tenants : Grows(u))
  BY <1>1, <1>2, UnchangedGrows, Zenon DEF TypeOK
<1>5. ASSUME NEW f \in Engines, NEW t \in Tenants PROVE CacheOK(f, t)'
  <2>1. CASE f # e
    BY <1>1, <1>3, <1>4, <2>1, CacheStays, Zenon
  <2>2. CASE f = e
    <3>1. CacheOK(f, t) /\ Persistent' = Persistent
      BY <1>1, Zenon DEF Inv, Persistent
    <3>2. ActiveOK(f, t)'
      BY <1>1, <3>1, Zenon DEF CacheOK, ActiveOK, IsStored
    <3>3. ListedOK(f, t)'
      <4>1. Len(stored[t]) <= Len(stored[t])
        BY <1>1, CacheTypes
      <4> QED
        BY <1>1, <1>3, <2>2, <3>1, <4>1, CacheTypes DEF ListedOK
    <3> QED
      BY <1>1, <3>1, <3>2, <3>3, Zenon DEF CacheOK
  <2> QED
    BY <2>1, <2>2, Zenon
<1>6. ASSUME NEW d \in Callers PROVE CallOK(d)'
  <2>1. call[d].pc # "idle" => call[d].tenant \in Tenants /\ call[d].engine \in Engines
    BY <1>1, CallTypes, Zenon
  <2>2. call[d].pc # "idle" /\ call[d].kind = "load" => d \in modelUpdateMu'[call[d].engine]
    BY <1>1, Zenon DEF Inv, CallOK
  <2>3. Rises(call[d])
    BY <1>1, Zenon DEF Rises
  <2> QED
    BY <1>1, <1>4, <2>1, <2>2, <2>3, OthersStay, Zenon
<1> QED
  BY <1>4, <1>5, <1>6, Zenon DEF Inv

LEMMA LoadPersistedModelsStep ==
    ASSUME Inv, UNCHANGED deployment, NEW e \in Engines, NEW t \in Tenants, LoadPersistedModels(e, t)
    PROVE  Inv'
<1>1. PICK s, n : s = listed[e][t] /\ n = [model |-> s[Len(s)], revision |-> Len(s)]
  BY Zenon
<1>2. /\ TypeOK /\ s # <<>> /\ models' = Activated(e, t, n)
      /\ listed' = [listed EXCEPT ![e][t] = <<>>]
      /\ UNCHANGED <<deployment, stored, defaultModel, modelUpdateMu, notified, call>>
  BY <1>1, Zenon DEF Inv, LoadPersistedModels
<1>3. ListedOK(e, t) /\ s \in Seq(Models) /\ Len(s) \in Nat /\ Len(stored[t]) \in Nat
  BY <1>1, <1>2, CacheTypes, Zenon DEF Inv, CacheOK
<1>4. Len(s) > 0 /\ Len(s) \in 1..Len(s) /\ s[Len(s)] \in Models
  BY <1>2, <1>3
<1>5. n \in Entries /\ n.revision = Len(s) /\ n.model = s[Len(s)] /\ n.revision > 0
  BY <1>1, <1>3, <1>4, Zenon DEF Entries
<1>6. Persistent /\ IsStored(t, n)
  <2>1. Persistent /\ Len(s) <= Len(stored[t]) /\ s[Len(s)] = stored[t][Len(s)]
    BY <1>1, <1>2, <1>3, <1>4, Zenon DEF ListedOK
  <2>2. Len(s) \in 1..Len(stored[t])
    BY <1>3, <1>4, <2>1
  <2> QED
    BY <1>5, <2>1, <2>2, Zenon DEF IsStored
<1>7. /\ listed' \in [Engines -> [Tenants -> Seq(Models)]]
      /\ \A f \in Engines, u \in Tenants : listed'[f][u] = listed[f][u] \/ listed'[f][u] = <<>>
  <2>1. listed \in [Engines -> [Tenants -> Seq(Models)]] /\ <<>> \in Seq(Models)
    BY <1>2 DEF TypeOK
  <2> QED
    BY <1>2, <2>1, Zenon
<1>8. models' \in [Engines -> [Tenants -> Entries \cup {Nil}]]
  BY <1>2, <1>5, ActivatedFacts
<1>9. TypeOK' /\ (\A u \in Tenants : Grows(u))
  BY <1>2, <1>7, <1>8, UnchangedGrows, Zenon DEF TypeOK
<1>10. /\ \A f \in Engines, u \in Tenants : CacheOK(f, u)'
       /\ \A f \in Engines, u \in Tenants :
             \/ models'[f][u] = models[f][u]
             \/ f = e /\ u = t /\ models'[f][u].revision > models[f][u].revision
  BY <1>2, <1>5, <1>6, <1>7, <1>9, CacheRises
<1>11. ASSUME NEW d \in Callers PROVE CallOK(d)'
  <2>1. call[d].pc # "idle" => call[d].tenant \in Tenants /\ call[d].engine \in Engines
    BY <1>2, CallTypes, Zenon
  <2>2. call[d].pc # "idle" /\ call[d].kind = "load" => d \in modelUpdateMu'[call[d].engine]
    BY <1>2, Zenon DEF Inv, CallOK
  <2>3. call[d].pc # "idle" => Rises(call[d])
    BY <1>6, <1>10, <2>1, Zenon DEF Rises
  <2> QED
    BY <1>2, <1>9, <2>1, <2>2, <2>3, OthersStay, Zenon
<1> QED
  BY <1>9, <1>10, <1>11, Zenon DEF Inv

LEMMA DefaultStep ==
    ASSUME Inv, UNCHANGED <<deployment, stored, models, modelUpdateMu, notified, listed, call>>,
           NEW e \in Engines, NEW n \in Entries, defaultModel' = [defaultModel EXCEPT ![e] = n]
    PROVE  Inv'
<1>1. TypeOK
  BY Zenon DEF Inv
<1>2. defaultModel' \in [Engines -> Entries \cup {Nil}]
  BY <1>1 DEF TypeOK
<1>3. TypeOK' /\ (\A u \in Tenants : Grows(u))
  BY <1>1, <1>2, UnchangedGrows, Zenon DEF TypeOK
<1>4. ASSUME NEW f \in Engines, NEW u \in Tenants PROVE CacheOK(f, u)'
  BY <1>3, CacheStays, Zenon
<1>5. ASSUME NEW d \in Callers PROVE CallOK(d)'
  <2>1. call[d].pc # "idle" => call[d].tenant \in Tenants /\ call[d].engine \in Engines
    BY <1>1, CallTypes, Zenon
  <2>2. call[d].pc # "idle" /\ call[d].kind = "load" => d \in modelUpdateMu'[call[d].engine]
    BY Zenon DEF Inv, CallOK
  <2>3. Rises(call[d])
    BY Zenon DEF Rises
  <2> QED
    BY <1>3, <2>1, <2>2, <2>3, OthersStay, Zenon
<1> QED
  BY <1>3, <1>4, <1>5, Zenon DEF Inv

LEMMA RestartStep ==
    ASSUME Inv, UNCHANGED deployment, NEW e \in Engines, Restart(e)
    PROVE  Inv'
<1>1. TypeOK /\ UNCHANGED <<deployment, stored>>
  BY Zenon DEF Inv, Restart
<1>2. /\ models' \in [Engines -> [Tenants -> Entries \cup {Nil}]]
      /\ \A t \in Tenants : models'[e][t] = Nil
      /\ \A f \in Engines \ {e} : models'[f] = models[f]
  <2>1. [t \in Tenants |-> Nil] \in [Tenants -> Entries \cup {Nil}]
    BY Zenon
  <2> QED
    BY <1>1, <2>1, Zenon DEF Restart, TypeOK
<1>3. /\ notified' \in [Engines -> [Tenants -> Entries \cup {Nil}]]
      /\ \A t \in Tenants : notified'[e][t] = Nil
      /\ \A f \in Engines \ {e} : notified'[f] = notified[f]
  <2>1. [t \in Tenants |-> Nil] \in [Tenants -> Entries \cup {Nil}]
    BY Zenon
  <2> QED
    BY <1>1, <2>1, Zenon DEF Restart, TypeOK
<1>4. /\ listed' \in [Engines -> [Tenants -> Seq(Models)]]
      /\ \A t \in Tenants : listed'[e][t] = <<>>
      /\ \A f \in Engines \ {e} : listed'[f] = listed[f]
  <2>1. <<>> \in Seq(Models)
    OBVIOUS
  <2>2. [t \in Tenants |-> <<>>] \in [Tenants -> Seq(Models)]
    BY <2>1, Zenon
  <2> QED
    BY <1>1, <2>2, Zenon DEF Restart, TypeOK
<1>5. /\ modelUpdateMu' \in [Engines -> SUBSET Callers]
      /\ \A f \in Engines : \A b, d \in modelUpdateMu'[f] : b = d
      /\ \A f \in Engines \ {e} : modelUpdateMu'[f] = modelUpdateMu[f]
  BY <1>1, Zenon DEF Restart, TypeOK
<1>6. defaultModel' \in [Engines -> Entries \cup {Nil}]
  BY <1>1 DEF Restart, TypeOK
<1>7. /\ call' \in [Callers -> {Idle} \cup BusyCalls]
      /\ \A d \in Callers : call'[d] = IF call[d].pc # "idle" /\ call[d].engine = e THEN Idle ELSE call[d]
  BY <1>1, Zenon DEF Restart, TypeOK
<1>8. TypeOK' /\ (\A u \in Tenants : Grows(u))
  BY <1>1, <1>2, <1>3, <1>4, <1>5, <1>6, <1>7, UnchangedGrows, Zenon DEF TypeOK
<1>9. ASSUME NEW f \in Engines, NEW t \in Tenants PROVE CacheOK(f, t)'
  <2>1. CASE f # e
    BY <1>1, <1>2, <1>3, <1>4, <1>8, <2>1, CacheStays, Zenon
  <2>2. CASE f = e
    <3>1. ActiveOK(f, t)'
      BY <1>2, <2>2, Zenon DEF ActiveOK
    <3>2. ListedOK(f, t)'
      <4>1. listed'[f][t] = <<>> /\ Len(stored'[t]) \in Nat
        BY <1>4, <1>8, <2>2, CacheTypesNext, Zenon
      <4> QED
        BY <4>1 DEF ListedOK
    <3>3. notified'[f][t].revision <= models'[f][t].revision
      BY <1>2, <1>3, <2>2, NilFacts
    <3> QED
      BY <3>1, <3>2, <3>3, Zenon DEF CacheOK
  <2> QED
    BY <2>1, <2>2, Zenon
<1>10. ASSUME NEW d \in Callers PROVE CallOK(d)'
  <2>1. CASE call[d].pc # "idle" /\ call[d].engine = e
    BY <1>7, <2>1, NilFacts, Zenon DEF CallOK
  <2>2. CASE ~(call[d].pc # "idle" /\ call[d].engine = e)
    <3>1. call[d].pc # "idle" => call[d].tenant \in Tenants /\ call[d].engine \in Engines \ {e}
      BY <1>1, <2>2, CallTypes, Zenon
    <3>2. call[d].pc # "idle" /\ call[d].kind = "load" => d \in modelUpdateMu'[call[d].engine]
      BY <1>5, <3>1, Zenon DEF Inv, CallOK
    <3>3. call[d].pc # "idle" => Rises(call[d])
      BY <1>2, <3>1, Zenon DEF Rises
    <3>4. call[d].pc # "idle" =>
             notified'[call[d].engine][call[d].tenant] = notified[call[d].engine][call[d].tenant]
      BY <1>3, <3>1, Zenon
    <3>5. call'[d] = call[d]
      BY <1>7, <2>2, Zenon
    <3> QED
      BY <1>8, <3>1, <3>2, <3>3, <3>4, <3>5, OthersStay, Zenon
  <2> QED
    BY <2>1, <2>2, Zenon
<1> QED
  BY <1>8, <1>9, <1>10, Zenon DEF Inv

-----------------------------------------------------------------------------
(* The theorems *)

LEMMA DeploymentFacts ==
    ASSUME TypeOK
    PROVE  /\ deployment.engines \subseteq Engines /\ deployment.sources \subseteq Models
           /\ MaxDefault \in Nat
BY ModelCacheAssumption DEF TypeOK, MaxDefault

\* A numbered or unnumbered default model is an entry.
LEMMA DefaultFacts ==
    ASSUME TypeOK, NEW e \in Engines, NEW m \in Models, NEW r \in Nat, NEW n,
           n = [model |-> m, revision |-> r], defaultModel' = [defaultModel EXCEPT ![e] = n]
    PROVE  /\ n \in Entries /\ n.revision = r /\ defaultModel'[e] = n
           /\ \A f \in Engines \ {e} : defaultModel'[f] = defaultModel[f]
<1>1. defaultModel \in [Engines -> Entries \cup {Nil}]
  BY Zenon DEF TypeOK
<1> QED
  BY <1>1, Zenon DEF Entries

LEMMA CallStepInv ==
    ASSUME Inv, UNCHANGED deployment, NEW c \in Callers, CallStep(c)
    PROVE  Inv'
<1>1. TypeOK /\ deployment.engines \subseteq Engines /\ deployment.sources \subseteq Models
  BY DeploymentFacts, Zenon DEF Inv
<1>2. ASSUME NEW e \in deployment.engines, NEW t \in Tenants, NEW m \in deployment.sources,
             BeginLoad(c, e, t, m) \/ BeginSave(c, e, t, m)
      PROVE  Inv'
  BY <1>1, <1>2, BeginLoadStep, BeginOtherStep, Zenon
<1>3. ASSUME NEW e \in deployment.engines, NEW t \in Tenants, BeginOperation(c, e, t)
      PROVE  Inv'
  BY <1>1, <1>3, BeginOtherStep, Zenon
<1>4. CASE SaveFails(c) \/ ActivateFails(c) \/ NoHook(c) \/ GetFails(c) \/ Return(c)
  BY <1>4, CallEnds, Zenon DEF SaveFails, ActivateFails, NoHook, GetFails, Return
<1> QED
  BY <1>2, <1>3, <1>4, SaveStep, ActivateStep, ReadForNotifyStep, OnModelUpdateStep, GetStep,
     ResolveStep, Zenon DEF CallStep

LEMMA EngineStepInv ==
    ASSUME Inv, UNCHANGED deployment, NEW e \in Engines, EngineStep(e)
    PROVE  Inv'
<1>1. TypeOK /\ deployment.sources \subseteq Models /\ MaxDefault \in Nat
  BY DeploymentFacts, Zenon DEF Inv
<1>2. ASSUME NEW m \in deployment.sources, SetModel(e, m) PROVE Inv'
  <2>1. PICK n : n = [model |-> m, revision |-> 0]
    BY Zenon
  <2>2. 0 \in Nat
    OBVIOUS
  <2>3. /\ defaultModel' = [defaultModel EXCEPT ![e] = n]
        /\ UNCHANGED <<stored, models, modelUpdateMu, notified, listed, call>>
    BY <1>2, <2>1, Zenon DEF SetModel
  <2>4. n \in Entries
    BY <1>1, <2>1, <2>2, Zenon DEF Entries
  <2> QED
    BY <2>3, <2>4, DefaultStep, Zenon
<1>3. ASSUME NEW m \in deployment.sources, NEW r \in 1..MaxDefault, ActivateModel(e, m, r) PROVE Inv'
  <2>1. PICK n : n = [model |-> m, revision |-> r]
    BY Zenon
  <2>2. r \in Nat
    BY <1>1
  <2>3. /\ defaultModel' = [defaultModel EXCEPT ![e] = n]
        /\ UNCHANGED <<stored, models, modelUpdateMu, notified, listed, call>>
    BY <1>3, <2>1, Zenon DEF ActivateModel
  <2>4. n \in Entries
    BY <1>1, <2>1, <2>2, Zenon DEF Entries
  <2> QED
    BY <2>3, <2>4, DefaultStep, Zenon
<1> QED
  BY <1>2, <1>3, ListAllStep, LoadPersistedModelsStep, RestartStep, Zenon DEF EngineStep

LEMMA StutterInv ==
    ASSUME Inv, UNCHANGED vars
    PROVE  Inv'
<1>1. TypeOK /\ TypeOK' /\ UNCHANGED <<deployment, stored, models, modelUpdateMu, notified, listed, call>>
  BY Zenon DEF Inv, TypeOK, vars
<1>2. Persistent' = Persistent
  BY <1>1, Zenon DEF Persistent
<1>3. ASSUME NEW e \in Engines, NEW t \in Tenants PROVE CacheOK(e, t)'
  BY <1>1, <1>2, Zenon DEF Inv, CacheOK, ActiveOK, ListedOK, IsStored
<1>4. ASSUME NEW c \in Callers PROVE CallOK(c)'
  <2>1. \A t \in Tenants : Grows(t)
    BY <1>1, UnchangedGrows, Zenon
  <2>2. call[c].pc # "idle" => call[c].tenant \in Tenants /\ call[c].engine \in Engines
    BY <1>1, CallTypes, Zenon
  <2>3. call[c].pc # "idle" /\ call[c].kind = "load" => c \in modelUpdateMu'[call[c].engine]
    BY <1>1, Zenon DEF Inv, CallOK
  <2>4. Rises(call[c])
    BY <1>1, Zenon DEF Rises
  <2> QED
    BY <1>1, <2>1, <2>2, <2>3, <2>4, OthersStay, Zenon
<1> QED
  BY <1>1, <1>3, <1>4, Zenon DEF Inv

LEMMA NextInv == Inv /\ [Next]_vars => Inv'
<1> SUFFICES ASSUME Inv, [Next]_vars PROVE Inv'
  BY Zenon
<1>1. deployment.engines \subseteq Engines
  BY DeploymentFacts, Zenon DEF Inv
<1>2. CASE UNCHANGED vars
  BY <1>2, StutterInv, Zenon
<1>3. CASE Next
  BY <1>1, <1>3, CallStepInv, EngineStepInv, Zenon DEF Next
<1> QED
  BY <1>2, <1>3, Zenon

LEMMA SpecInv == Spec => []Inv
BY InitInv, NextInv, PTL DEF Spec

\* Every variable has its shape, and an engine's update lock has one holder.
THEOREM CacheIsTyped == Spec => []TypeOK
<1>1. Inv => TypeOK
  BY Zenon DEF Inv
<1> QED
  BY <1>1, SpecInv, PTL

\* An operation evaluates a model at least as new as every one committed before it
\* began, and never another model than the one the store has under that revision:
\* for any engines on one store, whatever they cache and whenever they restart.
THEOREM EvaluatesFresh == Spec => []OperationsAreFresh
<1>1. Inv => OperationsAreFresh
  <2> SUFFICES ASSUME Inv, Persistent, NEW c \in Callers, call[c].pc = "evaluate", call[c].since > 0
               PROVE  /\ call[c].entry.revision \in call[c].since..Len(stored[call[c].tenant])
                      /\ call[c].entry.model = stored[call[c].tenant][call[c].entry.revision]
    BY Zenon DEF OperationsAreFresh
  <2>1. PICK k : k = call[c]
    BY Zenon
  <2>2. k.pc # "idle" /\ TypeOK /\ k.since \in Nat /\ k.tenant \in Tenants /\ k.engine \in Engines
    BY <2>1, CallTypes, Zenon DEF Inv
  <2>3. k.entry.revision >= k.since /\ IsStored(k.tenant, k.entry)
    BY <2>1, <2>2, Zenon DEF Inv, CallOK, StoredOK
  <2>4. Len(stored[k.tenant]) \in Nat
    BY <2>2, CacheTypes, Zenon
  <2> QED
    BY <2>1, <2>2, <2>3, <2>4 DEF IsStored
<1> QED
  BY <1>1, SpecInv, PTL

\* When a load is about to tell its subscribers, the loaded model is active or has
\* been replaced by a later revision, with a store that other engines write to and
\* without one.
THEOREM LoadsAreVisible == Spec => []LoadIsVisible
<1>1. Inv => LoadIsVisible
  <2> SUFFICES ASSUME Inv, NEW c \in Callers, call[c].pc = "notify"
               PROVE  /\ Active(call[c]).revision >= call[c].entry.revision
                      /\ Active(call[c]).revision = call[c].entry.revision
                            => Active(call[c]).model = call[c].entry.model
    BY Zenon DEF LoadIsVisible, Active
  <2>1. PICK k : k = call[c]
    BY Zenon
  <2>2. k.pc # "idle" /\ TypeOK /\ k.tenant \in Tenants /\ k.engine \in Engines /\ k.entry.revision \in Nat
    BY <2>1, CallTypes, Zenon DEF Inv
  <2>3. /\ StoredOK(k) /\ LocalOK(k) /\ Active(k).revision >= k.entry.revision /\ k.entry.revision > 0
        /\ ActiveOK(k.engine, k.tenant)
    BY <2>1, <2>2, Zenon DEF Inv, CallOK, ToldOK, CacheOK
  <2>4. Active(k) # Nil
    BY <2>2, <2>3, NilFacts
  <2>5. ASSUME Active(k).revision = k.entry.revision PROVE Active(k).model = k.entry.model
    <3>1. CASE Persistent
      BY <2>1, <2>3, <2>4, <2>5, <3>1, Zenon DEF StoredOK, ActiveOK, IsStored, Active
    <3>2. CASE ~Persistent
      BY <2>1, <2>3, <3>2, Zenon DEF LocalOK
    <3> QED
      BY <3>1, <3>2, Zenon
  <2> QED
    BY <2>1, <2>3, <2>5, Zenon
<1> QED
  BY <1>1, SpecInv, PTL

\* What a step may do to an entry of the cache.
LEMMA ModelsRise ==
    ASSUME Inv, Next, NEW e \in Engines, NEW t \in Tenants
    PROVE  models'[e][t] # models[e][t] =>
              models'[e][t] = Nil \/ models'[e][t].revision > models[e][t].revision
<1>1. TypeOK /\ models \in [Engines -> [Tenants -> Entries \cup {Nil}]] /\ deployment.engines \subseteq Engines
  BY DeploymentFacts, Zenon DEF Inv, TypeOK
<1>2. ASSUME NEW f \in Engines, NEW u \in Tenants, NEW n \in Entries, n.revision > 0,
             models' = Activated(f, u, n), models'[e][t] # models[e][t]
      PROVE  models'[e][t].revision > models[e][t].revision
  <2>1. /\ f # e \/ u # t => models'[e][t] = models[e][t]
        /\ \/ models'[f][u] = models[f][u]
           \/ models'[f][u] = n /\ models[f][u].revision < n.revision
    BY <1>1, <1>2, ActivatedFacts
  <2>2. f = e /\ u = t /\ models'[e][t] = n /\ models[e][t].revision < n.revision
    BY <1>2, <2>1, Zenon
  <2>3. n.revision \in Nat /\ models[e][t].revision \in Nat
    BY <1>1, CacheTypes, EntryFacts, Zenon
  <2> QED
    BY <2>2, <2>3
<1>3. ASSUME NEW c \in Callers, Activate(c), models'[e][t] # models[e][t]
      PROVE  models'[e][t].revision > models[e][t].revision
  <2>1. PICK f, u, n : f = call[c].engine /\ u = call[c].tenant /\ n = call[c].entry
    BY Zenon
  <2>2. call[c].pc = "activate" /\ call[c].pc # "idle" /\ models' = Activated(f, u, n)
    BY <1>3, <2>1, Zenon DEF Activate
  <2>3. f \in Engines /\ u \in Tenants /\ n \in Entries \cup {Nil} /\ n.revision > 0
    BY <1>1, <2>1, <2>2, CallTypes, Zenon DEF Inv, CallOK, ToldOK
  <2> QED
    BY <1>2, <1>3, <2>2, <2>3, EntryFacts, Zenon
<1>4. ASSUME NEW f \in Engines, NEW u \in Tenants, LoadPersistedModels(f, u),
             models'[e][t] # models[e][t]
      PROVE  models'[e][t].revision > models[e][t].revision
  <2>1. PICK s, n : s = listed[f][u] /\ n = [model |-> s[Len(s)], revision |-> Len(s)]
    BY Zenon
  <2>2. s # <<>> /\ models' = Activated(f, u, n) /\ s \in Seq(Models)
    BY <1>1, <1>4, <2>1, CacheTypes, Zenon DEF LoadPersistedModels
  <2>3. Len(s) \in Nat /\ Len(s) > 0 /\ s[Len(s)] \in Models
    BY <2>2
  <2>4. n \in Entries /\ n.revision > 0
    BY <2>1, <2>3, Zenon DEF Entries
  <2> QED
    BY <1>2, <1>4, <2>2, <2>4, Zenon
<1>5. ASSUME NEW f \in Engines, Restart(f)
      PROVE  models'[e][t] = models[e][t] \/ models'[e][t] = Nil
  BY <1>1, <1>5, Zenon DEF Restart
<1>6. ASSUME NEW c \in Callers, CallStep(c), ~Activate(c) PROVE models' = models
  BY <1>6, Zenon DEF CallStep, BeginLoad, BeginSave, Save, SaveFails, ActivateFails, NoHook,
     ReadForNotify, OnModelUpdate, BeginOperation, Get, GetFails, Resolve, Return
<1>7. ASSUME NEW f \in Engines, EngineStep(f), ~Restart(f), ~\E u \in Tenants : LoadPersistedModels(f, u)
      PROVE  models' = models
  BY <1>7, Zenon DEF EngineStep, ListAll, SetModel, ActivateModel
<1> QED
  BY <1>1, <1>3, <1>4, <1>5, <1>6, <1>7, Zenon DEF Next

\* What a step may do to a default model.
LEMMA DefaultRises ==
    ASSUME Inv, Next, NEW e \in Engines, defaultModel'[e].revision < defaultModel[e].revision
    PROVE  defaultModel'[e].revision = 0
<1>1. /\ TypeOK /\ deployment.engines \subseteq Engines /\ deployment.sources \subseteq Models
      /\ defaultModel \in [Engines -> Entries \cup {Nil}] /\ MaxDefault \in Nat
  BY DeploymentFacts, Zenon DEF Inv, TypeOK
<1>2. defaultModel[e].revision \in Nat /\ ~(defaultModel[e].revision < defaultModel[e].revision)
  <2>1. defaultModel[e].revision \in Nat
    BY <1>1, EntryFacts, Zenon
  <2> QED
    BY <2>1
<1>3. ASSUME NEW f \in Engines, NEW m \in deployment.sources, SetModel(f, m)
      PROVE  defaultModel'[e] = defaultModel[e] \/ defaultModel'[e].revision = 0
  BY <1>1, <1>3, Zenon DEF SetModel
<1>4. ASSUME NEW f \in Engines, NEW m \in deployment.sources, NEW r \in 1..MaxDefault,
             ActivateModel(f, m, r)
      PROVE  defaultModel'[e] = defaultModel[e] \/ defaultModel'[e].revision >= defaultModel[e].revision
  <2>1. CASE f # e
    BY <1>1, <1>4, <2>1, Zenon DEF ActivateModel
  <2>2. CASE f = e
    <3>1. defaultModel'[e].revision = r /\ (defaultModel[e] = Nil \/ r > defaultModel[e].revision)
      BY <1>1, <1>4, <2>2, Zenon DEF ActivateModel
    <3> QED
      BY <1>1, <1>2, <3>1, NilFacts
  <2> QED
    BY <2>1, <2>2, Zenon
<1>5. ASSUME NEW f \in Engines, Restart(f)
      PROVE  defaultModel'[e] = defaultModel[e] \/ defaultModel'[e].revision = 0
  BY <1>1, <1>5, NilFacts, Zenon DEF Restart
<1>6. ASSUME NEW c \in Callers, CallStep(c) PROVE defaultModel' = defaultModel
  BY <1>6, Zenon DEF CallStep, BeginLoad, BeginSave, Save, SaveFails, Activate, ActivateFails, NoHook,
     ReadForNotify, OnModelUpdate, BeginOperation, Get, GetFails, Resolve, Return
<1>7. ASSUME NEW f \in Engines, ListAll(f) \/ \E u \in Tenants : LoadPersistedModels(f, u)
      PROVE  defaultModel' = defaultModel
  BY <1>7, Zenon DEF ListAll, LoadPersistedModels
<1>8. defaultModel'[e].revision >= defaultModel[e].revision => defaultModel'[e].revision = 0
  <2>1. defaultModel'[e].revision \in Nat
    BY NextInv, EntryFacts, Zenon DEF Inv, TypeOK
  <2> QED
    BY <1>2, <2>1
<1> QED
  BY <1>1, <1>2, <1>3, <1>4, <1>5, <1>6, <1>7, <1>8, Zenon DEF Next, EngineStep

\* While its process lives, an active model is replaced only by a later revision, and
\* a numbered default model only by a later one or by LoadModel and SetModel.
THEOREM FenceHolds == Spec => ActivationIsMonotone
<1> DEFINE Fence == /\ \A e \in Engines, t \in Tenants :
                          models'[e][t] # models[e][t] =>
                            models'[e][t] = Nil \/ models'[e][t].revision > models[e][t].revision
                    /\ \A e \in Engines :
                          defaultModel'[e].revision < defaultModel[e].revision
                            => defaultModel'[e].revision = 0
<1>1. ASSUME Inv, Next PROVE Fence
  BY <1>1, ModelsRise, DefaultRises, Zenon
<1>2. Inv /\ [Next]_vars => [Fence]_vars
  BY <1>1, Zenon
<1>3. Spec => [][Fence]_vars
  BY <1>2, SpecInv, PTL DEF Spec
<1> QED
  BY <1>3, Zenon DEF ActivationIsMonotone

\* Subscribers of one engine are told of a tenant's models in the order of their
\* revisions, because the lock is kept from the save to the notification.
THEOREM ToldInOrder == Spec => NotifiedInOrder
<1> DEFINE Order == \A e \in Engines, t \in Tenants :
                       notified'[e][t] = Nil \/ notified'[e][t].revision >= notified[e][t].revision
<1>1. ASSUME Inv, Next, NEW e \in Engines, NEW t \in Tenants
      PROVE  notified'[e][t] = Nil \/ notified'[e][t].revision >= notified[e][t].revision
  <2>1. /\ TypeOK /\ notified \in [Engines -> [Tenants -> Entries \cup {Nil}]]
        /\ deployment.engines \subseteq Engines
    BY <1>1, DeploymentFacts, Zenon DEF Inv, TypeOK
  <2>2. notified[e][t].revision \in Nat
    BY <1>1, <2>1, CacheTypes, Zenon
  <2>3. notified'[e][t] = notified[e][t] => notified'[e][t].revision >= notified[e][t].revision
    BY <2>2
  <2>4. ASSUME NEW c \in Callers, OnModelUpdate(c)
        PROVE  notified'[e][t] = notified[e][t] \/ notified'[e][t].revision >= notified[e][t].revision
    <3>1. PICK f, u, n : f = call[c].engine /\ u = call[c].tenant /\ n = call[c].entry
      BY Zenon
    <3>2. call[c].pc = "publish" /\ call[c].pc # "idle" /\ notified' = [notified EXCEPT ![f][u] = n]
      BY <2>4, <3>1, Zenon DEF OnModelUpdate
    <3>3. f \in Engines /\ u \in Tenants /\ notified[f][u].revision <= n.revision /\ n.revision \in Nat
      BY <1>1, <2>1, <3>1, <3>2, CallTypes, Zenon DEF Inv, CallOK, ToldOK, Told
    <3>4. CASE f = e /\ u = t
      BY <2>1, <2>2, <3>2, <3>3, <3>4
    <3>5. CASE ~(f = e /\ u = t)
      BY <2>1, <3>2, <3>3, <3>5, Zenon
    <3> QED
      BY <3>4, <3>5, Zenon
  <2>5. ASSUME NEW f \in Engines, Restart(f)
        PROVE  notified'[e][t] = notified[e][t] \/ notified'[e][t] = Nil
    BY <1>1, <2>1, <2>5, Zenon DEF Restart
  <2>6. ASSUME NEW c \in Callers, CallStep(c), ~OnModelUpdate(c) PROVE notified' = notified
    BY <2>6, Zenon DEF CallStep, BeginLoad, BeginSave, Save, SaveFails, Activate, ActivateFails, NoHook,
       ReadForNotify, BeginOperation, Get, GetFails, Resolve, Return
  <2>7. ASSUME NEW f \in Engines, EngineStep(f), ~Restart(f) PROVE notified' = notified
    BY <2>7, Zenon DEF EngineStep, ListAll, LoadPersistedModels, SetModel, ActivateModel
  <2> QED
    BY <1>1, <2>1, <2>3, <2>4, <2>5, <2>6, <2>7, Zenon DEF Next
<1>2. Inv /\ [Next]_vars => [Order]_vars
  BY <1>1, Zenon
<1>3. Spec => [][Order]_vars
  BY <1>2, SpecInv, PTL DEF Spec
<1> QED
  BY <1>3, Zenon DEF NotifiedInOrder

=============================================================================
