-------------------------- MODULE TuplePagingProofs --------------------------
(***************************************************************************)
(* The indexes of TupleStore agree, its floor holds, its replica converges *)
(* and it implements TupleSet; under materializers and scans it is still   *)
(* TupleStore, what a good materializer call vouches for is in the store,  *)
(* and a scan that ends has returned all that was there throughout: for    *)
(* all tuples, callers, runners, materializers, queries, limits and bounds.*)
(***************************************************************************)
EXTENDS TuplePaging, FiniteSetTheorems, TLAPS

(***************************************************************************)
(* The store                                                               *)
(***************************************************************************)

\* What a pending call carries.
RequestOK(r) ==
    /\ r.op = "write" => \E t \in Tuples : r.writes = {t} /\ r.deletes = {}
    /\ r.op = "delete" =>
          \E t \in Tuples : r.writes = {} /\ r.deletes = {t} /\ ~IsGuarded(t)
    /\ r.op = "raw" => \E t \in Tuples : r.writes = {} /\ r.deletes = {t}
    /\ r.op = "guarded" =>
          \E t \in Tuples : r.writes = {} /\ r.deletes = {t} /\ IsGuarded(t)
    /\ r.op = "tx" => <<r.writes, r.deletes>> \in Batches
    /\ r.op = "replace" => \A t \in r.replacements : KeyOf[t] = r.key

CallOK == \A c \in Callers : RequestOK(call[c])

Inv == TypeOK /\ IndexesAgree /\ CallOK

LEMMA StoredType == TypeOK => Stored \subseteq Tuples
BY Zenon DEF TypeOK, Stored

\* The bucket of a key is what the store holds of it.
LEMMA Bucket ==
    ASSUME TypeOK, IndexesAgree, NEW k \in Keys
    PROVE  byObjectRelation[k] = {t \in Stored : KeyOf[t] = k}
BY DEF TypeOK, IndexesAgree, Stored

LEMMA InitInv == Init => Inv
<1> SUFFICES ASSUME Init PROVE Inv
  BY Zenon
<1>1. TypeOK
  BY Zenon DEF Init, TypeOK
<1>2. IndexesAgree
  BY Zenon DEF Init, IndexesAgree, Stored
<1>3. CallOK
  BY Zenon DEF Init, CallOK, RequestOK, Idle
<1> QED BY <1>1, <1>2, <1>3, Zenon DEF Inv

\* Change keeps the indexes together and is the set operation it stands for.
LEMMA ChangeIsSetChange ==
    ASSUME TypeOK, IndexesAgree, NEW W \in SUBSET Tuples, NEW D \in SUBSET Tuples, Change(W, D)
    PROVE  /\ byObjectRelation' \in [Keys -> SUBSET Tuples]
           /\ byUser' \in [Users -> SUBSET Tuples]
           /\ Stored' = (Stored \cup W) \ D
           /\ IndexesAgree'
<1> USE StoreAssumption
<1>1. \A k \in Keys : byObjectRelation'[k]
                        = (byObjectRelation[k] \cup {t \in W : KeyOf[t] = k}) \ {t \in D : KeyOf[t] = k}
  BY Zenon DEF Change, Insert, Remove, TypeOK
<1>2. \A u \in Users : byUser'[u]
                        = (byUser[u] \cup {t \in W : UserOf[t] = u}) \ {t \in D : UserOf[t] = u}
  BY Zenon DEF Change, Insert, Remove, TypeOK
<1>3. byObjectRelation' \in [Keys -> SUBSET Tuples] /\ byUser' \in [Users -> SUBSET Tuples]
  BY Zenon DEF Change, Insert, Remove, TypeOK
<1>4. \A k \in Keys : \A t \in byObjectRelation'[k] : KeyOf[t] = k
  BY <1>1 DEF IndexesAgree
<1>5. \A k \in Keys : byObjectRelation[k] = {t \in Stored : KeyOf[t] = k}
  BY Bucket, Zenon
<1>6. Stored' = (Stored \cup W) \ D
  <2>1. \A t \in Tuples : t \in Stored' <=> t \in byObjectRelation'[KeyOf[t]]
    BY <1>3, <1>4 DEF Stored
  <2>2. \A t \in Tuples : t \in Stored <=> t \in byObjectRelation[KeyOf[t]]
    BY <1>5
  <2>3. Stored \subseteq Tuples /\ Stored' \subseteq Tuples
    BY <1>3 DEF TypeOK, Stored
  <2>4. \A t \in Tuples : t \in Stored' <=> t \in (Stored \cup W) \ D
    BY <1>1, <2>1, <2>2
  <2> QED BY <2>3, <2>4, Zenon
<1>7. \A u \in Users : byUser'[u] = {t \in Stored' : UserOf[t] = u}
  <2> SUFFICES ASSUME NEW u \in Users
               PROVE  byUser'[u] = {t \in Stored' : UserOf[t] = u}
    BY Zenon
  <2>1. byUser[u] = {t \in Stored : UserOf[t] = u}
    BY Zenon DEF IndexesAgree
  <2> QED BY <1>2, <1>6, <2>1, Zenon
<1> QED BY <1>3, <1>4, <1>6, <1>7, Zenon DEF IndexesAgree

\* The record Notify returns.
LEMMA NotifyType ==
    ASSUME NEW W \in SUBSET Tuples, NEW D \in SUBSET Tuples
    PROVE  Notify(W, D) \in {Idle} \cup Notifying
BY Zenon DEF Notify, Notifying

\* A call that has reached the store or returned carries no request.
LEMMA CallAfter ==
    ASSUME CallOK, TypeOK, NEW c \in Callers, NEW r \in {Idle} \cup Notifying,
           call' = [call EXCEPT ![c] = r]
    PROVE  CallOK'
<1>1. RequestOK(r)
  BY DEF RequestOK, Idle, Notifying
<1> QED BY <1>1, Zenon DEF CallOK, TypeOK

LEMMA CommitStep ==
    ASSUME Inv, NEW c \in Callers, NEW W \in SUBSET Tuples, NEW D \in SUBSET Tuples, Commit(c, W, D)
    PROVE  Inv' /\ Stored' = (Stored \cup W) \ D
<1>1. Change(W, D) /\ call' = [call EXCEPT ![c] = Notify(W, D)]
  BY Zenon DEF Commit
<1>2. /\ byObjectRelation' \in [Keys -> SUBSET Tuples]
      /\ byUser' \in [Users -> SUBSET Tuples]
      /\ Stored' = (Stored \cup W) \ D
      /\ IndexesAgree'
  BY <1>1, ChangeIsSetChange, SMTT(30) DEF Inv
<1>3. call' \in [Callers -> {Idle} \cup Pending \cup Notifying]
  BY <1>1, NotifyType, Zenon DEF Inv, TypeOK
<1>4. materialized' = materialized /\ replica' = replica /\ contended' \in SUBSET Tuples
  BY Zenon DEF Commit, Inv, TypeOK
<1>5. TypeOK'
  BY <1>2, <1>3, <1>4, Zenon DEF Inv, TypeOK
<1>6. CallOK'
  <2> DEFINE r == Notify(W, D)
  <2>1. r \in {Idle} \cup Notifying /\ call' = [call EXCEPT ![c] = r]
    BY <1>1, NotifyType, Zenon
  <2> HIDE DEF r
  <2> QED BY <2>1, CallAfter, Zenon DEF Inv
<1> QED BY <1>2, <1>5, <1>6, Zenon DEF Inv

\* A request that begins.
LEMMA BeginStep ==
    ASSUME Inv, NEW c \in Callers, NEW r \in Pending, RequestOK(r), Begin(c, r)
    PROVE  Inv' /\ Stored' = Stored
<1>1. UNCHANGED <<byObjectRelation, byUser, materialized, replica, contended>>
  BY Zenon DEF Begin, indexes
<1>2. call' = [call EXCEPT ![c] = r]
  BY Zenon DEF Begin
<1>3. TypeOK'
  BY <1>1, <1>2, Zenon DEF Inv, TypeOK
<1>4. IndexesAgree' /\ Stored' = Stored
  BY <1>1 DEF Inv, IndexesAgree, Stored
<1>5. CallOK'
  BY <1>2, Zenon DEF Inv, CallOK, TypeOK
<1> QED BY <1>3, <1>4, <1>5, Zenon DEF Inv

LEMMA BeginsStep ==
    ASSUME Inv, NEW c \in Callers, NEW t \in Tuples,
           \/ WriteTuple(c, t) \/ DeleteTuple(c, t) \/ WriteRawTuple(c, t) \/ DeleteRawTuple(c, t)
    PROVE  Inv' /\ Stored' = Stored
<1>1. CASE WriteTuple(c, t) \/ WriteRawTuple(c, t)
  <2> DEFINE r == [op |-> "write", writes |-> {t}, deletes |-> {}]
  <2>1. r \in Pending /\ RequestOK(r) /\ Begin(c, r)
    BY <1>1, Zenon DEF Pending, RequestOK, WriteTuple, WriteRawTuple
  <2> HIDE DEF r
  <2> QED BY <2>1, BeginStep, Zenon
<1>2. CASE DeleteTuple(c, t)
  <2> DEFINE r == [op |-> IF IsGuarded(t) THEN "guarded" ELSE "delete",
                   writes |-> {}, deletes |-> {t}]
  <2>1. r \in Pending /\ RequestOK(r) /\ Begin(c, r)
    BY <1>2, Zenon DEF Pending, RequestOK, DeleteTuple
  <2> HIDE DEF r
  <2> QED BY <2>1, BeginStep, Zenon
<1>3. CASE DeleteRawTuple(c, t)
  <2> DEFINE r == [op |-> "raw", writes |-> {}, deletes |-> {t}]
  <2>1. r \in Pending /\ RequestOK(r) /\ Begin(c, r)
    BY <1>3, Zenon DEF Pending, RequestOK, DeleteRawTuple
  <2> HIDE DEF r
  <2> QED BY <2>1, BeginStep, Zenon
<1> QED BY <1>1, <1>2, <1>3, Zenon

LEMMA BatchBegins ==
    ASSUME Inv, NEW c \in Callers, NEW b \in Batches, WriteRelationships(c, b)
    PROVE  Inv' /\ Stored' = Stored
<1> DEFINE r == [op |-> "tx", writes |-> b[1], deletes |-> b[2]]
<1>1. b[1] \in SUBSET Tuples /\ b[2] \in SUBSET Tuples /\ b = <<b[1], b[2]>>
  BY StoreAssumption
<1>2. r \in Pending /\ RequestOK(r) /\ Begin(c, r)
  BY <1>1, Zenon DEF Pending, RequestOK, WriteRelationships
<1> HIDE DEF r
<1> QED BY <1>2, BeginStep, Zenon

LEMMA ReplaceBegins ==
    ASSUME Inv, NEW c \in Callers, NEW k \in Keys, NEW s \in SUBSET {t \in Tuples : KeyOf[t] = k},
           ReplaceRelationships(c, k, s)
    PROVE  Inv' /\ Stored' = Stored
<1> DEFINE r == [op |-> "replace", key |-> k, replacements |-> s]
<1>1. r \in Pending /\ RequestOK(r) /\ Begin(c, r)
  BY Zenon DEF Pending, RequestOK, ReplaceRelationships
<1> HIDE DEF r
<1> QED BY <1>1, BeginStep, Zenon

\* The request of a call that is about to change the store.
LEMMA RequestTypes ==
    ASSUME TypeOK, NEW c \in Callers
    PROVE  /\ call[c].op \in {"write", "delete", "raw", "guarded", "tx", "notify"} =>
                 call[c].writes \in SUBSET Tuples /\ call[c].deletes \in SUBSET Tuples
           /\ call[c].op = "replace" =>
                 call[c].key \in Keys /\ call[c].replacements \in SUBSET Tuples
<1>1. call[c] \in {Idle} \cup Pending \cup Notifying
  BY Zenon DEF TypeOK
<1>2. CASE call[c] = Idle
  BY <1>2 DEF Idle
<1>3. CASE call[c] \in Pending
  BY <1>3, Zenon DEF Pending
<1>4. CASE call[c] \in Notifying
  BY <1>4, Zenon DEF Notifying
<1> QED BY <1>1, <1>2, <1>3, <1>4, Zenon

\* What a step of the store proper does, seen as a change of a set.
StoreStep(c) == StoreChange(c) \/ DeleteIfAbove(c) \/ ReplaceTx(c)

Writes(c) == IF call[c].op = "replace" THEN ReplacementWrites(call[c].key, call[c].replacements)
                                       ELSE call[c].writes
Deletes(c) == IF call[c].op = "replace" THEN ReplacementDeletes(call[c].key, call[c].replacements)
                                        ELSE call[c].deletes

LEMMA StoreSteps ==
    ASSUME Inv, NEW c \in Callers, StoreStep(c)
    PROVE  /\ Writes(c) \in SUBSET Tuples
           /\ Deletes(c) \in SUBSET Tuples
           /\ call[c].op \in {"write", "delete", "raw", "guarded", "tx", "replace"}
           /\ Commit(c, Writes(c), Deletes(c))
<1>1. CASE StoreChange(c)
  BY <1>1, RequestTypes, Zenon DEF StoreChange, Writes, Deletes, Inv
<1>2. CASE DeleteIfAbove(c)
  <2>1. call[c].writes = {} /\ call[c].op = "guarded"
    BY <1>2, Zenon DEF DeleteIfAbove, Inv, CallOK, RequestOK
  <2> QED BY <1>2, <2>1, RequestTypes, Zenon DEF DeleteIfAbove, Writes, Deletes, Inv
<1>3. CASE ReplaceTx(c)
  <2>1. call[c].op = "replace" /\ call[c].key \in Keys /\ call[c].replacements \in SUBSET Tuples
    BY <1>3, RequestTypes, Zenon DEF ReplaceTx, Inv
  <2>2. byObjectRelation[call[c].key] \in SUBSET Tuples
    BY <2>1, Zenon DEF Inv, TypeOK
  <2> QED BY <1>3, <2>1, <2>2, Zenon
             DEF ReplaceTx, Writes, Deletes, ReplacementWrites, ReplacementDeletes
<1> QED BY <1>1, <1>2, <1>3, Zenon DEF StoreStep

LEMMA StoreStepInv ==
    ASSUME Inv, NEW c \in Callers, StoreStep(c)
    PROVE  Inv' /\ Stored' = (Stored \cup Writes(c)) \ Deletes(c)
<1> DEFINE W == Writes(c)
           D == Deletes(c)
<1>1. W \in SUBSET Tuples /\ D \in SUBSET Tuples /\ Commit(c, W, D)
  BY StoreSteps, Zenon
<1> HIDE DEF W, D
<1>2. Inv' /\ Stored' = (Stored \cup W) \ D
  BY <1>1, CommitStep, Zenon
<1> QED BY <1>2, Zenon DEF W, D

\* The steps that leave the store alone and set call[c] to a return or a rest.
LEMMA QuietStep ==
    ASSUME Inv, NEW c \in Callers, NEW W \in SUBSET Tuples, NEW D \in SUBSET Tuples,
           call' = [call EXCEPT ![c] = Notify(W, D)],
           replica' \in SUBSET Tuples,
           UNCHANGED <<indexes, materialized, contended>>
    PROVE  Inv' /\ Stored' = Stored
<1>1. call' \in [Callers -> {Idle} \cup Pending \cup Notifying]
  BY NotifyType, Zenon DEF Inv, TypeOK
<1>2. TypeOK'
  BY <1>1, Zenon DEF Inv, TypeOK, indexes
<1>3. IndexesAgree' /\ Stored' = Stored
  BY DEF Inv, IndexesAgree, Stored, indexes
<1>4. CallOK'
  <2> DEFINE r == Notify(W, D)
  <2>1. r \in {Idle} \cup Notifying /\ call' = [call EXCEPT ![c] = r]
    BY NotifyType, Zenon
  <2> HIDE DEF r
  <2> QED BY <2>1, CallAfter, Zenon DEF Inv
<1> QED BY <1>2, <1>3, <1>4, Zenon DEF Inv

LEMMA OtherSteps ==
    ASSUME Inv, [Next]_vars, \A c \in Callers : ~StoreStep(c)
    PROVE  Inv' /\ Stored' = Stored
<1>1. ASSUME NEW c \in Callers, NEW t \in Tuples, OnTupleWrite(c, t)
      PROVE  Inv' /\ Stored' = Stored
  <2> DEFINE W == call[c].writes \ {t}
             D == call[c].deletes
  <2>1. W \in SUBSET Tuples /\ D \in SUBSET Tuples
    BY <1>1, RequestTypes, Zenon DEF OnTupleWrite, Inv
  <2>2. /\ call' = [call EXCEPT ![c] = Notify(W, D)]
        /\ replica' \in SUBSET Tuples
        /\ UNCHANGED <<indexes, materialized, contended>>
    BY <1>1, Zenon DEF OnTupleWrite, Inv, TypeOK
  <2> HIDE DEF W, D
  <2> QED BY <2>1, <2>2, QuietStep, Zenon
<1>2. ASSUME NEW c \in Callers, NEW t \in Tuples, OnTupleDelete(c, t)
      PROVE  Inv' /\ Stored' = Stored
  <2> DEFINE W == {}
             D == call[c].deletes \ {t}
  <2>1. W \in SUBSET Tuples /\ D \in SUBSET Tuples
    BY <1>2, RequestTypes, Zenon DEF OnTupleDelete, Inv
  <2>2. /\ call' = [call EXCEPT ![c] = Notify(W, D)]
        /\ replica' \in SUBSET Tuples
        /\ UNCHANGED <<indexes, materialized, contended>>
    BY <1>2, Zenon DEF OnTupleDelete, Inv, TypeOK
  <2> HIDE DEF W, D
  <2> QED BY <2>1, <2>2, QuietStep, Zenon
<1>3. ASSUME NEW c \in Callers, DeleteRefused(c)
      PROVE  Inv' /\ Stored' = Stored
  <2> DEFINE W == {}
  <2>1. /\ W \in SUBSET Tuples
        /\ call' = [call EXCEPT ![c] = Notify(W, W)]
        /\ replica' \in SUBSET Tuples
        /\ UNCHANGED <<indexes, materialized, contended>>
    BY <1>3, Zenon DEF DeleteRefused, Notify, Inv, TypeOK
  <2> HIDE DEF W
  <2> QED BY <2>1, QuietStep, Zenon
<1>4. ASSUME NEW n \in Names, NEW m \in Computed, WriteMaterialized(n, m)
      PROVE  Inv' /\ Stored' = Stored
  <2>1. TypeOK'
    BY <1>4, StoreAssumption, Zenon DEF WriteMaterialized, Inv, TypeOK, indexes
  <2>2. IndexesAgree' /\ Stored' = Stored
    BY <1>4 DEF WriteMaterialized, Inv, IndexesAgree, Stored, indexes
  <2>3. CallOK'
    BY <1>4, Zenon DEF WriteMaterialized, Inv, CallOK, RequestOK, IsGuarded
  <2> QED BY <2>1, <2>2, <2>3, Zenon DEF Inv
<1>5. CASE UNCHANGED vars
  <2>1. TypeOK' /\ IndexesAgree' /\ Stored' = Stored
    BY <1>5 DEF vars, Inv, TypeOK, IndexesAgree, Stored, indexes
  <2>2. CallOK'
    BY <1>5, Zenon DEF vars, Inv, CallOK, RequestOK, IsGuarded
  <2> QED BY <2>1, <2>2, Zenon DEF Inv
<1> QED BY <1>1, <1>2, <1>3, <1>4, <1>5, BeginsStep, BatchBegins, ReplaceBegins, Zenon
           DEF Next, Engine, StoreStep

LEMMA NextInv == Inv /\ [Next]_vars => Inv'
BY OtherSteps, StoreStepInv, Zenon

LEMMA SpecInv == Spec => []Inv
BY InitInv, NextInv, PTL DEF Spec

\* Every reachable state has its type (TypeOK).
THEOREM StoreTypes == Spec => []TypeOK
BY SpecInv, PTL DEF Inv

\* The two indexes of the store never drift apart (IndexesAgree).
THEOREM IndexSafety == Spec => []IndexesAgree
BY SpecInv, PTL DEF Inv

(***************************************************************************)
(* The floor                                                               *)
(***************************************************************************)

LEMMA HoldersFinite ==
    ASSUME TypeOK, NEW k \in Keys
    PROVE  IsFiniteSet(directHolders(k)) /\ Cardinality(directHolders(k)) \in Nat
<1>1. directHolders(k) \in SUBSET Tuples
  BY Zenon DEF TypeOK, directHolders
<1> QED BY <1>1, StoreAssumption, FS_Subset, FS_CardinalityType, Zenon

\* A key of which no direct holder goes keeps its floor.
LEMMA HoldersGrow ==
    ASSUME Inv, Inv', NEW k \in Keys, directHolders(k) \subseteq directHolders(k)'
    PROVE  Cardinality(directHolders(k)) <= Cardinality(directHolders(k)')
<1>1. IsFiniteSet(directHolders(k)')
  <2>1. directHolders(k)' \in SUBSET Tuples
    BY Zenon DEF Inv, TypeOK, directHolders
  <2> QED BY <2>1, StoreAssumption, FS_Subset, Zenon
<1> QED BY <1>1, FS_Subset, Zenon

LEMMA FloorStep ==
    ASSUME Inv, NEW c \in Callers, StoreStep(c), call[c].op \notin {"raw", "tx", "replace"},
           NEW k \in Keys, Cardinality(directHolders(k)) >= MinHolders[k]
    PROVE  Cardinality(directHolders(k)') >= MinHolders[k]
<1>1. Inv' /\ Stored' = (Stored \cup Writes(c)) \ Deletes(c)
  BY StoreStepInv, Zenon
<1>2. directHolders(k) = {t \in Stored \cap Direct : KeyOf[t] = k}
  BY Bucket, Zenon DEF Inv, directHolders
<1>3. directHolders(k)' = {t \in Stored' \cap Direct : KeyOf[t] = k}
  BY <1>1 DEF Inv, directHolders, IndexesAgree, TypeOK, Stored
<1>4. /\ Cardinality(directHolders(k)) \in Nat
      /\ Cardinality(directHolders(k)') \in Nat
      /\ IsFiniteSet(directHolders(k))
      /\ MinHolders[k] \in Nat
  <2>1. directHolders(k)' \in SUBSET Tuples
    BY <1>1, Zenon DEF Inv, TypeOK, directHolders
  <2> QED BY <2>1, HoldersFinite, StoreAssumption, FS_Subset, FS_CardinalityType, Zenon DEF Inv
<1>5. CASE directHolders(k) \subseteq directHolders(k)'
  BY <1>1, <1>4, <1>5, HoldersGrow
<1>6. ASSUME NEW t \in directHolders(k), t \notin directHolders(k)'
      PROVE  MinHolders[k] < 1
               \/ /\ directHolders(k)' = directHolders(k) \ {t}
                  /\ Cardinality(directHolders(k)) > MinHolders[k]
  <2>0. call[c].op \in {"write", "delete", "raw", "guarded", "tx", "replace"} /\ RequestOK(call[c])
    BY StoreSteps, Zenon DEF Inv, CallOK
  <2>1. t \in Stored /\ t \in Direct /\ KeyOf[t] = k /\ t \in Deletes(c)
    BY <1>1, <1>2, <1>3, <1>6, Zenon
  <2>2. call[c].op \in {"delete", "guarded"} /\ Deletes(c) = {t} /\ Writes(c) = {}
    BY <2>0, <2>1, Zenon DEF RequestOK, Deletes, Writes
  <2>3. CASE call[c].op = "delete"
    <3>1. ~IsGuarded(t)
      BY <2>0, <2>2, <2>3, Zenon DEF RequestOK, Deletes
    <3> QED BY <1>4, <2>1, <3>1 DEF IsGuarded
  <2>4. CASE call[c].op = "guarded"
    <3>1. ~LastHolder(t)
      BY <2>2, <2>4, Zenon DEF StoreStep, StoreChange, ReplaceTx, DeleteIfAbove, Deletes
    <3>2. t \in byObjectRelation[k]
      BY <2>1, Bucket, Zenon DEF Inv
    <3>3. Cardinality(directHolders(k)) > MinHolders[k]
      BY <1>4, <2>1, <3>1, <3>2 DEF LastHolder
    <3>4. directHolders(k)' = directHolders(k) \ {t}
      BY <1>1, <1>2, <1>3, <2>2, Zenon
    <3> QED BY <3>3, <3>4, Zenon
  <2> QED BY <2>2, <2>3, <2>4, Zenon
<1>7. ASSUME NEW t \in directHolders(k), directHolders(k)' = directHolders(k) \ {t},
             Cardinality(directHolders(k)) > MinHolders[k]
      PROVE  Cardinality(directHolders(k)') >= MinHolders[k]
  <2>1. Cardinality(directHolders(k) \ {t}) = Cardinality(directHolders(k)) - 1
    BY <1>4, <1>7, FS_RemoveElement, Zenon
  <2> QED BY <1>4, <1>7, <2>1
<1> QED BY <1>4, <1>5, <1>6, <1>7

\* No interleaving of sibling deletes takes a relation below its floor: what does
\* is a raw delete, a transaction or a replacement (FloorRetained).
THEOREM FloorSafety == Spec => FloorRetained
<1>1. Inv /\ [Next]_vars =>
        [ \A k \in Keys : Cardinality(directHolders(k)) >= MinHolders[k]
              => \/ Cardinality(directHolders(k)') >= MinHolders[k]
                 \/ \E c \in Callers : /\ call[c].op \in {"raw", "tx", "replace"}
                                      /\ call'[c] # call[c] ]_vars
  <2> SUFFICES ASSUME Inv, [Next]_vars, NEW k \in Keys,
                      Cardinality(directHolders(k)) >= MinHolders[k],
                      ~\E c \in Callers : /\ call[c].op \in {"raw", "tx", "replace"}
                                           /\ call'[c] # call[c]
               PROVE  Cardinality(directHolders(k)') >= MinHolders[k]
    BY Zenon
  <2>1. ASSUME NEW c \in Callers, StoreStep(c)
        PROVE  Cardinality(directHolders(k)') >= MinHolders[k]
    <3>1. call'[c] # call[c]
      <4>1. call[c].op \in {"write", "delete", "raw", "guarded", "tx", "replace"}
        BY <2>1, StoreSteps, Zenon DEF Inv
      <4>2. call'[c].op \in {"idle", "notify"}
        <5>1. Commit(c, Writes(c), Deletes(c))
          BY <2>1, StoreSteps, Zenon
        <5>2. c \in DOMAIN call
          BY Zenon DEF Inv, TypeOK
        <5>3. call'[c] = Notify(Writes(c), Deletes(c))
          BY <5>1, <5>2, Zenon DEF Commit
        <5> QED BY <5>3 DEF Notify, Idle
      <4> QED BY <4>1, <4>2, Zenon
    <3>2. call[c].op \notin {"raw", "tx", "replace"}
      BY <3>1, Zenon
    <3> QED BY <2>1, <3>2, FloorStep, Zenon
  <2>2. CASE \A c \in Callers : ~StoreStep(c)
    <3>1. Inv' /\ Stored' = Stored
      BY <2>2, OtherSteps, Zenon
    <3>2. directHolders(k) = {t \in Stored \cap Direct : KeyOf[t] = k}
      BY Bucket, Zenon DEF Inv, directHolders
    <3>3. directHolders(k)' = {t \in Stored' \cap Direct : KeyOf[t] = k}
      BY <3>1 DEF Inv, directHolders, IndexesAgree, TypeOK, Stored
    <3> QED BY <3>1, <3>2, <3>3, Zenon
  <2> QED BY <2>1, <2>2, Zenon
<1> QED BY <1>1, SpecInv, PTL DEF Spec, FloorRetained

(***************************************************************************)
(* TupleStore implements TupleSet                                          *)
(***************************************************************************)

Reqs == [c \in Callers |-> Request(c)]

LEMMA ReqsAfter ==
    ASSUME TypeOK, NEW c \in Callers, NEW r \in {Idle} \cup Pending \cup Notifying,
           call' = [call EXCEPT ![c] = r]
    PROVE  Reqs' = [Reqs EXCEPT ![c] = IF r.op = "notify" THEN Idle ELSE r]
<1>1. call'[c] = r /\ \A d \in Callers \ {c} : call'[d] = call[d]
  BY Zenon DEF TypeOK
<1> QED BY <1>1, Zenon DEF Reqs, Request

\* A call that has been validated is a request of the set.
LEMMA RequestSubmitted ==
    ASSUME NEW r \in Pending, RequestOK(r)
    PROVE  r \in AbstractStore!Requests
<1>1. CASE r.op = "write"
  <2>1. PICK t \in Tuples : r.writes = {t} /\ r.deletes = {} BY <1>1, Zenon DEF RequestOK
  <2>2. r = [op |-> "write", writes |-> {t}, deletes |-> {}] BY <1>1, <2>1, Zenon DEF Pending
  <2>4. r \in AbstractStore!Writes BY <2>1, <2>2, Zenon DEF AbstractStore!Writes, AbstractStore!Changing
  <2> QED BY <2>4, Zenon DEF AbstractStore!Requests
<1>2. CASE r.op = "delete"
  <2>1. PICK t \in Tuples : r.writes = {} /\ r.deletes = {t} /\ ~IsGuarded(t)
    BY <1>2, Zenon DEF RequestOK
  <2>2. r = [op |-> "delete", writes |-> {}, deletes |-> {t}] BY <1>2, <2>1, Zenon DEF Pending
  <2>3. t \in {u \in Tuples : ~AbstractStore!IsGuarded(u)}
    BY <2>1, Zenon DEF AbstractStore!IsGuarded, IsGuarded
  <2>4. r \in AbstractStore!Deletes BY <2>2, <2>3, Zenon DEF AbstractStore!Deletes, AbstractStore!Changing
  <2> QED BY <2>4, Zenon DEF AbstractStore!Requests
<1>3. CASE r.op = "guarded"
  <2>1. PICK t \in Tuples : r.writes = {} /\ r.deletes = {t} /\ IsGuarded(t)
    BY <1>3, Zenon DEF RequestOK
  <2>2. r = [op |-> "guarded", writes |-> {}, deletes |-> {t}] BY <1>3, <2>1, Zenon DEF Pending
  <2>3. t \in {u \in Tuples : AbstractStore!IsGuarded(u)}
    BY <2>1, Zenon DEF AbstractStore!IsGuarded, IsGuarded
  <2>4. r \in AbstractStore!GuardedDeletes BY <2>2, <2>3, Zenon DEF AbstractStore!GuardedDeletes, AbstractStore!Changing
  <2> QED BY <2>4, Zenon DEF AbstractStore!Requests
<1>4. CASE r.op = "tx"
  <2> DEFINE b == <<r.writes, r.deletes>>
  <2>1. b \in Batches BY <1>4, Zenon DEF RequestOK
  <2>2. r = [op |-> "tx", writes |-> b[1], deletes |-> b[2]] BY <1>4, Zenon DEF Pending
  <2> HIDE DEF b
  <2>4. r \in AbstractStore!Transactions BY <2>1, <2>2, Zenon
                                            DEF AbstractStore!Transactions, AbstractStore!Changing
  <2> QED BY <2>4, Zenon DEF AbstractStore!Requests
<1>5. CASE r.op = "replace"
  <2>1. /\ r.key \in Keys /\ r.replacements \in SUBSET Tuples
        /\ r = [op |-> "replace", key |-> r.key, replacements |-> r.replacements]
    BY <1>5, Zenon DEF RequestOK, Pending
  <2>4. r \in AbstractStore!Replacements BY <2>1 DEF AbstractStore!Replacements
  <2> QED BY <2>4, Zenon DEF AbstractStore!Requests
<1>6. CASE r.op = "raw"
  <2>1. PICK t \in Tuples : r.writes = {} /\ r.deletes = {t} BY <1>6, Zenon DEF RequestOK
  <2>2. r = [op |-> "raw", writes |-> {}, deletes |-> {t}] BY <1>6, <2>1, Zenon DEF Pending
  <2>3. r \in AbstractStore!RawDeletes BY <2>1, <2>2, Zenon DEF AbstractStore!RawDeletes, AbstractStore!Changing
  <2> QED BY <2>3, Zenon DEF AbstractStore!Requests
<1> QED BY <1>1, <1>2, <1>3, <1>4, <1>5, <1>6, Zenon DEF Pending

LEMMA BeginRefines ==
    ASSUME Inv, NEW c \in Callers, NEW r \in Pending, RequestOK(r), Begin(c, r)
    PROVE  AbstractStore!Submit(c)
<1>1. Stored' = Stored BY BeginStep, Zenon
<1>2. Reqs[c] = Idle /\ call' = [call EXCEPT ![c] = r]
  BY Zenon DEF Begin, Reqs, Request, Idle
<1>3. r.op # "notify" BY Zenon DEF Pending
<1>4. Reqs' = [Reqs EXCEPT ![c] = r] BY <1>2, <1>3, ReqsAfter, Zenon DEF Inv
<1>5. r \in AbstractStore!Requests BY RequestSubmitted, Zenon
<1> QED BY <1>1, <1>2, <1>4, <1>5, Zenon DEF AbstractStore!Submit, AbstractStore!Idle, Idle, Reqs

LEMMA BeginsRefine ==
    ASSUME Inv, NEW c \in Callers, NEW t \in Tuples,
           \/ WriteTuple(c, t) \/ DeleteTuple(c, t) \/ WriteRawTuple(c, t) \/ DeleteRawTuple(c, t)
    PROVE  AbstractStore!Submit(c)
<1>1. CASE WriteTuple(c, t) \/ WriteRawTuple(c, t)
  <2> DEFINE r == [op |-> "write", writes |-> {t}, deletes |-> {}]
  <2>1. r \in Pending /\ RequestOK(r) /\ Begin(c, r)
    BY <1>1, Zenon DEF Pending, RequestOK, WriteTuple, WriteRawTuple
  <2> HIDE DEF r
  <2> QED BY <2>1, BeginRefines, Zenon
<1>2. CASE DeleteTuple(c, t)
  <2> DEFINE r == [op |-> IF IsGuarded(t) THEN "guarded" ELSE "delete",
                   writes |-> {}, deletes |-> {t}]
  <2>1. r \in Pending /\ RequestOK(r) /\ Begin(c, r)
    BY <1>2, Zenon DEF Pending, RequestOK, DeleteTuple
  <2> HIDE DEF r
  <2> QED BY <2>1, BeginRefines
<1>3. CASE DeleteRawTuple(c, t)
  <2> DEFINE r == [op |-> "raw", writes |-> {}, deletes |-> {t}]
  <2>1. r \in Pending /\ RequestOK(r) /\ Begin(c, r)
    BY <1>3, Zenon DEF Pending, RequestOK, DeleteRawTuple
  <2> HIDE DEF r
  <2> QED BY <2>1, BeginRefines, Zenon
<1> QED BY <1>1, <1>2, <1>3, Zenon

LEMMA BatchRefines ==
    ASSUME Inv, NEW c \in Callers, NEW b \in Batches, WriteRelationships(c, b)
    PROVE  AbstractStore!Submit(c)
<1> DEFINE r == [op |-> "tx", writes |-> b[1], deletes |-> b[2]]
<1>1. b[1] \in SUBSET Tuples /\ b[2] \in SUBSET Tuples /\ b = <<b[1], b[2]>>
  BY StoreAssumption
<1>2. r \in Pending /\ RequestOK(r) /\ Begin(c, r)
  BY <1>1, Zenon DEF Pending, RequestOK, WriteRelationships
<1> HIDE DEF r
<1> QED BY <1>2, BeginRefines, Zenon

LEMMA ReplaceRefines ==
    ASSUME Inv, NEW c \in Callers, NEW k \in Keys, NEW s \in SUBSET {t \in Tuples : KeyOf[t] = k},
           ReplaceRelationships(c, k, s)
    PROVE  AbstractStore!Submit(c)
<1> DEFINE r == [op |-> "replace", key |-> k, replacements |-> s]
<1>1. r \in Pending /\ RequestOK(r) /\ Begin(c, r)
  BY Zenon DEF Pending, RequestOK, ReplaceRelationships
<1> HIDE DEF r
<1> QED BY <1>1, BeginRefines, Zenon

\* A guarded delete is refused exactly when the set has no holder to spare.
LEMMA LastHolderRefines ==
    ASSUME Inv, NEW t \in Tuples
    PROVE  AbstractStore!LastHolder(t) <=> LastHolder(t)
<1>1. /\ KeyOf[t] \in Keys
      /\ byObjectRelation[KeyOf[t]] = {u \in Stored : KeyOf[u] = KeyOf[t]}
  BY Bucket, StoreAssumption, Zenon DEF Inv
<1>2. AbstractStore!HoldersIn(Stored, KeyOf[t]) = directHolders(KeyOf[t])
  BY <1>1, Zenon DEF AbstractStore!HoldersIn, directHolders
<1>3. AbstractStore!Cardinality(directHolders(KeyOf[t])) = Cardinality(directHolders(KeyOf[t]))
  BY Zenon, Zenon DEF AbstractStore!Cardinality, Cardinality
<1>4. t \in Stored <=> t \in byObjectRelation[KeyOf[t]]
  BY <1>1, Zenon
<1> QED BY <1>2, <1>3, <1>4, Zenon DEF AbstractStore!LastHolder, LastHolder

\* Once the store has answered, the request is gone.
LEMMA Answered ==
    ASSUME Inv, NEW c \in Callers, NEW W \in SUBSET Tuples, NEW D \in SUBSET Tuples,
           call' = [call EXCEPT ![c] = Notify(W, D)]
    PROVE  Reqs' = [Reqs EXCEPT ![c] = Idle]
<1> DEFINE r == Notify(W, D)
<1>1. r \in {Idle} \cup Pending \cup Notifying BY NotifyType, Zenon
<1>2. r = Idle \/ r.op = "notify" BY Zenon DEF Notify
<1>3. call' = [call EXCEPT ![c] = r] BY Zenon
<1> HIDE DEF r
<1>4. Reqs' = [Reqs EXCEPT ![c] = IF r.op = "notify" THEN Idle ELSE r]
  BY <1>1, <1>3, ReqsAfter, Zenon DEF Inv
<1> QED BY <1>2, <1>4, Zenon

LEMMA StoreRefines ==
    ASSUME Inv, NEW c \in Callers, StoreStep(c)
    PROVE  AbstractStore!Next
<1>1. /\ call[c].op \in {"write", "delete", "raw", "guarded", "tx", "replace"}
      /\ RequestOK(call[c])
      /\ Stored' = (Stored \cup Writes(c)) \ Deletes(c)
  BY StoreSteps, StoreStepInv, Zenon DEF Inv, CallOK
<1>2. Reqs[c] = call[c] BY <1>1, Zenon DEF Reqs, Request
<1>3. Reqs' = [Reqs EXCEPT ![c] = Idle]
  <2> DEFINE W == Writes(c)
             D == Deletes(c)
  <2>1. W \in SUBSET Tuples /\ D \in SUBSET Tuples /\ call' = [call EXCEPT ![c] = Notify(W, D)]
    BY StoreSteps, Zenon DEF Commit
  <2> HIDE DEF W, D
  <2> QED BY <2>1, Answered, Zenon
<1>4. AbstractStore!Answer(c)
  BY <1>3, Zenon DEF AbstractStore!Answer, AbstractStore!Idle, Idle, Reqs
<1>5. CASE call[c].op \in {"write", "delete", "raw", "tx"}
  <2>1. AbstractStore!WriteTx(c)
    BY <1>1, <1>2, <1>4, <1>5, Zenon DEF AbstractStore!WriteTx, Writes, Deletes, Reqs
  <2> QED BY <2>1, Zenon DEF AbstractStore!Next
<1>6. CASE call[c].op = "guarded"
  <2>1. PICK t \in Tuples : call[c].writes = {} /\ call[c].deletes = {t}
    BY <1>1, <1>6, Zenon DEF RequestOK
  <2>2. ~LastHolder(t)
    BY <1>6, <2>1, Zenon DEF StoreStep, StoreChange, ReplaceTx, DeleteIfAbove
  <2>3. ~AbstractStore!LastHolder(t) BY <2>2, LastHolderRefines, Zenon
  <2>4. Stored' = Stored \ {u \in call[c].deletes : ~AbstractStore!LastHolder(u)}
    BY <1>1, <1>6, <2>1, <2>3, Zenon DEF Writes, Deletes
  <2>5. AbstractStore!DeleteIfAbove(c)
    BY <1>2, <1>4, <1>6, <2>4, Zenon DEF AbstractStore!DeleteIfAbove, Reqs
  <2> QED BY <2>5, Zenon DEF AbstractStore!Next
<1>7. CASE call[c].op = "replace"
  <2> DEFINE k == call[c].key
             s == call[c].replacements
  <2>1. k \in Keys /\ s \in SUBSET {t \in Tuples : KeyOf[t] = k}
    BY <1>1, <1>7, RequestTypes, Zenon DEF RequestOK, Inv
  <2>2. byObjectRelation[k] = {t \in Stored : KeyOf[t] = k}
    BY <2>1, Bucket, Zenon DEF Inv
  <2>3. Stored' = (Stored \cup (s \ byObjectRelation[k])) \ (byObjectRelation[k] \ s)
    BY <1>1, <1>7, Zenon DEF Writes, Deletes, ReplacementWrites, ReplacementDeletes
  <2>4. Stored' = {t \in Stored : KeyOf[t] # k} \cup s
    <3> HIDE DEF k, s
    <3> QED BY <2>1, <2>2, <2>3, Zenon
  <2>5. AbstractStore!ReplaceTx(c)
    BY <1>2, <1>4, <1>7, <2>4 DEF AbstractStore!ReplaceTx, Reqs
  <2> QED BY <2>5, Zenon DEF AbstractStore!Next
<1> QED BY <1>1, <1>5, <1>6, <1>7, Zenon

\* A refused delete is an answer too, and notifications are not seen.
LEMMA QuietRefines ==
    ASSUME Inv, [Next]_vars, \A c \in Callers : ~StoreStep(c)
    PROVE  AbstractStore!Next \/ (Reqs' = Reqs /\ Stored' = Stored)
<1>1. Stored' = Stored BY OtherSteps, Zenon
<1>2. ASSUME NEW c \in Callers, NEW t \in Tuples, OnTupleWrite(c, t) \/ OnTupleDelete(c, t)
      PROVE  Reqs' = Reqs
  <2> DEFINE W == IF OnTupleWrite(c, t) THEN call[c].writes \ {t} ELSE {}
             D == IF OnTupleWrite(c, t) THEN call[c].deletes ELSE call[c].deletes \ {t}
  <2>1. call[c].op = "notify" BY <1>2, Zenon DEF OnTupleWrite, OnTupleDelete
  <2>2. W \in SUBSET Tuples /\ D \in SUBSET Tuples
    BY <2>1, RequestTypes, Zenon DEF Inv
  <2>3. call' = [call EXCEPT ![c] = Notify(W, D)]
    BY <1>2, Zenon DEF OnTupleWrite, OnTupleDelete
  <2> HIDE DEF W, D
  <2>4. Reqs' = [Reqs EXCEPT ![c] = Idle] BY <2>2, <2>3, Answered, Zenon
  <2>5. Reqs[c] = Idle BY <2>1, Zenon DEF Reqs, Request
  <2>6. Reqs = [Reqs EXCEPT ![c] = Reqs[c]] BY Zenon DEF Reqs
  <2> QED BY <2>4, <2>5, <2>6, Zenon
<1>3. ASSUME NEW c \in Callers, DeleteRefused(c)
      PROVE  AbstractStore!Next
  <2>1. call[c].op = "guarded" /\ \E t \in call[c].deletes : LastHolder(t)
    BY <1>3, Zenon DEF DeleteRefused
  <2>2. RequestOK(call[c]) BY Zenon DEF Inv, CallOK
  <2>3. PICK t \in Tuples : call[c].deletes = {t} BY <2>1, <2>2, Zenon DEF RequestOK
  <2>4. AbstractStore!LastHolder(t) BY <2>1, <2>3, LastHolderRefines, Zenon
  <2>5. Stored' = Stored \ {u \in call[c].deletes : ~AbstractStore!LastHolder(u)}
    BY <1>1, <2>3, <2>4, Zenon
  <2>6. Reqs[c] = call[c] BY <2>1, Zenon DEF Reqs, Request
  <2>7. Reqs' = [Reqs EXCEPT ![c] = Idle]
    <3> DEFINE W == {}
    <3>1. W \in SUBSET Tuples /\ call' = [call EXCEPT ![c] = Notify(W, W)]
      BY <1>3, Zenon DEF DeleteRefused, Notify
    <3> HIDE DEF W
    <3> QED BY <3>1, Answered, Zenon
  <2>8. AbstractStore!Answer(c)
    BY <2>7, Zenon DEF AbstractStore!Answer, AbstractStore!Idle, Idle, Reqs
  <2>9. AbstractStore!DeleteIfAbove(c)
    BY <2>1, <2>5, <2>6, <2>8, Zenon DEF AbstractStore!DeleteIfAbove, Reqs
  <2> QED BY <2>9, Zenon DEF AbstractStore!Next
<1>4. ASSUME NEW n \in Names, NEW m \in Computed, WriteMaterialized(n, m)
      PROVE  Reqs' = Reqs
  BY <1>4, Zenon DEF WriteMaterialized, Reqs, Request
<1>5. CASE UNCHANGED vars
  BY <1>1, <1>5, Zenon DEF vars, Reqs, Request
<1>6. ASSUME NEW c \in Callers, AbstractStore!Submit(c)
      PROVE  AbstractStore!Next
  BY <1>6, Zenon DEF AbstractStore!Next
<1> QED BY <1>1, <1>2, <1>3, <1>4, <1>5, <1>6, BeginsRefine, BatchRefines, ReplaceRefines, Zenon
           DEF Next, Engine, StoreStep

\* Every call takes effect in one atomic step on one set (ImplementsTupleSet),
\* whatever the callers interleave.
THEOREM StoreImplementsTupleSet == Spec => ImplementsTupleSet
<1>1. Init => AbstractStore!Init
  BY DEF Init, AbstractStore!Init, Stored, Request, Idle, AbstractStore!Idle
<1>2. Inv /\ [Next]_vars => [AbstractStore!Next]_<<Stored, Reqs>>
  BY QuietRefines, StoreRefines, Zenon
<1> QED BY <1>1, <1>2, SpecInv, PTL DEF Spec, ImplementsTupleSet, AbstractStore!Spec, Reqs

(***************************************************************************)
(* The replica                                                             *)
(***************************************************************************)

\* What ReplicaConverges needs while a notification is pending: it is the only one
\* for its tuple, and it ends with what the store holds.
ReplicaInv ==
    \A t \in Tuples \ contended :
        /\ (\A c \in Callers : t \notin Untold(c)) => (t \in replica <=> t \in Stored)
        /\ \A c \in Callers : t \in Untold(c) =>
              /\ \A d \in Callers \ {c} : t \notin Untold(d)
              /\ t \in Stored <=> t \notin call[c].deletes

LEMMA UntoldAfter ==
    ASSUME TypeOK, NEW c \in Callers, NEW W, NEW D, call' = [call EXCEPT ![c] = Notify(W, D)]
    PROVE  /\ Untold(c)' = W \cup D
           /\ W \cup D # {} => call'[c].deletes = D
           /\ \A d \in Callers \ {c} : Untold(d)' = Untold(d) /\ call'[d] = call[d]
BY Zenon DEF TypeOK, Untold, Notify, Idle

LEMMA ReplicaCommit ==
    ASSUME Inv, ReplicaInv, NEW c \in Callers, StoreStep(c)
    PROVE  ReplicaInv'
<1> DEFINE W == Writes(c)
           D == Deletes(c)
<1>1. /\ W \in SUBSET Tuples
      /\ D \in SUBSET Tuples
      /\ call[c].op # "notify"
      /\ Commit(c, W, D)
      /\ Stored' = (Stored \cup W) \ D
  BY StoreSteps, StoreStepInv, Zenon
<1> HIDE DEF W, D
<1>2. /\ Untold(c)' = W \cup D
      /\ W \cup D # {} => call'[c].deletes = D
      /\ \A d \in Callers \ {c} : Untold(d)' = Untold(d) /\ call'[d] = call[d]
  BY <1>1, UntoldAfter, Zenon DEF Commit, Inv
<1>3. Untold(c) = {}
  BY <1>1, Zenon DEF Untold
<1>4. replica' = replica
      /\ contended' = (contended \ (W \cup D)) \cup ((W \cup D) \cap UNION {Untold(d) : d \in Callers \ {c}})
  BY <1>1, Zenon DEF Commit
<1>5. ASSUME NEW t \in Tuples, t \notin contended', t \in W \cup D
      PROVE  /\ \A d \in Callers \ {c} : t \notin Untold(d)'
             /\ t \in Stored' <=> t \notin call'[c].deletes
  <2>1. \A d \in Callers \ {c} : t \notin Untold(d)
    BY <1>4, <1>5, Zenon
  <2> QED BY <1>1, <1>2, <1>5, <2>1, Zenon
<1>6. ASSUME NEW t \in Tuples, t \notin contended', t \notin W \cup D
      PROVE  /\ t \in Tuples \ contended
             /\ t \in Stored' <=> t \in Stored
             /\ \A d \in Callers : t \in Untold(d)' <=> t \in Untold(d)
             /\ \A d \in Callers : t \in Untold(d) => d # c /\ call'[d] = call[d]
  BY <1>1, <1>2, <1>3, <1>4, <1>6, Zenon
<1> QED BY <1>2, <1>4, <1>5, <1>6 DEF ReplicaInv

LEMMA ReplicaTold ==
    ASSUME Inv, ReplicaInv, NEW c \in Callers, NEW t \in Tuples,
           OnTupleWrite(c, t) \/ OnTupleDelete(c, t)
    PROVE  ReplicaInv'
<1>0. UNCHANGED <<byObjectRelation, contended>> /\ Stored' = Stored
  <2>1. UNCHANGED <<indexes, contended>>
    BY Zenon DEF OnTupleWrite, OnTupleDelete
  <2>2. byObjectRelation' = byObjectRelation /\ contended' = contended
    BY <2>1, Zenon DEF indexes
  <2> QED BY <2>2, Zenon DEF Stored
<1>1. CASE OnTupleWrite(c, t)
  <2> DEFINE W == call[c].writes \ {t}
             D == call[c].deletes
  <2>1. call' = [call EXCEPT ![c] = Notify(W, D)] /\ replica' = replica \cup {t}
    BY <1>1, Zenon DEF OnTupleWrite
  <2>2. Untold(c) = W \cup D \cup {t}
    BY <1>1, Zenon DEF OnTupleWrite, Untold
  <2>3. /\ Untold(c)' = W \cup D
        /\ W \cup D # {} => call'[c].deletes = D
        /\ \A d \in Callers \ {c} : Untold(d)' = Untold(d) /\ call'[d] = call[d]
    <3> HIDE DEF W, D
    <3> QED BY <2>1, UntoldAfter, Zenon DEF Inv
  <2>4. ASSUME NEW u \in Tuples \ contended
        PROVE  /\ (\A d \in Callers : u \notin Untold(d)') => (u \in replica' <=> u \in Stored)
               /\ \A d \in Callers : u \in Untold(d)' =>
                    /\ \A e \in Callers \ {d} : u \notin Untold(e)'
                    /\ u \in Stored <=> u \notin call'[d].deletes
    <3>0. /\ (\A d \in Callers : u \notin Untold(d)) => (u \in replica <=> u \in Stored)
          /\ \A d \in Callers : u \in Untold(d) =>
               /\ \A e \in Callers \ {d} : u \notin Untold(e)
               /\ u \in Stored <=> u \notin call[d].deletes
      BY <2>4, Zenon DEF ReplicaInv
    <3>1. u \in Untold(c) => (u \in Stored <=> u \notin D)
      BY <3>0, <2>2, Zenon
    <3>2. t \notin W
      BY Zenon
    <3> HIDE DEF W, D
    <3>3. (\A d \in Callers : u \notin Untold(d)') => (u \in replica' <=> u \in Stored)
      BY <2>1, <2>2, <2>3, <3>0, <3>1, <3>2
    <3>4. ASSUME NEW d \in Callers, u \in Untold(d)'
          PROVE  (\A e \in Callers \ {d} : u \notin Untold(e)') /\ (u \in Stored <=> u \notin call'[d].deletes)
      <4>1. CASE d = c
        BY <2>2, <2>3, <3>0, <3>1, <3>4, <4>1, Zenon
      <4>2. CASE d # c
        BY <2>2, <2>3, <3>0, <3>4, <4>2, Zenon
      <4> QED BY <4>1, <4>2, Zenon
    <3> QED BY <3>3, <3>4, Zenon
  <2> QED BY <1>0, <2>4, Zenon DEF ReplicaInv
<1>2. CASE OnTupleDelete(c, t)
  <2> DEFINE D == call[c].deletes \ {t}
  <2>1. call' = [call EXCEPT ![c] = Notify({}, D)] /\ replica' = replica \ {t}
    BY <1>2, Zenon DEF OnTupleDelete
  <2>2. Untold(c) = D \cup {t} /\ t \in call[c].deletes
    BY <1>2, Zenon DEF OnTupleDelete, Untold
  <2>3. /\ Untold(c)' = D
        /\ D # {} => call'[c].deletes = D
        /\ \A d \in Callers \ {c} : Untold(d)' = Untold(d) /\ call'[d] = call[d]
    <3> DEFINE W == {}
    <3>1. call' = [call EXCEPT ![c] = Notify(W, D)]
      BY <2>1, Zenon
    <3> HIDE DEF W, D
    <3>2. /\ Untold(c)' = W \cup D
          /\ W \cup D # {} => call'[c].deletes = D
          /\ \A d \in Callers \ {c} : Untold(d)' = Untold(d) /\ call'[d] = call[d]
      BY <3>1, UntoldAfter, Zenon DEF Inv
    <3> QED BY <3>2, Zenon DEF W
  <2>4. ASSUME NEW u \in Tuples \ contended
        PROVE  /\ (\A d \in Callers : u \notin Untold(d)') => (u \in replica' <=> u \in Stored)
               /\ \A d \in Callers : u \in Untold(d)' =>
                    /\ \A e \in Callers \ {d} : u \notin Untold(e)'
                    /\ u \in Stored <=> u \notin call'[d].deletes
    <3>0. /\ (\A d \in Callers : u \notin Untold(d)) => (u \in replica <=> u \in Stored)
          /\ \A d \in Callers : u \in Untold(d) =>
               /\ \A e \in Callers \ {d} : u \notin Untold(e)
               /\ u \in Stored <=> u \notin call[d].deletes
      BY <2>4, Zenon DEF ReplicaInv
    <3>1. u \in Untold(c) => (u \in Stored <=> u \notin D \cup {t})
      BY <3>0, <2>2, Zenon
    <3>2. t \notin D
      BY Zenon
    <3> HIDE DEF D
    <3>3. (\A d \in Callers : u \notin Untold(d)') => (u \in replica' <=> u \in Stored)
      BY <2>1, <2>2, <2>3, <3>0, <3>1, <3>2
    <3>4. ASSUME NEW d \in Callers, u \in Untold(d)'
          PROVE  (\A e \in Callers \ {d} : u \notin Untold(e)') /\ (u \in Stored <=> u \notin call'[d].deletes)
      <4>1. CASE d = c
        BY <2>2, <2>3, <3>0, <3>1, <3>4, <4>1, Zenon
      <4>2. CASE d # c
        BY <2>2, <2>3, <3>0, <3>4, <4>2, Zenon
      <4> QED BY <4>1, <4>2, Zenon
    <3> QED BY <3>3, <3>4, Zenon
  <2> QED BY <1>0, <2>4, Zenon DEF ReplicaInv
<1> QED BY <1>1, <1>2, Zenon

\* Every other step leaves the store, the replica and what is untold as they are.
LEMMA ReplicaQuiet ==
    ASSUME Inv, ReplicaInv, [Next]_vars,
           \A c \in Callers : ~StoreStep(c),
           \A c \in Callers, t \in Tuples : ~OnTupleWrite(c, t) /\ ~OnTupleDelete(c, t)
    PROVE  ReplicaInv'
<1>1. Stored' = Stored
  BY OtherSteps, Zenon
<1> DEFINE Quiet == /\ replica' = replica /\ contended' = contended
                    /\ \/ call' = call
                       \/ \E c \in Callers : \E r : /\ call' = [call EXCEPT ![c] = r]
                                                   /\ r.op # "notify" /\ call[c].op # "notify"
<1>2. ASSUME NEW c \in Callers, NEW r, Begin(c, r), r.op # "notify" PROVE Quiet
  <2>1. call[c].op # "notify" BY <1>2 DEF Begin, Idle
  <2> QED BY <1>2, <2>1, Zenon DEF Begin
<1>3. Quiet
  <2>1. ASSUME NEW c \in Callers, NEW t \in Tuples, WriteTuple(c, t) PROVE Quiet
    BY <1>2, <2>1, Zenon DEF WriteTuple
  <2>2. ASSUME NEW c \in Callers, NEW t \in Tuples, DeleteTuple(c, t) PROVE Quiet
    <3>1. PICK o \in {"guarded", "delete"} : Begin(c, [op |-> o, writes |-> {}, deletes |-> {t}])
      BY <2>2, Zenon DEF DeleteTuple
    <3> QED BY <1>2, <3>1, Zenon
  <2>3. ASSUME NEW c \in Callers, NEW t \in Tuples, WriteRawTuple(c, t) PROVE Quiet
    BY <1>2, <2>3, Zenon DEF WriteRawTuple
  <2>4. ASSUME NEW c \in Callers, NEW t \in Tuples, DeleteRawTuple(c, t) PROVE Quiet
    BY <1>2, <2>4, Zenon DEF DeleteRawTuple
  <2>5. ASSUME NEW c \in Callers, NEW b \in Batches, WriteRelationships(c, b) PROVE Quiet
    BY <1>2, <2>5, Zenon DEF WriteRelationships
  <2>6. ASSUME NEW c \in Callers, NEW k \in Keys, NEW r, ReplaceRelationships(c, k, r) PROVE Quiet
    BY <1>2, <2>6, Zenon DEF ReplaceRelationships
  <2>7. ASSUME NEW c \in Callers, DeleteRefused(c) PROVE Quiet
    <3>1. /\ call[c].op = "guarded" /\ call' = [call EXCEPT ![c] = Idle]
          /\ replica' = replica /\ contended' = contended
      BY <2>7, Zenon DEF DeleteRefused
    <3>2. Idle.op # "notify" /\ call[c].op # "notify" BY <3>1, Zenon DEF Idle
    <3> QED BY <3>1, <3>2, Zenon
  <2>8. ASSUME NEW n \in Names, NEW m \in Computed, WriteMaterialized(n, m) PROVE Quiet
    BY <2>8, Zenon DEF WriteMaterialized
  <2>9. CASE UNCHANGED vars BY <2>9, Zenon DEF vars
  <2> HIDE DEF Quiet
  <2> QED BY <2>1, <2>2, <2>3, <2>4, <2>5, <2>6, <2>7, <2>8, <2>9, Zenon DEF Next, Engine, StoreStep
<1>4. \A d \in Callers : Untold(d)' = Untold(d) /\ (Untold(d) # {} => call'[d] = call[d])
  BY <1>3, Zenon DEF Untold, Inv, TypeOK
<1> QED BY <1>1, <1>3, <1>4 DEF ReplicaInv

\* The replica agrees on every tuple whose changes did not overlap
\* (ReplicaConverges), for any number of callers and batches.
THEOREM ReplicaSafety == Spec => []ReplicaConverges
<1>1. Init => ReplicaInv
  BY DEF Init, ReplicaInv, Stored, Untold, Idle
<1>2. Inv /\ ReplicaInv /\ [Next]_vars => ReplicaInv'
  BY ReplicaCommit, ReplicaTold, ReplicaQuiet, Zenon
<1>3. ReplicaInv => ReplicaConverges
  BY Zenon DEF ReplicaInv, ReplicaConverges
<1> QED BY <1>1, <1>2, <1>3, SpecInv, PTL DEF Spec

(***************************************************************************)
(* Types of the materializers                                              *)
(***************************************************************************)

Versions == (0..MaxRegistrations) \X (0..MaxChanges)
Sinces == UNION {[S -> Versions] : S \in SUBSET Names}

\* Between two names, and inside one.
Between == [phase: {"next"}, todo: SUBSET Names, failed: BOOLEAN, since: Sinces]
Inside == [phase: {"call", "store"}, todo: SUBSET Names, failed: BOOLEAN, since: Sinces,
           name: Names, fn: 1..MaxRegistrations, version: 0..MaxChanges, alone: BOOLEAN]

RunOK(x) ==
    \/ x = NoRun
    \/ x \in Between \cup Inside /\ x.todo \subseteq DOMAIN x.since
          /\ (x \in Inside => x.name \in x.todo)

RegistryOK ==
    /\ registered \in [Names -> 0..MaxRegistrations]
    /\ data \in [Names -> 0..MaxChanges]
    /\ DOMAIN run = Runners
    /\ run = [r \in Runners |-> run[r]]
    /\ \A r \in Runners : RunOK(run[r])
    /\ promised \in [Names -> Versions]
    /\ overlapped \subseteq Names

\* The phase tells what a run has.
LEMMA RunShape ==
    ASSUME NEW x, RunOK(x), x.phase # "idle"
    PROVE  /\ x # NoRun
           /\ x.phase \in {"next", "call", "store"}
           /\ x.todo \subseteq DOMAIN x.since
           /\ x.todo \subseteq Names
           /\ x.failed \in BOOLEAN
           /\ x.since \in Sinces
           /\ x.phase = "next" => x \in Between
           /\ x.phase # "next" => x \in Inside /\ x.name \in x.todo
<1>1. x # NoRun
  BY DEF NoRun
<1>2. CASE x \in Between
  BY <1>1, <1>2, Zenon DEF RunOK, Between
<1>3. CASE x \in Inside
  BY <1>1, <1>3, Zenon DEF RunOK, Inside
<1> QED BY <1>1, <1>2, <1>3, Zenon DEF RunOK

LEMMA SinceType ==
    ASSUME NEW s \in Sinces, NEW n \in DOMAIN s
    PROVE  s[n] \in Versions /\ n \in Names
<1>1. PICK S \in SUBSET Names : s \in [S -> Versions]
  BY Zenon DEF Sinces
<1> QED BY <1>1, Zenon

LEMMA AfterOK ==
    ASSUME NEW r \in Runners, RunOK(run[r]), run[r].phase # "idle", NEW n \in run[r].todo,
           NEW failed \in BOOLEAN
    PROVE  RunOK(After(r, n, failed))
<1> DEFINE x == run[r]
           y == [phase |-> "next", todo |-> x.todo \ {n}, failed |-> firstErr(r, failed),
                 since |-> x.since]
<1>1. x.todo \subseteq DOMAIN x.since /\ x.todo \subseteq Names /\ x.since \in Sinces
  BY RunShape, Zenon
<1>2. firstErr(r, failed) \in BOOLEAN
  BY Zenon DEF firstErr
<1>3. y \in Between /\ y.todo \subseteq DOMAIN y.since /\ y.phase = "next"
  BY <1>1, <1>2, Zenon DEF Between
<1>4. y \notin Inside
  BY <1>3, Zenon DEF Inside
<1>5. After(r, n, failed) = IF x.todo = {n} THEN NoRun ELSE y
  BY Zenon DEF After
<1> HIDE DEF x, y
<1> QED BY <1>3, <1>4, <1>5, Zenon DEF RunOK

LEMMA VouchedType ==
    ASSUME RegistryOK, NEW r \in Runners, run[r].phase # "idle", NEW n, NEW failed \in BOOLEAN
    PROVE  Vouched(r, n, failed) \in [Names -> Versions]
<1>1. run[r].since \in Sinces
  BY RunShape, Zenon DEF RegistryOK
<1>2. \A m \in DOMAIN run[r].since : run[r].since[m] \in Versions
  BY <1>1, SinceType, Zenon
<1>3. \A a, b \in Versions : Later(a, b) \in Versions
  BY Zenon DEF Later
<1>4. promised \in [Names -> Versions]
  BY Zenon DEF RegistryOK
<1> QED BY <1>2, <1>3, <1>4, Zenon DEF Vouched

LEMMA RegistryInitOK == RegistryInit => RegistryOK
BY CallbackAssumption DEF RegistryInit, RegistryOK, RunOK, Versions

LEMMA RunChanges ==
    ASSUME RegistryOK, NEW r \in Runners, NEW y, RunOK(y), run' = [run EXCEPT ![r] = y]
    PROVE  /\ DOMAIN run' = Runners
           /\ run' = [x \in Runners |-> run'[x]]
           /\ \A x \in Runners : RunOK(run'[x])
BY Zenon DEF RegistryOK

\* A step of a runner, by what it does to the runner.
LEMMA BeginRunStep ==
    ASSUME RegistryOK, NEW r \in Runners, NEW names \in SUBSET Names, BeginRun(r, names)
    PROVE  RegistryOK' /\ UNCHANGED vars
<1> DEFINE s == [n \in names |-> <<registered[n], data[n]>>]
           y == [phase |-> "next", todo |-> names, failed |-> FALSE, since |-> s]
<1>1. s \in [names -> Versions]
  BY Zenon DEF RegistryOK, Versions
<1>2. s \in Sinces /\ DOMAIN s = names
  BY <1>1, Zenon DEF Sinces
<1>3. y \in Between /\ y.todo \subseteq DOMAIN y.since /\ y.phase = "next"
  BY <1>2, Zenon DEF Between
<1>4. RunOK(y)
  BY <1>3, Zenon DEF RunOK, Inside
<1>5. run' = [run EXCEPT ![r] = y] /\ UNCHANGED <<vars, registered, data, promised, overlapped>>
  BY Zenon DEF BeginRun
<1> HIDE DEF y
<1>6. /\ DOMAIN run' = Runners
      /\ run' = [x \in Runners |-> run'[x]]
      /\ \A x \in Runners : RunOK(run'[x])
  BY <1>4, <1>5, RunChanges, Zenon
<1> QED BY <1>5, <1>6, Zenon DEF RegistryOK

LEMMA LookupStep ==
    ASSUME RegistryOK, NEW r \in Runners, NEW n \in Names, Lookup(r, n)
    PROVE  RegistryOK' /\ UNCHANGED vars
<1> DEFINE x == run[r]
           y == [phase |-> "call", todo |-> x.todo, failed |-> x.failed, since |-> x.since,
                 name |-> n, fn |-> registered[n], version |-> 0, alone |-> TRUE]
<1>1. /\ x.todo \subseteq DOMAIN x.since /\ x.todo \subseteq Names
      /\ x.failed \in BOOLEAN /\ x.since \in Sinces
  BY RunShape, Zenon DEF Lookup, RegistryOK
<1>2. registered[n] \in 1..MaxRegistrations /\ 0 \in 0..MaxChanges /\ n \in x.todo
  BY CallbackAssumption DEF Lookup, RegistryOK
<1>3. y \in Inside /\ y.todo = x.todo /\ y.since = x.since /\ y.name = n
  BY <1>1, <1>2, Zenon DEF Inside
<1>4. RunOK(y)
  BY <1>1, <1>2, <1>3, Zenon DEF RunOK
<1>5. run' = [run EXCEPT ![r] = y] /\ UNCHANGED <<vars, registered, data, promised, overlapped>>
  BY Zenon DEF Lookup, RegistryOK
<1> HIDE DEF y
<1>6. /\ DOMAIN run' = Runners
      /\ run' = [z \in Runners |-> run'[z]]
      /\ \A z \in Runners : RunOK(run'[z])
  BY <1>4, <1>5, RunChanges, Zenon
<1> QED BY <1>5, <1>6, Zenon DEF RegistryOK

LEMMA ComputeStep ==
    ASSUME RegistryOK, NEW r \in Runners, Compute(r)
    PROVE  RegistryOK' /\ UNCHANGED vars
<1> DEFINE x == run[r]
           y == [x EXCEPT !.phase = "store", !.version = data[x.name]]
<1>1. x \in Inside /\ x.name \in x.todo /\ x.todo \subseteq DOMAIN x.since
  BY RunShape, Zenon DEF Compute, RegistryOK
<1>2. data[x.name] \in 0..MaxChanges
  BY <1>1, Zenon DEF RegistryOK, Inside
<1>3. y \in Inside /\ y.todo = x.todo /\ y.since = x.since /\ y.name = x.name
  BY <1>1, <1>2, Zenon DEF Inside
<1>4. RunOK(y)
  BY <1>1, <1>3, Zenon DEF RunOK
<1>5. run' = [run EXCEPT ![r] = y] /\ UNCHANGED <<vars, registered, data, promised, overlapped>>
  BY Zenon DEF Compute, RegistryOK
<1> HIDE DEF y
<1>6. /\ DOMAIN run' = Runners
      /\ run' = [z \in Runners |-> run'[z]]
      /\ \A z \in Runners : RunOK(run'[z])
  BY <1>4, <1>5, RunChanges, Zenon
<1> QED BY <1>5, <1>6, Zenon DEF RegistryOK

\* The name a step is about is one the call has still to do.
LEMMA FailsShape ==
    ASSUME RegistryOK, NEW r \in Runners, NEW n \in Names, Fails(r, n)
    PROVE  run[r].phase # "idle" /\ n \in run[r].todo
<1>1. run[r].phase # "idle"
  BY Zenon DEF Fails
<1>2. CASE run[r].phase = "call" /\ run[r].name = n
  BY <1>1, <1>2, RunShape, Zenon DEF RegistryOK
<1> QED BY <1>1, <1>2, Zenon DEF Fails

LEMMA FailsStep ==
    ASSUME RegistryOK, NEW r \in Runners, NEW n \in Names, Fails(r, n)
    PROVE  RegistryOK' /\ UNCHANGED vars
<1> DEFINE y == After(r, n, TRUE)
           p == Vouched(r, n, TRUE)
<1>1. run[r].phase # "idle" /\ n \in run[r].todo
  BY FailsShape, Zenon
<1>2. RunOK(y)
  BY <1>1, AfterOK, Zenon DEF RegistryOK
<1>3. p \in [Names -> Versions]
  BY <1>1, VouchedType, Zenon
<1>4. /\ run' = [run EXCEPT ![r] = y]
      /\ promised' = p
      /\ UNCHANGED <<vars, registered, data, overlapped>>
  BY Zenon DEF Fails
<1> HIDE DEF y, p
<1>5. /\ DOMAIN run' = Runners
      /\ run' = [z \in Runners |-> run'[z]]
      /\ \A z \in Runners : RunOK(run'[z])
  BY <1>2, <1>4, RunChanges, Zenon
<1> QED BY <1>3, <1>4, <1>5, Zenon DEF RegistryOK

\* A run that is overtaken.
LEMMA Overtaken ==
    ASSUME NEW x, RunOK(x), x.phase \in {"call", "store"}
    PROVE  LET y == [x EXCEPT !.alone = FALSE]
           IN  /\ RunOK(y)
               /\ y.phase = x.phase /\ y.todo = x.todo /\ y.failed = x.failed
               /\ y.since = x.since /\ y.name = x.name /\ y.fn = x.fn /\ y.version = x.version
               /\ y.alone = FALSE
<1> DEFINE y == [x EXCEPT !.alone = FALSE]
<1>1. x \in Inside /\ x.name \in x.todo /\ x.todo \subseteq DOMAIN x.since
  BY RunShape, Zenon
<1>2. /\ y \in Inside
      /\ y.phase = x.phase /\ y.todo = x.todo /\ y.failed = x.failed
      /\ y.since = x.since /\ y.name = x.name /\ y.fn = x.fn /\ y.version = x.version
      /\ y.alone = FALSE
  BY <1>1, Zenon DEF Inside
<1>3. RunOK(y)
  BY <1>1, <1>2, Zenon DEF RunOK
<1> QED BY <1>2, <1>3, Zenon

LEMMA StoreTypeStep ==
    ASSUME RegistryOK, NEW r \in Runners, Store(r)
    PROVE  /\ RegistryOK'
           /\ run[r].name \in Names /\ run[r].name \in run[r].todo
           /\ Callback[run[r].name, run[r].fn, run[r].version] \in Computed
<1> DEFINE n == run[r].name
           y == After(r, n, FALSE)
           p == Vouched(r, n, FALSE)
<1>1. run[r].phase = "store" /\ run[r] \in Inside /\ n \in run[r].todo
  BY RunShape, Zenon DEF Store, RegistryOK
<1>2. n \in Names /\ run[r].fn \in 1..MaxRegistrations /\ run[r].version \in 0..MaxChanges
  BY <1>1, Zenon DEF Inside
<1>3. Callback[n, run[r].fn, run[r].version] \in Computed
  BY <1>2, CallbackAssumption, Zenon
<1>4. RunOK(y)
  BY <1>1, AfterOK, Zenon DEF RegistryOK
<1>5. p \in [Names -> Versions]
  BY <1>1, VouchedType, Zenon
<1>6. /\ run' = [x \in Runners |-> IF x = r THEN y
                                   ELSE IF Active(x, n) THEN [run[x] EXCEPT !.alone = FALSE]
                                   ELSE run[x]]
      /\ promised' = p
      /\ overlapped' \subseteq overlapped \cup {n}
      /\ UNCHANGED <<registered, data>>
  BY Zenon DEF Store
<1> HIDE DEF y, p
<1>7. \A x \in Runners : Active(x, n) => RunOK([run[x] EXCEPT !.alone = FALSE])
  BY Overtaken, Zenon DEF Active, RegistryOK
<1>8. \A x \in Runners : RunOK(run'[x])
  BY <1>4, <1>6, <1>7, Zenon DEF RegistryOK
<1>9. DOMAIN run' = Runners /\ run' = [x \in Runners |-> run'[x]]
  BY <1>6, Zenon
<1>10. RegistryOK'
  BY <1>2, <1>5, <1>6, <1>8, <1>9, Zenon DEF RegistryOK
<1> QED BY <1>1, <1>2, <1>3, <1>10, Zenon

LEMMA ApplicationStep ==
    ASSUME RegistryOK, NEW n \in Names, register(n) \/ DataChanges(n)
    PROVE  RegistryOK' /\ UNCHANGED vars /\ UNCHANGED <<run, promised, overlapped>>
<1>1. CASE register(n)
  BY <1>1, CallbackAssumption DEF register, RegistryOK
<1>2. CASE DataChanges(n)
  BY <1>2, CallbackAssumption DEF DataChanges, RegistryOK
<1> QED BY <1>1, <1>2, Zenon

(***************************************************************************)
(* The store underneath                                                    *)
(***************************************************************************)

LEMMA RunsStep ==
    ASSUME RegistryOK, NEW r \in Runners, Runs(r)
    PROVE  RegistryOK' /\ [Next]_vars
<1>1. CASE \E n \in Names : Materialize(r, n)
  BY <1>1, BeginRunStep, Zenon DEF Materialize
<1>2. CASE MaterializeAll(r)
  BY <1>2, BeginRunStep, Zenon DEF MaterializeAll
<1>3. CASE \E n \in Names : Lookup(r, n)
  BY <1>3, LookupStep, Zenon
<1>4. CASE \E n \in Names : Fails(r, n)
  BY <1>4, FailsStep, Zenon
<1>5. CASE Compute(r)
  BY <1>5, ComputeStep, Zenon
<1>6. CASE Store(r)
  <2>1. WriteMaterialized(run[r].name, Callback[run[r].name, run[r].fn, run[r].version])
    BY <1>6, Zenon DEF Store
  <2> QED BY <1>6, <2>1, StoreTypeStep, Zenon DEF Next
<1> QED BY <1>1, <1>2, <1>3, <1>4, <1>5, <1>6, Zenon DEF Runs

\* Whatever happens, the store takes a step of its own or none.
LEMMA PagingStep ==
    ASSUME RegistryOK, [PagingNext]_pagingVars
    PROVE  RegistryOK' /\ [Next]_vars
<1>1. CASE Calls
  <2>1. [Next]_vars
    BY <1>1, Zenon DEF Calls, Next
  <2>2. UNCHANGED registryVars
    BY <1>1, Zenon DEF Calls
  <2> QED BY <2>1, <2>2, Zenon DEF registryVars, RegistryOK
<1>2. CASE Materializes
  BY <1>2, RunsStep, ApplicationStep, Zenon DEF Materializes
<1>3. CASE Scans
  BY <1>3, Zenon DEF Scans, registryVars, RegistryOK
<1>4. CASE UNCHANGED pagingVars
  BY <1>4, Zenon DEF pagingVars, registryVars, RegistryOK
<1> QED BY <1>1, <1>2, <1>3, <1>4, Zenon DEF PagingNext

StepOK == RegistryOK /\ Inv

LEMMA PagingTypes == PagingSpec => []StepOK
<1>1. PagingInit => StepOK
  BY RegistryInitOK, InitInv, Zenon DEF PagingInit, StepOK
<1>2. StepOK /\ [PagingNext]_pagingVars => StepOK'
  BY PagingStep, NextInv, Zenon DEF StepOK
<1> QED BY <1>1, <1>2, PTL DEF PagingSpec

\* Under materializers and scans the store is still TupleStore, so what is proved of
\* it carries over: materializer runs store only what a callback returned and scans
\* change nothing (materializer.go:44-60, memory.go:228-329).
THEOREM PagingKeepsStore == PagingSpec => Spec
<1>1. PagingInit => Init
  BY Zenon DEF PagingInit
<1>2. StepOK /\ [PagingNext]_pagingVars => [Next]_vars
  BY PagingStep DEF StepOK
<1> QED BY <1>1, <1>2, PagingTypes, PTL DEF PagingSpec, Spec

(***************************************************************************)
(* Scans                                                                   *)
(***************************************************************************)

Queries == [filter: SUBSET Tuples, exclude: Users \cup {Nobody}]
Cursors == {NoCursor} \cup [scope: Queries, key: Tuples]
ScanStates ==
    [phase: {"scanning", "done", "failed"}, union: Unions, query: Nat, cursor: Cursors,
     returned: SUBSET Tuples, repeated: SUBSET Tuples, steady: SUBSET Tuples]

ScanOK == scan = [phase |-> "idle"] \/ scan \in ScanStates

\* The cursor is at a key of the query that is being read.
CursorHere == scan.cursor # NoCursor /\ scan.cursor.scope = Query

\* What has been returned is of an earlier query, or of this one and not after the
\* cursor; of the steady tuples, all of these have been.
Progress ==
    /\ scan.query \in 1..Len(scan.union)
    /\ scan.cursor # NoCursor => \E i \in 1..scan.query : scan.cursor.scope = scan.union[i]
    /\ scan.steady \subseteq Visible
    /\ \A t \in scan.steady : \E i \in 1..Len(scan.union) : Matches(scan.union[i], t)
    /\ \A t \in scan.steady : \A i \in 1..(scan.query - 1) :
          Matches(scan.union[i], t) => t \in scan.returned
    /\ CursorHere => \A t \in scan.steady :
          Matches(Query, t) /\ ~TupleLess(scan.cursor.key, t) => t \in scan.returned
    /\ \A t \in scan.returned :
          \/ \E i \in 1..(scan.query - 1) : Matches(scan.union[i], t)
          \/ CursorHere /\ Matches(Query, t) /\ ~TupleLess(scan.cursor.key, t)

ScanInv ==
    /\ ScanOK
    /\ scan.phase = "scanning" => Progress
    /\ ScanComplete

\* The entries of a query are finitely many.
LEMMA EntriesFinite ==
    ASSUME TypeOK, NEW q, NEW c
    PROVE  /\ EntriesAfter(q, c) \subseteq ({"index"} \cup Names) \X Tuples
           /\ IsFiniteSet(EntriesAfter(q, c))
<1> DEFINE All == ({"index"} \cup Names) \X Tuples
<1>1. \A k \in Keys : ReadEntries(k) \subseteq All
  BY DEF ReadEntries, TypeOK
<1>2. EntriesAfter(q, c) \subseteq All
  BY <1>1, Zenon DEF EntriesAfter
<1>3. IsFiniteSet({"index"} \cup Names)
  BY FS_AddElement, PagingAssumption
<1>4. IsFiniteSet(All)
  BY <1>3, FS_Product, StoreAssumption, Zenon
<1> QED BY <1>2, <1>4, FS_Subset, Zenon

\* What a page has, every smaller entry is on the page with it.
LEMMA PageDown ==
    ASSUME NEW E, IsFiniteSet(E), E \subseteq ({"index"} \cup Names) \X Tuples,
           NEW limit \in Nat, NEW t \in Page(E, limit), NEW e \in E, ~TupleLess(t, e[2])
    PROVE  e[2] \in Page(E, limit)
<1> DEFINE L(u) == {x \in E : TupleLess(x[2], u)}
<1>1. t \in Tuples /\ Cardinality(L(t)) < limit
  BY Zenon DEF Page
<1>2. e[2] \in Tuples
  BY Zenon
<1>3. L(e[2]) \subseteq L(t)
  <2>1. \A x \in E : x[2] \in Tuples
    BY Zenon
  <2>2. \A x \in E : TupleLess(x[2], e[2]) => TupleLess(x[2], t)
    BY <1>1, <1>2, <2>1, PagingAssumption DEF TupleLess
  <2> QED BY <2>2, Zenon
<1>4. IsFiniteSet(L(t))
  BY FS_Subset, Zenon
<1>5. Cardinality(L(e[2])) <= Cardinality(L(t)) /\ IsFiniteSet(L(e[2]))
  BY <1>3, <1>4, FS_Subset, Zenon
<1>6. Cardinality(L(e[2])) \in Nat /\ Cardinality(L(t)) \in Nat
  BY <1>4, <1>5, FS_CardinalityType, Zenon
<1>7. Cardinality(L(e[2])) < limit
  BY <1>1, <1>5, <1>6
<1> QED BY <1>2, <1>7, Zenon DEF Page

\* When there are at most limit entries, they are all on the page.
LEMMA PageAll ==
    ASSUME NEW E, IsFiniteSet(E), E \subseteq ({"index"} \cup Names) \X Tuples,
           NEW limit \in Nat, Cardinality(E) <= limit, NEW e \in E
    PROVE  e[2] \in Page(E, limit)
<1> DEFINE L == {x \in E : TupleLess(x[2], e[2])}
<1>1. e[2] \in Tuples
  BY Zenon
<1>2. e \notin L
  BY <1>1, PagingAssumption DEF TupleLess
<1>3. /\ IsFiniteSet(L)
      /\ Cardinality(L) <= Cardinality(E)
      /\ Cardinality(L) = Cardinality(E) => L = E
  BY FS_Subset, Zenon
<1>4. L # E
  BY <1>2, Zenon
<1>5. Cardinality(L) \in Nat /\ Cardinality(E) \in Nat
  BY <1>3, FS_CardinalityType, Zenon
<1> HIDE DEF L
<1>6. Cardinality(L) < limit
  BY <1>3, <1>4, <1>5
<1> QED BY <1>1, <1>6, Zenon DEF Page, L

\* A page is part of the query, after the cursor.
LEMMA PagePart ==
    ASSUME NEW q, NEW c, NEW limit, NEW u \in Page(EntriesAfter(q, c), limit)
    PROVE  u \in Tuples /\ Matches(q, u) /\ (c # NoCursor => TupleLess(c.key, u))
BY Zenon DEF Page, EntriesAfter

\* A visible match after the cursor has an entry.
LEMMA VisibleEntry ==
    ASSUME NEW q, NEW c, NEW t \in Visible, Matches(q, t), c # NoCursor => TupleLess(c.key, t)
    PROVE  \E e \in EntriesAfter(q, c) : e[2] = t
BY Zenon DEF Visible, EntriesAfter

\* The queries of a union, and that a later one matches nothing of an earlier filter.
LEMMA UnionQueries ==
    ASSUME NEW u \in Unions
    PROVE  /\ Len(u) \in Nat /\ Len(u) >= 1
           /\ \A i \in 1..Len(u) : u[i] \in Queries
           /\ \A i, j \in 1..Len(u) : i < j => \A t : t \in u[i].filter => ~Matches(u[j], t)
<1>1. u \in Seq(Queries) /\ Len(u) >= 1
  BY PagingAssumption, Zenon DEF Queries
<1>2. Len(u) \in Nat /\ \A i \in 1..Len(u) : u[i] \in Queries
  BY <1>1
<1>3. \A i, j \in 1..Len(u) : i < j => \A t \in u[i].filter : UserOf[t] = u[j].exclude
  BY PagingAssumption, Zenon
<1> QED BY <1>1, <1>2, <1>3 DEF Matches

\* A step that changes the store leaves the scan's progress alone.
LEMMA WatchedStep ==
    ASSUME ScanInv, Watched
    PROVE  ScanInv'
<1>1. CASE scan.phase = "scanning"
  <2> DEFINE st == scan.steady \cap Visible'
  <2>1. scan \in ScanStates
    BY <1>1 DEF ScanInv, ScanOK
  <2>2. scan' = [scan EXCEPT !.steady = st]
    BY <1>1, Zenon DEF Watched
  <2>3. /\ scan' \in ScanStates
        /\ scan'.phase = "scanning" /\ scan'.union = scan.union /\ scan'.query = scan.query
        /\ scan'.cursor = scan.cursor /\ scan'.returned = scan.returned
        /\ scan'.repeated = scan.repeated /\ scan'.steady = st
    <3>1. st \in SUBSET Tuples
      BY <2>1, Zenon DEF ScanStates
    <3> HIDE DEF st
    <3> QED BY <1>1, <2>1, <2>2, <3>1, Zenon DEF ScanStates
  <2>4. Query' = Query /\ (CursorHere' <=> CursorHere)
    BY <2>3, Zenon DEF Query, CursorHere
  <2>5. Progress
    BY <1>1 DEF ScanInv
  <2>6. Progress'
    BY <2>3, <2>4, <2>5 DEF Progress, Matches, TupleLess
  <2>7. ScanComplete'
    BY <1>1, <2>3, Zenon DEF ScanInv, ScanComplete
  <2> QED BY <2>3, <2>6, <2>7, Zenon DEF ScanInv, ScanOK
<1>2. CASE scan.phase # "scanning"
  <2>1. scan' = scan
    BY <1>2, Zenon DEF Watched
  <2> QED BY <1>2, <2>1, Zenon DEF ScanInv, ScanOK, ScanComplete
<1> QED BY <1>1, <1>2, Zenon

LEMMA StartStep ==
    ASSUME ScanInv, NEW u \in Unions, StartScan(u), UNCHANGED vars
    PROVE  ScanInv'
<1> DEFINE st == {t \in Visible : \E i \in 1..Len(u) : Matches(u[i], t)}
<1>1. scan' = [phase |-> "scanning", union |-> u, query |-> 1, cursor |-> NoCursor,
               returned |-> {}, repeated |-> {}, steady |-> st]
  BY Zenon DEF StartScan
<1>2. st \in SUBSET Tuples /\ st \subseteq Visible
      /\ \A t \in st : \E i \in 1..Len(u) : Matches(u[i], t)
  BY Zenon DEF Visible
<1>3. Visible' = Visible
  BY Zenon DEF vars, indexes, Visible, ReadEntries
<1> HIDE DEF st
<1>4. /\ scan' \in ScanStates
      /\ scan'.phase = "scanning" /\ scan'.union = u /\ scan'.query = 1
      /\ scan'.cursor = NoCursor /\ scan'.returned = {} /\ scan'.repeated = {} /\ scan'.steady = st
  BY <1>1, <1>2, Zenon DEF ScanStates, Cursors
<1>5. 1 \in 1..Len(u) /\ 1..(1 - 1) = {}
  BY UnionQueries
<1>6. Progress'
  BY <1>2, <1>3, <1>4, <1>5, Zenon DEF Progress, CursorHere, Matches
<1>7. ScanComplete'
  BY <1>4, Zenon DEF ScanComplete
<1> QED BY <1>4, <1>6, <1>7, Zenon DEF ScanInv, ScanOK

LEMMA RefusedStep ==
    ASSUME ScanInv, ReadRefused
    PROVE  ScanInv'
<1>1. scan.phase = "scanning" /\ scan' = [scan EXCEPT !.phase = "failed"]
  BY Zenon DEF ReadRefused
<1>2. scan \in ScanStates
  BY <1>1 DEF ScanInv, ScanOK
<1>3. scan' \in ScanStates /\ scan'.phase = "failed" /\ scan'.repeated = scan.repeated
  BY <1>1, <1>2, Zenon DEF ScanStates
<1>4. ScanComplete'
  BY <1>1, <1>3, Zenon DEF ScanInv, ScanComplete
<1> QED BY <1>3, <1>4, Zenon DEF ScanInv, ScanOK

\* What the next page is about: steady matches that have not been returned, and
\* nothing that has.
LEMMA NextPage ==
    ASSUME ScanInv, scan.phase = "scanning", ~CursorRefused, NEW limit \in Nat
    PROVE  LET E == EntriesAfter(Query, scan.cursor)
           IN  /\ scan \in ScanStates /\ Progress
               /\ scan.cursor # NoCursor => CursorHere
               /\ \A t \in scan.steady : Matches(Query, t) =>
                     t \in scan.returned \/ \E e \in E : e[2] = t
               /\ \A t \in Page(E, limit) : /\ t \in Tuples /\ Matches(Query, t)
                                            /\ t \notin scan.returned
                                            /\ CursorHere => TupleLess(scan.cursor.key, t)
<1> DEFINE E == EntriesAfter(Query, scan.cursor)
<1>1. scan \in ScanStates /\ Progress
  BY DEF ScanInv, ScanOK
<1>2. scan.cursor # NoCursor => CursorHere
  BY Zenon DEF CursorRefused, Decodes, CursorHere
<1>3. ASSUME NEW t \in scan.steady, Matches(Query, t), t \notin scan.returned
      PROVE  \E e \in E : e[2] = t
  <2>1. t \in Visible
    BY <1>1, <1>3, Zenon DEF Progress
  <2>2. scan.cursor # NoCursor => TupleLess(scan.cursor.key, t)
    BY <1>1, <1>2, <1>3, Zenon DEF Progress
  <2> QED BY <1>3, <2>1, <2>2, VisibleEntry
<1>4. ASSUME NEW t \in Page(E, limit)
      PROVE  /\ t \in Tuples /\ Matches(Query, t) /\ t \notin scan.returned
             /\ CursorHere => TupleLess(scan.cursor.key, t)
  <2>1. t \in Tuples /\ Matches(Query, t) /\ (scan.cursor # NoCursor => TupleLess(scan.cursor.key, t))
    BY <1>4, PagePart, Zenon
  <2>2. scan.union \in Unions /\ scan.query \in 1..Len(scan.union)
    BY <1>1, Zenon DEF ScanStates, Progress
  <2>3. ASSUME NEW i \in 1..(scan.query - 1), Matches(scan.union[i], t)
        PROVE  FALSE
    <3>1. i \in 1..Len(scan.union) /\ i < scan.query
      BY <2>2, UnionQueries
    <3>2. t \in scan.union[i].filter
      BY <2>3, Zenon DEF Matches
    <3>3. ~Matches(scan.union[scan.query], t)
      BY <2>2, <3>1, <3>2, UnionQueries, Zenon
    <3> QED BY <2>1, <3>3, Zenon DEF Query
  <2>4. t \notin scan.returned
    BY <1>1, <2>1, <2>3 DEF Progress, CursorHere
  <2> QED BY <2>1, <2>4, Zenon DEF CursorHere
<1> QED BY <1>1, <1>2, <1>3, <1>4, Zenon

LEMMA ReadPageStep ==
    ASSUME ScanInv, TypeOK, NEW limit \in Nat, NEW t \in Tuples, ReadPage(limit, t), UNCHANGED vars
    PROVE  ScanInv'
<1> DEFINE q == Query
           E == EntriesAfter(q, scan.cursor)
           taken == {u \in Page(E, limit) : ~TupleLess(t, u)}
           next == EncodeTuplePageCursor(q, t)
           repeats == scan.repeated \cup (scan.returned \cap taken)
           total == scan.returned \cup taken
<1>1. /\ scan.phase = "scanning" /\ ~CursorRefused /\ t \in Page(E, limit)
      /\ scan' = [Take(taken) EXCEPT !.cursor = next]
  BY Zenon DEF ReadPage
<1>2. scan \in ScanStates /\ Progress /\ (scan.cursor # NoCursor => CursorHere)
  BY <1>1, NextPage, Zenon
<1>3. \A s \in scan.steady : Matches(q, s) => s \in scan.returned \/ \E e \in E : e[2] = s
  BY <1>1, NextPage, Zenon
<1>4. \A u \in Page(E, limit) : /\ u \in Tuples /\ Matches(q, u) /\ u \notin scan.returned
                                /\ CursorHere => TupleLess(scan.cursor.key, u)
  BY <1>1, NextPage, Zenon
<1>5. q \in Queries /\ scan.query \in 1..Len(scan.union) /\ scan.query \in Nat
      /\ q = scan.union[scan.query]
  BY <1>2, UnionQueries, Zenon DEF Progress, ScanStates, Query
<1>6. next \in Cursors /\ next # NoCursor /\ next.scope = q /\ next.key = t
  <2>1. next = [scope |-> q, key |-> t]
    BY Zenon DEF EncodeTuplePageCursor
  <2>2. next \in [scope: Queries, key: Tuples]
    BY <1>5, <2>1
  <2>3. next # NoCursor
    BY <2>1 DEF NoCursor
  <2> QED BY <2>1, <2>2, <2>3 DEF Cursors
<1>7. taken \subseteq Tuples /\ scan.returned \cap taken = {}
  BY <1>4, Zenon
<1>8. scan.repeated = {}
  BY <1>1, Zenon DEF ScanInv, ScanComplete
<1>9. Visible' = Visible
  BY DEF vars, indexes, Visible, ReadEntries
<1>10. scan' = [scan EXCEPT !.returned = total, !.repeated = repeats, !.cursor = next]
  BY <1>1, <1>2, Zenon DEF Take, ScanStates
<1>11. repeats = {} /\ total \subseteq Tuples
  BY <1>2, <1>7, <1>8, Zenon DEF ScanStates
\* Every steady match up to the new cursor is returned.
<1>12. ASSUME NEW s \in scan.steady, Matches(q, s), ~TupleLess(t, s)
       PROVE  s \in total
  <2>1. CASE s \in scan.returned
    BY <2>1, Zenon
  <2>2. ASSUME NEW e \in E, e[2] = s
        PROVE  s \in total
    <3>1. IsFiniteSet(E) /\ E \subseteq ({"index"} \cup Names) \X Tuples
      BY EntriesFinite, Zenon
    <3>2. s \in Page(E, limit)
      BY <1>1, <1>12, <2>2, <3>1, PageDown
    <3> QED BY <1>12, <3>2, Zenon
  <2> QED BY <1>3, <1>12, <2>1, <2>2, Zenon
\* And what is returned of this query is up to the new cursor.
<1>13. ASSUME NEW u \in total
       PROVE  \/ \E i \in 1..(scan.query - 1) : Matches(scan.union[i], u)
              \/ Matches(q, u) /\ ~TupleLess(t, u)
  <2>1. CASE u \in taken
    BY <1>4, <2>1
  <2>2. ASSUME u \in scan.returned, CursorHere, Matches(q, u), ~TupleLess(scan.cursor.key, u)
        PROVE  ~TupleLess(t, u)
    <3>1. TupleLess(scan.cursor.key, t)
      BY <1>1, <1>4, <2>2, Zenon
    <3>2. u \in Tuples /\ scan.cursor.key \in Tuples
      BY <1>2, <2>2, Zenon DEF ScanStates, Cursors, CursorHere
    <3> QED BY <2>2, <3>1, <3>2, PagingAssumption DEF TupleLess
  <2> QED BY <1>2, <1>13, <2>1, <2>2, Zenon DEF Progress
<1> HIDE DEF q, E, taken, next, repeats, total
<1>14. /\ scan' \in ScanStates
       /\ scan'.phase = "scanning" /\ scan'.union = scan.union /\ scan'.query = scan.query
       /\ scan'.cursor = next /\ scan'.returned = total /\ scan'.repeated = {}
       /\ scan'.steady = scan.steady
  BY <1>1, <1>2, <1>6, <1>10, <1>11, Zenon DEF ScanStates
<1>15. Query' = q /\ CursorHere'
  BY <1>5, <1>6, <1>14, Zenon DEF Query, CursorHere
<1>16. scan.returned \subseteq total
  BY DEF total
<1>17. Progress'
  <2>1. scan'.query \in 1..Len(scan'.union)
    BY <1>5, <1>14
  <2>2. \E i \in 1..scan'.query : scan'.cursor.scope = scan'.union[i]
    <3>1. scan.query \in 1..scan.query
      BY <1>5
    <3> QED BY <1>5, <1>6, <1>14, <3>1, Zenon
  <2>3. scan'.steady \subseteq Visible'
    BY <1>2, <1>9, <1>14, Zenon DEF Progress
  <2>4. \A s \in scan'.steady : \E i \in 1..Len(scan'.union) : Matches(scan'.union[i], s)
    BY <1>2, <1>14, Zenon DEF Progress
  <2>5. \A s \in scan'.steady : \A i \in 1..(scan'.query - 1) :
            Matches(scan'.union[i], s) => s \in scan'.returned
    BY <1>2, <1>14, <1>16 DEF Progress
  <2>6. \A s \in scan'.steady :
            Matches(Query', s) /\ ~TupleLess(scan'.cursor.key, s) => s \in scan'.returned
    BY <1>6, <1>12, <1>14, <1>15, Zenon
  <2>7. \A u \in scan'.returned :
            \/ \E i \in 1..(scan'.query - 1) : Matches(scan'.union[i], u)
            \/ CursorHere' /\ Matches(Query', u) /\ ~TupleLess(scan'.cursor.key, u)
    BY <1>6, <1>13, <1>14, <1>15
  <2> QED BY <2>1, <2>2, <2>3, <2>4, <2>5, <2>6, <2>7 DEF Progress, Matches, TupleLess
<1>18. ScanComplete'
  BY <1>14, Zenon DEF ScanComplete
<1> QED BY <1>14, <1>17, <1>18, Zenon DEF ScanInv, ScanOK

LEMMA ReadLastPageStep ==
    ASSUME ScanInv, TypeOK, NEW limit \in Nat, NEW keep \in BOOLEAN, ReadLastPage(limit, keep),
           UNCHANGED vars
    PROVE  ScanInv'
<1> DEFINE q == Query
           E == EntriesAfter(q, scan.cursor)
           page == Page(E, limit)
           next == IF keep THEN scan.cursor ELSE NoCursor
           after == IF scan.query = Len(scan.union) THEN "done" ELSE "scanning"
           repeats == scan.repeated \cup (scan.returned \cap page)
           total == scan.returned \cup page
<1>1. /\ scan.phase = "scanning" /\ ~CursorRefused /\ Cardinality(E) <= limit
      /\ scan' = [Take(page) EXCEPT !.query = @ + 1, !.cursor = IF keep THEN @ ELSE NoCursor,
                     !.phase = IF scan.query = Len(scan.union) THEN "done" ELSE @]
  BY Zenon DEF ReadLastPage
<1>2. scan \in ScanStates /\ Progress
  BY <1>1, NextPage, Zenon
<1>3. \A s \in scan.steady : Matches(q, s) => s \in scan.returned \/ \E e \in E : e[2] = s
  BY <1>1, NextPage, Zenon
<1>4. \A u \in page : u \in Tuples /\ Matches(q, u) /\ u \notin scan.returned
  BY <1>1, NextPage, Zenon
<1>5. /\ scan.union \in Unions /\ scan.query \in 1..Len(scan.union) /\ scan.query \in Nat
      /\ Len(scan.union) \in Nat /\ q = scan.union[scan.query]
  BY <1>2, UnionQueries, Zenon DEF Progress, ScanStates, Query
<1>6. next \in Cursors /\ (next # NoCursor => next = scan.cursor)
  BY <1>2, Zenon DEF ScanStates, Cursors
<1>7. repeats = {} /\ total \subseteq Tuples
  <2>1. scan.repeated = {}
    BY <1>1, Zenon DEF ScanInv, ScanComplete
  <2> QED BY <1>2, <1>4, <2>1, Zenon DEF ScanStates
<1>8. Visible' = Visible
  BY Zenon DEF vars, indexes, Visible, ReadEntries
<1>9. scan' = [scan EXCEPT !.returned = total, !.repeated = repeats, !.query = scan.query + 1,
                  !.cursor = next, !.phase = after]
  BY <1>1, <1>2, Zenon DEF Take, ScanStates
\* All steady matches of this query are returned by now.
<1>10. ASSUME NEW s \in scan.steady, Matches(q, s)
       PROVE  s \in total
  <2>1. ASSUME NEW e \in E, e[2] = s
        PROVE  s \in total
    <3>1. IsFiniteSet(E) /\ E \subseteq ({"index"} \cup Names) \X Tuples
      BY EntriesFinite, Zenon
    <3>2. s \in page
      BY <1>1, <2>1, <3>1, PageAll, Zenon
    <3> QED BY <3>2, Zenon
  <2> QED BY <1>3, <1>10, <2>1, Zenon
<1>11. \A u \in total : \E i \in 1..scan.query : Matches(scan.union[i], u)
  <2>1. \A u \in scan.returned : Matches(q, u) \/ \E i \in 1..(scan.query - 1) : Matches(scan.union[i], u)
    BY <1>2, Zenon DEF Progress
  <2>2. \A u \in total : Matches(q, u) \/ \E i \in 1..(scan.query - 1) : Matches(scan.union[i], u)
    BY <1>4, <2>1, Zenon
  <2>3. scan.query \in 1..scan.query /\ \A i \in 1..(scan.query - 1) : i \in 1..scan.query
    BY <1>5
  <2> HIDE DEF total
  <2> QED BY <1>5, <2>2, <2>3
<1>12. \A s \in scan.steady : \A i \in 1..scan.query : Matches(scan.union[i], s) => s \in total
  <2>1. \A s \in scan.steady : \A i \in 1..(scan.query - 1) :
            Matches(scan.union[i], s) => s \in scan.returned
    BY <1>2, Zenon DEF Progress
  <2>2. \A i \in 1..scan.query : i \in 1..(scan.query - 1) \/ i = scan.query
    BY <1>5
  <2>3. \A s \in scan.steady : Matches(scan.union[scan.query], s) => s \in total
    BY <1>5, <1>10, Zenon
  <2> QED BY <2>1, <2>2, <2>3, Zenon
<1> HIDE DEF q, E, page, next, after, repeats, total
<1>13. /\ scan' \in ScanStates
       /\ scan'.phase = after /\ scan'.union = scan.union /\ scan'.query = scan.query + 1
       /\ scan'.cursor = next /\ scan'.returned = total /\ scan'.repeated = {}
       /\ scan'.steady = scan.steady
  <2>1. scan.query + 1 \in Nat /\ after \in {"scanning", "done"}
    BY <1>5 DEF after
  <2> QED BY <1>2, <1>6, <1>7, <1>9, <2>1, Zenon DEF ScanStates
<1>14. ASSUME scan'.phase = "done"
       PROVE  scan'.steady \subseteq scan'.returned
  <2>1. scan.query = Len(scan.union)
    BY <1>13, <1>14, Zenon DEF after
  <2>2. \A s \in scan.steady : \E i \in 1..scan.query : Matches(scan.union[i], s)
    BY <1>2, <2>1, Zenon DEF Progress
  <2> QED BY <1>12, <1>13, <2>2, Zenon
<1>15. ASSUME scan'.phase = "scanning"
       PROVE  Progress'
  <2>1. scan.query # Len(scan.union)
    BY <1>13, <1>15, Zenon DEF after
  <2>2. /\ scan'.query \in 1..Len(scan'.union)
        /\ scan'.query - 1 = scan.query /\ 1..(scan'.query - 1) = 1..scan.query
        /\ \A i \in 1..scan.query : i \in 1..scan'.query /\ i < scan'.query /\ i \in 1..Len(scan'.union)
    BY <1>5, <1>13, <2>1
  <2>3. ASSUME scan'.cursor # NoCursor
        PROVE  \E i \in 1..scan.query : scan'.cursor.scope = scan'.union[i]
    BY <1>2, <1>6, <1>13, <2>3, Zenon DEF Progress
  \* A cursor that is kept is not at a match of the next query.
  <2>4. ASSUME CursorHere', NEW s, Matches(Query', s)
        PROVE  FALSE
    <3>1. PICK i \in 1..scan.query : scan'.cursor.scope = scan'.union[i]
      BY <2>3, <2>4, Zenon DEF CursorHere
    <3>2. Query' = scan'.union[scan'.query] /\ Query' = scan'.union[i]
      BY <2>4, <3>1, Zenon DEF CursorHere, Query
    <3>3. s \in scan'.union[i].filter
      BY <2>4, <3>2 DEF Matches
    <3>4. ~Matches(scan'.union[scan'.query], s)
      BY <1>5, <1>13, <2>2, <3>3, UnionQueries, Zenon
    <3> QED BY <2>4, <3>2, <3>4, Zenon
  <2>5. scan'.steady \subseteq Visible'
    BY <1>2, <1>8, <1>13 DEF Progress
  <2>6. \A s \in scan'.steady : \E i \in 1..Len(scan'.union) : Matches(scan'.union[i], s)
    BY <1>2, <1>13, Zenon DEF Progress
  <2>7. \A s \in scan'.steady : \A i \in 1..(scan'.query - 1) :
            Matches(scan'.union[i], s) => s \in scan'.returned
    BY <1>12, <1>13, <2>2
  <2>8. \A u \in scan'.returned : \E i \in 1..(scan'.query - 1) : Matches(scan'.union[i], u)
    BY <1>11, <1>13, <2>2, Zenon
  <2>9. scan'.cursor # NoCursor => \E i \in 1..scan'.query : scan'.cursor.scope = scan'.union[i]
    BY <2>2, <2>3, Zenon
  <2> QED BY <2>2, <2>4, <2>5, <2>6, <2>7, <2>8, <2>9 DEF Progress, Matches, TupleLess
<1>16. ScanComplete'
  BY <1>13, <1>14, Zenon DEF ScanComplete
<1> QED BY <1>13, <1>15, <1>16, Zenon DEF ScanInv, ScanOK

LEMMA ScanStep ==
    ASSUME ScanInv, TypeOK, [PagingNext]_pagingVars
    PROVE  ScanInv'
<1>1. CASE Calls
  BY <1>1, WatchedStep, Zenon DEF Calls
<1>2. CASE Materializes
  BY <1>2, WatchedStep DEF Materializes
<1>3. CASE Scans
  <2>1. UNCHANGED vars /\ \A limit \in 1..MaxTuplePageSize : limit \in Nat
    BY <1>3 DEF Scans
  <2> QED BY <1>3, <2>1, StartStep, ReadPageStep, ReadLastPageStep, RefusedStep DEF Scans
<1>4. CASE UNCHANGED pagingVars
  <2>1. scan' = scan /\ Visible' = Visible
    BY <1>4 DEF pagingVars, vars, indexes, Visible, ReadEntries
  <2> QED BY <2>1 DEF ScanInv, ScanOK, ScanComplete, Progress, CursorHere, Query, Matches, TupleLess
<1> QED BY <1>1, <1>2, <1>3, <1>4, Zenon DEF PagingNext

\* A scan that ends without an error has returned every tuple that was there from
\* its start to its end and that one of its queries matches, and none on two pages
\* (ScanComplete), whatever happens to the store between two pages: for any
\* tuples, queries and limits (memory.go:226-367).
THEOREM ScansComplete == PagingSpec => []ScanComplete
<1>1. PagingInit => ScanInv
  BY DEF PagingInit, ScanInv, ScanOK, ScanComplete
<1>2. ScanInv /\ StepOK /\ [PagingNext]_pagingVars => ScanInv'
  BY ScanStep, Zenon DEF StepOK, Inv
<1>3. ScanInv => ScanComplete
  BY Zenon DEF ScanInv
<1> QED BY <1>1, <1>2, <1>3, PagingTypes, PTL DEF PagingSpec

(***************************************************************************)
(* Materializer runs                                                       *)
(***************************************************************************)

\* r has materialized n and has met no error so far.
Done(r, n) == run[r].phase # "idle" /\ n \in DOMAIN run[r].since \ run[r].todo /\ ~run[r].failed

\* What is, or may still be, vouched for.
Claims(n) == {promised[n]} \cup {run[r].since[n] : r \in {x \in Runners : Done(x, n)}}

AtMost(c, f, v) == c[1] <= f /\ c[2] <= v

Result(n, f, v) == Callback[n, f, v]

\* The store has a result that bears out every claim.
Holds(n) ==
    \E f \in 1..registered[n], v \in 0..data[n] :
        materialized[n] = Result(n, f, v) /\ \A c \in Claims(n) : AtMost(c, f, v)

\* A run inside n: what it has read is as new as its call, and as every claim when
\* no other run has stored n since it looked its callback up.
RunInv(r, n) ==
    /\ run[r].fn <= registered[n]
    /\ run[r].since[n][1] <= run[r].fn
    /\ run[r].alone => \A c \in Claims(n) : c[1] <= run[r].fn
    /\ run[r].phase = "store" =>
          /\ run[r].version <= data[n]
          /\ run[r].since[n][2] <= run[r].version
          /\ run[r].alone => \A c \in Claims(n) : c[2] <= run[r].version

RunFresh(r) ==
    /\ run[r].phase # "idle" =>
          \A n \in DOMAIN run[r].since : AtMost(run[r].since[n], registered[n], data[n])
    /\ \A n \in Names : Active(r, n) => RunInv(r, n)

Borne(n) == Claims(n) = {<<0, 0>>} \/ Holds(n)

FreshInv ==
    /\ \A n \in Names : AtMost(promised[n], registered[n], data[n])
    /\ \A r \in Runners : RunFresh(r)
    /\ \A n \in Names \ overlapped : Borne(n)

\* What every step does: nothing is unregistered, no data goes back.
Onward == \A n \in Names : registered[n] <= registered'[n] /\ data[n] <= data'[n]
\* What every step but a store does.
NoNewClaims == \A n \in Names : Claims(n)' \subseteq Claims(n)

LEMMA ClaimsType ==
    ASSUME RegistryOK, NEW n \in Names
    PROVE  Claims(n) \subseteq Versions
<1>1. promised[n] \in Versions
  BY Zenon DEF RegistryOK
<1>2. ASSUME NEW r \in Runners, Done(r, n)
      PROVE  run[r].since[n] \in Versions
  BY <1>2, RunShape, SinceType DEF RegistryOK, Done
<1> QED BY <1>1, <1>2, Zenon DEF Claims

\* No claim is ahead of the registry and the data.
LEMMA ClaimsBound ==
    ASSUME FreshInv, NEW n \in Names, NEW c \in Claims(n)
    PROVE  AtMost(c, registered[n], data[n])
<1>1. CASE c = promised[n]
  BY <1>1, Zenon DEF FreshInv
<1>2. ASSUME NEW r \in Runners, Done(r, n), c = run[r].since[n]
      PROVE  AtMost(c, registered[n], data[n])
  BY <1>2, Zenon DEF FreshInv, RunFresh, Done
<1> QED BY <1>1, <1>2, Zenon DEF Claims

\* How claims change: nothing is vouched for but what was claimed, or X.
LEMMA ClaimsChange ==
    ASSUME NEW n \in Names, NEW X, promised'[n] \in Claims(n) \cup X,
           \A r \in Runners : Done(r, n)' =>
              \/ Done(r, n) /\ run'[r].since[n] = run[r].since[n]
              \/ run'[r].since[n] \in X
    PROVE  Claims(n)' \subseteq Claims(n) \cup X
BY DEF Claims

\* When one runner steps and what it has done stays as it was, or is forgotten.
LEMMA ClaimsKept ==
    ASSUME RegistryOK, NEW r \in Runners, NEW y, run' = [run EXCEPT ![r] = y], promised' = promised,
           \A n \in Names : Done(r, n)' => Done(r, n) /\ y.since = run[r].since
    PROVE  NoNewClaims
<1> SUFFICES ASSUME NEW n \in Names
             PROVE  Claims(n)' \subseteq Claims(n) \cup {}
  BY Zenon DEF NoNewClaims
<1>1. run'[r] = y /\ \A x \in Runners : x # r => run'[x] = run[x]
  BY Zenon DEF RegistryOK
<1>2. \A x \in Runners : Done(x, n)' => Done(x, n) /\ run'[x].since[n] = run[x].since[n]
  BY <1>1, Zenon DEF Done
<1>3. promised'[n] \in Claims(n) \cup {}
  BY Zenon DEF Claims
<1> QED BY <1>2, <1>3, ClaimsChange, Zenon

\* Bounds stay bounds.
LEMMA AtMostKept ==
    ASSUME RegistryOK, RegistryOK', Onward, NEW n \in Names, NEW c \in Versions,
           AtMost(c, registered[n], data[n])
    PROVE  AtMost(c, registered'[n], data'[n])
<1>1. registered[n] \in Nat /\ data[n] \in Nat /\ registered'[n] \in Nat /\ data'[n] \in Nat
  BY DEF RegistryOK
<1>2. c[1] \in Nat /\ c[2] \in Nat
  BY DEF Versions
<1>3. registered[n] <= registered'[n] /\ data[n] <= data'[n]
  BY Zenon DEF Onward
<1> QED BY <1>1, <1>2, <1>3 DEF AtMost

\* A run that a step leaves alone keeps its promises when no claim is added.
LEMMA RunKeeps ==
    ASSUME RegistryOK, RegistryOK', Onward, NEW r \in Runners, NEW n \in Names, Active(r, n),
           RunInv(r, n), Claims(n)' \subseteq Claims(n), run'[r] = run[r]
    PROVE  RunInv(r, n)'
<1>1. run[r] \in Inside
  BY RunShape, Zenon DEF RegistryOK, Active
<1>2. run[r].fn \in Nat /\ run[r].version \in Nat
  BY <1>1 DEF Inside
<1>3. registered[n] \in Nat /\ data[n] \in Nat /\ registered'[n] \in Nat /\ data'[n] \in Nat
  BY DEF RegistryOK
<1>4. registered[n] <= registered'[n] /\ data[n] <= data'[n]
  BY Zenon DEF Onward
<1>5. run[r].fn <= registered'[n] /\ (run[r].phase = "store" => run[r].version <= data'[n])
  BY <1>2, <1>3, <1>4 DEF RunInv
<1> QED BY <1>5, Zenon DEF RunInv

LEMMA RunFreshKeeps ==
    ASSUME RegistryOK, RegistryOK', Onward, NoNewClaims, NEW r \in Runners, RunFresh(r),
           run'[r] = run[r]
    PROVE  RunFresh(r)'
<1>1. ASSUME run[r].phase # "idle", NEW n \in DOMAIN run[r].since
      PROVE  AtMost(run[r].since[n], registered'[n], data'[n])
  <2>1. run[r].since[n] \in Versions /\ n \in Names
    BY <1>1, RunShape, SinceType DEF RegistryOK
  <2>2. AtMost(run[r].since[n], registered[n], data[n])
    BY <1>1, Zenon DEF RunFresh
  <2> QED BY <2>1, <2>2, AtMostKept, Zenon
<1>2. ASSUME NEW n \in Names, Active(r, n)'
      PROVE  RunInv(r, n)'
  <2>1. Active(r, n)
    BY <1>2, Zenon DEF Active
  <2> QED BY <2>1, RunKeeps DEF RunFresh, NoNewClaims
<1> QED BY <1>1, <1>2, Zenon DEF RunFresh, AtMost

\* A result that bears the claims out goes on doing so.
LEMMA BorneKeeps ==
    ASSUME RegistryOK, RegistryOK', Onward, NEW n \in Names, Claims(n)' \subseteq Claims(n),
           materialized'[n] = materialized[n], Borne(n)
    PROVE  Borne(n)'
<1>1. CASE Claims(n) = {<<0, 0>>}
  <2>1. promised'[n] \in Claims(n)'
    BY Zenon DEF Claims
  <2> QED BY <1>1, <2>1, Zenon DEF Borne
<1>2. CASE Holds(n)
  <2>1. PICK f \in 1..registered[n], v \in 0..data[n] :
            materialized[n] = Result(n, f, v) /\ \A c \in Claims(n) : AtMost(c, f, v)
    BY <1>2 DEF Holds
  <2>2. f \in 1..registered'[n] /\ v \in 0..data'[n]
    <3>1. registered[n] \in Nat /\ data[n] \in Nat /\ registered'[n] \in Nat /\ data'[n] \in Nat
      BY DEF RegistryOK
    <3>2. f \in 1..registered[n] /\ v \in 0..data[n]
      BY <2>1, Zenon
    <3>3. registered[n] <= registered'[n] /\ data[n] <= data'[n]
      BY Zenon DEF Onward
    <3> QED BY <3>1, <3>2, <3>3
  <2>3. \A c \in Claims(n)' : AtMost(c, f, v)
    BY <2>1, Zenon
  <2>4. Holds(n)'
    BY <2>1, <2>2, <2>3, Zenon DEF Holds, AtMost
  <2> QED BY <2>4, Zenon DEF Borne
<1> QED BY <1>1, <1>2 DEF Borne

\* A step in which nothing is stored, for the runs it leaves alone and for the store.
LEMMA QuietRegistry ==
    ASSUME RegistryOK, RegistryOK', FreshInv, Onward, NoNewClaims,
           materialized' = materialized, promised' = promised, overlapped' = overlapped,
           \A r \in Runners : run'[r] = run[r] \/ RunFresh(r)'
    PROVE  FreshInv'
<1>1. ASSUME NEW n \in Names
      PROVE  AtMost(promised'[n], registered'[n], data'[n])
  <2>1. promised[n] \in Versions
    BY Zenon DEF RegistryOK
  <2>2. AtMost(promised[n], registered[n], data[n])
    BY Zenon DEF FreshInv
  <2> QED BY <2>1, <2>2, AtMostKept, Zenon
<1>2. \A r \in Runners : RunFresh(r)'
  BY RunFreshKeeps DEF FreshInv
<1>3. ASSUME NEW n \in Names \ overlapped'
      PROVE  Borne(n)'
  <2>1. Borne(n) /\ Claims(n)' \subseteq Claims(n)
    BY DEF FreshInv, NoNewClaims
  <2> QED BY <2>1, BorneKeeps, Zenon
<1> QED BY <1>1, <1>2, <1>3, Zenon DEF FreshInv, AtMost

LEMMA BeginRunFresh ==
    ASSUME RegistryOK, FreshInv, NEW r \in Runners, NEW names \in SUBSET Names, BeginRun(r, names)
    PROVE  FreshInv'
<1> DEFINE s == [n \in names |-> <<registered[n], data[n]>>]
           y == [phase |-> "next", todo |-> names, failed |-> FALSE, since |-> s]
<1>1. RegistryOK' /\ UNCHANGED vars
  BY BeginRunStep, Zenon
<1>2. run' = [run EXCEPT ![r] = y] /\ UNCHANGED <<registered, data, promised, overlapped>>
  BY Zenon DEF BeginRun
<1>3. y.phase = "next" /\ DOMAIN y.since = names /\ y.todo = names
      /\ \A n \in names : y.since[n] = <<registered[n], data[n]>>
  BY Zenon
<1> HIDE DEF y
<1>4. run'[r] = y /\ \A x \in Runners : x # r => run'[x] = run[x]
  BY <1>2, Zenon DEF RegistryOK
<1>5. \A n \in Names : ~Done(r, n)'
  BY <1>3, <1>4 DEF Done
<1>6. NoNewClaims
  BY <1>2, <1>5, ClaimsKept, Zenon
<1>7. RunFresh(r)'
  <2>1. \A n \in names : registered[n] \in Nat /\ data[n] \in Nat
    BY DEF RegistryOK
  <2>2. \A n \in names : AtMost(y.since[n], registered'[n], data'[n])
    BY <1>2, <1>3, <2>1 DEF AtMost
  <2>3. \A n \in Names : ~Active(r, n)'
    BY <1>3, <1>4, Zenon DEF Active
  <2> QED BY <1>3, <1>4, <2>2, <2>3 DEF RunFresh, AtMost
<1>8. Onward
  BY <1>2 DEF RegistryOK, Onward
<1> QED BY <1>1, <1>2, <1>4, <1>6, <1>7, <1>8, QuietRegistry DEF vars

\* A runner goes on inside a name: what it has done stays as it was.
LEMMA InsideFresh ==
    ASSUME RegistryOK, RegistryOK', FreshInv, NEW r \in Runners, NEW y, run[r].phase # "idle",
           run' = [run EXCEPT ![r] = y], y.phase # "idle",
           y.todo = run[r].todo, y.failed = run[r].failed, y.since = run[r].since,
           UNCHANGED vars, UNCHANGED <<registered, data, promised, overlapped>>,
           NEW n \in Names, y.name = n, NoNewClaims => RunInv(r, n)'
    PROVE  FreshInv'
<1>1. run'[r] = y /\ \A x \in Runners : x # r => run'[x] = run[x]
  BY Zenon DEF RegistryOK
<1>2. \A m \in Names : Done(r, m)' => Done(r, m)
  BY <1>1, Zenon DEF Done
<1>3. NoNewClaims
  BY <1>2, ClaimsKept, Zenon
<1>4. RunFresh(r)'
  <2>1. \A m \in DOMAIN y.since : AtMost(y.since[m], registered'[m], data'[m])
    BY Zenon DEF FreshInv, RunFresh
  <2>2. \A m \in Names : Active(r, m)' => m = n
    BY <1>1, Zenon DEF Active
  <2>3. \A m \in Names : Active(r, m)' => RunInv(r, m)'
    BY <1>3, <2>2, Zenon
  <2> QED BY <1>1, <2>1, <2>3, Zenon DEF RunFresh, AtMost
<1>5. Onward
  BY DEF RegistryOK, Onward
<1> QED BY <1>1, <1>3, <1>4, <1>5, QuietRegistry, Zenon DEF vars

LEMMA LookupFresh ==
    ASSUME RegistryOK, FreshInv, NEW r \in Runners, NEW n \in Names, Lookup(r, n)
    PROVE  FreshInv'
<1> DEFINE x == run[r]
           y == [phase |-> "call", todo |-> x.todo, failed |-> x.failed, since |-> x.since,
                 name |-> n, fn |-> registered[n], version |-> 0, alone |-> TRUE]
<1>1. RegistryOK' /\ UNCHANGED vars
  BY LookupStep, Zenon
<1>2. run' = [run EXCEPT ![r] = y] /\ UNCHANGED <<registered, data, promised, overlapped>>
  BY Zenon DEF Lookup, RegistryOK
<1>3. /\ y.phase = "call" /\ y.name = n /\ y.fn = registered[n]
      /\ y.todo = x.todo /\ y.failed = x.failed /\ y.since = x.since
  BY Zenon
<1> HIDE DEF y
<1>4. run'[r] = y
  BY <1>2, Zenon DEF RegistryOK
<1>5. x.phase = "next" /\ n \in x.todo
  BY DEF Lookup
<1>6. n \in DOMAIN x.since
  BY <1>5, RunShape, Zenon DEF RegistryOK
<1>7. ASSUME NoNewClaims
      PROVE  RunInv(r, n)'
  <2>1. registered[n] <= registered[n]
    BY DEF RegistryOK
  <2>2. x.since[n][1] <= registered[n]
    BY <1>5, <1>6, Zenon DEF FreshInv, RunFresh, AtMost
  <2>3. \A c \in Claims(n) : c[1] <= registered[n]
    BY ClaimsBound DEF AtMost
  <2>4. \A c \in Claims(n)' : c[1] <= registered[n]
    BY <1>7, <2>3, Zenon DEF NoNewClaims
  <2>5. registered'[n] = registered[n] /\ run'[r].phase # "store"
        /\ run'[r].fn = registered[n] /\ run'[r].since = x.since
    BY <1>2, <1>3, <1>4
  <2> HIDE DEF x
  <2> QED BY <2>1, <2>2, <2>4, <2>5 DEF RunInv
<1> QED BY <1>1, <1>2, <1>3, <1>5, <1>7, InsideFresh, Zenon

LEMMA ComputeFresh ==
    ASSUME RegistryOK, FreshInv, NEW r \in Runners, Compute(r)
    PROVE  FreshInv'
<1> DEFINE x == run[r]
<1>1. x.phase = "call" /\ x \in Inside /\ x.name \in DOMAIN x.since /\ x.name \in Names
  BY RunShape, Zenon DEF RegistryOK, Compute
<1>2. PICK n \in Names : n = x.name
  BY <1>1, Zenon
<1> DEFINE y == [x EXCEPT !.phase = "store", !.version = data[n]]
<1>3. RegistryOK' /\ UNCHANGED vars
  BY ComputeStep, Zenon
<1>4. run' = [run EXCEPT ![r] = y] /\ UNCHANGED <<registered, data, promised, overlapped>>
  BY <1>2, Zenon DEF Compute, RegistryOK
<1>5. /\ y.phase = "store" /\ y.name = n /\ y.fn = x.fn /\ y.version = data[n] /\ y.alone = x.alone
      /\ y.todo = x.todo /\ y.failed = x.failed /\ y.since = x.since
  BY <1>1, <1>2, Zenon DEF Inside
<1> HIDE DEF y
<1>6. run'[r] = y
  BY <1>4, Zenon DEF RegistryOK
<1>7. ASSUME NoNewClaims
      PROVE  RunInv(r, n)'
  <2>1. data[n] <= data[n]
    BY DEF RegistryOK
  <2>2. RunInv(r, n)
    BY <1>1, <1>2, Zenon DEF FreshInv, RunFresh, Active
  <2>3. x.since[n][2] <= data[n]
    BY <1>1, <1>2 DEF FreshInv, RunFresh, AtMost
  <2>4. \A c \in Claims(n) : c[2] <= data[n]
    BY ClaimsBound, Zenon DEF AtMost
  <2>5. \A c \in Claims(n)' : c \in Claims(n)
    BY <1>7 DEF NoNewClaims
  <2>6. /\ registered'[n] = registered[n] /\ data'[n] = data[n]
        /\ run'[r].fn = x.fn /\ run'[r].since = x.since /\ run'[r].alone = x.alone
        /\ run'[r].version = data[n]
    BY <1>4, <1>5, <1>6
  <2>7. /\ x.fn <= registered[n] /\ x.since[n][1] <= x.fn
        /\ x.alone => \A c \in Claims(n) : c[1] <= x.fn
    BY <2>2, Zenon DEF RunInv
  <2> HIDE DEF x
  <2> QED BY <2>1, <2>3, <2>4, <2>5, <2>6, <2>7, Zenon DEF RunInv
<1> QED BY <1>1, <1>3, <1>4, <1>5, <1>7, InsideFresh, Zenon

\* After the last name, and between names.
LEMMA AfterShape ==
    ASSUME NEW r \in Runners, NEW n, NEW failed \in BOOLEAN
    PROVE  LET y == After(r, n, failed)
           IN  /\ y.phase \in {"idle", "next"}
               /\ y.phase = "next" => /\ y.since = run[r].since
                                      /\ y.todo = run[r].todo \ {n}
                                      /\ y.failed = firstErr(r, failed)
BY Zenon DEF After, NoRun

LEMMA FailsFresh ==
    ASSUME RegistryOK, FreshInv, NEW r \in Runners, NEW n \in Names, Fails(r, n)
    PROVE  FreshInv'
<1> DEFINE y == After(r, n, TRUE)
<1>1. RegistryOK' /\ UNCHANGED vars
  BY FailsStep, Zenon
<1>2. firstErr(r, TRUE) = TRUE
  BY Zenon DEF firstErr
<1>3. run' = [run EXCEPT ![r] = y] /\ UNCHANGED <<registered, data, promised, overlapped>>
  BY <1>2, Zenon DEF Fails, Vouched
<1>4. run[r].phase # "idle"
  BY Zenon DEF Fails
<1>5. y.phase \in {"idle", "next"}
      /\ (y.phase = "next" => y.since = run[r].since /\ y.failed = TRUE)
  BY <1>2, AfterShape, Zenon
<1> HIDE DEF y
<1>6. run'[r] = y /\ \A x \in Runners : x # r => run'[x] = run[x]
  BY <1>3, Zenon DEF RegistryOK
<1>7. \A m \in Names : ~Done(r, m)'
  BY <1>5, <1>6 DEF Done
<1>8. NoNewClaims
  BY <1>3, <1>7, ClaimsKept, Zenon
<1>9. RunFresh(r)'
  <2>1. y.phase # "idle" => \A m \in DOMAIN y.since : AtMost(y.since[m], registered'[m], data'[m])
    BY <1>3, <1>4, <1>5 DEF FreshInv, RunFresh
  <2>2. \A m \in Names : ~Active(r, m)'
    BY <1>5, <1>6 DEF Active
  <2> QED BY <1>6, <2>1, <2>2 DEF RunFresh, AtMost
<1>10. Onward
  BY <1>3 DEF RegistryOK, Onward
<1> QED BY <1>1, <1>3, <1>6, <1>8, <1>9, <1>10, QuietRegistry DEF vars

LEMMA ApplicationFresh ==
    ASSUME RegistryOK, FreshInv, NEW n \in Names, register(n) \/ DataChanges(n)
    PROVE  FreshInv'
<1>1. RegistryOK' /\ UNCHANGED vars /\ UNCHANGED <<run, promised, overlapped>>
  BY ApplicationStep
<1>2. Onward
  <2>1. CASE register(n)
    BY <2>1 DEF register, RegistryOK, Onward
  <2>2. CASE DataChanges(n)
    BY <2>2 DEF DataChanges, RegistryOK, Onward
  <2> QED BY <2>1, <2>2, Zenon
<1>3. NoNewClaims
  BY <1>1 DEF NoNewClaims, Claims, Done
<1> QED BY <1>1, <1>2, <1>3, QuietRegistry DEF vars

LEMMA VouchedClaims ==
    ASSUME RegistryOK, NEW r \in Runners, NEW n \in Names, NEW m \in Names,
           run[r].phase # "idle", n \in run[r].todo
    PROVE  \/ Vouched(r, n, FALSE)[m] \in Claims(m)
           \/ m = n /\ Vouched(r, n, FALSE)[m] = run[r].since[n]
<1>1. promised[m] \in Claims(m)
  BY DEF Claims
<1>2. CASE run[r].todo # {n} \/ firstErr(r, FALSE)
  BY <1>1, <1>2, Zenon DEF Vouched
<1>3. CASE run[r].todo = {n} /\ ~firstErr(r, FALSE) /\ m \in DOMAIN run[r].since
  <2>1. Vouched(r, n, FALSE)[m] \in {promised[m], run[r].since[m]}
    BY <1>3, Zenon DEF Vouched, Later
  <2>2. m # n => Done(r, m)
    BY <1>3 DEF Done, firstErr
  <2>3. m # n => run[r].since[m] \in Claims(m)
    BY <2>2, Zenon DEF Claims
  <2> QED BY <1>1, <2>1, <2>3, Zenon
<1>4. CASE run[r].todo = {n} /\ ~firstErr(r, FALSE) /\ m \notin DOMAIN run[r].since
  BY <1>1, <1>4 DEF Vouched
<1> QED BY <1>2, <1>3, <1>4, Zenon

\* The other runs at a store of n keep all but, inside n, being alone.
LEMMA OthersAtStore ==
    ASSUME RegistryOK, NEW n \in Names, NEW z \in Runners,
           run'[z] = IF Active(z, n) THEN [run[z] EXCEPT !.alone = FALSE] ELSE run[z]
    PROVE  /\ ~Active(z, n) => run'[z] = run[z]
           /\ Active(z, n) => run'[z].alone = FALSE /\ run'[z].fn = run[z].fn
                                /\ run'[z].version = run[z].version /\ run'[z].name = run[z].name
           /\ run'[z].phase = run[z].phase
           /\ run[z].phase # "idle" =>
                 /\ run'[z].since = run[z].since /\ run'[z].todo = run[z].todo
                 /\ run'[z].failed = run[z].failed
<1>1. CASE Active(z, n)
  <2>1. RunOK(run[z]) /\ run[z].phase \in {"call", "store"}
    BY <1>1, Zenon DEF Active, RegistryOK
  <2>2. run'[z] = [run[z] EXCEPT !.alone = FALSE]
    BY <1>1, Zenon
  <2> QED BY <1>1, <2>1, <2>2, Overtaken
<1>2. CASE ~Active(z, n)
  BY <1>2, Zenon
<1> QED BY <1>1, <1>2, Zenon

\* A store adds no claim but, to the name stored, that of its own run.
LEMMA StoreClaims ==
    ASSUME RegistryOK, NEW r \in Runners, NEW n \in Names, NEW m \in Names, Store(r),
           n \in run[r].todo, n = run[r].name
    PROVE  /\ \A c \in Claims(m)' : c \in Claims(m) \/ (m = n /\ c = run[r].since[n])
           /\ promised'[m] \in Claims(m) \/ (m = n /\ promised'[m] = run[r].since[n])
<1> DEFINE y == After(r, n, FALSE)
           X == IF m = n THEN {run[r].since[n]} ELSE {}
<1>1. run[r].phase = "store" /\ run[r].failed \in BOOLEAN
  BY RunShape, Zenon DEF Store, RegistryOK, Inside
<1>2. promised' = Vouched(r, n, FALSE) /\ run'[r] = y
  BY Zenon DEF Store
<1>3. \A z \in Runners : z # r =>
          run'[z] = IF Active(z, n) THEN [run[z] EXCEPT !.alone = FALSE] ELSE run[z]
  BY Zenon DEF Store
<1>4. firstErr(r, FALSE) = run[r].failed
  BY <1>1, Zenon DEF firstErr
<1>5. y.phase \in {"idle", "next"}
      /\ (y.phase = "next" => y.since = run[r].since /\ y.todo = run[r].todo \ {n}
                              /\ y.failed = run[r].failed)
  BY <1>4, AfterShape, Zenon
<1> HIDE DEF y
<1>6. promised'[m] \in Claims(m) \/ (m = n /\ promised'[m] = run[r].since[n])
  <2>1. run[r].phase # "idle" /\ n \in run[r].todo
    BY <1>1
  <2>2. \/ Vouched(r, n, FALSE)[m] \in Claims(m)
        \/ m = n /\ Vouched(r, n, FALSE)[m] = run[r].since[n]
    BY <2>1, VouchedClaims, Zenon
  <2> QED BY <1>2, <2>2, Zenon
<1>7. ASSUME Done(r, m)'
      PROVE  \/ Done(r, m) /\ run'[r].since[m] = run[r].since[m]
             \/ run'[r].since[m] \in X
  <2>1. y.phase = "next" /\ m \in DOMAIN y.since \ y.todo /\ ~y.failed
    BY <1>2, <1>5, <1>7 DEF Done
  <2>2. CASE m = n
    BY <1>2, <1>5, <2>1, <2>2
  <2>3. CASE m # n
    BY <1>1, <1>2, <1>5, <2>1, <2>3 DEF Done
  <2> QED BY <2>2, <2>3, Zenon
<1>8. ASSUME NEW z \in Runners, z # r, Done(z, m)'
      PROVE  Done(z, m) /\ run'[z].since[m] = run[z].since[m]
  <2>1. /\ run'[z].phase = run[z].phase
        /\ run[z].phase # "idle" => /\ run'[z].since = run[z].since /\ run'[z].todo = run[z].todo
                                    /\ run'[z].failed = run[z].failed
    BY <1>1, <1>3, <1>8, OthersAtStore, Zenon
  <2> QED BY <1>8, <2>1 DEF Done
<1>9. promised'[m] \in Claims(m) \cup X
  BY <1>6
<1>10. \A z \in Runners : Done(z, m)' =>
          \/ Done(z, m) /\ run'[z].since[m] = run[z].since[m]
          \/ run'[z].since[m] \in X
  BY <1>7, <1>8, Zenon
<1>11. Claims(m)' \subseteq Claims(m) \cup X
  <2> HIDE DEF X
  <2> QED BY <1>9, <1>10, ClaimsChange
<1> QED BY <1>6, <1>11, Zenon

\* A run that was alone stores a result that bears out every claim, its own included.
LEMMA StoreHolds ==
    ASSUME RegistryOK, RegistryOK', Inv, FreshInv, NEW r \in Runners, Store(r),
           NEW n \in Names, n \in run[r].todo, n = run[r].name, n \notin overlapped'
    PROVE  Holds(n)'
<1> DEFINE x == run[r]
<1>1. x.phase = "store" /\ x \in Inside
  BY RunShape, Zenon DEF Store, RegistryOK
<1>2. x.alone = TRUE
  <2>1. overlapped' = IF x.alone THEN overlapped \ {n} ELSE overlapped \cup {n}
    BY Zenon DEF Store
  <2> QED BY <1>1, <2>1, Zenon DEF Inside
<1>3. RunInv(r, n)
  BY <1>1, Zenon DEF FreshInv, RunFresh, Active
<1>4. x.fn \in 1..MaxRegistrations /\ x.version \in 0..MaxChanges
  BY <1>1 DEF Inside
<1>5. x.fn <= registered[n] /\ x.version <= data[n] /\ AtMost(x.since[n], x.fn, x.version)
  BY <1>1, <1>3, Zenon DEF RunInv, AtMost
<1>6. \A c \in Claims(n) : AtMost(c, x.fn, x.version)
  BY <1>1, <1>2, <1>3 DEF RunInv, AtMost
<1>7. \A c \in Claims(n)' : c \in Claims(n) \/ c = x.since[n]
  BY StoreClaims
<1>8. \A c \in Claims(n)' : AtMost(c, x.fn, x.version)
  BY <1>5, <1>6, <1>7, Zenon
<1>9. registered' = registered /\ data' = data
  BY Zenon DEF Store
<1>10. registered[n] \in Nat /\ data[n] \in Nat
  BY DEF RegistryOK
<1>11. x.fn \in 1..registered'[n] /\ x.version \in 0..data'[n]
  <2>1. x.fn \in Nat \ {0} /\ x.version \in Nat
    BY <1>4
  <2>2. x.fn \in 1..registered[n] /\ x.version \in 0..data[n]
    <3> HIDE DEF x
    <3> QED BY <1>5, <1>10, <2>1
  <2> QED BY <1>9, <2>2, Zenon
<1>12. materialized' = [materialized EXCEPT ![n] = Result(n, x.fn, x.version)]
  BY Zenon DEF Store, WriteMaterialized, Result
<1>13. materialized'[n] = Result(n, x.fn, x.version)
  BY <1>12, Zenon DEF Inv, TypeOK
<1> HIDE DEF x
<1> QED BY <1>8, <1>11, <1>13 DEF Holds, AtMost

\* The other runs lose at most being alone, and the claims with it.
LEMMA StoreOthers ==
    ASSUME RegistryOK, RegistryOK', FreshInv, NEW r \in Runners, Store(r),
           NEW n \in Names, n \in run[r].todo, n = run[r].name, NEW z \in Runners, z # r
    PROVE  RunFresh(z)'
<1>1. registered' = registered /\ data' = data
  BY Zenon DEF Store
<1>2. run'[z] = IF Active(z, n) THEN [run[z] EXCEPT !.alone = FALSE] ELSE run[z]
  BY Zenon DEF Store
<1>3. /\ ~Active(z, n) => run'[z] = run[z]
      /\ Active(z, n) => run'[z].alone = FALSE /\ run'[z].fn = run[z].fn
                           /\ run'[z].version = run[z].version /\ run'[z].name = run[z].name
      /\ run'[z].phase = run[z].phase
      /\ run[z].phase # "idle" => run'[z].since = run[z].since
  BY <1>2, OthersAtStore, Zenon
<1>4. run'[z].phase # "idle" =>
          \A m \in DOMAIN run'[z].since : AtMost(run'[z].since[m], registered'[m], data'[m])
  BY <1>1, <1>3, Zenon DEF FreshInv, RunFresh
<1>5. ASSUME NEW m \in Names, Active(z, m)'
      PROVE  RunInv(z, m)'
  <2>1. CASE Active(z, n)
    <3>1. m = n
      BY <1>3, <1>5, <2>1, Zenon DEF Active
    <3>2. RunInv(z, n) /\ run[z].phase # "idle"
      BY <2>1, Zenon DEF FreshInv, RunFresh, Active
    <3>3. /\ run'[z].alone = FALSE /\ run'[z].fn = run[z].fn /\ run'[z].version = run[z].version
          /\ run'[z].phase = run[z].phase /\ run'[z].since = run[z].since
      BY <1>3, <2>1, <3>2, Zenon
    <3> QED BY <1>1, <3>1, <3>2, <3>3, Zenon DEF RunInv
  <2>2. CASE ~Active(z, n)
    <3>1. run'[z] = run[z]
      BY <1>3, <2>2, Zenon
    <3>2. Active(z, m) /\ m # n
      BY <1>5, <2>2, <3>1 DEF Active
    <3>3. Claims(m)' \subseteq Claims(m)
      BY <3>2, StoreClaims, Zenon
    <3>4. RunInv(z, m)
      BY <3>2, Zenon DEF FreshInv, RunFresh
    <3>5. Onward
      BY <1>1 DEF RegistryOK, Onward
    <3> QED BY <3>1, <3>2, <3>3, <3>4, <3>5, RunKeeps, Zenon
  <2> QED BY <2>1, <2>2, Zenon
<1> QED BY <1>4, <1>5, Zenon DEF RunFresh, AtMost

LEMMA StoreFresh ==
    ASSUME RegistryOK, Inv, FreshInv, NEW r \in Runners, Store(r)
    PROVE  FreshInv'
<1>1. PICK n \in Names : n = run[r].name
  BY StoreTypeStep, Zenon
<1>2. RegistryOK' /\ n \in run[r].todo
  BY <1>1, StoreTypeStep, Zenon
<1>3. run[r].phase = "store" /\ n \in DOMAIN run[r].since
  BY <1>1, RunShape, Zenon DEF Store, RegistryOK
<1>4. registered' = registered /\ data' = data
  BY Zenon DEF Store
<1>5. ASSUME NEW m \in Names
      PROVE  AtMost(promised'[m], registered'[m], data'[m])
  <2>1. promised'[m] \in Claims(m) \/ (m = n /\ promised'[m] = run[r].since[n])
    BY <1>1, <1>2, StoreClaims, Zenon
  <2>2. AtMost(run[r].since[n], registered[n], data[n])
    BY <1>3, Zenon DEF FreshInv, RunFresh
  <2>3. \A c \in Claims(m) : AtMost(c, registered[m], data[m])
    BY ClaimsBound, Zenon
  <2> QED BY <1>4, <2>1, <2>2, <2>3
<1>6. RunFresh(r)'
  <2> DEFINE y == After(r, n, FALSE)
  <2>1. run'[r] = y
    BY <1>1, Zenon DEF Store
  <2>2. y.phase \in {"idle", "next"} /\ (y.phase = "next" => y.since = run[r].since)
    BY AfterShape, Zenon
  <2> HIDE DEF y
  <2>3. \A m \in Names : ~Active(r, m)'
    BY <2>1, <2>2, Zenon DEF Active
  <2>4. y.phase # "idle" => \A m \in DOMAIN y.since : AtMost(y.since[m], registered'[m], data'[m])
    BY <1>3, <1>4, <2>2 DEF FreshInv, RunFresh
  <2> QED BY <2>1, <2>3, <2>4 DEF RunFresh, AtMost
<1>7. \A z \in Runners : RunFresh(z)'
  BY <1>1, <1>2, <1>6, StoreOthers, Zenon
<1>8. ASSUME NEW m \in Names \ overlapped', m # n
      PROVE  Borne(m)'
  <2>1. overlapped' = IF run[r].alone THEN overlapped \ {n} ELSE overlapped \cup {n}
    BY <1>1, Zenon DEF Store
  <2>2. m \in Names \ overlapped
    BY <1>8, <2>1
  <2>3. Claims(m)' \subseteq Claims(m)
    BY <1>1, <1>2, <1>8, StoreClaims, Zenon
  <2>4. materialized' = [materialized EXCEPT ![n] = Result(n, run[r].fn, run[r].version)]
    BY <1>1, Zenon DEF Store, WriteMaterialized, Result
  <2>5. materialized'[m] = materialized[m]
    BY <1>8, <2>4, Zenon DEF Inv, TypeOK
  <2>6. Onward
    BY <1>4 DEF RegistryOK, Onward
  <2>7. Borne(m)
    BY <2>2, Zenon DEF FreshInv
  <2> QED BY <1>2, <2>2, <2>3, <2>5, <2>6, <2>7, BorneKeeps
<1>9. n \notin overlapped' => Borne(n)'
  BY <1>1, <1>2, StoreHolds, Zenon DEF Borne
<1>10. \A m \in Names \ overlapped' : Borne(m)'
  BY <1>8, <1>9, Zenon
<1> QED BY <1>5, <1>7, <1>10, Zenon DEF FreshInv, AtMost

LEMMA FreshStep ==
    ASSUME RegistryOK, RegistryOK', Inv, FreshInv, [PagingNext]_pagingVars
    PROVE  FreshInv'
<1>1. ASSUME UNCHANGED registryVars, materialized' = materialized
      PROVE  FreshInv'
  <2>1. /\ registered' = registered /\ data' = data /\ run' = run /\ promised' = promised
        /\ overlapped' = overlapped
    BY <1>1, Zenon DEF registryVars
  <2>2. NoNewClaims
    BY <2>1, Zenon DEF NoNewClaims, Claims, Done
  <2>3. Onward
    BY <2>1 DEF RegistryOK, Onward
  <2> QED BY <1>1, <2>1, <2>2, <2>3, QuietRegistry
<1>2. CASE Calls
  <2>1. materialized' = materialized
    BY <1>2, Zenon
       DEF Calls, Engine, WriteTuple, DeleteTuple, WriteRawTuple, DeleteRawTuple, OnTupleWrite,
           OnTupleDelete, WriteRelationships, ReplaceRelationships, Begin, StoreChange,
           DeleteIfAbove, DeleteRefused, ReplaceTx, Commit
  <2> QED BY <1>1, <1>2, <2>1, Zenon DEF Calls
<1>3. CASE \E n \in Names : register(n) \/ DataChanges(n)
  BY <1>3, ApplicationFresh, Zenon
<1>4. ASSUME NEW r \in Runners, Runs(r)
      PROVE  FreshInv'
  BY <1>4, BeginRunFresh, LookupFresh, ComputeFresh, FailsFresh, StoreFresh, Zenon
     DEF Runs, Materialize, MaterializeAll
<1>5. CASE Scans
  BY <1>1, <1>5, Zenon DEF Scans, vars
<1>6. CASE UNCHANGED pagingVars
  BY <1>1, <1>6 DEF pagingVars, vars
<1> QED BY <1>2, <1>3, <1>4, <1>5, <1>6, Zenon DEF PagingNext, Materializes

\* What a call of Materialize or MaterializeAll that returned no error vouches for is
\* in the store (MaterializedFresh), however runs overlap, fail and are overtaken:
\* for any number of materializers, runners, registrations and changes
\* (materializer.go:44-79).
THEOREM MaterializersFresh == PagingSpec => []MaterializedFresh
<1>1. PagingInit => FreshInv
  <2> SUFFICES ASSUME PagingInit PROVE FreshInv
    BY Zenon
  <2>1. RegistryInit
    BY Zenon DEF PagingInit
  <2>2. \A r \in Runners : run[r].phase = "idle"
    BY <2>1, Zenon DEF RegistryInit, NoRun
  <2>3. \A n \in Names : promised[n] = <<0, 0>> /\ registered[n] = 0 /\ data[n] = 0
    BY <2>1, Zenon DEF RegistryInit
  <2>4. \A n \in Names : Claims(n) = {<<0, 0>>}
    BY <2>2, <2>3 DEF Claims, Done
  <2>5. \A r \in Runners : RunFresh(r)
    BY <2>2, Zenon DEF RunFresh, Active
  <2>6. \A n \in Names : AtMost(promised[n], registered[n], data[n])
    BY <2>3 DEF AtMost
  <2> QED BY <2>4, <2>5, <2>6 DEF FreshInv, Borne
<1>2. FreshInv /\ StepOK /\ StepOK' /\ [PagingNext]_pagingVars => FreshInv'
  BY FreshStep, Zenon DEF StepOK
<1>3. FreshInv /\ StepOK => MaterializedFresh
  <2> SUFFICES ASSUME FreshInv, StepOK, NEW n \in Names \ overlapped, promised[n][1] # 0
               PROVE  \E f \in promised[n][1]..registered[n], v \in promised[n][2]..data[n] :
                          materialized[n] = Result(n, f, v)
    BY Zenon DEF MaterializedFresh, Result
  <2>1. promised[n] \in Claims(n)
    BY Zenon DEF Claims
  <2>2. Borne(n)
    BY Zenon DEF FreshInv
  <2>3. Holds(n)
    BY <2>1, <2>2 DEF Borne
  <2>4. PICK f \in 1..registered[n], v \in 0..data[n] :
            materialized[n] = Result(n, f, v) /\ AtMost(promised[n], f, v)
    BY <2>1, <2>3, Zenon DEF Holds
  <2>5. promised[n][1] \in Nat /\ promised[n][2] \in Nat /\ registered[n] \in Nat /\ data[n] \in Nat
    BY DEF StepOK, RegistryOK, Versions
  <2>6. f \in promised[n][1]..registered[n] /\ v \in promised[n][2]..data[n]
    BY <2>4, <2>5 DEF AtMost
  <2> QED BY <2>4, <2>6, Zenon
<1> QED BY <1>1, <1>2, <1>3, PagingTypes, PTL DEF PagingSpec
=============================================================================
