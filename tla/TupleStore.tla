----------------------------- MODULE TupleStore ------------------------------
(***************************************************************************)
(* The embedded relationship store: MemoryStore (zanzibar/store/memory.go) *)
(* with its two indexes and its materialized tuples, and the operations of *)
(* the engine that change it (zanzibar/zanzibar.go,                        *)
(* zanzibar/relationships.go).                                             *)
(*                                                                         *)
(* Several goroutines call the engine.  A call resolves the model and      *)
(* validates (one step), changes the store under its mutex (one step), and *)
(* then tells the change notifier of each tuple (one step each, after the  *)
(* mutex is released).  The notifier's consumer is a replica that applies  *)
(* what it is told in the order it is told.  The notifier is not a         *)
(* PrecommitTupleRecorder and the model does not change.                   *)
(*                                                                         *)
(* A bucket of an index that is absent is the empty set: deleteLocked      *)
(* drops a bucket when its last tuple goes.                                *)
(***************************************************************************)
EXTENDS Naturals, FiniteSets

CONSTANTS
    Tuples,      \* relationship tuples
    Keys,        \* (object, relation) pairs
    Users,       \* (user type, user id) pairs
    KeyOf,       \* per tuple: its object and relation
    UserOf,      \* per tuple: its user
    Direct,      \* the tuples without a user relation
    Admitted,    \* the tuples the model's ValidateTuple accepts
    MinHolders,  \* per key: the floor its relation declares, 0 for none
    Batches,     \* the <<writes, deletes>> WriteRelationships is called with
    Callers,     \* goroutines
    Names,       \* materializers
    Computed     \* the sets of tuples a materializer may compute

ASSUME StoreAssumption ==
    /\ KeyOf \in [Tuples -> Keys]
    /\ UserOf \in [Tuples -> Users]
    /\ Direct \subseteq Tuples
    /\ IsFiniteSet(Tuples)
    /\ MinHolders \in [Keys -> Nat]
    /\ Batches \subseteq (SUBSET Tuples) \X (SUBSET Tuples)
    /\ Computed \subseteq SUBSET Tuples

VARIABLES
    byObjectRelation,  \* per key: its tuples
    byUser,            \* per user: its tuples
    materialized,      \* per materializer: its tuples
    call,              \* per caller: the operation in progress
    replica            \* what the notifier's consumer holds

VARIABLE contended  \* history: tuples last changed while another call had still to notify

indexes == <<byObjectRelation, byUser>>
vars == <<indexes, materialized, call, replica, contended>>

Idle == [op |-> "idle"]
\* Validated, before the store call; and changed, before the notifications.
Pending == [op: {"write", "delete", "raw", "guarded", "tx"}, writes: SUBSET Tuples, deletes: SUBSET Tuples]
              \cup [op: {"replace"}, key: Keys, replacements: SUBSET Tuples]
Notifying ==
    {r \in [op: {"notify"}, writes: SUBSET Tuples, deletes: SUBSET Tuples] :
        r.writes \cup r.deletes # {}}

(***************************************************************************)
(* MemoryStore, under its mutex                                            *)
(***************************************************************************)

\* The tuples of the primary index.
Stored == UNION {byObjectRelation[k] : k \in Keys}

Insert(index, keyOf, writes) ==
    [x \in DOMAIN index |-> index[x] \cup {t \in writes : keyOf[t] = x}]

Remove(index, keyOf, deletes) ==
    [x \in DOMAIN index |-> index[x] \ {t \in deletes : keyOf[t] = x}]

\* writeLocked for each write, then deleteLocked for each delete.
Change(writes, deletes) ==
    /\ byObjectRelation' = Remove(Insert(byObjectRelation, KeyOf, writes), KeyOf, deletes)
    /\ byUser' = Remove(Insert(byUser, UserOf, writes), UserOf, deletes)

directHolders(k) == byObjectRelation[k] \cap Direct

\* What Read returns for a key: an entry of the index or of a materializer.
ReadEntries(k) ==
    {<<"index", t>> : t \in byObjectRelation[k]}
        \cup {e \in Names \X Tuples : e[2] \in materialized[e[1]] /\ KeyOf[e[2]] = k}

\* Fault: materialized holders count.
LastHolderPadded(t) ==
    /\ t \in byObjectRelation[KeyOf[t]]
    /\ Cardinality({e \in ReadEntries(KeyOf[t]) : e[2] \in Direct}) <= MinHolders[KeyOf[t]]

\* DeleteIfAbove refuses: the tuple is there and its key has no holder to spare.
LastHolder(t) ==
    /\ t \in byObjectRelation[KeyOf[t]]
    /\ Cardinality(directHolders(KeyOf[t])) <= MinHolders[KeyOf[t]]

\* Fault: a replacement removes nothing.
ReplacementDeletesNone(k, replacements) == {}

\* ReplacementDiff of what the filter matches now.
ReplacementWrites(k, replacements) == replacements \ byObjectRelation[k]
ReplacementDeletes(k, replacements) == byObjectRelation[k] \ replacements

(***************************************************************************)
(* The engine's calls, up to the store                                     *)
(***************************************************************************)

Begin(c, request) ==
    /\ call[c] = Idle
    /\ call' = [call EXCEPT ![c] = request]
    /\ UNCHANGED <<indexes, materialized, replica, contended>>

WriteTuple(c, t) ==
    /\ t \in Admitted
    /\ Begin(c, [op |-> "write", writes |-> {t}, deletes |-> {}])

\* A direct tuple of a relation with a floor.
IsGuarded(t) == t \in Direct /\ MinHolders[KeyOf[t]] >= 1

DeleteTuple(c, t) ==
    Begin(c, [op |-> IF IsGuarded(t) THEN "guarded" ELSE "delete", writes |-> {}, deletes |-> {t}])

WriteRawTuple(c, t) == Begin(c, [op |-> "write", writes |-> {t}, deletes |-> {}])

DeleteRawTuple(c, t) == Begin(c, [op |-> "raw", writes |-> {}, deletes |-> {t}])

WriteRelationships(c, batch) ==
    /\ batch # <<{}, {}>>
    /\ batch[1] \subseteq Admitted
    /\ Begin(c, [op |-> "tx", writes |-> batch[1], deletes |-> batch[2]])

\* The filter is an object and a relation.
ReplaceRelationships(c, k, replacements) ==
    /\ replacements \subseteq Admitted
    /\ Begin(c, [op |-> "replace", key |-> k, replacements |-> replacements])

(***************************************************************************)
(* The store call                                                          *)
(***************************************************************************)

\* Changed under the mutex and not yet told to the notifier.
Untold(d) == IF call[d].op = "notify" THEN call[d].writes \cup call[d].deletes ELSE {}

\* Fault: a batch announces only its writes.
NotifyWrites(writes, deletes) ==
    IF writes = {} THEN Idle
    ELSE [op |-> "notify", writes |-> writes, deletes |-> {}]

\* What is left to tell, or the return of the call.
Notify(writes, deletes) ==
    IF writes \cup deletes = {} THEN Idle
    ELSE [op |-> "notify", writes |-> writes, deletes |-> deletes]

\* The store changes, and the notifications are still to come.
Commit(c, writes, deletes) ==
    /\ Change(writes, deletes)
    /\ call' = [call EXCEPT ![c] = Notify(writes, deletes)]
    /\ contended' = (contended \ (writes \cup deletes))
                       \cup ((writes \cup deletes) \cap UNION {Untold(d) : d \in Callers \ {c}})
    /\ UNCHANGED <<materialized, replica>>

\* Write, Delete and WriteTx.
StoreChange(c) ==
    /\ call[c].op \in {"write", "delete", "raw", "tx"}
    /\ Commit(c, call[c].writes, call[c].deletes)

DeleteIfAbove(c) ==
    /\ call[c].op = "guarded"
    /\ \A t \in call[c].deletes : ~LastHolder(t)
    /\ Commit(c, {}, call[c].deletes)

DeleteRefused(c) ==
    /\ call[c].op = "guarded"
    /\ \E t \in call[c].deletes : LastHolder(t)
    /\ call' = [call EXCEPT ![c] = Idle]
    /\ UNCHANGED <<indexes, materialized, replica, contended>>

\* The delta is taken under the same lock as the change.
ReplaceTx(c) ==
    /\ call[c].op = "replace"
    /\ LET k == call[c].key
           r == call[c].replacements
       IN  Commit(c, ReplacementWrites(k, r), ReplacementDeletes(k, r))

(***************************************************************************)
(* The notifications: all writes, then all deletes                         *)
(***************************************************************************)

OnTupleWrite(c, t) ==
    /\ call[c].op = "notify"
    /\ t \in call[c].writes
    /\ replica' = replica \cup {t}
    /\ call' = [call EXCEPT ![c] = Notify(call[c].writes \ {t}, call[c].deletes)]
    /\ UNCHANGED <<indexes, materialized, contended>>

OnTupleDelete(c, t) ==
    /\ call[c].op = "notify"
    /\ call[c].writes = {}
    /\ t \in call[c].deletes
    /\ replica' = replica \ {t}
    /\ call' = [call EXCEPT ![c] = Notify({}, call[c].deletes \ {t})]
    /\ UNCHANGED <<indexes, materialized, contended>>

(***************************************************************************)
(* Materialized tuples, and the read-only pre-check of a delete            *)
(***************************************************************************)

\* WriteMaterialized; ClearMaterialized is the same with no tuples.
WriteMaterialized(n, tuples) ==
    /\ materialized' = [materialized EXCEPT ![n] = tuples]
    /\ UNCHANGED <<indexes, call, replica, contended>>

(***************************************************************************)
(* Specification                                                           *)
(***************************************************************************)

Init ==
    /\ byObjectRelation = [k \in Keys |-> {}]
    /\ byUser = [u \in Users |-> {}]
    /\ materialized = [n \in Names |-> {}]
    /\ call = [c \in Callers |-> Idle]
    /\ replica = {}
    /\ contended = {}

\* A step of caller c.
Engine(c) ==
    \/ \E t \in Tuples :
          \/ WriteTuple(c, t) \/ DeleteTuple(c, t)
          \/ WriteRawTuple(c, t) \/ DeleteRawTuple(c, t)
          \/ OnTupleWrite(c, t) \/ OnTupleDelete(c, t)
    \/ \E b \in Batches : WriteRelationships(c, b)
    \/ \E k \in Keys : \E r \in SUBSET {t \in Tuples : KeyOf[t] = k} : ReplaceRelationships(c, k, r)
    \/ StoreChange(c) \/ DeleteIfAbove(c) \/ DeleteRefused(c) \/ ReplaceTx(c)

Next ==
    \/ \E c \in Callers : Engine(c)
    \/ \E n \in Names, m \in Computed : WriteMaterialized(n, m)

Spec == Init /\ [][Next]_vars

(***************************************************************************)
(* Properties                                                              *)
(***************************************************************************)

\* Every variable has its shape.
TypeOK ==
    /\ byObjectRelation \in [Keys -> SUBSET Tuples]
    /\ byUser \in [Users -> SUBSET Tuples]
    /\ materialized \in [Names -> SUBSET Tuples]
    /\ call \in [Callers -> {Idle} \cup Pending \cup Notifying]
    /\ replica \in SUBSET Tuples
    /\ contended \in SUBSET Tuples

\* The secondary index holds exactly the tuples of the primary one, and every
\* tuple is in the bucket of its own key and user: no sequence of writes,
\* deletes, transactions and replacements lets the two maps drift apart
\* (memory.go:51-94).
IndexesAgree ==
    /\ \A k \in Keys : \A t \in byObjectRelation[k] : KeyOf[t] = k
    /\ \A u \in Users : byUser[u] = {t \in Stored : UserOf[t] = u}

\* A relation that has reached its floor falls below it only by a raw delete, a
\* transaction or a replacement: however many sibling DeleteTuple calls race, and
\* whatever materialized holders are around, the last holders stay
\* (memory.go:113-139, zanzibar.go:338-350).
FloorRetained ==
    [][ \A k \in Keys :
          Cardinality(directHolders(k)) >= MinHolders[k]
              => \/ Cardinality(directHolders(k)') >= MinHolders[k]
                 \/ \E c \in Callers : /\ call[c].op \in {"raw", "tx", "replace"}
                                      /\ call'[c] # call[c] ]_vars

\* No operation at all takes a relation below its floor, as types.go:24-25 says.
EveryStepRetainsFloor ==
    [][ \A k \in Keys :
          Cardinality(directHolders(k)) >= MinHolders[k]
              => Cardinality(directHolders(k)') >= MinHolders[k] ]_vars

\* The replica agrees with the store on every tuple nobody has still to notify
\* about, unless its last change was made while another call had still to notify
\* about it: the notifications run outside the mutex and in any order
\* (zanzibar.go:305-312, relationships.go:250-262, :315-322).
ReplicaConverges ==
    \A t \in Tuples \ contended :
        (\A c \in Callers : t \notin Untold(c)) => (t \in replica <=> t \in Stored)

\* The request of a call that the store has still to answer.
Request(c) == IF call[c].op = "notify" THEN Idle ELSE call[c]

\* Every call takes effect in one atomic step on one set: a replacement leaves
\* exactly what it was given although its delta depends on what other calls did
\* since it was validated (relationships.go:266-269), and a guarded delete is
\* refused exactly when the set says so at that step (memory.go:113-139).
AbstractStore ==
    INSTANCE TupleSet WITH stored <- Stored, request <- [c \in Callers |-> Request(c)]
ImplementsTupleSet == AbstractStore!Spec

=============================================================================
