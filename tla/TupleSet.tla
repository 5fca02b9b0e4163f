------------------------------ MODULE TupleSet -------------------------------
(***************************************************************************)
(* What the tuple store promises (the interfaces of zanzibar/store/        *)
(* store.go): one set of relationship tuples.  Every request takes effect  *)
(* in one atomic step between its start and its end, on the set as it is   *)
(* at that step.                                                           *)
(***************************************************************************)
EXTENDS Naturals, FiniteSets

CONSTANTS
    Tuples,      \* relationship tuples
    Keys,        \* (object, relation) pairs
    KeyOf,       \* per tuple: its object and relation
    Direct,      \* the tuples without a user relation
    MinHolders,  \* per key: the floor its relation declares, 0 for none
    Batches,     \* the <<writes, deletes>> a transaction may carry
    Callers      \* goroutines

VARIABLES
    stored,  \* the tuples
    request  \* per caller: what it has asked for and not yet got

Idle == [op |-> "idle"]

\* A direct tuple of a relation with a floor.
IsGuarded(t) == t \in Direct /\ MinHolders[KeyOf[t]] >= 1

Changing(op, writes, deletes) == [op |-> op, writes |-> writes, deletes |-> deletes]

Writes == {Changing("write", {t}, {}) : t \in Tuples}

Deletes == {Changing("delete", {}, {t}) : t \in {u \in Tuples : ~IsGuarded(u)}}

\* The engine's raw calls delete any tuple.
RawDeletes == {Changing("raw", {}, {t}) : t \in Tuples}

GuardedDeletes == {Changing("guarded", {}, {t}) : t \in {u \in Tuples : IsGuarded(u)}}

Transactions == {Changing("tx", b[1], b[2]) : b \in Batches}

Replacements == {[op |-> "replace", key |-> k, replacements |-> s] :
                    k \in Keys, s \in SUBSET Tuples}

Requests ==
    Writes \cup Deletes \cup RawDeletes \cup GuardedDeletes \cup Transactions \cup Replacements

Submit(c) ==
    /\ request[c] = Idle
    /\ request'[c] \in Requests
    /\ request' = [request EXCEPT ![c] = request'[c]]
    /\ UNCHANGED stored

Answer(c) == request' = [request EXCEPT ![c] = Idle]

\* Write, Delete and WriteTx.
WriteTx(c) ==
    /\ request[c].op \in {"write", "delete", "raw", "tx"}
    /\ stored' = (stored \cup request[c].writes) \ request[c].deletes
    /\ Answer(c)

HoldersIn(s, k) == {t \in s \cap Direct : KeyOf[t] = k}

\* The delete would leave less than the floor behind.
LastHolder(t) ==
    /\ t \in stored
    /\ Cardinality(HoldersIn(stored, KeyOf[t])) <= MinHolders[KeyOf[t]]

DeleteIfAbove(c) ==
    /\ request[c].op = "guarded"
    /\ stored' = stored \ {t \in request[c].deletes : ~LastHolder(t)}
    /\ Answer(c)

\* The tuples of the key are the replacements afterwards, whatever they were.
ReplaceTx(c) ==
    /\ request[c].op = "replace"
    /\ stored' = {t \in stored : KeyOf[t] # request[c].key} \cup request[c].replacements
    /\ Answer(c)

Init ==
    /\ stored = {}
    /\ request = [c \in Callers |-> Idle]

Next == \E c \in Callers : Submit(c) \/ WriteTx(c) \/ DeleteIfAbove(c) \/ ReplaceTx(c)

Spec == Init /\ [][Next]_<<stored, request>>
=============================================================================
