----------------------------- MODULE JWKSFetcher -----------------------------
(***************************************************************************)
(* The cache of the provider's signing keys (identity/jwks.go).  FindKey   *)
(* serves from the cached key set within its TTL, and on an unknown key id *)
(* forces one paced, shared refresh, while the provider rotates its keys.  *)
(*                                                                         *)
(* f.mu is held across a whole fetch, so readers wait for it.  A key set   *)
(* is a pointer in the code: `holding` has the callers whose `seen`        *)
(* pointer still is f.keys.                                                *)
(***************************************************************************)
EXTENDS RequestClock

CONSTANTS
    Kids,               \* key ids
    KeyTTL,             \* f.ttl
    MinForceInterval,   \* f.minForceInterval
    FetchTimeout        \* of the http.Client

ASSUME FetcherAssumption ==
    /\ KeyTTL \in Nat /\ MinForceInterval \in Nat /\ FetchTimeout \in Nat \ {0}

VARIABLES
    published,    \* the provider's key set
    retiredAt,    \* history: when a key was last withdrawn
    keys,         \* f.keys
    fetchedAt,    \* f.fetchedAt
    forcedAt,     \* f.forcedAt
    lockedAt,     \* since when a fetch holds f.mu, ZeroTime if none does
    holding,      \* callers whose `seen` is f.keys
    find          \* per caller: its FindKey

jwksVars == <<published, retiredAt, keys, fetchedAt, forcedAt, lockedAt, holding, find>>

NotFinding ==
    [pc |-> "idle", kid |-> "none", since |-> ZeroTime, wakeAt |-> ZeroTime,
     answer |-> {}, missed |-> FALSE, out |-> "none"]

Locked == lockedAt # ZeroTime

JWKSTypeOK ==
    /\ published \subseteq Kids /\ keys \subseteq Kids
    /\ retiredAt \in [Kids -> Int]
    /\ fetchedAt \in Int /\ forcedAt \in Int
    /\ lockedAt \in Int
    /\ Locked <=> \E c \in Callers : find[c].pc \in {"fetch", "served"}
    /\ holding \subseteq {c \in Callers : find[c].pc \in {"force", "wait", "fetch", "served"}}
    /\ \A c \in Callers :
          /\ find[c].pc \in {"idle", "getKeys", "refresh", "fetch", "served", "force", "wait", "done"}
          /\ find[c].answer \subseteq Kids
          /\ find[c].out \in {"none", "found", "unknown", "error"}

\* A new fetcher, or (`warm`) one that has just fetched.
JWKSInit(set, warm) ==
    /\ published = set
    /\ retiredAt = [k \in Kids |-> ZeroTime]
    /\ keys = IF warm THEN set ELSE {}
    /\ fetchedAt = IF warm THEN now ELSE ZeroTime
    /\ forcedAt = ZeroTime
    /\ lockedAt = ZeroTime
    /\ holding = {}
    /\ find = [c \in Callers |-> NotFinding]

\* `missed` is history: the key has not been published all through the call.
CallFindKey(c, kid) ==
    find' = [find EXCEPT ![c] = [NotFinding EXCEPT !.pc = "getKeys", !.kid = kid, !.since = now,
                                                   !.missed = kid \notin published]]

Finish(c, out) == [find EXCEPT ![c].pc = "done", ![c].out = out, ![c].answer = {},
                                     ![c].wakeAt = ZeroTime]

\* keys.Key(kid) on the set a refresh returned.
Key(c, set) == IF find[c].kid \in set THEN "found" ELSE "unknown"

IsFresh == fetchedAt # ZeroTime /\ now - fetchedAt < KeyTTL

\* FindKey looks into the set GetKeys returned, and goes on to forceRefresh on a miss.
LookUp(c, set, others) ==
    IF find[c].kid \in set
    THEN find' = Finish(c, "found") /\ holding' = others
    ELSE find' = [find EXCEPT ![c].pc = "force", ![c].answer = {}] /\ holding' = others \cup {c}

GetKeys(c) ==
    /\ find[c].pc = "getKeys"
    /\ ~Locked
    /\ IF IsFresh
       THEN LookUp(c, keys, holding)
       ELSE find' = [find EXCEPT ![c].pc = "refresh"] /\ UNCHANGED holding
    /\ UNCHANGED <<published, retiredAt, keys, fetchedAt, forcedAt, lockedAt>>

\* The TTL is read again under the write lock.
refresh(c) ==
    /\ find[c].pc = "refresh"
    /\ ~Locked
    /\ IF IsFresh
       THEN LookUp(c, keys, holding) /\ UNCHANGED lockedAt
       ELSE /\ find' = [find EXCEPT ![c].pc = "fetch"]
            /\ lockedAt' = now
            /\ UNCHANGED holding
    /\ UNCHANGED <<published, retiredAt, keys, fetchedAt, forcedAt>>

MayForce == forcedAt = ZeroTime \/ now - forcedAt >= MinForceInterval

\* Fault: inside the interval the stale set answers.
forceRefreshUnwaiting(c) ==
    /\ find[c].pc = "force"
    /\ ~Locked
    /\ IF c \notin holding \/ ~MayForce
       THEN /\ find' = Finish(c, Key(c, keys))
            /\ holding' = holding \ {c}
            /\ UNCHANGED <<forcedAt, lockedAt>>
       ELSE /\ forcedAt' = now
            /\ lockedAt' = now
            /\ find' = [find EXCEPT ![c].pc = "fetch"]
            /\ UNCHANGED holding
    /\ UNCHANGED <<published, retiredAt, keys, fetchedAt>>

\* Another caller's refresh is shared; else the caller refreshes or waits for its turn.
forceRefresh(c) ==
    /\ find[c].pc = "force"
    /\ ~Locked
    /\ IF c \notin holding \/ find[c].kid \in keys
       THEN /\ find' = Finish(c, Key(c, keys))
            /\ holding' = holding \ {c}
            /\ UNCHANGED <<forcedAt, lockedAt>>
       ELSE IF MayForce
       THEN /\ forcedAt' = now
            /\ lockedAt' = now
            /\ find' = [find EXCEPT ![c].pc = "fetch"]
            /\ UNCHANGED holding
       ELSE /\ find' = [find EXCEPT ![c].pc = "wait", ![c].wakeAt = forcedAt + MinForceInterval]
            /\ UNCHANGED <<forcedAt, lockedAt, holding>>
    /\ UNCHANGED <<published, retiredAt, keys, fetchedAt>>

Wakes(c) ==
    /\ find[c].pc = "wait"
    /\ now >= find[c].wakeAt
    /\ find' = [find EXCEPT ![c].pc = "force", ![c].wakeAt = ZeroTime]
    /\ UNCHANGED <<published, retiredAt, keys, fetchedAt, forcedAt, lockedAt, holding>>

WaitCancelled(c) ==
    /\ find[c].pc = "wait"
    /\ find' = Finish(c, "error")
    /\ holding' = holding \ {c}
    /\ UNCHANGED <<published, retiredAt, keys, fetchedAt, forcedAt, lockedAt>>

\* The provider answers a fetch with the set it publishes at that moment.
ProviderAnswers(c) ==
    /\ find[c].pc = "fetch"
    /\ find' = [find EXCEPT ![c].pc = "served", ![c].answer = published]
    /\ UNCHANGED <<published, retiredAt, keys, fetchedAt, forcedAt, lockedAt, holding>>

\* Fault: a failed fetch falls back to the cached set.
FetchFailsStale(c) ==
    /\ find[c].pc \in {"fetch", "served"}
    /\ find' = Finish(c, IF find[c].kid \in keys THEN "found" ELSE "error")
    /\ lockedAt' = ZeroTime
    /\ holding' = holding \ {c}
    /\ UNCHANGED <<published, retiredAt, keys, fetchedAt, forcedAt>>

FetchFails(c) ==
    /\ find[c].pc \in {"fetch", "served"}
    /\ find' = Finish(c, "error")
    /\ lockedAt' = ZeroTime
    /\ holding' = holding \ {c}
    /\ UNCHANGED <<published, retiredAt, keys, fetchedAt, forcedAt>>

\* A forced fetch, made by a caller that holds a `seen`, ends the lookup.
fetchLocked(c) ==
    /\ find[c].pc = "served"
    /\ keys' = find[c].answer
    /\ fetchedAt' = now
    /\ lockedAt' = ZeroTime
    /\ IF c \in holding
       THEN find' = Finish(c, Key(c, find[c].answer)) /\ holding' = {}
       ELSE LookUp(c, find[c].answer, {})
    /\ UNCHANGED <<published, retiredAt, forcedAt>>

FindKeyStep(c) ==
    \/ GetKeys(c) \/ refresh(c) \/ forceRefresh(c)
    \/ Wakes(c) \/ WaitCancelled(c)
    \/ ProviderAnswers(c) \/ FetchFails(c) \/ fetchLocked(c)

\* The provider brings keys in and takes keys out.
RotateKeys(set) ==
    /\ set # published
    /\ published' = set
    /\ retiredAt' = [k \in Kids |-> IF k \in published \ set THEN now ELSE retiredAt[k]]
    /\ find' = [c \in Callers |->
                  [find[c] EXCEPT !.missed = @ \/ (find[c].pc # "idle" /\ find[c].kid \notin set)]]
    /\ UNCHANGED <<keys, fetchedAt, forcedAt, lockedAt, holding>>

\* The http.Client gives up a fetch after its timeout.
FetchInTime == Locked => now < lockedAt + FetchTimeout

-----------------------------------------------------------------------------
\* FindKey reports a key id as unknown only if the provider did not publish
\* it all through the call: a waiter that shares another caller's refresh
\* ("without returning a known-stale snapshot", jwks.go:170) is never told
\* by a set that is older than its own question.
UnknownIsTrue ==
    \A c \in Callers : find[c].out = "unknown" => find[c].missed

\* A withdrawn key is found only by lookups that began within the cache TTL
\* and one fetch of its withdrawal, however caching, waiting and sharing
\* interleave.
RetiredKeyEnds ==
    \A c \in Callers :
       find[c].out = "found" =>
          \/ find[c].kid \in published
          \/ find[c].since - retiredAt[find[c].kid] < KeyTTL + FetchTimeout
=============================================================================
