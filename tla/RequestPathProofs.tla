-------------------------- MODULE RequestPathProofs --------------------------
(***************************************************************************)
(* Proofs about request authentication, for every number of callers and    *)
(* requests, every key set, proof and session, and every TTL and timeout.  *)
(*                                                                         *)
(* Each component has an inductive invariant of its own, and the steps of  *)
(* RequestPath are steps of the components.                                *)
(***************************************************************************)
EXTENDS RequestPath, TLAPS

(***************************************************************************)
(* The key cache                                                           *)
(*                                                                         *)
(* UnknownIsTrue and RetiredKeyEnds say what a lookup returned.  A waiter  *)
(* answers from a set that another caller fetched, so the invariant also   *)
(* says of a fetch under way that its answer is no older than the question *)
(* of anybody who will be told by it (FetchIsLate, AnswerTells), and of    *)
(* the cached set that it does not lack a key a waiter asked for, unless   *)
(* the provider did at some time (SharedTells).                            *)
(***************************************************************************)

Lookups ==
    [pc : {"idle", "getKeys", "refresh", "fetch", "served", "force", "wait", "done"},
     kid : Kids \cup {"none"}, since : Int, wakeAt : Int, answer : SUBSET Kids,
     missed : BOOLEAN, out : {"none", "found", "unknown", "error"}]

FindTypes ==
    /\ now \in Nat
    /\ published \in SUBSET Kids /\ keys \in SUBSET Kids
    /\ retiredAt \in [Kids -> Int]
    /\ fetchedAt \in Int /\ forcedAt \in Int /\ lockedAt \in Int
    /\ holding \in SUBSET Callers
    /\ find \in [Callers -> Lookups]

Fetching(c) == find[c].pc \in {"fetch", "served"}
Waiting(c) == find[c].pc \in {"force", "wait"}

\* f.mu: one fetch at a time.
OneFetch ==
    /\ \A c, d \in Callers : Fetching(c) /\ Fetching(d) => c = d
    /\ Locked <=> \E c \in Callers : Fetching(c)

Clocks ==
    /\ fetchedAt <= now
    /\ lockedAt <= now
    /\ Locked => now <= lockedAt + FetchTimeout
    /\ \A k \in Kids : retiredAt[k] <= now

\* What a lookup knows of itself.
Asked ==
    \A c \in Callers :
       /\ find[c].pc # "idle" =>
             /\ find[c].kid \in Kids
             /\ find[c].since <= now
             /\ find[c].kid \in published \/ find[c].missed = TRUE
       /\ find[c].out # "none" => find[c].pc = "done"

\* A key of the set is published, or was not withdrawn before t.
NotRetiredBefore(set, t) == \A k \in set : k \in published \/ retiredAt[k] >= t

KeysAge == NotRetiredBefore(keys, fetchedAt - FetchTimeout)

AnswerAge == \A c \in Callers : find[c].pc = "served" => NotRetiredBefore(find[c].answer, lockedAt)

\* Who will be told by a fetch asked before it began.
FetchIsLate ==
    \A c \in Callers : Locked /\ (Waiting(c) \/ Fetching(c)) => find[c].since <= lockedAt

AnswerTells ==
    \A c, d \in Callers :
       find[d].pc = "served" /\ (Waiting(c) \/ c = d)
          => find[c].kid \in find[d].answer \/ find[c].missed = TRUE

HoldersMiss ==
    \A c \in holding : /\ find[c].kid \notin keys
                       /\ Waiting(c) \/ Fetching(c)

SharedTells ==
    \A c \in Callers : Waiting(c) /\ c \notin holding =>
       /\ find[c].kid \in keys \/ find[c].missed = TRUE
       /\ NotRetiredBefore(keys, find[c].since)

KeysInv ==
    /\ FindTypes /\ OneFetch /\ Clocks /\ Asked
    /\ KeysAge /\ AnswerAge
    /\ FetchIsLate /\ AnswerTells /\ HoldersMiss /\ SharedTells
    /\ UnknownIsTrue /\ RetiredKeyEnds

\* A step of one lookup c that asks nothing new.
Steps(c) ==
    /\ find' \in [Callers -> Lookups]
    /\ \A d \in Callers \ {c} : find'[d] = find[d]
    /\ find'[c].kid = find[c].kid /\ find'[c].since = find[c].since
    /\ find'[c].missed = find[c].missed

StoreKept == UNCHANGED <<now, published, retiredAt, keys, fetchedAt>>

\* The end of a lookup changes only where it is and what it returns.
LEMMA FinishSteps ==
    ASSUME FindTypes, NEW c \in Callers, NEW out \in {"none", "found", "unknown", "error"},
           find' = Finish(c, out)
    PROVE  /\ Steps(c)
           /\ find'[c].pc = "done" /\ find'[c].out = out /\ find'[c].answer = {}
<1> DEFINE r == [find[c] EXCEPT !.pc = "done", !.out = out, !.answer = {}, !.wakeAt = ZeroTime]
<1>1. find[c] \in Lookups
  BY Zenon DEF FindTypes
<1>2. r \in Lookups /\ r.pc = "done" /\ r.out = out /\ r.answer = {}
      /\ r.kid = find[c].kid /\ r.since = find[c].since /\ r.missed = find[c].missed
  <2>1. ZeroTime \in Int
    BY DEF ZeroTime
  <2> QED
    BY <1>1, <2>1, Zenon DEF Lookups
<1>3. find' = [find EXCEPT ![c] = r]
  BY Zenon DEF FindTypes, Finish
<1> HIDE DEF r
<1> QED
  BY <1>2, <1>3, Zenon DEF FindTypes, Steps

\* Moving on changes only where a lookup is.
LEMMA MoveSteps ==
    ASSUME FindTypes, NEW c \in Callers,
           NEW pc \in {"getKeys", "refresh", "fetch", "served", "force", "wait"},
           find' = [find EXCEPT ![c].pc = pc]
    PROVE  /\ Steps(c)
           /\ find'[c].pc = pc /\ find'[c].out = find[c].out /\ find'[c].answer = find[c].answer
  BY Zenon DEF FindTypes, Steps, Lookups

LEMMA LookUpSteps ==
    ASSUME FindTypes, NEW c \in Callers, NEW set \in SUBSET Kids, NEW others \in SUBSET Callers,
           LookUp(c, set, others)
    PROVE  /\ Steps(c)
           /\ holding' \in SUBSET Callers
           /\ find'[c].answer = {}
           /\ \/ /\ find[c].kid \in set
                 /\ find'[c].pc = "done" /\ find'[c].out = "found"
                 /\ holding' = others
              \/ /\ find[c].kid \notin set
                 /\ find'[c].pc = "force" /\ find'[c].out = find[c].out
                 /\ holding' = others \cup {c}
<1>1. CASE find[c].kid \in set
  BY <1>1, FinishSteps, Zenon DEF LookUp
<1>2. CASE find[c].kid \notin set
  <2>1. /\ Steps(c) 
        /\ find'[c].pc = "force" /\ find'[c].out = find[c].out /\ find'[c].answer = {}
    BY <1>2 DEF LookUp, FindTypes, Steps, Lookups
  <2> QED
    BY <1>2, <2>1, Zenon DEF LookUp
<1> QED
  BY <1>1, <1>2, Zenon

\* What a lookup returns, it may return.
Justified(c) ==
    /\ find'[c].out # "none" => find'[c].pc = "done"
    /\ find'[c].out = "unknown" => find[c].missed = TRUE
    /\ find'[c].out = "found" =>
          \/ find[c].kid \in published
          \/ find[c].since - retiredAt[find[c].kid] < KeyTTL + FetchTimeout

\* A lookup that returns, waits or fetches no more; it drops the lock if it had it.
LEMMA LeavesKeepsInv ==
    ASSUME KeysInv, NEW c \in Callers, StoreKept, Steps(c), find[c].pc # "idle",
           find'[c].pc \in {"getKeys", "refresh", "done"}, Justified(c),
           forcedAt' = forcedAt, holding' = holding \ {c},
           lockedAt' = IF Fetching(c) THEN ZeroTime ELSE lockedAt
    PROVE  KeysInv'
<1> USE DEF StoreKept, Steps
<1>1. FindTypes'
  BY DEF KeysInv, FindTypes, ZeroTime
<1>2. OneFetch'
  BY Zenon DEF KeysInv, OneFetch, Fetching, Locked
<1>3. Clocks'
  BY DEF KeysInv, FindTypes, Clocks, Locked, ZeroTime
<1>4. Asked'
  BY Zenon DEF KeysInv, Asked, Justified
<1>5. KeysAge'
  BY Zenon DEF KeysInv, KeysAge, NotRetiredBefore
<1>6. AnswerAge'
  BY Zenon DEF KeysInv, AnswerAge, NotRetiredBefore, OneFetch, Fetching
<1>7. FetchIsLate'
  BY Zenon DEF KeysInv, FetchIsLate, Waiting, Fetching, Locked
<1>8. AnswerTells'
  BY Zenon DEF KeysInv, AnswerTells, Waiting
<1>9. HoldersMiss'
  BY Zenon DEF KeysInv, FindTypes, HoldersMiss, Waiting, Fetching
<1>10. SharedTells'
  BY DEF KeysInv, SharedTells, NotRetiredBefore, Waiting
<1>11. UnknownIsTrue'
  BY Zenon DEF KeysInv, UnknownIsTrue, Justified
<1>12. RetiredKeyEnds'
  BY Zenon DEF KeysInv, RetiredKeyEnds, Justified
<1> QED
  BY <1>1, <1>2, <1>3, <1>4, <1>5, <1>6, <1>7, <1>8, <1>9, <1>10, <1>11, <1>12, Zenon DEF KeysInv

\* A lookup that missed in the cached set goes on to force a refresh, with the set as its `seen`.
LEMMA MissKeepsInv ==
    ASSUME KeysInv, NEW c \in Callers, StoreKept, Steps(c), ~Locked,
           find[c].pc \in {"getKeys", "refresh"}, find'[c].pc = "force", find'[c].out = find[c].out,
           find[c].kid \notin keys,
           UNCHANGED <<forcedAt, lockedAt>>, holding' = holding \cup {c}
    PROVE  KeysInv'
<1> USE DEF StoreKept, Steps
<1>1. FindTypes'
  BY Zenon DEF KeysInv, FindTypes, ZeroTime
<1>2. OneFetch'
  BY Zenon DEF KeysInv, FindTypes, OneFetch, Fetching, Locked, ZeroTime
<1>3. Clocks'
  BY Zenon DEF KeysInv, FindTypes, Clocks, Locked, ZeroTime
<1>4. Asked'
  BY DEF KeysInv, Asked
<1>5. KeysAge'
  BY Zenon DEF KeysInv, KeysAge, NotRetiredBefore
<1>6. AnswerAge'
  BY Zenon DEF KeysInv, AnswerAge, NotRetiredBefore, OneFetch, Fetching, Locked
<1>7. FetchIsLate'
  BY Zenon DEF KeysInv, Asked, FetchIsLate, Waiting, Fetching, Locked
<1>8. AnswerTells'
  BY Zenon DEF KeysInv, AnswerTells, OneFetch, Fetching, Waiting, Locked
<1>9. HoldersMiss'
  BY Zenon DEF KeysInv, FindTypes, HoldersMiss, Waiting, Fetching
<1>10. SharedTells'
  BY DEF KeysInv, SharedTells, NotRetiredBefore, Waiting
<1>11. UnknownIsTrue'
  BY Zenon DEF KeysInv, UnknownIsTrue
<1>12. RetiredKeyEnds'
  BY Zenon DEF KeysInv, RetiredKeyEnds
<1> QED
  BY <1>1, <1>2, <1>3, <1>4, <1>5, <1>6, <1>7, <1>8, <1>9, <1>10, <1>11, <1>12, Zenon DEF KeysInv

\* A lookup takes f.mu to fetch.
LEMMA LocksKeepsInv ==
    ASSUME KeysInv, NEW c \in Callers, StoreKept, Steps(c), ~Locked,
           find[c].pc \in {"refresh", "force"}, find'[c].pc = "fetch", find'[c].out = find[c].out,
           forcedAt' \in Int, lockedAt' = now, UNCHANGED holding
    PROVE  KeysInv'
<1> USE DEF StoreKept, Steps
<1>1. FindTypes'
  BY DEF KeysInv, FindTypes, ZeroTime
<1>2. OneFetch'
  BY DEF KeysInv, FindTypes, OneFetch, Fetching, Locked, ZeroTime
<1>3. Clocks'
  BY FetcherAssumption DEF KeysInv, FindTypes, Clocks, Locked, ZeroTime
<1>4. Asked'
  BY DEF KeysInv, Asked
<1>5. KeysAge'
  BY Zenon DEF KeysInv, KeysAge, NotRetiredBefore
<1>6. AnswerAge'
  BY Zenon DEF KeysInv, AnswerAge, NotRetiredBefore, OneFetch, Fetching, Locked
<1>7. FetchIsLate'
  BY DEF KeysInv, Asked, FetchIsLate, Waiting, Fetching, Locked
<1>8. AnswerTells'
  BY Zenon DEF KeysInv, AnswerTells, OneFetch, Fetching, Waiting, Locked
<1>9. HoldersMiss'
  BY Zenon DEF KeysInv, FindTypes, HoldersMiss, Waiting, Fetching
<1>10. SharedTells'
  BY DEF KeysInv, SharedTells, NotRetiredBefore, Waiting
<1>11. UnknownIsTrue'
  BY Zenon DEF KeysInv, UnknownIsTrue
<1>12. RetiredKeyEnds'
  BY Zenon DEF KeysInv, RetiredKeyEnds
<1> QED
  BY <1>1, <1>2, <1>3, <1>4, <1>5, <1>6, <1>7, <1>8, <1>9, <1>10, <1>11, <1>12, Zenon DEF KeysInv

\* A lookup waits for its turn to force a refresh, or its turn has come.
LEMMA WaitsKeepsInv ==
    ASSUME KeysInv, NEW c \in Callers, StoreKept, Steps(c), Waiting(c),
           find'[c].pc \in {"force", "wait"}, find'[c].out = find[c].out,
           UNCHANGED <<forcedAt, lockedAt, holding>>
    PROVE  KeysInv'
<1> USE DEF StoreKept, Steps
<1>1. FindTypes'
  BY Zenon DEF KeysInv, FindTypes, ZeroTime
<1>2. OneFetch'
  BY Zenon DEF KeysInv, Waiting, FindTypes, OneFetch, Fetching, Locked, ZeroTime
<1>3. Clocks'
  BY Zenon DEF KeysInv, FindTypes, Clocks, Locked, ZeroTime
<1>4. Asked'
  BY DEF KeysInv, Waiting, Asked
<1>5. KeysAge'
  BY Zenon DEF KeysInv, KeysAge, NotRetiredBefore
<1>6. AnswerAge'
  BY Zenon DEF KeysInv, AnswerAge, NotRetiredBefore, OneFetch, Fetching, Locked
<1>7. FetchIsLate'
  BY DEF KeysInv, Asked, FetchIsLate, Waiting, Fetching, Locked
<1>8. AnswerTells'
  BY DEF KeysInv, AnswerTells, OneFetch, Fetching, Waiting, Locked
<1>9. HoldersMiss'
  BY Zenon DEF KeysInv, FindTypes, HoldersMiss, Waiting, Fetching
<1>10. SharedTells'
  BY Zenon DEF KeysInv, SharedTells, NotRetiredBefore, Waiting
<1>11. UnknownIsTrue'
  BY Zenon DEF KeysInv, UnknownIsTrue
<1>12. RetiredKeyEnds'
  BY Zenon DEF KeysInv, RetiredKeyEnds
<1> QED
  BY <1>1, <1>2, <1>3, <1>4, <1>5, <1>6, <1>7, <1>8, <1>9, <1>10, <1>11, <1>12, Zenon DEF KeysInv

\* The provider answers a fetch.
LEMMA AnswerKeepsInv ==
    ASSUME KeysInv, NEW c \in Callers, StoreKept, Steps(c), find[c].pc = "fetch",
           find'[c].pc = "served", find'[c].out = find[c].out, find'[c].answer = published,
           UNCHANGED <<forcedAt, lockedAt, holding>>
    PROVE  KeysInv'
<1> USE DEF StoreKept, Steps
<1>1. FindTypes'
  BY Zenon DEF KeysInv, FindTypes, ZeroTime
<1>2. OneFetch'
  BY Zenon DEF KeysInv, FindTypes, OneFetch, Fetching, Locked, ZeroTime
<1>3. Clocks'
  BY Zenon DEF KeysInv, FindTypes, Clocks, Locked, ZeroTime
<1>4. Asked'
  BY Zenon DEF KeysInv, Asked
<1>5. KeysAge'
  BY Zenon DEF KeysInv, KeysAge, NotRetiredBefore
<1>6. AnswerAge'
  BY Zenon DEF KeysInv, AnswerAge, NotRetiredBefore, OneFetch, Fetching, Locked
<1>7. FetchIsLate'
  BY Zenon DEF KeysInv, Asked, FetchIsLate, Waiting, Fetching, Locked
<1>8. AnswerTells'
  BY DEF KeysInv, Asked, AnswerTells, OneFetch, Fetching, Waiting
<1>9. HoldersMiss'
  BY Zenon DEF KeysInv, FindTypes, HoldersMiss, Waiting, Fetching
<1>10. SharedTells'
  BY DEF KeysInv, SharedTells, NotRetiredBefore, Waiting
<1>11. UnknownIsTrue'
  BY Zenon DEF KeysInv, UnknownIsTrue
<1>12. RetiredKeyEnds'
  BY Zenon DEF KeysInv, RetiredKeyEnds
<1> QED
  BY <1>1, <1>2, <1>3, <1>4, <1>5, <1>6, <1>7, <1>8, <1>9, <1>10, <1>11, <1>12, Zenon DEF KeysInv

\* The cached set, while it is fresh, answers a lookup or sends it on.
LEMMA CacheKeepsInv ==
    ASSUME KeysInv, NEW c \in Callers, find[c].pc \in {"getKeys", "refresh"}, ~Locked, IsFresh,
           LookUp(c, keys, holding), StoreKept, UNCHANGED <<forcedAt, lockedAt>>
    PROVE  KeysInv'
<1>1. FindTypes /\ c \notin holding /\ ~Fetching(c) /\ find[c].out = "none"
  BY Zenon DEF KeysInv, HoldersMiss, Waiting, Fetching, Asked
<1>2. keys \in SUBSET Kids /\ holding \in SUBSET Callers
  BY <1>1, Zenon DEF FindTypes
<1>3. Steps(c)
  BY <1>1, <1>2, LookUpSteps, Zenon
<1>4. CASE find[c].kid \in keys
  <2>1. find'[c].pc = "done" /\ find'[c].out = "found" /\ holding' = holding
    BY <1>1, <1>2, <1>4, LookUpSteps, Zenon
  <2>2. find[c].since \in Int /\ now \in Nat /\ fetchedAt \in Int /\ retiredAt[find[c].kid] \in Int
    BY <1>1, <1>4, Zenon DEF FindTypes, Lookups
  <2>3. \/ find[c].kid \in published
        \/ find[c].since - retiredAt[find[c].kid] < KeyTTL + FetchTimeout
    BY <1>4, <2>2, FetcherAssumption DEF KeysInv, KeysAge, NotRetiredBefore, IsFresh, Asked
  <2>4. Justified(c)
    BY <2>1, <2>3, Zenon DEF Justified
  <2> QED
    BY <1>1, <1>3, <2>1, <2>4, LeavesKeepsInv, Zenon
<1>5. CASE find[c].kid \notin keys
  <2>1. find'[c].pc = "force" /\ find'[c].out = find[c].out /\ holding' = holding \cup {c}
    BY <1>1, <1>2, <1>5, LookUpSteps, Zenon
  <2> QED
    BY <1>3, <1>5, <2>1, MissKeepsInv, Zenon
<1> QED
  BY <1>4, <1>5, Zenon

\* GetKeys under the read lock.
LEMMA GetKeysKeepsInv ==
    ASSUME KeysInv, NEW c \in Callers, GetKeys(c), now' = now
    PROVE  KeysInv'
<1>1. FindTypes /\ c \notin holding /\ ~Fetching(c) /\ find[c].out = "none" /\ find[c].pc = "getKeys"
  BY Zenon DEF KeysInv, HoldersMiss, Waiting, Fetching, Asked, GetKeys
<1>2. CASE IsFresh
  BY <1>1, <1>2, CacheKeepsInv, Zenon DEF GetKeys, StoreKept
<1>3. CASE ~IsFresh
  <2>1. find' = [find EXCEPT ![c].pc = "refresh"] /\ StoreKept
        /\ UNCHANGED <<forcedAt, lockedAt, holding>>
    BY <1>3, Zenon DEF GetKeys, StoreKept
  <2>2. Steps(c) /\ find'[c].pc = "refresh" /\ find'[c].out = "none"
    BY <1>1, <2>1, MoveSteps, Zenon
  <2> QED
    BY <1>1, <2>1, <2>2, LeavesKeepsInv, Zenon DEF Justified
<1> QED
  BY <1>2, <1>3, Zenon

\* The refresh of a stale set, up to the fetch.
LEMMA RefreshKeepsInv ==
    ASSUME KeysInv, NEW c \in Callers, refresh(c), now' = now
    PROVE  KeysInv'
<1>1. FindTypes /\ find[c].pc = "refresh" /\ ~Locked
  BY Zenon DEF KeysInv, refresh
<1>2. CASE IsFresh
  BY <1>1, <1>2, CacheKeepsInv, Zenon DEF refresh, StoreKept
<1>3. CASE ~IsFresh
  <2>1. find' = [find EXCEPT ![c].pc = "fetch"] /\ lockedAt' = now /\ StoreKept
        /\ UNCHANGED <<forcedAt, holding>>
    BY <1>3, Zenon DEF refresh, StoreKept
  <2>2. Steps(c) /\ find'[c].pc = "fetch" /\ find'[c].out = find[c].out
    BY <1>1, <2>1, MoveSteps, Zenon
  <2>3. forcedAt' \in Int
    BY <1>1, <2>1, Zenon DEF FindTypes
  <2> QED
    BY <1>1, <2>1, <2>2, <2>3, LocksKeepsInv, Zenon
<1> QED
  BY <1>2, <1>3, Zenon

\* A caller that missed shares a refresh made since, forces one, or waits.
LEMMA ForceRefreshKeepsInv ==
    ASSUME KeysInv, NEW c \in Callers, forceRefresh(c), now' = now
    PROVE  KeysInv'
<1>1. FindTypes /\ find[c].pc = "force" /\ ~Locked /\ Waiting(c) /\ ~Fetching(c) /\ find[c].out = "none"
  BY Zenon DEF KeysInv, forceRefresh, Waiting, Fetching, Asked
<1>2. StoreKept
  BY Zenon DEF forceRefresh, StoreKept
<1>3. CASE c \notin holding \/ find[c].kid \in keys
  <2>1. /\ find' = Finish(c, Key(c, keys)) /\ holding' = holding \ {c}
        /\ UNCHANGED <<forcedAt, lockedAt>>
    BY <1>3, Zenon DEF forceRefresh
  <2>2. Key(c, keys) \in {"none", "found", "unknown", "error"}
    BY Zenon DEF Key
  <2>3. Steps(c) /\ find'[c].pc = "done" /\ find'[c].out = Key(c, keys)
    BY <1>1, <2>1, <2>2, FinishSteps, Zenon
  <2>4. c \notin holding
    BY <1>3, Zenon DEF KeysInv, HoldersMiss
  <2>5. /\ find[c].kid \in keys \/ find[c].missed = TRUE
        /\ NotRetiredBefore(keys, find[c].since)
    BY <1>1, <2>4, Zenon DEF KeysInv, SharedTells
  <2>6. ASSUME find[c].kid \in keys
        PROVE  \/ find[c].kid \in published
               \/ find[c].since - retiredAt[find[c].kid] < KeyTTL + FetchTimeout
    <3>1. find[c].since \in Int /\ retiredAt[find[c].kid] \in Int
      BY <1>1, <2>6, Zenon DEF FindTypes, Lookups
    <3> QED
      BY <2>5, <2>6, <3>1, FetcherAssumption DEF NotRetiredBefore
  <2>7. Justified(c)
    BY <2>3, <2>5, <2>6, Zenon DEF Justified, Key
  <2> QED
    BY <1>1, <1>2, <2>1, <2>3, <2>7, LeavesKeepsInv, Zenon
<1>4. CASE ~(c \notin holding \/ find[c].kid \in keys) /\ MayForce
  <2>1. /\ find' = [find EXCEPT ![c].pc = "fetch"] /\ lockedAt' = now /\ forcedAt' = now
        /\ UNCHANGED holding
    BY <1>4, Zenon DEF forceRefresh
  <2>2. Steps(c) /\ find'[c].pc = "fetch" /\ find'[c].out = find[c].out
    BY <1>1, <2>1, MoveSteps, Zenon
  <2>3. forcedAt' \in Int
    BY <1>1, <2>1 DEF FindTypes
  <2> QED
    BY <1>1, <1>2, <2>1, <2>2, <2>3, LocksKeepsInv, Zenon
<1>5. CASE ~(c \notin holding \/ find[c].kid \in keys) /\ ~MayForce
  <2>1. /\ find' = [find EXCEPT ![c].pc = "wait", ![c].wakeAt = forcedAt + MinForceInterval]
        /\ UNCHANGED <<forcedAt, lockedAt, holding>>
    BY <1>5, Zenon DEF forceRefresh
  <2>2. Steps(c) /\ find'[c].pc = "wait" /\ find'[c].out = find[c].out
    <3> DEFINE wakeAt == forcedAt + MinForceInterval
               r == [find[c] EXCEPT !.pc = "wait", !.wakeAt = wakeAt]
    <3>1. find[c] \in Lookups /\ wakeAt \in Int
      BY <1>1, FetcherAssumption DEF FindTypes
    <3>2. find' = [find EXCEPT ![c] = r]
      BY <1>1, <2>1, Zenon DEF FindTypes
    <3> HIDE DEF wakeAt
    <3>3. r \in Lookups /\ r.pc = "wait" /\ r.out = find[c].out
          /\ r.kid = find[c].kid /\ r.since = find[c].since /\ r.missed = find[c].missed
      BY <3>1, Zenon DEF Lookups
    <3> HIDE DEF r
    <3> QED
      BY <1>1, <3>2, <3>3, Zenon DEF FindTypes, Steps
  <2> QED
    BY <1>1, <1>2, <2>1, <2>2, WaitsKeepsInv, Zenon
<1> QED
  BY <1>3, <1>4, <1>5, Zenon

\* The wait ends, with the caller's turn or its context.
LEMMA WaitKeepsInv ==
    ASSUME KeysInv, NEW c \in Callers, Wakes(c) \/ WaitCancelled(c), now' = now
    PROVE  KeysInv'
<1>1. FindTypes /\ find[c].pc = "wait" /\ Waiting(c) /\ ~Fetching(c) /\ find[c].out = "none"
  BY Zenon DEF KeysInv, Wakes, WaitCancelled, Waiting, Fetching, Asked
<1>2. StoreKept /\ UNCHANGED <<forcedAt, lockedAt>>
  BY Zenon DEF Wakes, WaitCancelled, StoreKept
<1>3. CASE Wakes(c)
  <2>1. /\ find' = [find EXCEPT ![c].pc = "force", ![c].wakeAt = ZeroTime]
        /\ UNCHANGED holding
    BY <1>3, Zenon DEF Wakes
  <2>2. Steps(c) /\ find'[c].pc = "force" /\ find'[c].out = find[c].out
    <3> DEFINE r == [find[c] EXCEPT !.pc = "force", !.wakeAt = ZeroTime]
    <3>1. find[c] \in Lookups /\ ZeroTime \in Int
      BY <1>1 DEF FindTypes, ZeroTime
    <3>2. find' = [find EXCEPT ![c] = r]
      BY <1>1, <2>1, Zenon DEF FindTypes
    <3>3. r \in Lookups /\ r.pc = "force" /\ r.out = find[c].out
          /\ r.kid = find[c].kid /\ r.since = find[c].since /\ r.missed = find[c].missed
      BY <3>1, Zenon DEF Lookups
    <3> HIDE DEF r
    <3> QED
      BY <1>1, <3>2, <3>3, Zenon DEF FindTypes, Steps
  <2> QED
    BY <1>1, <1>2, <2>1, <2>2, WaitsKeepsInv, Zenon
<1>4. CASE WaitCancelled(c)
  <2>1. find' = Finish(c, "error") /\ holding' = holding \ {c}
    BY <1>4, Zenon DEF WaitCancelled
  <2>2. Steps(c) /\ find'[c].pc = "done" /\ find'[c].out = "error"
    BY <1>1, <2>1, FinishSteps, Zenon
  <2> QED
    BY <1>1, <1>2, <2>1, <2>2, LeavesKeepsInv, Zenon DEF Justified
<1> QED
  BY <1>3, <1>4, Zenon

\* A fetch is answered with the published set, or fails.
LEMMA FetchKeepsInv ==
    ASSUME KeysInv, NEW c \in Callers, ProviderAnswers(c) \/ FetchFails(c), now' = now
    PROVE  KeysInv'
<1>1. FindTypes /\ Fetching(c) /\ find[c].pc # "idle"
  BY Zenon DEF KeysInv, ProviderAnswers, FetchFails, Fetching
<1>2. StoreKept /\ forcedAt' = forcedAt
  BY Zenon DEF ProviderAnswers, FetchFails, StoreKept
<1>3. CASE ProviderAnswers(c)
  <2>1. /\ find[c].pc = "fetch" /\ UNCHANGED <<lockedAt, holding>>
        /\ find' = [find EXCEPT ![c].pc = "served", ![c].answer = published]
    BY <1>3, Zenon DEF ProviderAnswers
  <2>2. Steps(c) /\ find'[c].pc = "served" /\ find'[c].out = find[c].out /\ find'[c].answer = published
    <3> DEFINE r == [find[c] EXCEPT !.pc = "served", !.answer = published]
    <3>1. find[c] \in Lookups /\ published \in SUBSET Kids
      BY <1>1, Zenon DEF FindTypes
    <3>2. find' = [find EXCEPT ![c] = r]
      BY <1>1, <2>1, Zenon DEF FindTypes
    <3>3. r \in Lookups /\ r.pc = "served" /\ r.out = find[c].out /\ r.answer = published
          /\ r.kid = find[c].kid /\ r.since = find[c].since /\ r.missed = find[c].missed
      BY <3>1, Zenon DEF Lookups
    <3> HIDE DEF r
    <3> QED
      BY <1>1, <3>2, <3>3, Zenon DEF FindTypes, Steps
  <2> QED
    BY <1>2, <2>1, <2>2, AnswerKeepsInv, Zenon
<1>4. CASE FetchFails(c)
  <2>1. find' = Finish(c, "error") /\ holding' = holding \ {c} /\ lockedAt' = ZeroTime
    BY <1>4, Zenon DEF FetchFails
  <2>2. Steps(c) /\ find'[c].pc = "done" /\ find'[c].out = "error"
    BY <1>1, <2>1, FinishSteps, Zenon
  <2> QED
    BY <1>1, <1>2, <2>1, <2>2, LeavesKeepsInv, Zenon DEF Justified
<1> QED
  BY <1>3, <1>4, Zenon

\* A fetched set is installed: it tells the caller that fetched it and, from now
\* on, everybody who waited.
LEMMA FetchLockedKeepsInv ==
    ASSUME KeysInv, NEW c \in Callers, fetchLocked(c), now' = now
    PROVE  KeysInv'
<1> DEFINE set == find[c].answer
<1>1. /\ FindTypes /\ find[c].pc = "served" /\ set \in SUBSET Kids /\ find[c].out = "none"
      /\ find[c] \in Lookups
  BY Zenon DEF KeysInv, fetchLocked, FindTypes, Lookups, Asked
<1>2. /\ keys' = set /\ fetchedAt' = now /\ lockedAt' = ZeroTime
      /\ UNCHANGED <<now, published, retiredAt, forcedAt>>
  BY Zenon DEF fetchLocked
<1>3. /\ Locked /\ lockedAt \in Int /\ lockedAt <= now /\ now <= lockedAt + FetchTimeout
      /\ NotRetiredBefore(set, lockedAt)
      /\ find[c].kid \in set \/ find[c].missed = TRUE
  BY <1>1, Zenon DEF KeysInv, FindTypes, OneFetch, Fetching, Clocks, AnswerAge, AnswerTells
<1>4. \A d \in Callers \ {c} : ~Fetching(d)
  BY <1>1, Zenon DEF KeysInv, OneFetch, Fetching
<1>5. /\ Steps(c)
      /\ \/ /\ find'[c].pc = "done" /\ find'[c].out = Key(c, set)
            /\ holding' = {}
         \/ /\ find'[c].pc = "force" /\ find'[c].out = "none" /\ find[c].kid \notin set
            /\ holding' = {c}
  <2>1. CASE c \in holding
    <3>1. Key(c, set) \in {"none", "found", "unknown", "error"}
      BY Zenon DEF Key
    <3>2. find' = Finish(c, Key(c, set)) /\ holding' = {}
      BY <2>1, Zenon DEF fetchLocked
    <3> HIDE DEF set
    <3> QED
      BY <1>1, <3>1, <3>2, FinishSteps, Zenon
  <2>2. CASE c \notin holding
    <3>1. LookUp(c, set, {}) /\ {} \in SUBSET Callers
      BY <2>2, Zenon DEF fetchLocked
    <3> HIDE DEF set
    <3>2. /\ Steps(c)
          /\ \/ /\ find[c].kid \in set /\ find'[c].pc = "done" /\ find'[c].out = "found"
                /\ holding' = {}
             \/ /\ find[c].kid \notin set /\ find'[c].pc = "force" /\ find'[c].out = find[c].out
                /\ holding' = {} \cup {c}
      BY <1>1, <3>1, LookUpSteps, Zenon
    <3>3. {} \cup {c} = {c}
      BY Zenon
    <3> QED
      BY <1>1, <3>2, <3>3, Zenon DEF Key
  <2> QED
    BY <2>1, <2>2, Zenon
<1>6. \A d \in Callers : Waiting(d) => /\ find[d].kid \in set \/ find[d].missed = TRUE
                                       /\ find[d].since <= lockedAt
  BY <1>1, <1>3, Zenon DEF KeysInv, AnswerTells, FetchIsLate
<1>7. find[c].since \in Int /\ find[c].since <= lockedAt /\ find[c].kid \in Kids
  BY <1>1, <1>3, Zenon DEF KeysInv, FetchIsLate, Fetching, Lookups, Asked
<1>8. retiredAt \in [Kids -> Int] /\ now \in Nat /\ \A d \in Callers : find[d].since \in Int
  BY <1>1, Zenon DEF FindTypes, Lookups
<1> HIDE DEF set
<1> USE DEF Steps
<1>11. FindTypes'
  BY <1>1, <1>2, <1>5 DEF FindTypes, ZeroTime
<1>12. OneFetch'
  BY <1>2, <1>4, <1>5, Zenon DEF OneFetch, Fetching, Locked
<1>13. Clocks'
  BY <1>2 DEF KeysInv, FindTypes, Clocks, Locked, ZeroTime
<1>14. Asked'
  BY <1>1, <1>2, <1>5 DEF KeysInv, Asked
<1>15. KeysAge'
  BY <1>1, <1>2, <1>3, <1>8, FetcherAssumption DEF KeysAge, NotRetiredBefore
<1>16. AnswerAge'
  BY <1>2, <1>4, <1>5, Zenon DEF AnswerAge, Fetching
<1>17. FetchIsLate'
  BY <1>2, Zenon DEF FetchIsLate, Locked
<1>18. AnswerTells'
  BY <1>4, <1>5, Zenon DEF AnswerTells, Fetching
<1>19. HoldersMiss'
  BY <1>2, <1>5, Zenon DEF HoldersMiss, Waiting
<1>20. SharedTells'
  <2>1. ASSUME NEW d \in Callers, Waiting(d)', d \notin holding'
        PROVE  /\ find'[d].kid \in set \/ find'[d].missed = TRUE
               /\ \A k \in set : k \in published \/ retiredAt[k] >= find'[d].since
    <3>1. d # c /\ find'[d] = find[d] /\ Waiting(d)
      BY <1>5, <2>1, Zenon DEF Waiting
    <3> QED
      BY <1>1, <1>3, <1>6, <1>8, <3>1 DEF NotRetiredBefore
  <2> QED
    BY <1>2, <2>1, Zenon DEF SharedTells, NotRetiredBefore
<1>21. UnknownIsTrue'
  BY <1>3, <1>5, Zenon DEF KeysInv, UnknownIsTrue, Key
<1>22. RetiredKeyEnds'
  <2>1. \/ find[c].kid \notin set
        \/ find[c].kid \in published
        \/ find[c].since - retiredAt[find[c].kid] < KeyTTL + FetchTimeout
    BY <1>3, <1>7, <1>8, FetcherAssumption DEF NotRetiredBefore
  <2> QED
    BY <1>2, <1>5, <2>1, Zenon DEF KeysInv, RetiredKeyEnds, Key
<1> QED
  BY <1>11, <1>12, <1>13, <1>14, <1>15, <1>16, <1>17, <1>18, <1>19, <1>20, <1>21, <1>22, Zenon
     DEF KeysInv

LEMMA FindKeyStepKeepsInv ==
    ASSUME KeysInv, NEW c \in Callers, FindKeyStep(c), now' = now
    PROVE  KeysInv'
  BY GetKeysKeepsInv, RefreshKeepsInv, ForceRefreshKeepsInv, WaitKeepsInv, FetchKeepsInv,
     FetchLockedKeepsInv, Zenon DEF FindKeyStep

\* Everything of the fetcher but the lookups.
CacheKept == UNCHANGED <<published, retiredAt, keys, fetchedAt, forcedAt, lockedAt, holding>>

\* A lookup begins, or its caller takes the result.
LEMMA CallKeepsInv ==
    ASSUME KeysInv, NEW c \in Callers, CacheKept, now' = now,
           \/ find[c].pc = "idle" /\ \E kid \in Kids : CallFindKey(c, kid)
           \/ find[c].pc = "done" /\ find' = [find EXCEPT ![c] = NotFinding]
    PROVE  KeysInv'
<1> USE DEF CacheKept
<1>1. FindTypes /\ ~Fetching(c) /\ ~Waiting(c) /\ c \notin holding
  BY Zenon DEF KeysInv, HoldersMiss, Fetching, Waiting
<1>2. \E r \in Lookups :
        /\ find' = [find EXCEPT ![c] = r]
        /\ r.pc \in {"idle", "getKeys"} /\ r.out = "none" /\ r.answer = {}
        /\ r.pc # "idle" => /\ r.kid \in Kids /\ r.since = now
                            /\ r.kid \in published \/ r.missed = TRUE
  <2>1. CASE find' = [find EXCEPT ![c] = NotFinding]
    <3>1. NotFinding \in Lookups
      BY DEF NotFinding, Lookups, ZeroTime
    <3> QED
      BY <2>1, <3>1, Zenon DEF NotFinding
  <2>2. ASSUME NEW kid \in Kids, CallFindKey(c, kid)
        PROVE  \E r \in Lookups :
                 /\ find' = [find EXCEPT ![c] = r]
                 /\ r.pc \in {"idle", "getKeys"} /\ r.out = "none" /\ r.answer = {}
                 /\ r.pc # "idle" => /\ r.kid \in Kids /\ r.since = now
                                     /\ r.kid \in published \/ r.missed = TRUE
    <3> DEFINE r == [pc |-> "getKeys", kid |-> kid, since |-> now, wakeAt |-> ZeroTime,
                     answer |-> {}, missed |-> kid \notin published, out |-> "none"]
    <3>1. r \in Lookups
      BY <1>1 DEF Lookups, FindTypes, ZeroTime
    <3>2. find' = [find EXCEPT ![c] = r]
      BY <2>2 DEF CallFindKey, NotFinding
    <3> QED
      BY <3>1, <3>2, Zenon
  <2> QED
    BY <2>1, <2>2, Zenon
<1>3. /\ find' \in [Callers -> Lookups]
      /\ \A d \in Callers \ {c} : find'[d] = find[d]
      /\ find'[c].pc \in {"idle", "getKeys"} /\ find'[c].out = "none"
      /\ find'[c].pc # "idle" => /\ find'[c].kid \in Kids /\ find'[c].since = now
                                 /\ find'[c].kid \in published \/ find'[c].missed = TRUE
  BY <1>1, <1>2, Zenon DEF FindTypes
<1>4. FindTypes'
  BY <1>1, <1>3, Zenon DEF FindTypes
<1>5. OneFetch'
  BY <1>1, <1>3 DEF KeysInv, OneFetch, Fetching, Locked
<1>6. Clocks' /\ KeysAge'
  BY Zenon DEF KeysInv, Clocks, Locked, KeysAge, NotRetiredBefore
<1>7. Asked'
  BY <1>1, <1>3 DEF KeysInv, Asked, FindTypes
<1>8. AnswerAge' /\ FetchIsLate'
  BY <1>3, Zenon DEF KeysInv, AnswerAge, NotRetiredBefore, FetchIsLate, Waiting, Fetching, Locked
<1>9. AnswerTells'
  BY <1>3, Zenon DEF KeysInv, AnswerTells, Waiting
<1>10. HoldersMiss' /\ SharedTells'
  BY <1>1, <1>3 DEF KeysInv, FindTypes, HoldersMiss, SharedTells, NotRetiredBefore, Waiting, Fetching
<1>11. UnknownIsTrue' /\ RetiredKeyEnds'
  BY <1>3, Zenon DEF KeysInv, UnknownIsTrue, RetiredKeyEnds
<1> QED
  BY <1>4, <1>5, <1>6, <1>7, <1>8, <1>9, <1>10, <1>11, Zenon DEF KeysInv

\* The provider rotates its keys: what it withdraws was published until now.
LEMMA RotateKeepsInv ==
    ASSUME KeysInv, NEW set \in SUBSET Kids, RotateKeys(set), now' = now
    PROVE  KeysInv'
<1>1. FindTypes /\ UNCHANGED <<keys, fetchedAt, forcedAt, lockedAt, holding>> /\ published' = set
  BY Zenon DEF KeysInv, RotateKeys
<1>2. /\ retiredAt' \in [Kids -> Int]
      /\ \A k \in Kids : retiredAt'[k] = IF k \in published \ set THEN now ELSE retiredAt[k]
  BY <1>1 DEF RotateKeys, FindTypes
<1>3. ASSUME NEW c \in Callers
      PROVE  /\ find'[c] \in Lookups
             /\ find'[c].pc = find[c].pc /\ find'[c].kid = find[c].kid /\ find'[c].since = find[c].since
             /\ find'[c].answer = find[c].answer /\ find'[c].out = find[c].out
             /\ find[c].missed = TRUE => find'[c].missed = TRUE
             /\ find[c].pc # "idle" /\ find[c].kid \notin set => find'[c].missed = TRUE
  <2> DEFINE m == find[c].missed \/ (find[c].pc # "idle" /\ find[c].kid \notin set)
  <2>1. find'[c] = [find[c] EXCEPT !.missed = m] /\ find[c] \in Lookups /\ m \in BOOLEAN
    BY <1>1, Zenon DEF RotateKeys, FindTypes
  <2>2. (find[c].missed = TRUE => m = TRUE) /\ (find[c].pc # "idle" /\ find[c].kid \notin set => m = TRUE)
    BY Zenon
  <2> HIDE DEF m
  <2>3. find'[c].missed = m
    BY <2>1, Zenon DEF Lookups
  <2> QED
    BY <2>1, <2>2, <2>3, Zenon DEF Lookups
<1>4. find' \in [Callers -> Lookups]
  <2> DEFINE after(c) == [find[c] EXCEPT !.missed = @ \/ (find[c].pc # "idle" /\ find[c].kid \notin set)]
  <2>1. find' = [c \in Callers |-> after(c)]
    BY Zenon DEF RotateKeys
  <2> HIDE DEF after
  <2>2. \A c \in Callers : after(c) \in Lookups
    BY <1>3, <2>1, Zenon
  <2> QED
    BY <2>1, <2>2, Zenon
<1>5. ASSUME NEW S \in SUBSET Kids, NEW t \in Int, t <= now, NotRetiredBefore(S, t)
      PROVE  NotRetiredBefore(S, t)'
  BY <1>1, <1>2, <1>5, Zenon DEF FindTypes, NotRetiredBefore
<1>6. \A c \in Callers : find[c].answer \in SUBSET Kids /\ find[c].since \in Int
  BY <1>1, Zenon DEF FindTypes, Lookups
<1>7. FindTypes'
  BY <1>1, <1>2, <1>4, Zenon DEF FindTypes
<1>8. OneFetch'
  BY <1>1, <1>3, Zenon DEF KeysInv, OneFetch, Fetching, Locked
<1>9. Clocks'
  BY <1>1, <1>2 DEF KeysInv, Clocks, Locked, FindTypes
<1>10. Asked'
  BY <1>1, <1>3, Zenon DEF KeysInv, Asked
<1>11. KeysAge'
  <2>1. fetchedAt - FetchTimeout \in Int /\ fetchedAt - FetchTimeout <= now /\ keys \in SUBSET Kids
    BY <1>1, FetcherAssumption DEF KeysInv, Clocks, FindTypes
  <2> QED
    BY <1>1, <1>5, <2>1, Zenon DEF KeysInv, KeysAge, NotRetiredBefore
<1>12. AnswerAge'
  BY <1>1, <1>3, <1>5, <1>6 DEF KeysInv, AnswerAge, NotRetiredBefore, Clocks, FindTypes
<1>13. FetchIsLate' /\ AnswerTells'
  <2>1. \A c \in Callers : Waiting(c)' = Waiting(c) /\ Fetching(c)' = Fetching(c)
    BY <1>3, Zenon DEF Waiting, Fetching
  <2>2. Locked' = Locked
    BY <1>1, Zenon DEF Locked
  <2>3. FetchIsLate'
    BY <1>1, <1>3, <2>1, <2>2, Zenon DEF KeysInv, FetchIsLate
  <2>4. AnswerTells'
    BY <1>3, <2>1, Zenon DEF KeysInv, AnswerTells
  <2> QED
    BY <2>3, <2>4, Zenon
<1>14. HoldersMiss'
  BY <1>1, <1>3, Zenon DEF KeysInv, HoldersMiss, Waiting, Fetching, FindTypes
<1>15. SharedTells'
  BY <1>1, <1>3, <1>5, <1>6, Zenon DEF KeysInv, SharedTells, NotRetiredBefore, Waiting, Asked, FindTypes
<1>16. UnknownIsTrue'
  BY <1>3, Zenon DEF KeysInv, UnknownIsTrue
<1>17. RetiredKeyEnds'
  <2>1. ASSUME NEW c \in Callers, find[c].out = "found"
        PROVE  \/ find[c].kid \in set
               \/ find[c].since - retiredAt'[find[c].kid] < KeyTTL + FetchTimeout
    <3>1. find[c].kid \in Kids /\ find[c].since <= now /\ find[c].since \in Int /\ now \in Nat
      BY <1>1, <1>6, <2>1, Zenon DEF KeysInv, Asked, FindTypes
    <3>2. CASE find[c].kid \in published \ set
      BY <1>2, <3>1, <3>2, FetcherAssumption
    <3>3. CASE find[c].kid \notin published
      <4>1. retiredAt'[find[c].kid] = retiredAt[find[c].kid]
        BY <1>2, <3>1, <3>3, Zenon
      <4> QED
        BY <2>1, <3>3, <4>1, Zenon DEF KeysInv, RetiredKeyEnds
    <3> QED
      BY <3>2, <3>3, Zenon
  <2> QED
    BY <1>1, <1>3, <2>1, Zenon DEF RetiredKeyEnds
<1> QED
  BY <1>7, <1>8, <1>9, <1>10, <1>11, <1>12, <1>13, <1>14, <1>15, <1>16, <1>17, Zenon DEF KeysInv

\* Time passes, as long as a fetch has time left.
LEMMA TickKeepsKeys ==
    ASSUME KeysInv, now' = now + 1, FetchInTime, UNCHANGED jwksVars
    PROVE  KeysInv'
<1> USE DEF jwksVars
<1>1. FindTypes'
  BY DEF KeysInv, FindTypes
<1>2. OneFetch' /\ KeysAge' /\ AnswerAge'
  BY Zenon DEF KeysInv, OneFetch, Fetching, Locked, KeysAge, AnswerAge, NotRetiredBefore
<1>3. Clocks'
  BY FetcherAssumption DEF KeysInv, Clocks, Locked, FindTypes, FetchInTime
<1>4. Asked'
  BY DEF KeysInv, Asked, FindTypes, Lookups
<1>5. FetchIsLate' /\ AnswerTells' /\ HoldersMiss' /\ SharedTells'
  BY Zenon DEF KeysInv, FetchIsLate, AnswerTells, HoldersMiss, SharedTells, NotRetiredBefore, Waiting,
         Fetching, Locked
<1>6. UnknownIsTrue' /\ RetiredKeyEnds'
  BY Zenon DEF KeysInv, UnknownIsTrue, RetiredKeyEnds
<1> QED
  BY <1>1, <1>2, <1>3, <1>4, <1>5, <1>6, Zenon DEF KeysInv

LEMMA KeysUnchanged ==
    ASSUME KeysInv, UNCHANGED <<jwksVars, now>>
    PROVE  KeysInv'
<1> USE DEF jwksVars
<1>1. FindTypes' /\ OneFetch' /\ KeysAge' /\ AnswerAge'
  BY Zenon DEF KeysInv, FindTypes, OneFetch, Fetching, Locked, KeysAge, AnswerAge, NotRetiredBefore
<1>2. Clocks' /\ Asked'
  BY Zenon DEF KeysInv, Clocks, Asked, Locked
<1>3. FetchIsLate' /\ AnswerTells' /\ HoldersMiss' /\ SharedTells'
  BY Zenon DEF KeysInv, FetchIsLate, AnswerTells, HoldersMiss, SharedTells, NotRetiredBefore, Waiting,
         Fetching, Locked
<1>4. UnknownIsTrue' /\ RetiredKeyEnds'
  BY Zenon DEF KeysInv, UnknownIsTrue, RetiredKeyEnds
<1> QED
  BY <1>1, <1>2, <1>3, <1>4, Zenon DEF KeysInv

\* A new fetcher, or one that has just fetched.
LEMMA KeysInitInv ==
    ASSUME now = 0, NEW set \in SUBSET Kids, NEW warm \in BOOLEAN, JWKSInit(set, warm)
    PROVE  KeysInv
<1>1. /\ published = set /\ keys \in SUBSET set /\ retiredAt = [k \in Kids |-> ZeroTime]
      /\ fetchedAt \in {0, ZeroTime} /\ forcedAt = ZeroTime /\ lockedAt = ZeroTime /\ holding = {}
      /\ find = [c \in Callers |-> NotFinding]
  BY Zenon DEF JWKSInit
<1>2. NotFinding \in Lookups /\ ZeroTime = -1
  BY DEF NotFinding, Lookups, ZeroTime
<1>3. \A c \in Callers : find[c].pc = "idle" /\ find[c].out = "none"
  BY <1>1, Zenon DEF NotFinding
<1>4. FindTypes
  BY <1>1, <1>2 DEF FindTypes
<1>5. OneFetch /\ AnswerAge /\ FetchIsLate /\ AnswerTells /\ HoldersMiss /\ SharedTells
  BY <1>1, <1>3, Zenon DEF OneFetch, Fetching, Locked, AnswerAge, FetchIsLate, AnswerTells, HoldersMiss,
                    SharedTells, Waiting
<1>6. Clocks
  BY <1>1, <1>2 DEF Clocks, Locked
<1>7. KeysAge
  BY <1>1, Zenon DEF KeysAge, NotRetiredBefore
<1>8. Asked /\ UnknownIsTrue /\ RetiredKeyEnds
  BY <1>3, Zenon DEF Asked, UnknownIsTrue, RetiredKeyEnds
<1> QED
  BY <1>4, <1>5, <1>6, <1>7, <1>8, Zenon DEF KeysInv

(***************************************************************************)
(* The requests                                                            *)
(***************************************************************************)

Stages ==
    {"idle", "findKey", "revocation", "drift", "proof", "guard", "interceptor", "served", "rejected"}

\* A caller that is busy has one of the deployment's requests, and looks up a key
\* exactly while its request waits for one.
RequestsOK ==
    /\ deployment \in Deployments
    /\ req \in [Callers -> [pc : Stages, q : {NoRequest} \cup deployment.requests,
                            proven : BOOLEAN, dead : BOOLEAN]]
    /\ \A c \in Callers : /\ req[c].pc # "idle" => req[c].q \in deployment.requests
                          /\ req[c].pc = "findKey" <=> find[c].pc # "idle"

\* The request of caller c moves on, and keeps what it is.
Moves(c) ==
    /\ deployment' = deployment
    /\ \A d \in Callers \ {c} : req'[d] = req[d]
    /\ req'[c].q = req[c].q /\ req'[c].dead = req[c].dead

LEMMA GotoMoves ==
    ASSUME RequestsOK, NEW c \in Callers, NEW pc \in Stages \ {"idle", "findKey"}, Goto(c, pc),
           req[c].pc # "idle", deployment' = deployment,
           \A d \in Callers \ {c} : find'[d].pc = find[d].pc,
           find'[c].pc = "idle"
    PROVE  /\ RequestsOK' /\ Moves(c)
           /\ req'[c].pc = pc /\ req'[c].proven = req[c].proven
<1> DEFINE Reqs == [pc : Stages, q : {NoRequest} \cup deployment.requests,
                    proven : BOOLEAN, dead : BOOLEAN]
           r == [req[c] EXCEPT !.pc = pc]
<1>1. req[c] \in Reqs /\ req \in [Callers -> Reqs]
  BY Zenon DEF RequestsOK
<1>2. /\ r \in Reqs /\ r.pc = pc
      /\ r.q = req[c].q /\ r.proven = req[c].proven /\ r.dead = req[c].dead
  BY <1>1, Zenon
<1>3. req' = [req EXCEPT ![c] = r]
  BY <1>1, Zenon DEF Goto
<1> HIDE DEF r
<1>4. req' \in [Callers -> Reqs] /\ req'[c] = r /\ \A d \in Callers \ {c} : req'[d] = req[d]
  BY <1>1, <1>2, <1>3, Zenon
<1>5. Moves(c) /\ req'[c].pc = pc /\ req'[c].proven = req[c].proven
  BY <1>2, <1>4, Zenon DEF Moves
<1>6. \A d \in Callers : /\ req'[d].pc # "idle" => req'[d].q \in deployment.requests
                         /\ req'[d].pc = "findKey" <=> find'[d].pc # "idle"
  BY <1>5 DEF RequestsOK, Moves
<1> QED
  BY <1>4, <1>5, <1>6, Zenon DEF RequestsOK

\* Where the revocation of the request's session has been looked up.
Checked(pc) == pc \in {"drift", "proof", "guard", "interceptor", "served"}

ByHTTP(q) == q.entry \in {"http", "http then connect"}

\* BoundTokenProven, from the moment a request has passed the middleware.
ProvenOK ==
    \A c \in Callers :
       req[c].pc \in {"interceptor", "served"} /\ IsBound(req[c].q) =>
          req[c].proven = TRUE /\ req[c].q.proof.key = req[c].q.token.jkt

\* RevokedStaysOut, from the moment the list was looked at.
NotDead ==
    \A c \in Callers :
       Checked(req[c].pc) /\ deployment.crl /\ ByHTTP(req[c].q) => req[c].dead = FALSE

\* The session of a dead request was on the list when it arrived, and still is.
DeadIsKnown ==
    \A c \in Callers :
       req[c].pc # "idle" /\ req[c].dead = TRUE => req[c].q.token.session \in poll.known

RequestInv == RequestsOK /\ ProvenOK /\ NotDead /\ DeadIsKnown

LEMMA MovesKeepsInv ==
    ASSUME RequestInv, NEW c \in Callers, RequestsOK', Moves(c), poll' = poll, req[c].pc # "idle",
           req'[c].pc \in {"interceptor", "served"} /\ IsBound(req[c].q) =>
              req'[c].proven = TRUE /\ req[c].q.proof.key = req[c].q.token.jkt,
           Checked(req'[c].pc) /\ deployment.crl /\ ByHTTP(req[c].q) => req[c].dead = FALSE
    PROVE  RequestInv'
<1>1. ProvenOK'
  BY DEF RequestInv, ProvenOK, Moves, IsBound
<1>2. NotDead'
  BY Zenon DEF RequestInv, NotDead, Moves, Checked, ByHTTP
<1>3. DeadIsKnown'
  BY Zenon DEF RequestInv, DeadIsKnown, Moves
<1> QED
  BY <1>1, <1>2, <1>3, Zenon DEF RequestInv

\* A request arrives, and is turned away or looks for its key.
LEMMA ArriveKeepsInv ==
    ASSUME RequestInv, FindTypes, NEW c \in Callers, Arrive(c)
    PROVE  RequestInv'
<1> DEFINE Reqs == [pc : Stages, q : {NoRequest} \cup deployment.requests,
                    proven : BOOLEAN, dead : BOOLEAN]
<1>1. PICK q \in deployment.requests :
        /\ req' = [req EXCEPT ![c] = [pc |-> IF TurnedAway(q) THEN "rejected" ELSE "findKey", q |-> q,
                                      proven |-> FALSE, dead |-> q.token.session \in poll.known]]
        /\ IF TurnedAway(q)
           THEN UNCHANGED jwksVars
           ELSE /\ CallFindKey(c, q.token.kid)
                /\ UNCHANGED <<published, retiredAt, keys, fetchedAt, forcedAt, lockedAt, holding>>
  BY Zenon DEF Arrive
<1>2. /\ req \in [Callers -> Reqs] /\ deployment' = deployment /\ poll' = poll
      /\ find[c].pc = "idle"
  BY Zenon DEF RequestInv, RequestsOK, Arrive, crlVars
<1>3. \A d \in Callers \ {c} : find'[d] = find[d]
  BY <1>1, Zenon DEF FindTypes, CallFindKey, jwksVars
<1> DEFINE dead == q.token.session \in poll.known
           pc == IF TurnedAway(q) THEN "rejected" ELSE "findKey"
<1>4. pc \in {"rejected", "findKey"} /\ (pc = "findKey" <=> find'[c].pc # "idle")
  <2>1. CASE TurnedAway(q)
    BY <1>1, <1>2, <2>1, Zenon DEF jwksVars
  <2>2. CASE ~TurnedAway(q)
    <3>1. find'[c].pc = "getKeys"
      BY <1>1, <2>2 DEF FindTypes, CallFindKey, NotFinding
    <3> QED
      BY <2>2, <3>1, Zenon
  <2> QED
    BY <2>1, <2>2, Zenon
<1>5. /\ req' = [req EXCEPT ![c] = [pc |-> pc, q |-> q, proven |-> FALSE, dead |-> dead]]
      /\ dead \in BOOLEAN
      /\ dead = TRUE => q.token.session \in poll.known
  <2>1. req' = [req EXCEPT ![c] = [pc |-> pc, q |-> q, proven |-> FALSE, dead |-> dead]]
    BY <1>1, Zenon
  <2>2. dead \in BOOLEAN
    OBVIOUS
  <2>3. dead = TRUE => q.token.session \in poll.known
    BY Zenon
  <2> QED
    BY <2>1, <2>2, <2>3, Zenon
<1> HIDE DEF dead, pc
<1>6. /\ req' \in [Callers -> Reqs]
      /\ req'[c].pc = pc /\ req'[c].q = q /\ req'[c].dead = dead
      /\ \A d \in Callers \ {c} : req'[d] = req[d]
  BY <1>2, <1>4, <1>5, Zenon DEF Stages
<1>7. \A d \in Callers : /\ req'[d].pc # "idle" => req'[d].q \in deployment.requests
                         /\ req'[d].pc = "findKey" <=> find'[d].pc # "idle"
  BY <1>3, <1>4, <1>6, Zenon DEF RequestInv, RequestsOK
<1>8. RequestsOK'
  BY <1>2, <1>6, <1>7, Zenon DEF RequestInv, RequestsOK
<1>9. ProvenOK' /\ NotDead' /\ DeadIsKnown'
  BY <1>2, <1>4, <1>5, <1>6 DEF RequestInv, ProvenOK, NotDead, DeadIsKnown, Checked, ByHTTP, IsBound
<1> QED
  BY <1>8, <1>9, Zenon DEF RequestInv

\* The token is validated with the key that was found.
LEMMA ValidateKeepsInv ==
    ASSUME RequestInv, FindTypes, NEW c \in Callers, ValidateToken(c)
    PROVE  RequestInv'
<1> DEFINE q == req[c].q
           pc == IF find[c].out # "found" \/ ~ClaimsValid(q.token) THEN "rejected"
                 ELSE IF q.entry = "connect" THEN ConnectInterceptor(q)
                 ELSE IF q.entry = "grpc" THEN GRPCUnaryInterceptor(q)
                 ELSE "revocation"
<1>1. pc \in Stages \ {"idle", "findKey"}
      /\ ~(pc = "interceptor") /\ (pc = "served" => ~IsBound(q) /\ ~ByHTTP(q))
      /\ (Checked(pc) => pc = "served")
  BY Zenon DEF Stages, ConnectInterceptor, GRPCUnaryInterceptor, ByHTTP, Checked
<1>2. Goto(c, pc) /\ deployment' = deployment /\ poll' = poll /\ req[c].pc # "idle"
      /\ find' = [find EXCEPT ![c] = NotFinding]
  BY Zenon DEF ValidateToken, crlVars
<1>3. find'[c].pc = "idle" /\ \A d \in Callers \ {c} : find'[d].pc = find[d].pc
  BY <1>2, Zenon DEF FindTypes, NotFinding
<1> HIDE DEF pc
<1>4. /\ RequestsOK' /\ Moves(c)
      /\ req'[c].pc = pc /\ req'[c].proven = req[c].proven
  BY <1>1, <1>2, <1>3, GotoMoves, Zenon DEF RequestInv
<1> QED
  BY <1>1, <1>2, <1>4, MovesKeepsInv, Zenon

(***************************************************************************)
(* The revoked-session list                                                *)
(*                                                                         *)
(* Sessions are never un-revoked, so each poll asks for, and each swap     *)
(* installs, all that an earlier one knew.                                 *)
(***************************************************************************)

Polls ==
    [pc : {"calling", "answered", "swapped", "failed", "idle", "ended"},
     answer : SUBSET Sessions, asked : SUBSET Sessions, known : SUBSET Sessions,
     started : BOOLEAN, stopped : BOOLEAN, count : Nat]

ListInv ==
    /\ poll \in Polls
    /\ revokedSessions \subseteq Sessions /\ revoked \subseteq Sessions
    /\ poll.known \subseteq revoked
    /\ poll.known \subseteq poll.asked
    /\ poll.asked \subseteq revokedSessions
    /\ poll.pc = "answered" => poll.asked \subseteq poll.answer

\* Every step of the polling goroutine, and a revocation, keeps the list as
\* complete as it was.
LEMMA PollKeepsInv ==
    ASSUME ListInv, RefreshStep \/ BeginPoll \/ \E s \in Sessions : Revoke(s)
    PROVE  ListInv' /\ poll.known \subseteq poll'.known
<1> USE DEF ListInv, Polls
<1>1. CASE BeginPoll
  <2>1. /\ poll' = [poll EXCEPT !.pc = "calling", !.asked = revokedSessions, !.count = poll.count + 1]
        /\ UNCHANGED <<revokedSessions, revoked>>
    BY <1>1, Zenon DEF BeginPoll
  <2>2. poll.count + 1 \in Nat
    OBVIOUS
  <2> QED
    BY <2>1, <2>2, Zenon
<1>2. CASE ListRevokedSessions
  BY <1>2, Zenon DEF ListRevokedSessions
<1>3. CASE PollFails
  BY <1>3, Zenon DEF PollFails
<1>4. CASE refreshSwap
  BY <1>4, Zenon DEF refreshSwap
<1>5. CASE refreshAndRecord
  BY <1>5, Zenon DEF refreshAndRecord
<1>6. CASE Stop
  BY <1>6, Zenon DEF Stop
<1>7. CASE PollingEnds
  BY <1>7, Zenon DEF PollingEnds
<1>8. ASSUME NEW s \in Sessions, Revoke(s)
      PROVE  ListInv' /\ poll.known \subseteq poll'.known
  BY <1>8, Zenon DEF Revoke
<1> QED
  BY <1>1, <1>2, <1>3, <1>4, <1>5, <1>6, <1>7, <1>8, Zenon DEF RefreshStep

LEMMA ListUnchanged ==
    ASSUME ListInv, UNCHANGED crlVars
    PROVE  ListInv'
  BY Zenon DEF ListInv, crlVars

LEMMA ListInitInv == CRLInit => ListInv
  BY DEF CRLInit, ListInv, Polls

(***************************************************************************)
(* The rest of a request's way                                             *)
(***************************************************************************)

LEMMA CheckRevocationKeepsInv ==
    ASSUME RequestInv, ListInv, NEW c \in Callers, CheckRevocation(c)
    PROVE  RequestInv'
<1> DEFINE q == req[c].q
           revokedHere == deployment.crl /\ HasSession(q) /\ IsRevoked(q.token.session)
           inspected == deployment.drift /\ HasSession(q) /\ HasOrg(q)
           pc == IF revokedHere THEN "rejected" ELSE IF inspected THEN "drift" ELSE "proof"
<1>1. /\ Goto(c, pc) /\ deployment' = deployment /\ poll' = poll /\ req[c].pc = "revocation"
      /\ UNCHANGED find
  BY Zenon DEF CheckRevocation, crlVars, jwksVars
<1>2. find[c].pc = "idle"
  BY <1>1, Zenon DEF RequestInv, RequestsOK
<1>3. pc \in {"rejected", "drift", "proof"}
  BY Zenon
<1>4. Checked(pc) /\ deployment.crl => req[c].dead = FALSE
  <2> SUFFICES ASSUME Checked(pc), deployment.crl, req[c].dead # FALSE PROVE FALSE
    BY Zenon
  <2>1. req[c].dead = TRUE
    BY Zenon DEF RequestInv, RequestsOK
  <2>2. q.token.session \in revoked /\ q.token.session \in Sessions
    BY <1>1, <2>1, Zenon DEF RequestInv, DeadIsKnown, ListInv, Polls
  <2>3. revokedHere
    BY <2>2, DeploymentAssumption, Zenon DEF HasSession, IsRevoked
  <2> QED
    BY <2>3, Zenon DEF Checked
<1> HIDE DEF pc
<1>5. /\ RequestsOK' /\ Moves(c)
      /\ req'[c].pc = pc /\ req'[c].proven = req[c].proven
  BY <1>1, <1>2, <1>3, GotoMoves, Zenon DEF RequestInv, Stages
<1> QED
  BY <1>1, <1>3, <1>4, <1>5, MovesKeepsInv, Zenon

\* The steps that only move on: after the drift inspection, and past the guard.
LEMMA AdvanceKeepsInv ==
    ASSUME RequestInv, NEW c \in Callers, Inspected(c) \/ GuardFails(c) \/ FastPath(c)
    PROVE  RequestInv'
<1>1. \E pc \in {"proof", "rejected", "served"} :
        /\ Goto(c, pc) /\ deployment' = deployment /\ poll' = poll /\ UNCHANGED find
        /\ req[c].pc \in {"drift", "guard", "interceptor"}
        /\ pc = "served" => req[c].pc = "interceptor"
  BY Zenon DEF Inspected, GuardFails, FastPath, crlVars, jwksVars, components
<1>2. PICK pc \in {"proof", "rejected", "served"} :
        /\ Goto(c, pc) /\ deployment' = deployment /\ poll' = poll /\ UNCHANGED find
        /\ req[c].pc \in {"drift", "guard", "interceptor"}
        /\ pc = "served" => req[c].pc = "interceptor"
  BY <1>1, Zenon
<1>3. find[c].pc = "idle"
  BY <1>2, Zenon DEF RequestInv, RequestsOK
<1>4. /\ RequestsOK' /\ Moves(c)
      /\ req'[c].pc = pc /\ req'[c].proven = req[c].proven
  BY <1>2, <1>3, GotoMoves, Zenon DEF RequestInv, Stages
<1>5. req'[c].pc \in {"interceptor", "served"} /\ IsBound(req[c].q) =>
        req'[c].proven = TRUE /\ req[c].q.proof.key = req[c].q.token.jkt
  BY <1>2, <1>4, Zenon DEF RequestInv, ProvenOK
<1>6. deployment.crl /\ ByHTTP(req[c].q) => req[c].dead = FALSE
  BY <1>2, Zenon DEF RequestInv, NotDead, Checked
<1> QED
  BY <1>2, <1>4, <1>5, <1>6, MovesKeepsInv, Zenon

LEMMA CheckProofKeepsInv ==
    ASSUME RequestInv, NEW c \in Callers, CheckProof(c)
    PROVE  RequestInv'
<1> DEFINE q == req[c].q
           pc == IF ~NeedsProof(q) THEN Passed(q)
                 ELSE IF ClaimsMatch(q.proof, q.target, q.token.id, FALSE) /\ InWindow(q.proof)
                 THEN "guard"
                 ELSE "rejected"
<1>1. /\ Goto(c, pc) /\ deployment' = deployment /\ poll' = poll /\ req[c].pc = "proof"
      /\ UNCHANGED find
  BY Zenon DEF CheckProof, crlVars, jwksVars, components
<1>2. find[c].pc = "idle"
  BY <1>1, Zenon DEF RequestInv, RequestsOK
<1>3. /\ pc \in {"interceptor", "served", "guard", "rejected"}
      /\ pc \in {"interceptor", "served"} => ~IsBound(q)
  BY Zenon DEF NeedsProof, Passed
<1> HIDE DEF pc
<1>4. /\ RequestsOK' /\ Moves(c)
      /\ req'[c].pc = pc /\ req'[c].proven = req[c].proven
  BY <1>1, <1>2, <1>3, GotoMoves, Zenon DEF RequestInv, Stages
<1>5. deployment.crl /\ ByHTTP(q) => req[c].dead = FALSE
  BY <1>1, Zenon DEF RequestInv, NotDead, Checked
<1> QED
  BY <1>1, <1>3, <1>4, <1>5, MovesKeepsInv, Zenon

\* The guard lets a proof pass, or not, and its key is compared.
LEMMA PassGuardKeepsInv ==
    ASSUME RequestInv, NEW c \in Callers, PassGuard(c)
    PROVE  RequestInv'
<1> DEFINE Reqs == [pc : Stages, q : {NoRequest} \cup deployment.requests,
                    proven : BOOLEAN, dead : BOOLEAN]
           q == req[c].q
           passes == ~IsReplay(q.proof) /\ JKTMatches(q.proof, q.token.jkt)
           pc == IF passes THEN Passed(q) ELSE "rejected"
           r == [req[c] EXCEPT !.pc = pc, !.proven = passes]
<1>1. /\ req[c].pc = "guard" /\ deployment' = deployment /\ poll' = poll /\ UNCHANGED find
      /\ req' = [req EXCEPT ![c].pc = pc, ![c].proven = passes]
  BY Zenon DEF PassGuard, crlVars, jwksVars
<1>2. req \in [Callers -> Reqs] /\ req[c] \in Reqs
  BY Zenon DEF RequestInv, RequestsOK
<1>3. passes \in BOOLEAN /\ pc \in {"interceptor", "served", "rejected"}
  BY Zenon DEF Passed
<1>4. /\ passes = TRUE => JKTMatches(q.proof, q.token.jkt)
      /\ pc \in {"interceptor", "served"} => passes = TRUE
  BY Zenon
<1> HIDE DEF passes, pc
<1>5. /\ r \in Reqs /\ r.pc = pc /\ r.proven = passes
      /\ r.q = q /\ r.dead = req[c].dead
  BY <1>2, <1>3, Zenon DEF Stages
<1>6. req' = [req EXCEPT ![c] = r]
  BY <1>1, <1>2, Zenon
<1> HIDE DEF r
<1>7. req' \in [Callers -> Reqs] /\ req'[c] = r /\ \A d \in Callers \ {c} : req'[d] = req[d]
  BY <1>2, <1>5, <1>6, Zenon
<1>8. Moves(c) /\ req'[c].pc = pc /\ req'[c].proven = passes
  BY <1>1, <1>5, <1>7, Zenon DEF Moves
<1>9. \A d \in Callers : /\ req'[d].pc # "idle" => req'[d].q \in deployment.requests
                         /\ req'[d].pc = "findKey" <=> find'[d].pc # "idle"
  BY <1>1, <1>3, <1>8, Zenon DEF RequestInv, RequestsOK, Moves
<1>10. RequestsOK'
  BY <1>1, <1>7, <1>9, Zenon DEF RequestInv, RequestsOK
<1>11. req'[c].pc \in {"interceptor", "served"} /\ IsBound(q) =>
         req'[c].proven = TRUE /\ q.proof.key = q.token.jkt
  BY <1>4, <1>8, Zenon DEF IsBound, JKTMatches
<1>12. deployment.crl /\ ByHTTP(q) => req[c].dead = FALSE
  BY <1>1, Zenon DEF RequestInv, NotDead, Checked
<1> QED
  BY <1>1, <1>8, <1>10, <1>11, <1>12, MovesKeepsInv, Zenon

LEMMA RespondKeepsInv ==
    ASSUME RequestInv, NEW c \in Callers, Respond(c)
    PROVE  RequestInv'
<1> DEFINE Reqs == [pc : Stages, q : {NoRequest} \cup deployment.requests,
                    proven : BOOLEAN, dead : BOOLEAN]
<1>1. /\ req[c].pc \in {"served", "rejected"} /\ req' = [req EXCEPT ![c] = Idle]
      /\ deployment' = deployment /\ poll' = poll /\ UNCHANGED find
  BY Zenon DEF Respond, components, crlVars, jwksVars
<1>2. Idle \in Reqs /\ Idle.pc = "idle" /\ req \in [Callers -> Reqs]
  BY Zenon DEF Idle, Stages, RequestInv, RequestsOK
<1>3. req' \in [Callers -> Reqs] /\ req'[c].pc = "idle" /\ \A d \in Callers \ {c} : req'[d] = req[d]
  BY <1>1, <1>2, Zenon
<1>4. \A d \in Callers : /\ req'[d].pc # "idle" => req'[d].q \in deployment.requests
                         /\ req'[d].pc = "findKey" <=> find'[d].pc # "idle"
  BY <1>1, <1>3, Zenon DEF RequestInv, RequestsOK
<1>5. RequestsOK'
  BY <1>1, <1>3, <1>4, Zenon DEF RequestInv, RequestsOK
<1>6. ProvenOK' /\ NotDead' /\ DeadIsKnown'
  BY <1>1, <1>3, Zenon DEF RequestInv, ProvenOK, NotDead, DeadIsKnown, IsBound, Checked, ByHTTP
<1> QED
  BY <1>5, <1>6, Zenon DEF RequestInv

\* A lookup's own steps neither begin nor take it.
LEMMA FindKeyStepFrame ==
    ASSUME FindTypes, NEW c \in Callers, FindKeyStep(c)
    PROVE  /\ find[c].pc # "idle" /\ find'[c].pc # "idle"
           /\ \A d \in Callers \ {c} : find'[d] = find[d]
<1> DEFINE Framed == /\ find'[c].pc # "idle" /\ \A d \in Callers \ {c} : find'[d] = find[d]
<1> SUFFICES Framed
  BY Zenon DEF FindKeyStep, GetKeys, refresh, forceRefresh, Wakes, WaitCancelled, ProviderAnswers,
         FetchFails, fetchLocked
<1>1. ASSUME NEW set \in SUBSET Kids, NEW others \in SUBSET Callers, LookUp(c, set, others)
      PROVE  Framed
  BY <1>1, LookUpSteps, Zenon DEF Steps
<1>2. ASSUME NEW out \in {"none", "found", "unknown", "error"}, find' = Finish(c, out)
      PROVE  Framed
  BY <1>2, FinishSteps, Zenon DEF Steps
<1>3. ASSUME NEW pc \in {"getKeys", "refresh", "fetch", "served", "force", "wait"},
             find' = [find EXCEPT ![c].pc = pc]
      PROVE  Framed
  BY <1>3, MoveSteps, Zenon DEF Steps
<1> HIDE DEF Framed
<1>4. keys \in SUBSET Kids /\ holding \in SUBSET Callers /\ find[c].answer \in SUBSET Kids
  BY Zenon DEF FindTypes, Lookups
<1>5. \A set : Key(c, set) \in {"none", "found", "unknown", "error"}
  BY Zenon DEF Key
<1>6. CASE GetKeys(c) \/ refresh(c)
  BY <1>1, <1>3, <1>4, <1>6, Zenon DEF GetKeys, refresh
<1>7. CASE forceRefresh(c)
  <2>1. CASE find' = [find EXCEPT ![c].pc = "wait", ![c].wakeAt = forcedAt + MinForceInterval]
    BY <2>1 DEF FindTypes, Framed
  <2> QED
    BY <1>2, <1>3, <1>5, <1>7, <2>1, Zenon DEF forceRefresh
<1>8. CASE Wakes(c) \/ ProviderAnswers(c)
  <2>1. CASE find' = [find EXCEPT ![c].pc = "force", ![c].wakeAt = ZeroTime]
    BY <2>1 DEF FindTypes, Framed
  <2>2. CASE find' = [find EXCEPT ![c].pc = "served", ![c].answer = published]
    BY <2>2 DEF FindTypes, Framed
  <2> QED
    BY <1>8, <2>1, <2>2, Zenon DEF Wakes, ProviderAnswers
<1>9. CASE WaitCancelled(c) \/ FetchFails(c)
  BY <1>2, <1>9, Zenon DEF WaitCancelled, FetchFails
<1>10. CASE fetchLocked(c)
  <2>1. {} \in SUBSET Callers
    BY Zenon
  <2> QED
    BY <1>1, <1>2, <1>4, <1>5, <1>10, <2>1, Zenon DEF fetchLocked
<1> QED
  BY <1>6, <1>7, <1>8, <1>9, <1>10, Zenon DEF FindKeyStep

\* The steps that move no request.
LEMMA OthersKeepInv ==
    ASSUME RequestInv, UNCHANGED <<req, deployment>>,
           \A c \in Callers : find'[c].pc = "idle" <=> find[c].pc = "idle",
           poll.known \subseteq poll'.known
    PROVE  RequestInv'
<1>1. RequestsOK'
  BY Zenon DEF RequestInv, RequestsOK
<1>2. ProvenOK' /\ NotDead'
  BY Zenon DEF RequestInv, ProvenOK, NotDead, IsBound, Checked, ByHTTP
<1>3. DeadIsKnown'
  BY Zenon DEF RequestInv, DeadIsKnown
<1> QED
  BY <1>1, <1>2, <1>3, Zenon DEF RequestInv

(***************************************************************************)
(* The replay guard                                                        *)
(*                                                                         *)
(* What makes a second pass impossible is not the count but that the guard *)
(* still knows the id, for at least as long as the proof can be fresh.     *)
(***************************************************************************)

GuardInv ==
    /\ \A j \in DOMAIN seen : seen[j] \in Int
    /\ \A p \in DOMAIN accepted :
          /\ accepted[p] = 1
          /\ p.iat \in Int
          /\ now <= ExpiresAt(p) => p.jti \in DOMAIN seen /\ seen[p.jti] >= ExpiresAt(p)

LEMMA CheckAndRecordKeepsInv ==
    ASSUME GuardInv, now \in Nat, now' = now, NEW proof, proof.iat \in Int, CheckAndRecord(proof),
           IF IsReplay(proof) THEN UNCHANGED accepted ELSE CountPass(proof)
    PROVE  GuardInv'
<1> DEFINE Knows(s, p) == now <= ExpiresAt(p) => p.jti \in DOMAIN s /\ s[p.jti] >= ExpiresAt(p)
<1>1. \A p : p.iat \in Int => ExpiresAt(p) \in Int
  BY ProofAgeAssumption DEF ExpiresAt
<1>2. \A p \in DOMAIN accepted : now <= ExpiresAt(p) => p.jti \in Remembered
  BY <1>1 DEF GuardInv, Remembered
<1>3. CASE IsReplay(proof)
  <2>1. DOMAIN seen' = Remembered /\ \A j \in Remembered : seen'[j] = seen[j]
    BY <1>3, Zenon DEF CheckAndRecord, Restrict, Remembered
  <2>2. accepted' = accepted /\ \A j \in DOMAIN seen' : seen'[j] \in Int
    BY <1>3, <2>1, Zenon DEF GuardInv, Remembered
  <2>3. \A p \in DOMAIN accepted : Knows(seen', p)
    BY <1>2, <2>1, Zenon DEF GuardInv
  <2> QED
    BY <2>2, <2>3, Zenon DEF GuardInv, ExpiresAt
<1>4. CASE ~IsReplay(proof)
  <2>1. /\ DOMAIN seen' = Remembered \cup {proof.jti}
        /\ seen'[proof.jti] = ExpiresAt(proof)
        /\ \A j \in Remembered : seen'[j] = seen[j]
    BY <1>4, Zenon DEF CheckAndRecord, IsReplay
  <2>2. \A j \in DOMAIN seen' : seen'[j] \in Int
    BY <1>1, <2>1 DEF GuardInv, Remembered
  <2>3. \A p \in DOMAIN accepted : Knows(seen', p)
    BY <1>2, <2>1, Zenon DEF GuardInv
  <2>4. Knows(seen', proof)
    BY <1>1, <2>1
  <2>5. CASE now > ExpiresAt(proof)
    <3>1. accepted' = accepted
      BY <1>4, <2>5, Zenon DEF CountPass
    <3> QED
      BY <2>2, <2>3, <3>1, Zenon DEF GuardInv, ExpiresAt
  <2>6. CASE ~(now > ExpiresAt(proof))
    <3>1. proof \notin DOMAIN accepted
      BY <1>1, <1>2, <1>4, <2>6 DEF IsReplay
    <3>2. accepted' = [p \in DOMAIN accepted \cup {proof} |->
                         (IF p \in DOMAIN accepted THEN accepted[p] ELSE 0)
                         + (IF p = proof THEN 1 ELSE 0)]
      BY <1>4, <2>6, Zenon DEF CountPass
    <3>3. /\ DOMAIN accepted' = DOMAIN accepted \cup {proof} 
          /\ \A p \in DOMAIN accepted' : accepted'[p] = 1
      BY <3>1, <3>2 DEF GuardInv
    <3> QED
      BY <2>2, <2>3, <2>4, <3>3, Zenon DEF GuardInv, ExpiresAt
  <2> QED
    BY <2>5, <2>6, Zenon
<1> QED
  BY <1>3, <1>4, Zenon

\* Time only takes proofs out of their window.
LEMMA GuardUnchanged ==
    ASSUME GuardInv, now \in Nat, now' \in {now, now + 1}, UNCHANGED dpopVars
    PROVE  GuardInv'
  BY ProofAgeAssumption DEF GuardInv, dpopVars, ExpiresAt

LEMMA GuardInitInv == DPoPInit => GuardInv
  BY DEF DPoPInit, GuardInv

(***************************************************************************)
(* The drift reports                                                       *)
(***************************************************************************)

\* A shape that is not marked has a report left to make.
ReportsInv ==
    /\ resets \in Nat
    /\ \A s \in DOMAIN reports :
          /\ reports[s] \in Nat
          /\ reports[s] <= resets + 1
          /\ s \notin reported => reports[s] <= resets

LEMMA CompareKeepsInv ==
    ASSUME ReportsInv, NEW c \in Callers, Compare(c)
    PROVE  ReportsInv'
<1>1. CASE UNCHANGED <<reported, reports, resets>>
  BY <1>1, Zenon DEF ReportsInv
<1>2. CASE ~UNCHANGED <<reported, reports, resets>>
  <2> DEFINE shape == Shape(c)
             full == Cardinality(reported) >= MaxSeen
  <2>1. /\ shape \notin reported
        /\ reported' = (IF full THEN {} ELSE reported) \cup {shape}
        /\ resets' = IF full THEN resets + 1 ELSE resets
        /\ reports' = [s \in DOMAIN reports \cup {shape} |->
                         (IF s \in DOMAIN reports THEN reports[s] ELSE 0)
                         + (IF s = shape THEN 1 ELSE 0)]
    BY <1>2, Zenon DEF Compare, markFirst
  <2> HIDE DEF shape, full
  <2>2. /\ DOMAIN reports' = DOMAIN reports \cup {shape}
        /\ \A s \in DOMAIN reports \ {shape} : reports'[s] = reports[s] + 0
        /\ reports'[shape] = (IF shape \in DOMAIN reports THEN reports[shape] ELSE 0) + 1
    BY <2>1, Zenon
  <2>3. reports'[shape] \in Nat /\ reports'[shape] <= resets + 1
    BY <2>1, <2>2 DEF ReportsInv
  <2>4. resets' \in Nat /\ resets <= resets'
    BY <2>1 DEF ReportsInv
  <2>5. ASSUME NEW s \in DOMAIN reports \ {shape}
        PROVE  /\ reports'[s] \in Nat /\ reports'[s] <= resets' + 1
               /\ s \notin reported' => reports'[s] <= resets'
    BY <2>1, <2>2, <2>4 DEF ReportsInv
  <2>6. shape \in reported' /\ resets + 1 <= resets' + 1 /\ resets \in Nat
    BY <2>1, <2>4 DEF ReportsInv
  <2> QED
    BY <2>2, <2>3, <2>4, <2>5, <2>6 DEF ReportsInv
<1> QED
  BY <1>1, <1>2, Zenon

LEMMA InspectStepKeepsInv ==
    ASSUME ReportsInv, NEW c \in Callers, InspectStep(c)
    PROVE  ReportsInv'
<1>1. CASE UNCHANGED <<reported, reports, resets>>
  BY <1>1, Zenon DEF ReportsInv
<1> QED
  BY <1>1, CompareKeepsInv, Zenon DEF InspectStep, get, GetSessionDeviceSnapshot, SnapshotFails, Store

LEMMA ReportsUnchanged ==
    ASSUME ReportsInv, UNCHANGED <<reported, reports, resets>>
    PROVE  ReportsInv'
  BY Zenon DEF ReportsInv

(***************************************************************************)
(* The request path                                                        *)
(***************************************************************************)

PathInv == KeysInv /\ RequestInv /\ ListInv /\ GuardInv /\ ReportsInv

LEMMA PathInitInv == Init => PathInv
<1> SUFFICES ASSUME Init PROVE PathInv
  BY Zenon
<1>1. deployment.published \in SUBSET Kids /\ deployment.warm \in BOOLEAN
  BY DeploymentAssumption, Zenon DEF Init
<1>2. KeysInv
  BY <1>1, KeysInitInv, Zenon DEF Init
<1>3. \A c \in Callers : find[c].pc = "idle"
  BY Zenon DEF Init, JWKSInit, NotFinding
<1>4. RequestsOK
  <2> DEFINE Reqs == [pc : Stages, q : {NoRequest} \cup deployment.requests,
                      proven : BOOLEAN, dead : BOOLEAN]
  <2>1. Idle \in Reqs /\ Idle.pc = "idle" /\ req = [c \in Callers |-> Idle]
    BY Zenon DEF Idle, Stages, Init
  <2>2. req \in [Callers -> Reqs] /\ \A c \in Callers : req[c].pc = "idle"
    BY <2>1, Zenon
  <2> QED
    BY <1>3, <2>2, Zenon DEF RequestsOK, Init
<1>5. RequestInv
  <2>1. \A c \in Callers : req[c].pc = "idle"
    BY Zenon DEF Init, Idle
  <2> QED
    BY <1>4, <2>1, Zenon DEF RequestInv, ProvenOK, NotDead, DeadIsKnown, Checked
<1>6. ListInv /\ GuardInv
  BY ListInitInv, GuardInitInv, Zenon DEF Init
<1>7. ReportsInv
  BY DEF Init, DriftInit, ReportsInv
<1> QED
  BY <1>2, <1>5, <1>6, <1>7, Zenon DEF PathInv

\* A handler's steps, one component after the other.
LEMMA HandleKeepsInv ==
    ASSUME PathInv, NEW c \in Callers, Handle(c)
    PROVE  PathInv'
<1> USE DEF PathInv
<1>1. now' = now /\ now \in Nat
  BY Zenon DEF KeysInv, FindTypes, Handle, Arrive, ValidateToken, CheckRevocation, Inspected, CheckProof,
         PassGuard, GuardFails, FastPath, Respond
<1>2. UNCHANGED crlVars /\ UNCHANGED <<reported, reports, resets>>
  BY Zenon DEF Handle, Arrive, ValidateToken, CheckRevocation, Inspected, CheckProof, PassGuard,
         GuardFails, FastPath, Respond, components, driftVars
<1>3. ListInv' /\ ReportsInv'
  BY <1>2, ListUnchanged, ReportsUnchanged, Zenon
<1>4. RequestInv'
  BY ArriveKeepsInv, ValidateKeepsInv, CheckRevocationKeepsInv, AdvanceKeepsInv, CheckProofKeepsInv,
     PassGuardKeepsInv, RespondKeepsInv, Zenon DEF Handle, KeysInv
<1>5. GuardInv'
  <2>1. CASE PassGuard(c)
    <3> DEFINE proof == req[c].q.proof
    <3>1. req[c].pc = "guard"
      BY <2>1, Zenon DEF PassGuard
    <3>2. deployment \in Deployments /\ req[c].q \in deployment.requests
      BY <3>1, Zenon DEF RequestInv, RequestsOK
    <3>3. proof.iat \in Int
      BY <3>2, DeploymentAssumption, Zenon
    <3>4. CheckAndRecord(proof) /\ IF IsReplay(proof) THEN UNCHANGED accepted ELSE CountPass(proof)
      BY <2>1, Zenon DEF PassGuard
    <3> HIDE DEF proof
    <3> QED
      BY <1>1, <3>3, <3>4, CheckAndRecordKeepsInv, Zenon
  <2>2. CASE ~PassGuard(c)
    <3>1. UNCHANGED dpopVars
      BY <2>2, Zenon
         DEF Handle, Arrive, ValidateToken, CheckRevocation, Inspected, CheckProof, GuardFails,
                  FastPath, Respond, components
    <3> QED
      BY <1>1, <3>1, GuardUnchanged, Zenon
  <2> QED
    BY <2>1, <2>2, Zenon
<1>6. KeysInv'
  <2>1. CASE UNCHANGED jwksVars
    BY <1>1, <2>1, KeysUnchanged, Zenon
  <2>2. CASE Arrive(c)
    <3>1. PICK q \in deployment.requests :
            \/ UNCHANGED jwksVars
            \/ CallFindKey(c, q.token.kid) /\ CacheKept
      BY <2>2, Zenon DEF Arrive, CacheKept
    <3>2. q.token.kid \in Kids
      BY DeploymentAssumption, Zenon DEF RequestInv, RequestsOK
    <3>3. find[c].pc = "idle"
      BY <2>2, Zenon DEF Arrive, RequestInv, RequestsOK
    <3> QED
      BY <1>1, <2>1, <3>1, <3>2, <3>3, CallKeepsInv, Zenon
  <2>3. CASE ValidateToken(c)
    BY <1>1, <2>3, CallKeepsInv, Zenon DEF ValidateToken, CacheKept
  <2> QED
    BY <2>1, <2>2, <2>3, Zenon DEF Handle, CheckRevocation, Inspected, CheckProof, PassGuard, GuardFails,
                            FastPath, Respond, components
<1> QED
  BY <1>3, <1>4, <1>5, <1>6, Zenon

LEMMA PathNextInv == PathInv /\ [Next]_vars => PathInv'
<1> SUFFICES ASSUME PathInv, [Next]_vars PROVE PathInv'
  BY Zenon
<1> USE DEF PathInv
<1>0. now \in Nat /\ deployment \in Deployments /\ FindTypes
  BY Zenon DEF KeysInv, FindTypes, RequestInv, RequestsOK
<1>1. ASSUME NEW c \in Callers, Handle(c)
      PROVE  PathInv'
  BY <1>1, HandleKeepsInv, Zenon
<1>2. ASSUME NEW c \in Callers, Find(c)
      PROVE  PathInv'
  <2>1. KeysInv'
    BY <1>2, FindKeyStepKeepsInv, Zenon DEF Find
  <2>2. ListInv' /\ GuardInv' /\ ReportsInv' /\ poll' = poll
    BY <1>0, <1>2, ListUnchanged, GuardUnchanged, ReportsUnchanged, Zenon DEF Find, driftVars, crlVars
  <2>3. RequestInv'
    BY <1>0, <1>2, <2>2, FindKeyStepFrame, OthersKeepInv, Zenon DEF Find
  <2> QED
    BY <2>1, <2>2, <2>3, Zenon
<1>3. ASSUME NEW c \in Callers, Inspect(c)
      PROVE  PathInv'
  <2>1. ReportsInv'
    BY <1>3, InspectStepKeepsInv, Zenon DEF Inspect
  <2>2. KeysInv' /\ ListInv' /\ GuardInv'
    BY <1>0, <1>3, KeysUnchanged, ListUnchanged, GuardUnchanged, Zenon DEF Inspect
  <2>3. RequestInv'
    BY <1>3, OthersKeepInv, Zenon DEF Inspect, jwksVars, crlVars
  <2> QED
    BY <2>1, <2>2, <2>3, Zenon
<1>4. CASE Poll
  <2>1. ListInv' /\ poll.known \subseteq poll'.known
    BY <1>4, PollKeepsInv, Zenon DEF Poll
  <2>2. KeysInv' /\ GuardInv' /\ ReportsInv'
    BY <1>0, <1>4, KeysUnchanged, GuardUnchanged, ReportsUnchanged, Zenon DEF Poll, driftVars
  <2>3. RequestInv'
    BY <1>4, <2>1, OthersKeepInv, Zenon DEF Poll, jwksVars
  <2> QED
    BY <2>1, <2>2, <2>3, Zenon
<1>5. CASE Change
  <2>1. GuardInv' /\ now' = now /\ UNCHANGED <<deployment, req>>
    BY <1>0, <1>5, GuardUnchanged, Zenon DEF Change
  <2>2. ASSUME NEW set \in deployment.keySets, RotateKeys(set), UNCHANGED <<crlVars, driftVars>>
        PROVE  PathInv'
    <3>1. set \in SUBSET Kids
      BY <1>0, DeploymentAssumption, Zenon
    <3>2. KeysInv' /\ ListInv' /\ ReportsInv'
      BY <2>1, <2>2, <3>1, RotateKeepsInv, ListUnchanged, ReportsUnchanged, Zenon DEF driftVars
    <3>3. \A c \in Callers : find'[c].pc = find[c].pc
      BY <1>0, <2>2, Zenon DEF RotateKeys, FindTypes, Lookups
    <3>4. RequestInv'
      BY <2>1, <2>2, <3>3, OthersKeepInv, Zenon DEF crlVars
    <3> QED
      BY <2>1, <3>2, <3>4, Zenon
  <2>3. ASSUME NEW s \in Sessions, Revoke(s), UNCHANGED <<jwksVars, driftVars>>
        PROVE  PathInv'
    <3>1. ListInv' /\ poll.known \subseteq poll'.known
      BY <2>3, PollKeepsInv, Zenon
    <3>2. KeysInv' /\ ReportsInv'
      BY <2>1, <2>3, KeysUnchanged, ReportsUnchanged, Zenon DEF driftVars
    <3>3. RequestInv'
      BY <2>1, <2>3, <3>1, OthersKeepInv, Zenon DEF jwksVars
    <3> QED
      BY <2>1, <3>1, <3>2, <3>3, Zenon
  <2>4. ASSUME NEW s, NEW family, Bind(s, family), UNCHANGED <<jwksVars, crlVars>>
        PROVE  PathInv'
    <3>1. KeysInv' /\ ListInv' /\ ReportsInv'
      BY <2>1, <2>4, KeysUnchanged, ListUnchanged, ReportsUnchanged, Zenon DEF Bind
    <3>2. RequestInv'
      BY <2>1, <2>4, OthersKeepInv, Zenon DEF jwksVars, crlVars
    <3> QED
      BY <2>1, <3>1, <3>2, Zenon
  <2> QED
    BY <1>5, <2>2, <2>3, <2>4, Zenon DEF Change
<1>6. CASE Tick
  <2>1. now' = now + 1 /\ FetchInTime /\ UNCHANGED <<components, deployment, req>>
    BY <1>6, Zenon DEF Tick
  <2>2. KeysInv' /\ ListInv' /\ GuardInv' /\ ReportsInv'
    BY <1>0, <2>1, TickKeepsKeys, ListUnchanged, GuardUnchanged, ReportsUnchanged, Zenon
    DEF components, driftVars
  <2>3. RequestInv'
    BY <2>1, OthersKeepInv, Zenon DEF components, jwksVars, crlVars
  <2> QED
    BY <2>2, <2>3, Zenon
<1>7. CASE UNCHANGED vars
  <2>1. UNCHANGED <<components, now, deployment, req>>
    BY <1>7, Zenon DEF vars
  <2>2. KeysInv' /\ ListInv' /\ GuardInv' /\ ReportsInv'
    BY <1>0, <2>1, KeysUnchanged, ListUnchanged, GuardUnchanged, ReportsUnchanged, Zenon
    DEF components, driftVars
  <2>3. RequestInv'
    BY <2>1, OthersKeepInv, Zenon DEF components, jwksVars, crlVars
  <2> QED
    BY <2>2, <2>3, Zenon
<1> QED
  BY <1>1, <1>2, <1>3, <1>4, <1>5, <1>6, <1>7, Zenon DEF Next

LEMMA PathSafety == Spec => []PathInv
  BY PathInitInv, PathNextInv, PTL DEF Spec

(***************************************************************************)
(* Types                                                                   *)
(*                                                                         *)
(* Beyond PathInv, TypeOK says that a request waits for an inspection      *)
(* exactly while there is one, that the list is healthy exactly after a    *)
(* poll that succeeded, and what the environment is bounded by.            *)
(***************************************************************************)

IsInspection(i) ==
    i \in [pc : {i.pc}, session : {i.session}, family : {i.family}, plain : {i.plain}, snap : {i.snap}]

InspectsOK ==
    /\ DOMAIN inspect = Callers
    /\ \A c \in Callers : /\ IsInspection(inspect[c])
                          /\ req[c].pc = "drift" <=> inspect[c].pc # "idle"

HealthOK ==
    /\ healthy \in BOOLEAN /\ consecutiveFailures \in Nat
    /\ healthy <=> consecutiveFailures = 0

BoundsOK ==
    /\ now \in 0..deployment.maxNow
    /\ arrivals \in 0..deployment.maxRequests
    /\ changes \in 0..deployment.maxChanges

Ranges == InspectsOK /\ HealthOK /\ BoundsOK

LEMMA RangesGiveTypes == PathInv /\ Ranges => TypeOK
<1> SUFFICES ASSUME PathInv, Ranges PROVE TypeOK
  BY Zenon
<1>1. FindTypes /\ OneFetch /\ HoldersMiss /\ RequestsOK /\ ListInv
  BY Zenon DEF PathInv, KeysInv, RequestInv
<1>2. \A c \in Callers : find[c] \in Lookups
  BY <1>1, Zenon DEF FindTypes
<1>3. JWKSTypeOK
  <2>1. published \subseteq Kids /\ keys \subseteq Kids /\ retiredAt \in [Kids -> Int]
        /\ fetchedAt \in Int /\ forcedAt \in Int /\ lockedAt \in Int
    BY <1>1, Zenon DEF FindTypes
  <2>2. Locked <=> \E c \in Callers : find[c].pc \in {"fetch", "served"}
    BY <1>1, Zenon DEF OneFetch, Fetching
  <2>3. holding \subseteq {c \in Callers : find[c].pc \in {"force", "wait", "fetch", "served"}}
    BY <1>1, Zenon DEF FindTypes, HoldersMiss, Waiting, Fetching
  <2>4. ASSUME NEW c \in Callers
        PROVE  /\ find[c].pc \in {"idle", "getKeys", "refresh", "fetch", "served", "force", "wait", "done"}
               /\ find[c].answer \subseteq Kids
               /\ find[c].out \in {"none", "found", "unknown", "error"}
    BY <1>2, Zenon DEF Lookups
  <2> QED
    BY <2>1, <2>2, <2>3, <2>4, Zenon DEF JWKSTypeOK
<1>4. CRLTypeOK
  BY <1>1, Zenon DEF ListInv, Polls, Ranges, HealthOK, CRLTypeOK
<1>5. \A c \in Callers : req[c].pc \in Stages
  BY <1>1, Zenon DEF RequestsOK
<1> QED
  BY <1>1, <1>3, <1>4, <1>5, Zenon DEF TypeOK, Ranges, InspectsOK, BoundsOK, RequestsOK, Stages

LEMMA StageField ==
    ASSUME NEW i, IsInspection(i), NEW pc
    PROVE  IsInspection([i EXCEPT !.pc = pc]) /\ [i EXCEPT !.pc = pc].pc = pc
<1> DEFINE All == [pc : {i.pc, pc}, session : {i.session}, family : {i.family}, plain : {i.plain},
                   snap : {i.snap}]
<1>1. i \in All /\ \A j \in All : IsInspection(j)
  BY Zenon DEF IsInspection
<1>2. [i EXCEPT !.pc = pc] \in All /\ [i EXCEPT !.pc = pc].pc = pc
  BY <1>1, Zenon
<1> QED
  BY <1>1, <1>2, Zenon

LEMMA SnapField ==
    ASSUME NEW i, IsInspection(i), NEW snap
    PROVE  IsInspection([i EXCEPT !.snap = snap]) /\ [i EXCEPT !.snap = snap].pc = i.pc
<1> DEFINE All == [pc : {i.pc}, session : {i.session}, family : {i.family}, plain : {i.plain},
                   snap : {i.snap, snap}]
<1>1. i \in All /\ \A j \in All : IsInspection(j)
  BY Zenon DEF IsInspection
<1>2. [i EXCEPT !.snap = snap] \in All /\ [i EXCEPT !.snap = snap].pc = i.pc
  BY <1>1, Zenon
<1> QED
  BY <1>1, <1>2, Zenon

\* Another inspection of one caller.
Inspects(c, i) ==
    /\ IsInspection(i)
    /\ DOMAIN inspect' = Callers /\ inspect'[c] = i
    /\ \A d \in Callers \ {c} : inspect'[d] = inspect[d]

LEMMA InspectsKeeps ==
    ASSUME InspectsOK, NEW c \in Callers, NEW i, Inspects(c, i),
           \A d \in Callers \ {c} : req'[d].pc = req[d].pc,
           req'[c].pc = "drift" <=> i.pc # "idle"
    PROVE  InspectsOK'
  BY Zenon DEF InspectsOK, Inspects

LEMMA ReturnedInspects ==
    ASSUME InspectsOK, NEW c \in Callers, inspect' = Returned(c)
    PROVE  \E i : Inspects(c, i) /\ i.pc # "idle"
<1>1. IsInspection(NotInspecting)
  BY DEF NotInspecting, IsInspection
<1>2. PICK i : i = [NotInspecting EXCEPT !.pc = "done"]
  BY Zenon
<1>3. IsInspection(i) /\ i.pc = "done"
  BY <1>1, <1>2, StageField, Zenon
<1> QED
  BY <1>2, <1>3, Zenon DEF Returned, Inspects, InspectsOK

\* An inspection's own steps do not end it.
LEMMA InspectStepInspects ==
    ASSUME InspectsOK, NEW c \in Callers, InspectStep(c)
    PROVE  inspect[c].pc # "idle" /\ \E i : Inspects(c, i) /\ i.pc # "idle"
<1> DEFINE Goes == \E i : Inspects(c, i) /\ i.pc # "idle"
<1>1. IsInspection(inspect[c])
  BY Zenon DEF InspectsOK
<1>2. inspect' = Returned(c) => Goes
  BY ReturnedInspects, Zenon
<1>3. ASSUME NEW pc, pc # "idle", inspect' = [inspect EXCEPT ![c].pc = pc]
      PROVE  Goes
  <2>1. PICK i : i = [inspect[c] EXCEPT !.pc = pc]
    BY Zenon
  <2>2. IsInspection(i) /\ i.pc = pc
    BY <1>1, <2>1, StageField, Zenon
  <2> QED
    BY <1>3, <2>1, <2>2, Zenon DEF Inspects, InspectsOK
<1>4. ASSUME NEW pc, pc # "idle", NEW snap, inspect' = [inspect EXCEPT ![c].pc = pc, ![c].snap = snap]
      PROVE  Goes
  <2>1. PICK j : j = [inspect[c] EXCEPT !.pc = pc]
    BY Zenon
  <2>2. IsInspection(j) /\ j.pc = pc
    BY <1>1, <2>1, StageField, Zenon
  <2>3. DOMAIN inspect = Callers
    BY Zenon DEF InspectsOK
  <2>4. PICK i : i = [j EXCEPT !.snap = snap] /\ inspect'[c] = i
    BY <1>4, <2>1, <2>3, Zenon
  <2>5. DOMAIN inspect' = Callers /\ \A d \in Callers \ {c} : inspect'[d] = inspect[d]
    BY <1>4, <2>3, Zenon
  <2>6. IsInspection(i) /\ i.pc = pc
    BY <2>2, <2>4, SnapField, ZenonT(30)
  <2> QED
    BY <1>4, <2>4, <2>5, <2>6, Zenon DEF Inspects
<1>5. ASSUME NEW snap, inspect' = Got(c, snap)
      PROVE  Goes
  BY <1>2, <1>4, <1>5, Zenon DEF Got
<1> HIDE DEF Goes
<1>6. Goes
  BY <1>2, <1>3, <1>4, <1>5, Zenon
     DEF InspectStep, get, GetSessionDeviceSnapshot, SnapshotFails, Store, Compare
<1>7. inspect[c].pc # "idle"
  BY Zenon DEF InspectStep, get, GetSessionDeviceSnapshot, SnapshotFails, Store, Compare
<1> QED
  BY <1>6, <1>7, Zenon DEF Goes

LEMMA GotoStage ==
    ASSUME RequestsOK, NEW c \in Callers, NEW pc, Goto(c, pc)
    PROVE  req'[c].pc = pc /\ \A d \in Callers \ {c} : req'[d] = req[d]
<1>1. req \in [Callers -> [pc : Stages, q : {NoRequest} \cup deployment.requests,
                           proven : BOOLEAN, dead : BOOLEAN]]
  BY Zenon DEF RequestsOK
<1> QED
  BY <1>1, Zenon DEF Goto

\* A handler's step that neither begins nor ends an inspection.
LEMMA ElsewhereKeeps ==
    ASSUME InspectsOK, NEW c \in Callers, UNCHANGED inspect,
           req[c].pc # "drift", req'[c].pc # "drift",
           \A d \in Callers \ {c} : req'[d] = req[d]
    PROVE  InspectsOK'
  BY Zenon DEF InspectsOK

LEMMA HandleKeepsInspects ==
    ASSUME PathInv, InspectsOK, NEW c \in Callers, Handle(c)
    PROVE  InspectsOK'
<1>1. RequestsOK
  BY Zenon DEF PathInv, RequestInv
<1>2. DOMAIN req = Callers
  BY <1>1, Zenon DEF RequestsOK
<1>3. ASSUME NEW pc, Goto(c, pc), pc # "drift", req[c].pc # "drift", UNCHANGED inspect
      PROVE  InspectsOK'
  BY <1>1, <1>3, GotoStage, ElsewhereKeeps, Zenon
<1>4. CASE Arrive(c)
  <2>1. UNCHANGED inspect /\ req[c].pc # "drift"
    BY <1>4, Zenon DEF Arrive, driftVars
  <2>2. PICK r : req' = [req EXCEPT ![c] = r] /\ r.pc # "drift"
    BY <1>4, Zenon DEF Arrive
  <2>3. req'[c].pc # "drift" /\ \A d \in Callers \ {c} : req'[d] = req[d]
    BY <1>2, <2>2, Zenon
  <2> QED
    BY <2>1, <2>3, ElsewhereKeeps, Zenon
<1>5. CASE ValidateToken(c)
  <2>1. PICK pc : /\ Goto(c, pc)
                  /\ pc \in {"rejected", "served", "revocation"}
    BY <1>5, Zenon DEF ValidateToken, ConnectInterceptor, GRPCUnaryInterceptor
  <2> QED
    BY <1>3, <1>5, <2>1, Zenon DEF ValidateToken, driftVars
<1>6. CASE CheckRevocation(c)
  <2>1. CASE UNCHANGED inspect /\ \E pc \in {"rejected", "proof"} : Goto(c, pc)
    BY <1>3, <1>6, <2>1, Zenon DEF CheckRevocation
  <2>2. ASSUME NEW session, NEW family, NEW plain, CallInspect(c, session, family, plain),
               Goto(c, "drift")
        PROVE  InspectsOK'
    <3>1. PICK i : i = [pc |-> "get", session |-> session, family |-> family,
                        plain |-> plain, snap |-> "none"]
      BY Zenon
    <3>2. Inspects(c, i) /\ i.pc = "get"
      BY <2>2, <3>1, Zenon DEF CallInspect, Inspects, InspectsOK, IsInspection
    <3>3. req'[c].pc = "drift" /\ \A d \in Callers \ {c} : req'[d] = req[d]
      BY <1>1, <2>2, GotoStage, Zenon
    <3> QED
      BY <3>2, <3>3, InspectsKeeps, Zenon
  <2> QED
    BY <1>6, <2>1, <2>2, Zenon DEF CheckRevocation
<1>7. CASE Inspected(c)
  <2>1. Inspects(c, NotInspecting) /\ NotInspecting.pc = "idle" /\ Goto(c, "proof")
    BY <1>7, Zenon DEF Inspected, Inspects, InspectsOK, IsInspection, NotInspecting
  <2>2. req'[c].pc = "proof" /\ \A d \in Callers \ {c} : req'[d] = req[d]
    BY <1>1, <2>1, GotoStage, Zenon
  <2> QED
    BY <2>1, <2>2, InspectsKeeps, Zenon
<1>8. CASE CheckProof(c) \/ GuardFails(c) \/ FastPath(c)
  <2>1. PICK pc : /\ Goto(c, pc) /\ pc # "drift" /\ req[c].pc # "drift" /\ UNCHANGED inspect
    BY <1>8, Zenon DEF CheckProof, Passed, GuardFails, FastPath, components, driftVars
  <2> QED
    BY <1>3, <2>1, Zenon
<1>9. CASE PassGuard(c)
  <2>1. UNCHANGED inspect /\ req[c].pc # "drift"
    BY <1>9, Zenon DEF PassGuard, driftVars
  <2>2. PICK pc, passes : /\ req' = [req EXCEPT ![c].pc = pc, ![c].proven = passes]
                          /\ pc \in {"interceptor", "served", "rejected"}
    BY <1>9, Zenon DEF PassGuard, Passed
  <2>3. req[c] \in [pc : Stages, q : {NoRequest} \cup deployment.requests,
                    proven : BOOLEAN, dead : BOOLEAN]
    BY <1>1, Zenon DEF RequestsOK
  <2>4. req'[c].pc # "drift" /\ \A d \in Callers \ {c} : req'[d] = req[d]
    <3>1. [[req[c] EXCEPT !.pc = pc] EXCEPT !.proven = passes].pc = pc
      BY <2>3, Zenon
    <3>2. req'[c] = [[req[c] EXCEPT !.pc = pc] EXCEPT !.proven = passes]
      BY <1>2, <2>2, Zenon
    <3>3. \A d \in Callers \ {c} : req'[d] = req[d]
      BY <1>2, <2>2, Zenon
    <3> QED
      BY <2>2, <3>1, <3>2, <3>3, Zenon
  <2> QED
    BY <2>1, <2>4, ElsewhereKeeps, Zenon
<1>10. CASE Respond(c)
  <2>1. /\ UNCHANGED inspect /\ req[c].pc # "drift" /\ req' = [req EXCEPT ![c] = Idle]
        /\ Idle.pc = "idle"
    BY <1>10, Zenon DEF Respond, components, driftVars, Idle
  <2>2. req'[c].pc # "drift" /\ \A d \in Callers \ {c} : req'[d] = req[d]
    BY <1>2, <2>1, Zenon
  <2> QED
    BY <2>1, <2>2, ElsewhereKeeps, Zenon
<1> QED
  BY <1>4, <1>5, <1>6, <1>7, <1>8, <1>9, <1>10, Zenon DEF Handle

LEMMA InspectsNext ==
    ASSUME PathInv, InspectsOK, [Next]_vars
    PROVE  InspectsOK'
<1>1. CASE \E c \in Callers : Handle(c)
  BY <1>1, HandleKeepsInspects, Zenon
<1>2. ASSUME NEW c \in Callers, Inspect(c)
      PROVE  InspectsOK'
  <2>1. inspect[c].pc # "idle" /\ \E i : Inspects(c, i) /\ i.pc # "idle"
    BY <1>2, InspectStepInspects, Zenon DEF Inspect
  <2>2. req' = req
    BY <1>2, Zenon DEF Inspect
  <2>3. req[c].pc = "drift"
    BY <2>1, Zenon DEF InspectsOK
  <2> QED
    BY <2>1, <2>2, <2>3, InspectsKeeps, Zenon
<1>3. CASE UNCHANGED <<inspect, req>>
  BY <1>3, Zenon DEF InspectsOK
<1>4. CASE Poll \/ Change \/ Tick \/ UNCHANGED vars \/ \E c \in Callers : Find(c)
  BY <1>3, <1>4, Zenon DEF Poll, Change, Bind, Tick, Find, vars, components, driftVars
<1> QED
  BY <1>1, <1>2, <1>4, Zenon DEF Next

LEMMA HealthNext ==
    ASSUME HealthOK, [Next]_vars
    PROVE  HealthOK'
<1>1. CASE UNCHANGED <<healthy, consecutiveFailures>>
  BY <1>1, Zenon DEF HealthOK
<1>2. CASE refreshAndRecord
  <2>1. CASE poll.pc = "swapped"
    <3>1. healthy' = TRUE /\ consecutiveFailures' = 0
      BY <1>2, <2>1, Zenon DEF refreshAndRecord
    <3> QED
      BY <3>1 DEF HealthOK
  <2>2. CASE poll.pc # "swapped"
    <3>1. healthy' = FALSE /\ consecutiveFailures' = consecutiveFailures + 1
      BY <1>2, <2>2, Zenon DEF refreshAndRecord
    <3>2. consecutiveFailures \in Nat
      BY Zenon DEF HealthOK
    <3>3. consecutiveFailures' \in Nat /\ consecutiveFailures' # 0
      BY <3>1, <3>2
    <3> QED
      BY <3>1, <3>3, Zenon DEF HealthOK
  <2> QED
    BY <2>1, <2>2, Zenon
<1>3. UNCHANGED <<healthy, consecutiveFailures>> \/ refreshAndRecord
  <2>1. CASE \E c \in Callers : Handle(c) \/ Find(c) \/ Inspect(c)
    BY <2>1, ZenonT(30) DEF Handle, Arrive, ValidateToken, CheckRevocation, Inspected, CheckProof, PassGuard,
                       GuardFails, FastPath, Respond, Find, Inspect, components, crlVars
  <2>2. CASE Poll
    BY <2>2, Zenon DEF Poll, BeginPoll, RefreshStep, ListRevokedSessions, PollFails, refreshSwap,
                       Stop, PollingEnds
  <2>3. CASE Change \/ Tick \/ UNCHANGED vars
    BY <2>3, Zenon DEF Change, Revoke, Tick, vars, components, crlVars
  <2> QED
    BY <2>1, <2>2, <2>3, Zenon DEF Next
<1> QED
  BY <1>1, <1>2, <1>3, Zenon

LEMMA Counted ==
    ASSUME NEW n \in Nat, NEW m \in 0..n
    PROVE  m < n => m + 1 \in 0..n
  OBVIOUS

LEMMA BoundsNext ==
    ASSUME PathInv, BoundsOK, [Next]_vars
    PROVE  BoundsOK'
<1>1. deployment \in Deployments
  BY Zenon DEF PathInv, RequestInv, RequestsOK
<1>2. deployment.maxNow \in Nat /\ deployment.maxRequests \in Nat /\ deployment.maxChanges \in Nat
  BY <1>1, DeploymentAssumption, Zenon
<1>3. /\ deployment' = deployment
      /\ now' = now \/ (now < deployment.maxNow /\ now' = now + 1)
      /\ arrivals' = arrivals \/ (arrivals < deployment.maxRequests /\ arrivals' = arrivals + 1)
      /\ changes' = changes \/ (changes < deployment.maxChanges /\ changes' = changes + 1)
  <2>1. CASE \E c \in Callers : Handle(c) \/ Find(c) \/ Inspect(c)
    BY <2>1, Zenon DEF Handle, Arrive, ValidateToken, CheckRevocation, Inspected, CheckProof, PassGuard,
                       GuardFails, FastPath, Respond, Find, Inspect
  <2>2. CASE Poll \/ Change \/ Tick \/ UNCHANGED vars
    BY <2>2, Zenon DEF Poll, Change, Tick, vars
  <2> QED
    BY <2>1, <2>2, Zenon DEF Next
<1> QED
  BY <1>2, <1>3, Counted, Zenon DEF BoundsOK

LEMMA SpecRanges == Spec => []Ranges
<1>1. Init => Ranges
  <2> SUFFICES ASSUME Init PROVE Ranges
    BY Zenon
  <2>1. InspectsOK
    <3>1. inspect = [c \in Callers |-> NotInspecting] /\ req = [c \in Callers |-> Idle]
      BY Zenon DEF Init, DriftInit
    <3>2. IsInspection(NotInspecting) /\ NotInspecting.pc = "idle" /\ Idle.pc = "idle"
      BY Zenon DEF IsInspection, NotInspecting, Idle
    <3> QED
      BY <3>1, <3>2, Zenon DEF InspectsOK
  <2>2. HealthOK
    <3>1. healthy = TRUE /\ consecutiveFailures = 0
      BY Zenon DEF Init, CRLInit
    <3> QED
      BY <3>1 DEF HealthOK
  <2>3. BoundsOK
    <3>1. deployment \in Deployments /\ now = 0 /\ arrivals = 0 /\ changes = 0
      BY Zenon DEF Init
    <3>2. deployment.maxNow \in Nat /\ deployment.maxRequests \in Nat /\ deployment.maxChanges \in Nat
      BY <3>1, DeploymentAssumption, Zenon
    <3>3. \A n \in Nat : 0 \in 0..n
      OBVIOUS
    <3> QED
      BY <3>1, <3>2, <3>3, Zenon DEF BoundsOK
  <2> QED
    BY <2>1, <2>2, <2>3, Zenon DEF Ranges
<1>2. PathInv /\ Ranges /\ [Next]_vars => Ranges'
  BY InspectsNext, HealthNext, BoundsNext, Zenon DEF Ranges
<1> QED
  BY <1>1, <1>2, PathSafety, PTL DEF Spec

\* Every variable has its shape; a request waits for a key or for an inspection exactly
\* while there is one, and a validator is healthy exactly when its last poll succeeded.
THEOREM RequestTypes == Spec => []TypeOK
  BY RangesGiveTypes, SpecRanges, PathSafety, PTL

\* jwks.go: a lookup says "unknown key" only of a key that the provider did
\* not publish all through the call, whoever fetched the set it was told by.
THEOREM UnknownKeysAreUnknown == Spec => []UnknownIsTrue
<1>1. PathInv => UnknownIsTrue
  BY Zenon DEF PathInv, KeysInv
<1> QED
  BY <1>1, PathSafety, PTL

\* jwks.go: a withdrawn key is found only by lookups that began within the
\* cache TTL and one fetch timeout of its withdrawal.
THEOREM RetiredKeysEnd == Spec => []RetiredKeyEnds
<1>1. PathInv => RetiredKeyEnds
  BY Zenon DEF PathInv, KeysInv
<1> QED
  BY <1>1, PathSafety, PTL

\* dpop.go: up to the end of its window, a proof passes the replay guard at
\* most once.
THEOREM ProofsPassOnce == Spec => []AcceptedOnceInWindow
<1>1. PathInv => AcceptedOnceInWindow
  BY DEF PathInv, GuardInv, AcceptedOnceInWindow
<1> QED
  BY <1>1, PathSafety, PTL

\* device/drift.go: a shape of divergence is reported once, and once more for
\* each time the bounded set of reported shapes was emptied.
THEOREM ReportsAreBounded == Spec => []OneReportPerReset
<1>1. PathInv => OneReportPerReset
  BY Zenon DEF PathInv, ReportsInv, OneReportPerReset
<1> QED
  BY <1>1, PathSafety, PTL

\* session_validator.go, middleware/http.go: a session that a completed poll
\* knew as revoked when the request arrived is not served.
THEOREM RevokedSessionsStayOut == Spec => []RevokedStaysOut
<1>1. PathInv => RevokedStaysOut
  BY Zenon DEF PathInv, RequestInv, NotDead, Checked, ByHTTP, RevokedStaysOut
<1> QED
  BY <1>1, PathSafety, PTL

\* middleware/: no handler runs on a key-bound token without a proof by that
\* key that passed the guard.
THEOREM BoundTokensAreProven == Spec => []BoundTokenProven
<1>1. PathInv => BoundTokenProven
  BY Zenon DEF PathInv, RequestInv, ProvenOK, BoundTokenProven
<1> QED
  BY <1>1, PathSafety, PTL
=============================================================================
