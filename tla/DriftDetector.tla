---------------------------- MODULE DriftDetector ----------------------------
(***************************************************************************)
(* Session-device drift (device/drift.go, device/snapshot.go): Inspect     *)
(* gets the device bound to the session, from a bounded cache or by a call *)
(* made without the cache's lock, compares the request with it, and        *)
(* reports each shape of divergence once, as far as a bounded set recalls. *)
(***************************************************************************)
EXTENDS RequestClock, FiniteSets, Functions

CONSTANTS
    SnapshotTTL,      \* c.ttl
    NegativeTTL,      \* c.negativeTTL
    MaxEntries,       \* c.maxEntries
    MaxSeen           \* d.maxSeen

ASSUME DriftAssumption ==
    /\ SnapshotTTL \in Nat /\ NegativeTTL \in 0..SnapshotTTL
    /\ MaxEntries \in Nat \ {0} /\ MaxSeen \in Nat \ {0}

VARIABLES
    bound,       \* control plane: session -> its device, "none" without one
    cache,       \* snapshotCache.cache
    reported,    \* d.seen: shapes of divergence reported
    inspect,     \* per caller: its Inspect
    reports,     \* history: shape -> reports sent
    resets       \* history: how often `reported` was emptied

driftVars == <<bound, cache, reported, inspect, reports, resets>>

\* A device is told by its browser family.  "unnamed" has none; "unfingerprinted"
\* is a firefox whose device id is not known.
Devices == {"firefox", "chrome", "unnamed", "unfingerprinted"}
BrowserFamily(snap) == IF snap = "unfingerprinted" THEN "firefox" ELSE snap
HasFamily(snap) == snap # "unnamed"
HasDeviceId(snap) == snap # "unfingerprinted"

NotInspecting ==
    [pc |-> "idle", session |-> "none", family |-> "none", plain |-> FALSE, snap |-> "none"]

DriftInit(sessions) ==
    /\ bound = [s \in sessions |-> "none"]
    /\ cache = <<>>
    /\ reported = {}
    /\ inspect = [c \in Callers |-> NotInspecting]
    /\ reports = <<>>
    /\ resets = 0

\* `plain`: a script's request without the device header.
CallInspect(c, session, family, plain) ==
    inspect' = [inspect EXCEPT ![c] = [pc |-> "get", session |-> session, family |-> family,
                                       plain |-> plain, snap |-> "none"]]

Returned(c) == [inspect EXCEPT ![c] = [NotInspecting EXCEPT !.pc = "done"]]

\* Nothing to diverge from ends the inspection.
Got(c, snap) ==
    IF snap = "none" THEN Returned(c)
    ELSE [inspect EXCEPT ![c].pc = "compare", ![c].snap = snap]

entryTTL(snap) == IF snap = "none" THEN NegativeTTL ELSE SnapshotTTL

IsCached(s) == s \in DOMAIN cache /\ now - cache[s].fetchedAt < entryTTL(cache[s].snap)

get(c) ==
    /\ inspect[c].pc = "get"
    /\ inspect' = IF IsCached(inspect[c].session)
                  THEN Got(c, cache[inspect[c].session].snap)
                  ELSE [inspect EXCEPT ![c].pc = "fetching"]
    /\ UNCHANGED <<bound, cache, reported, reports, resets>>

GetSessionDeviceSnapshot(c) ==
    /\ inspect[c].pc = "fetching"
    /\ inspect' = [inspect EXCEPT ![c].pc = "fetched", ![c].snap = bound[inspect[c].session]]
    /\ UNCHANGED <<bound, cache, reported, reports, resets>>

\* Fails open: the request goes on uninspected.
SnapshotFails(c) ==
    /\ inspect[c].pc \in {"fetching", "fetched"}
    /\ inspect' = Returned(c)
    /\ UNCHANGED <<bound, cache, reported, reports, resets>>

Oldest == {s \in DOMAIN cache : \A t \in DOMAIN cache : cache[s].fetchedAt <= cache[t].fetchedAt}

\* evictOldestLocked: what is left at the limit; map order breaks a tie.
Evicted ==
    IF Cardinality(DOMAIN cache) < MaxEntries THEN {DOMAIN cache}
    ELSE {DOMAIN cache \ {s} : s \in Oldest}

Store(c) ==
    /\ inspect[c].pc = "fetched"
    /\ \E left \in Evicted :
          cache' = [s \in left \cup {inspect[c].session} |->
                      IF s = inspect[c].session THEN [snap |-> inspect[c].snap, fetchedAt |-> now]
                      ELSE cache[s]]
    /\ inspect' = Got(c, inspect[c].snap)
    /\ UNCHANGED <<bound, reported, reports, resets>>

Kind(c) ==
    LET snap == inspect[c].snap
    IN  IF HasFamily(snap) /\ inspect[c].family # BrowserFamily(snap) THEN "user_agent"
        ELSE IF HasDeviceId(snap) /\ inspect[c].plain THEN "no_fingerprint"
        ELSE "none"

Shape(c) == <<inspect[c].session, Kind(c), inspect[c].family>>

markFirst(shape) ==
    /\ reported' = (IF Cardinality(reported) >= MaxSeen THEN {} ELSE reported) \cup {shape}
    /\ resets' = IF Cardinality(reported) >= MaxSeen THEN resets + 1 ELSE resets

\* Fault: the shape is not marked.
CompareUnmarked(c) ==
    /\ inspect[c].pc = "compare"
    /\ inspect' = Returned(c)
    /\ IF Kind(c) = "none" \/ Shape(c) \in reported
       THEN UNCHANGED reports
       ELSE reports' = [s \in DOMAIN reports \cup {Shape(c)} |->
                          (IF s \in DOMAIN reports THEN reports[s] ELSE 0)
                          + (IF s = Shape(c) THEN 1 ELSE 0)]
    /\ UNCHANGED <<bound, cache, reported, resets>>

Compare(c) ==
    /\ inspect[c].pc = "compare"
    /\ inspect' = Returned(c)
    /\ IF Kind(c) = "none" \/ Shape(c) \in reported
       THEN UNCHANGED <<reported, reports, resets>>
       ELSE /\ markFirst(Shape(c))
            /\ reports' = [s \in DOMAIN reports \cup {Shape(c)} |->
                             (IF s \in DOMAIN reports THEN reports[s] ELSE 0)
                             + (IF s = Shape(c) THEN 1 ELSE 0)]
    /\ UNCHANGED <<bound, cache>>

InspectStep(c) ==
    get(c) \/ GetSessionDeviceSnapshot(c) \/ SnapshotFails(c) \/ Store(c) \/ Compare(c)

\* The client fingerprints, or moves to another device.
Bind(s, device) ==
    /\ bound[s] # device
    /\ bound' = [bound EXCEPT ![s] = device]
    /\ UNCHANGED <<cache, reported, inspect, reports, resets>>

-----------------------------------------------------------------------------
\* A shape of divergence is reported again only after the set of reported
\* shapes overflowed: concurrent requests of one session share one report
\* ("at most once per (session, kind, family)", drift.go:56).
OneReportPerReset == \A s \in DOMAIN reports : reports[s] <= resets + 1
=============================================================================
