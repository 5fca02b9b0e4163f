---------------------------- MODULE MCSyncClient -----------------------------
(* The synchronised SDK instance, with small logs, in several environments. *)
EXTENDS SyncClient, TLC

CONSTANTS tuple1, tuple2, path1, value1, value2

MCTuples == {tuple1, tuple2}
MCPaths == {path1}
MCValues == {value1, value2}
\* The second model revision no longer admits tuple2.
MCAdmits == [r \in 1..2 |-> IF r = 1 THEN MCTuples ELSE {tuple1}]

\* Changing models and tuples, with everything that makes a client load again.
Churn ==
    [kinds |-> {"write", "delete", "model"}, features |-> {"trim", "failures", "ticker"},
     maxLog |-> 3, maxFaults |-> 1]
\* Long enough for a guarded relation to lose all but its last holder.
Floors ==
    [kinds |-> {"write", "delete"}, features |-> {"failures", "ticker"},
     maxLog |-> 4, maxFaults |-> 1]
\* Long enough for a tuple of a snapshot to be deleted, and its model narrowed,
\* while the ticker is still writing that snapshot.
Overtaken ==
    [kinds |-> {"write", "delete", "model"}, features |-> {"ticker"}, maxLog |-> 4, maxFaults |-> 0]
Policy ==
    [kinds |-> {"bundle", "data"}, features |-> {"trim", "failures", "duplicates"},
     maxLog |-> 4, maxFaults |-> 1]
\* A frame that fails half-way, and then the rebootstrap that should repair it.
HalfWay ==
    [kinds |-> {"bundle", "data"}, features |-> {"failures"}, maxLog |-> 3, maxFaults |-> 2]
Reconnects ==
    [kinds |-> {"write", "delete"}, features |-> {}, maxLog |-> 4, maxFaults |-> 3]
WriteThrough == [kinds |-> {}, features |-> {"mirror"}, maxLog |-> 4, maxFaults |-> 2]

Safety == {Churn, Floors, Overtaken, Policy, HalfWay, Reconnects, WriteThrough}

Liveness ==
    {[kinds |-> {"write", "delete", "model", "bundle", "data"},
      features |-> {"trim", "failures", "ticker", "duplicates"}, maxLog |-> 2, maxFaults |-> 1]}

MissedDelete ==
    {[kinds |-> {"write", "delete"}, features |-> {"trim"}, maxLog |-> 3, maxFaults |-> 1]}
=============================================================================
