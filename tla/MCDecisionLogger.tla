-------------------------- MODULE MCDecisionLogger ---------------------------
(* Batches of two entries, the fourth entry too large to send: two callers and
   Stop over a sound connection, with and without a timeout, and one caller
   over a connection with a fault. *)
EXTENDS DecisionDelivery

CONSTANTS c1, c2

MCSettings ==
    {[callers |-> {c1, c2}, calls |-> 4, stops |-> TRUE, timeouts |-> 0, faulty |-> FALSE],
     [callers |-> {c1, c2}, calls |-> 3, stops |-> TRUE, timeouts |-> 1, faulty |-> FALSE],
     [callers |-> {c1}, calls |-> 3, stops |-> FALSE, timeouts |-> 0, faulty |-> TRUE]}
=============================================================================
