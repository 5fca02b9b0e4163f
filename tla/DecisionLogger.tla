--------------------------- MODULE DecisionLogger ----------------------------
(***************************************************************************)
(* The asynchronous decision log (decision/logger.go, decision/buffer.go,  *)
(* decision/sink.go): callers push entries into a bounded buffer and never *)
(* wait; a background goroutine drains it in batches and sends each batch  *)
(* once; Stop ends that goroutine and flushes once more itself.            *)
(*                                                                         *)
(* An entry is the number of its Log call among the accepted ones.  A      *)
(* flush is three steps (report the drops, drain under the buffer's mutex, *)
(* send), because callers push between them; both the background goroutine *)
(* ("loop") and Stop ("stop") run it.                                      *)
(***************************************************************************)
EXTENDS Naturals, Sequences, FiniteSets

CONSTANTS
    Callers,     \* goroutines that make decisions
    BufferSize,  \* capacity of the buffer
    FlushSize,   \* entries per batch
    MaxCalls,    \* bound on Log calls
    MaxFailures  \* bound on failed sends

ASSUME LoggerAssumption ==
    /\ BufferSize \in Nat
    /\ FlushSize \in Nat \ {0}
    /\ MaxCalls \in Nat
    /\ MaxFailures \in Nat

VARIABLES
    buffer,         \* b.entries
    dropped,        \* l.dropped
    reportedDrops,  \* l.reportedDrops
    sendFailures,   \* l.sendFailures
    flush,          \* per flusher: where it is
    batch,          \* per flusher: the batch it is sending
    full,           \* callers whose Push has failed and that have still to count the drop
    delivered       \* the entries that had arrived when their send ended, in order

\* History.
VARIABLES
    accepted,  \* Push calls that returned true
    lost,      \* entries of failed batches that did not arrive
    calls,     \* Log calls so far
    atStop     \* accepted when Stop was called

vars == <<buffer, dropped, reportedDrops, sendFailures, flush, batch, full, delivered,
          accepted, lost, calls, atStop>>

Flushers == {"loop", "stop"}

(***************************************************************************)
(* Log                                                                     *)
(***************************************************************************)

\* Buffer.Push under the mutex.
Push(c) ==
    /\ c \notin full
    /\ calls < MaxCalls
    /\ calls' = calls + 1
    /\ IF Len(buffer) >= BufferSize
         THEN full' = full \cup {c} /\ UNCHANGED <<buffer, accepted>>
         ELSE /\ buffer' = Append(buffer, accepted + 1)
              /\ accepted' = accepted + 1
              /\ UNCHANGED full
    /\ UNCHANGED <<dropped, reportedDrops, sendFailures, flush, batch, delivered, lost, atStop>>

CountDrop(c) ==
    /\ c \in full
    /\ dropped' = dropped + 1
    /\ full' = full \ {c}
    /\ UNCHANGED <<buffer, reportedDrops, sendFailures, flush, batch, delivered, accepted, lost,
                   calls, atStop>>

(***************************************************************************)
(* flushLoop, Stop, and the flush both of them run                         *)
(***************************************************************************)

\* Fault: only a full batch starts a flush.
TickWhenFull ==
    /\ flush["loop"] = "waiting"
    /\ Len(buffer) >= FlushSize
    /\ flush' = [flush EXCEPT !["loop"] = "report"]
    /\ UNCHANGED <<buffer, dropped, reportedDrops, sendFailures, batch, full, delivered, accepted,
                   lost, calls, atStop>>

\* The ticker fires.
Tick ==
    /\ flush["loop"] = "waiting"
    /\ flush' = [flush EXCEPT !["loop"] = "report"]
    /\ UNCHANGED <<buffer, dropped, reportedDrops, sendFailures, batch, full, delivered, accepted,
                   lost, calls, atStop>>

\* close(l.stopCh); Stop then waits for the loop.
Stop ==
    /\ flush["stop"] = "running"
    /\ flush' = [flush EXCEPT !["stop"] = "waiting"]
    /\ atStop' = accepted
    /\ UNCHANGED <<buffer, dropped, reportedDrops, sendFailures, batch, full, delivered, accepted,
                   lost, calls>>

\* The loop's select sees the closed channel; it may also see the ticker first.
LoopExits ==
    /\ flush["loop"] = "waiting"
    /\ flush["stop"] # "running"
    /\ flush' = [flush EXCEPT !["loop"] = "done"]
    /\ UNCHANGED <<buffer, dropped, reportedDrops, sendFailures, batch, full, delivered, accepted,
                   lost, calls, atStop>>

\* l.wg.Wait() returns.
FinalFlush ==
    /\ flush["stop"] = "waiting"
    /\ flush["loop"] = "done"
    /\ flush' = [flush EXCEPT !["stop"] = "report"]
    /\ UNCHANGED <<buffer, dropped, reportedDrops, sendFailures, batch, full, delivered, accepted,
                   lost, calls, atStop>>

Report(f) ==
    /\ flush[f] = "report"
    /\ reportedDrops' = IF dropped > reportedDrops THEN dropped ELSE reportedDrops
    /\ flush' = [flush EXCEPT ![f] = "drain"]
    /\ UNCHANGED <<buffer, dropped, sendFailures, batch, full, delivered, accepted, lost, calls,
                   atStop>>

\* Where a flusher is after its flush.
AfterFlush(f) == IF f = "loop" THEN "waiting" ELSE "done"

\* How many entries a flush takes.
Drained == IF FlushSize > Len(buffer) THEN Len(buffer) ELSE FlushSize

\* Buffer.Drain under the mutex; nothing is sent when the buffer was empty.
Drain(f) ==
    /\ flush[f] = "drain"
    /\ batch' = [batch EXCEPT ![f] = SubSeq(buffer, 1, Drained)]
    /\ buffer' = SubSeq(buffer, Drained + 1, Len(buffer))
    /\ flush' = [flush EXCEPT ![f] = IF buffer = <<>> THEN AfterFlush(f) ELSE "send"]
    /\ UNCHANGED <<dropped, reportedDrops, sendFailures, full, delivered, accepted, lost, calls,
                   atStop>>

Send(f) ==
    /\ flush[f] = "send"
    /\ delivered' = delivered \o batch[f]
    /\ batch' = [batch EXCEPT ![f] = <<>>]
    /\ flush' = [flush EXCEPT ![f] = AfterFlush(f)]
    /\ UNCHANGED <<buffer, dropped, reportedDrops, sendFailures, full, accepted, lost, calls, atStop>>

\* Fault: a failed send is not counted.
SendFailsSilently(f, arrived) ==
    /\ flush[f] = "send"
    /\ sendFailures < MaxFailures
    /\ arrived \in 0..Len(batch[f])
    /\ delivered' = delivered \o SubSeq(batch[f], 1, arrived)
    /\ lost' = lost \cup {batch[f][i] : i \in (arrived + 1)..Len(batch[f])}
    /\ batch' = [batch EXCEPT ![f] = <<>>]
    /\ flush' = [flush EXCEPT ![f] = AfterFlush(f)]
    /\ UNCHANGED <<buffer, dropped, reportedDrops, sendFailures, full, accepted, calls, atStop>>

\* The stream or its close fails, or the timeout passes: some of the entries may
\* have arrived, and the batch is not tried again.
SendFails(f, arrived) ==
    /\ flush[f] = "send"
    /\ sendFailures < MaxFailures
    /\ arrived \in 0..Len(batch[f])
    /\ delivered' = delivered \o SubSeq(batch[f], 1, arrived)
    /\ lost' = lost \cup {batch[f][i] : i \in (arrived + 1)..Len(batch[f])}
    /\ sendFailures' = sendFailures + 1
    /\ batch' = [batch EXCEPT ![f] = <<>>]
    /\ flush' = [flush EXCEPT ![f] = AfterFlush(f)]
    /\ UNCHANGED <<buffer, dropped, reportedDrops, full, accepted, calls, atStop>>

(***************************************************************************)
(* Specification                                                           *)
(***************************************************************************)

\* NewLogger and Start.
Init ==
    /\ buffer = <<>>
    /\ dropped = 0
    /\ reportedDrops = 0
    /\ sendFailures = 0
    /\ flush = [f \in Flushers |-> IF f = "loop" THEN "waiting" ELSE "running"]
    /\ batch = [f \in Flushers |-> <<>>]
    /\ full = {}
    /\ delivered = <<>>
    /\ accepted = 0
    /\ lost = {}
    /\ calls = 0
    /\ atStop = 0

Flush(f) ==
    \/ Report(f)
    \/ Drain(f)
    \/ Send(f)
    \/ \E arrived \in 0..FlushSize : SendFails(f, arrived)

Next ==
    \/ \E c \in Callers : Push(c) \/ CountDrop(c)
    \/ Tick
    \/ Stop
    \/ LoopExits
    \/ FinalFlush
    \/ \E f \in Flushers : Flush(f)

Spec == Init /\ [][Next]_vars

\* The ticker keeps firing, the flush goroutine is scheduled, and a send ends
\* within sendTimeout.
Fairness ==
    /\ WF_vars(Tick)
    /\ WF_vars(LoopExits)
    /\ WF_vars(FinalFlush)
    /\ \A f \in Flushers : WF_vars(Flush(f))
    /\ \A c \in Callers : WF_vars(CountDrop(c))

FairSpec == Spec /\ Fairness

(***************************************************************************)
(* Properties                                                              *)
(***************************************************************************)

\* Every variable has its shape, and the buffer its bound.
TypeOK ==
    /\ buffer \in Seq(1..accepted)
    /\ Len(buffer) <= BufferSize
    /\ dropped \in Nat
    /\ reportedDrops \in 0..dropped
    /\ sendFailures \in Nat
    /\ flush \in [Flushers -> {"running", "waiting", "report", "drain", "send", "done"}]
    /\ batch \in [Flushers -> Seq(1..accepted)]
    /\ full \in SUBSET Callers
    /\ delivered \in Seq(1..accepted)
    /\ accepted \in Nat
    /\ lost \in SUBSET (1..accepted)
    /\ calls \in Nat
    /\ atStop \in 0..accepted

Elements(s) == {s[i] : i \in 1..Len(s)}

\* Accepted and not yet dealt with by the sink.
Waiting == Elements(buffer) \cup Elements(batch["loop"]) \cup Elements(batch["stop"])

\* Every accepted entry is delivered, lost in a failed batch, or still waiting, and
\* only one of these: none is sent twice, and none disappears between Drain and
\* Send or when Stop's flush follows the loop's (logger.go:98-142).
EntriesConserved ==
    /\ Elements(delivered) \cup lost \cup Waiting = 1..accepted
    /\ Elements(delivered) \cap lost = {}
    /\ (Elements(delivered) \cup lost) \cap Waiting = {}
    /\ \A i, j \in 1..Len(delivered) : delivered[i] = delivered[j] => i = j

\* Decisions arrive in the order they were accepted (buffer.go:33-46), also across
\* Stop's final flush; DecisionDelivery adds those that arrive after their send
\* has timed out.
DeliveredInOrder ==
    \A i, j \in 1..Len(delivered) : i < j => delivered[i] < delivered[j]

\* "Failures are never silent" (logger.go:34-35): the entries missing at the
\* control plane are bounded by what the two counters admit.
LossIsCounted ==
    /\ Cardinality(lost) <= sendFailures * FlushSize
    /\ calls = accepted + dropped + Cardinality(full)

\* Every accepted entry is handed to the sink, unless Stop is called; every drop
\* is reported, unless Stop is called (logger.go:104-128).
EntriesHandled ==
    /\ \A n \in 1..MaxCalls : accepted >= n ~> (accepted - Len(buffer) >= n \/ flush["stop"] # "running")
    /\ \A n \in 1..MaxCalls : dropped >= n ~> (reportedDrops >= n \/ flush["stop"] # "running")

\* "Stop gracefully stops the logger and flushes remaining entries"
\* (logger.go:97): when it returns, every entry accepted before the call has been
\* handed to the sink.
StopFlushesRemaining ==
    flush["stop"] = "done" => accepted - Len(buffer) >= atStop
=============================================================================
