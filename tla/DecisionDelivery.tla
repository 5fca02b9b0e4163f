--------------------------- MODULE DecisionDelivery --------------------------
(***************************************************************************)
(* The decision log over a signed stream: RPCSink.Send (decision/sink.go)  *)
(* opens one client stream per batch, writes the entries to it, ends it    *)
(* and waits for the answer; sendTimeout bounds all of that.  The steps    *)
(* of DecisionLogger are kept, with Send and SendFails happening when the  *)
(* stream says so.                                                         *)
(*                                                                         *)
(* The control plane ingests an entry when the verified reader exposes it. *)
(* It answers when the reader reports the end of the stream, or an error.  *)
(* What was in flight when the client gave up may still be exposed.        *)
(***************************************************************************)
EXTENDS DecisionLogger, SignedStream

CONSTANTS
    Settings  \* per setting: who logs, how often, and what may go wrong

\* A batch has at least one entry, and a stream at most one batch.  Every send that
\* must fail can.
ASSUME DeliveryAssumption ==
    /\ Streams = 1..MaxCalls
    /\ Messages = 1..MaxCalls
    /\ Oversized \subseteq Messages
    /\ MaxFaults \in Nat
    /\ Settings \subseteq [callers: SUBSET Callers, calls: 0..MaxCalls, stops: BOOLEAN,
                           timeouts: Nat, faulty: BOOLEAN]
    /\ \A s \in Settings :
          MaxFailures >= s.timeouts + (IF s.faulty THEN MaxFaults ELSE 0) + Cardinality(Oversized)

VARIABLES
    stream,  \* per flusher: the stream of its send, 0 for none
    setting  \* fixed

sinkVars == <<streamVars, stream, setting>>
deliveryVars == <<vars, sinkVars>>

\* DecisionLogger's steps but the send.
Logs ==
    /\ \/ \E c \in setting.callers : calls < setting.calls /\ Push(c)
       \/ \E c \in Callers : CountDrop(c)
       \/ Tick
       \/ setting.stops /\ Stop
       \/ LoopExits
       \/ FinalFlush
       \/ \E f \in Flushers : Report(f) \/ Drain(f)
    /\ UNCHANGED sinkVars

\* s.client.IngestDecisionLogs: a new request, and so a new nonce.
Open(f) ==
    /\ flush[f] = "send"
    /\ stream[f] = 0
    /\ \E k \in Streams :
          /\ \A j \in 1..(k - 1) : encoder[j] # "idle"
          /\ RoundTrip(k)
          /\ stream' = [stream EXCEPT ![f] = k]
    /\ UNCHANGED <<vars, setting>>

\* stream.Send of the next entry.
SendEntry(f) ==
    /\ stream[f] # 0
    /\ LET k == stream[f]
       IN  /\ Len(source[k]) < Len(batch[f])
           /\ Write(k, batch[f][Len(source[k]) + 1])
    /\ UNCHANGED <<vars, stream, setting>>

\* CloseAndReceive, up to the wait for the answer.
CloseSend(f) ==
    /\ stream[f] # 0
    /\ Len(source[stream[f]]) = Len(batch[f])
    /\ Finish(stream[f], "eof")
    /\ UNCHANGED <<vars, stream, setting>>

\* Fault: Send does not wait for the answer.
AnsweredAtOnce(f) ==
    /\ stream[f] # 0
    /\ sourceEnd[stream[f]] = "eof"
    /\ Send(f)
    /\ stream' = [stream EXCEPT ![f] = 0]
    /\ UNCHANGED <<streamVars, setting>>

\* The control plane has read to the end and answers.
Answered(f) ==
    /\ stream[f] # 0
    /\ reader[stream[f]].closed
    /\ stream[f] \notin refused
    /\ Send(f)
    /\ stream' = [stream EXCEPT ![f] = 0]
    /\ UNCHANGED <<streamVars, setting>>

\* The control plane answers with an error, or the request is aborted.
Broken(k) == k \in refused \/ encoder[k] = "failing"

\* Send returns an error: the stream broke, or sendTimeout passed, with the entries
\* exposed so far arrived.  The deferred cancel aborts what is left of the request;
\* behind CloseSend the abort is a connection that is cut (Fault).
GivesUp(f) ==
    /\ stream[f] # 0
    /\ Broken(stream[f]) \/ sendFailures < setting.timeouts
    /\ SendFails(f, Len(exposed[stream[f]]))
    /\ IF sourceEnd[stream[f]] = "open" THEN Finish(stream[f], "error") ELSE UNCHANGED streamVars
    /\ stream' = [stream EXCEPT ![f] = 0]
    /\ UNCHANGED setting

Progress ==
    /\ \E k \in Streams : Encode(k) \/ Read(k)
    /\ UNCHANGED <<vars, stream, setting>>

Faulty ==
    /\ setting.faulty
    /\ \E k \in Streams : Fault(k)
    /\ UNCHANGED <<vars, stream, setting>>

Sends(f) == Open(f) \/ SendEntry(f) \/ CloseSend(f) \/ Answered(f) \/ GivesUp(f)

DeliveryInit ==
    /\ Init
    /\ StreamInit
    /\ stream = [f \in Flushers |-> 0]
    /\ setting \in Settings

DeliveryNext == Logs \/ Progress \/ Faulty \/ \E f \in Flushers : Sends(f)

DeliverySpec == DeliveryInit /\ [][DeliveryNext]_deliveryVars

\* As in DecisionLogger; the goroutines at the two ends of a stream are scheduled.
DeliveryFairness ==
    /\ WF_deliveryVars(Tick /\ UNCHANGED sinkVars)
    /\ WF_deliveryVars(LoopExits /\ UNCHANGED sinkVars)
    /\ WF_deliveryVars(FinalFlush /\ UNCHANGED sinkVars)
    /\ \A f \in Flushers : WF_deliveryVars(((Report(f) \/ Drain(f)) /\ UNCHANGED sinkVars) \/ Sends(f))
    /\ WF_deliveryVars((\E c \in Callers : CountDrop(c)) /\ UNCHANGED sinkVars)
    /\ WF_deliveryVars(Progress)

FairDeliverySpec == DeliverySpec /\ DeliveryFairness

(***************************************************************************)
(* Properties                                                              *)
(***************************************************************************)

Received == UNION {Elements(exposed[k]) : k \in Streams}

\* What the control plane has received is what the logger accounts for: an entry
\* of an acknowledged batch has been received; one received without that belongs
\* to a batch that is being sent or whose send was counted as failed, also when it
\* arrives after the timeout; and no entry arrives on two streams, or on a later
\* stream than an entry accepted after it (decision/sink.go:42-75,
\* decision/logger.go:116-142).
ReceiptsAccounted ==
    /\ Elements(delivered) \subseteq Received
    /\ Received \subseteq Elements(delivered) \cup lost
                             \cup Elements(batch["loop"]) \cup Elements(batch["stop"])
    /\ \A j, k \in Streams :
          j < k => \A x \in Elements(exposed[j]), y \in Elements(exposed[k]) : x < y
=============================================================================
