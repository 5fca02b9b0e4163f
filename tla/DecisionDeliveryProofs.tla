----------------------- MODULE DecisionDeliveryProofs ------------------------
(***************************************************************************)
(* The decision log, its signed streams and the two together, for any      *)
(* number of callers, any sizes and any number of transport faults.        *)
(*                                                                         *)
(* The logger: the inductive invariant places every accepted entry.  The   *)
(* buffer and the batches hold the last ones, consecutively, and only one  *)
(* flusher ever holds a batch, since Stop flushes after wg.Wait().         *)
(*                                                                         *)
(* The streams: every frame on a connection, however damaged, carries the  *)
(* code of a frame some encodeStream has written.  A frame that the reader *)
(* of stream k accepts carries the code of its own contents under k; codes *)
(* are injective, so it is a frame written on k, and its sequence number   *)
(* says which one.                                                         *)
(*                                                                         *)
(* Together: each is a refinement of its own specification, so what is     *)
(* proved of it holds of the whole; and the entries of a stream are those  *)
(* of the batch it was opened for.                                         *)
(***************************************************************************)
EXTENDS DecisionDelivery, Integers, TLAPS

(***************************************************************************)
(* Sequences                                                               *)
(***************************************************************************)

LEMMA SeqShape ==
    ASSUME NEW T, NEW s \in Seq(T)
    PROVE  /\ Len(s) \in Nat
           /\ s \in [1..Len(s) -> T]
           /\ DOMAIN s = 1..Len(s)
           /\ \A i \in 1..Len(s) : s[i] \in T
OBVIOUS

LEMMA SeqEmpty ==
    ASSUME NEW T
    PROVE  <<>> \in Seq(T) /\ Len(<<>>) = 0
OBVIOUS

LEMMA SeqNotEmpty ==
    ASSUME NEW T, NEW s \in Seq(T), s # <<>>
    PROVE  Len(s) >= 1
OBVIOUS

LEMMA SeqAppend ==
    ASSUME NEW T, NEW s \in Seq(T), NEW e \in T
    PROVE  /\ Append(s, e) \in Seq(T)
           /\ Len(Append(s, e)) = Len(s) + 1
           /\ \A i \in 1..Len(s) : Append(s, e)[i] = s[i]
           /\ Append(s, e)[Len(s) + 1] = e
OBVIOUS

LEMMA SeqHeadTail ==
    ASSUME NEW T, NEW s \in Seq(T), s # <<>>
    PROVE  /\ Head(s) \in T
           /\ Tail(s) \in Seq(T)
           /\ Len(Tail(s)) = Len(s) - 1
           /\ \A i \in 1..Len(Tail(s)) : Tail(s)[i] = s[i + 1]
OBVIOUS

LEMMA SeqConcat ==
    ASSUME NEW T, NEW s \in Seq(T), NEW t \in Seq(T)
    PROVE  /\ s \o t \in Seq(T)
           /\ Len(s \o t) = Len(s) + Len(t)
           /\ \A i \in 1..(Len(s) + Len(t)) :
                 (s \o t)[i] = IF i <= Len(s) THEN s[i] ELSE t[i - Len(s)]
OBVIOUS

LEMMA SeqSub ==
    ASSUME NEW T, NEW s \in Seq(T), NEW m \in Int, NEW n \in Int, \A i \in m..n : s[i] \in T
    PROVE  /\ SubSeq(s, m, n) \in Seq(T)
           /\ Len(SubSeq(s, m, n)) = IF m <= n THEN n - m + 1 ELSE 0
           /\ \A i \in 1..(n - m + 1) : SubSeq(s, m, n)[i] = s[m + i - 1]
OBVIOUS

LEMMA SeqWhole ==
    ASSUME NEW T, NEW s \in Seq(T)
    PROVE  SubSeq(s, 1, Len(s)) = s
OBVIOUS

LEMMA SeqExcept ==
    ASSUME NEW T, NEW s \in Seq(T), NEW i \in 1..Len(s), NEW e \in T
    PROVE  /\ [s EXCEPT ![i] = e] \in Seq(T)
           /\ Len([s EXCEPT ![i] = e]) = Len(s)
           /\ \A j \in 1..Len(s) : [s EXCEPT ![i] = e][j] = IF j = i THEN e ELSE s[j]
OBVIOUS

LEMMA SeqSame ==
    ASSUME NEW T, NEW s \in Seq(T), NEW t \in Seq(T), Len(s) = Len(t),
           \A i \in 1..Len(s) : s[i] = t[i]
    PROVE  s = t
OBVIOUS

(***************************************************************************)
(* The logger                                                              *)
(***************************************************************************)

\* Entries the sink has dealt with.
Handled == accepted - Len(buffer) - Len(batch["loop"]) - Len(batch["stop"])

Flushing(f) == flush[f] \in {"report", "drain", "send"}

Discipline ==
    /\ flush["loop"] \in {"waiting", "report", "drain", "send", "done"}
    /\ flush["stop"] \notin {"running", "waiting"} => flush["loop"] = "done"
    /\ \A f \in Flushers : flush[f] # "send" => Len(batch[f]) = 0
    /\ \A f \in Flushers : Len(batch[f]) <= FlushSize

Placed ==
    /\ \A i \in 1..Len(buffer) : buffer[i] = accepted - Len(buffer) + i
    /\ \A f \in Flushers : \A i \in 1..Len(batch[f]) : batch[f][i] = Handled + i

Settled ==
    /\ \A i \in 1..Len(delivered) : delivered[i] \in 1..Handled /\ delivered[i] \notin lost
    /\ lost \in SUBSET (1..Handled)
    /\ Handled \in Nat
    /\ \A e \in 1..Handled : e \in lost \/ \E i \in 1..Len(delivered) : delivered[i] = e

Inv == TypeOK /\ Discipline /\ Placed /\ Settled /\ DeliveredInOrder /\ accepted <= calls

\* Arithmetic of placement.
LEMMA Regroup ==
    ASSUME NEW a \in Int, NEW b \in Int, NEW d \in Int, NEW i \in Int
    PROVE  a - b + (i + d) = a - (b - d) + i
  OBVIOUS

LEMMA Shift ==
    ASSUME NEW h \in Int, NEW n \in Int, NEW m \in Int
    PROVE  /\ \A e \in (h + n + 1)..(h + m) : e - h \in (n + 1)..m /\ h + (e - h) = e
           /\ \A i \in (n + 1)..m : h + i \in (h + n + 1)..(h + m)
  OBVIOUS

\* At most one of the two flushers holds a batch.
LEMMA OneBatch ==
    ASSUME TypeOK, Discipline, NEW f \in Flushers, Flushing(f)
    PROVE  /\ \A g \in Flushers \ {f} : Len(batch[g]) = 0 /\ ~Flushing(g)
           /\ Handled = accepted - Len(buffer) - Len(batch[f])
           /\ flush[f] # "send" => Len(batch[f]) = 0
           /\ Handled \in Int
  <1>1. /\ \A g \in Flushers : Len(batch[g]) \in Nat
        /\ accepted \in Nat /\ Len(buffer) \in Nat
    BY DEF TypeOK
  <1>2. \A g \in Flushers \ {f} : flush[g] # "send" /\ ~Flushing(g)
    BY Zenon DEF Discipline, Flushers, Flushing
  <1>3. \A g \in Flushers \ {f} : Len(batch[g]) = 0
    BY <1>2, Zenon DEF Discipline
  <1>4. flush[f] # "send" => Len(batch[f]) = 0
    BY Zenon DEF Discipline
  <1>5. Handled = accepted - Len(buffer) - Len(batch[f])
    <2>1. CASE f = "loop"
      <3>1. Len(batch["stop"]) = 0 BY <1>3, <2>1, Zenon DEF Flushers
      <3>2. Len(batch["loop"]) \in Nat BY <1>1, Zenon DEF Flushers
      <3> QED BY <1>1, <2>1, <3>1, <3>2 DEF Handled
    <2>2. CASE f = "stop"
      <3>1. Len(batch["loop"]) = 0 BY <1>3, <2>2, Zenon DEF Flushers
      <3>2. Len(batch["stop"]) \in Nat BY <1>1, Zenon DEF Flushers
      <3> QED BY <1>1, <2>2, <3>1, <3>2 DEF Handled
    <2> QED BY <2>1, <2>2, Zenon DEF Flushers
  <1>6. Handled \in Int BY <1>1, <1>5
  <1> QED BY <1>2, <1>3, <1>4, <1>5, <1>6, Zenon

LEMMA InitInv == Init => Inv
  <1> SUFFICES ASSUME Init PROVE Inv
    BY Zenon
  <1>1. TypeOK BY LoggerAssumption DEF Init, TypeOK, Flushers
  <1>2. Discipline BY LoggerAssumption DEF Init, Discipline, Flushers
  <1>3. Handled = 0
    <2>1. accepted = 0 /\ Len(buffer) = 0 /\ Len(batch["loop"]) = 0 /\ Len(batch["stop"]) = 0
      BY Zenon DEF Init, Flushers
    <2> QED BY <2>1 DEF Handled
  <1>4. Placed /\ Settled BY <1>3 DEF Init, Placed, Settled, Flushers
  <1>5. DeliveredInOrder BY DEF Init, DeliveredInOrder
  <1>6. accepted <= calls BY DEF Init
  <1> QED BY <1>1, <1>2, <1>4, <1>5, <1>6, Zenon DEF Inv

\* The goroutines' control steps move no entry.
LEMMA ControlSteps ==
    ASSUME Inv, Tick \/ Stop \/ LoopExits \/ FinalFlush \/ (\E f \in Flushers : Report(f))
    PROVE  Inv'
  <1> USE DEF Inv
  <1>1. UNCHANGED <<buffer, dropped, sendFailures, batch, full, delivered, accepted, lost, calls>>
    BY Zenon DEF Tick, Stop, LoopExits, FinalFlush, Report
  <1>2. TypeOK'
    BY <1>1 DEF Tick, Stop, LoopExits, FinalFlush, Report, TypeOK, Flushers
  <1>3. Discipline'
    BY <1>1, Zenon DEF Tick, Stop, LoopExits, FinalFlush, Report, TypeOK, Discipline, Flushers
  <1>4. Handled' = Handled BY <1>1, Zenon DEF Handled
  <1>5. Placed' /\ Settled' BY <1>1, <1>4, SMTT(30) DEF Placed, Settled
  <1>6. DeliveredInOrder' /\ accepted' <= calls' BY <1>1, Zenon DEF DeliveredInOrder
  <1> QED BY <1>2, <1>3, <1>5, <1>6, Zenon

LEMMA CallerSteps ==
    ASSUME Inv, NEW c \in Callers, Push(c) \/ CountDrop(c)
    PROVE  Inv'
  <1> USE DEF Inv
  <1>1. CASE Push(c) /\ Len(buffer) >= BufferSize
    <2>1. /\ UNCHANGED <<buffer, accepted, dropped, reportedDrops, sendFailures, flush, batch,
                         delivered, lost, atStop>>
          /\ full' = full \cup {c} /\ c \notin full /\ calls' = calls + 1
      BY <1>1, Zenon DEF Push
    <2>2. TypeOK' BY <2>1 DEF TypeOK
    <2>3. Discipline' BY <2>1, Zenon DEF Discipline
    <2>4. Handled' = Handled BY <2>1, Zenon DEF Handled
    <2>5. Placed' /\ Settled' /\ DeliveredInOrder'
      BY <2>1, <2>4, Zenon DEF Placed, Settled, DeliveredInOrder
    <2>9. accepted' <= calls' BY <2>1 DEF TypeOK
    <2> QED BY <2>2, <2>3, <2>5, <2>9, Zenon
  <1>2. CASE Push(c) /\ ~(Len(buffer) >= BufferSize)
    <2>1. /\ buffer' = Append(buffer, accepted + 1) /\ accepted' = accepted + 1
          /\ calls' = calls + 1
          /\ UNCHANGED <<full, dropped, reportedDrops, sendFailures, flush, batch, delivered, lost,
                         atStop>>
      BY <1>2, Zenon DEF Push
    <2>2. /\ accepted \in Nat /\ buffer \in Seq(1..accepted) /\ Len(buffer) \in Nat
          /\ 1..accepted \in SUBSET (1..(accepted + 1))
      BY DEF TypeOK
    <2>3. /\ buffer \in Seq(1..(accepted + 1)) /\ delivered \in Seq(1..(accepted + 1))
          /\ \A f \in Flushers : batch[f] \in Seq(1..(accepted + 1))
      BY <2>2 DEF TypeOK
    <2>4. /\ Len(buffer') = Len(buffer) + 1
          /\ \A i \in 1..Len(buffer) : buffer'[i] = buffer[i]
          /\ buffer'[Len(buffer) + 1] = accepted + 1
          /\ buffer' \in Seq(1..(accepted + 1))
      BY <2>1, <2>2, <2>3
    <2>5. Len(buffer') <= BufferSize
      BY <1>2, <2>2, <2>4, LoggerAssumption
    <2>6. batch' \in [Flushers -> Seq(1..accepted')]
      BY <2>1, <2>3, Zenon DEF TypeOK
    <2>7. TypeOK' BY <2>1, <2>2, <2>3, <2>4, <2>5, <2>6 DEF TypeOK
    <2>8. Discipline' BY <2>1, Zenon DEF Discipline
    <2>9. \A f \in Flushers : Len(batch[f]) \in Nat BY DEF TypeOK
    <2>10. Handled' = Handled BY <2>1, <2>2, <2>4, <2>9 DEF Handled, Flushers
    <2>11. \A i \in 1..Len(buffer') : buffer'[i] = accepted' - Len(buffer') + i
      BY <2>1, <2>2, <2>4 DEF Placed
    <2>12. Placed' BY <2>1, <2>10, <2>11, Zenon DEF Placed
    <2>13. Settled' /\ DeliveredInOrder' BY <2>1, <2>10, Zenon DEF Settled, DeliveredInOrder
    <2>16. accepted' <= calls' BY <2>1 DEF TypeOK
    <2> QED BY <2>7, <2>8, <2>12, <2>13, <2>16, Zenon
  <1>3. CASE CountDrop(c)
    <2>1. /\ UNCHANGED <<buffer, accepted, reportedDrops, sendFailures, flush, batch, delivered,
                         lost, calls, atStop>>
          /\ full' = full \ {c} /\ c \in full /\ dropped' = dropped + 1
      BY <1>3, Zenon DEF CountDrop
    <2>2. TypeOK' BY <2>1 DEF TypeOK
    <2>3. Discipline' BY <2>1, Zenon DEF Discipline
    <2>4. Handled' = Handled BY <2>1, Zenon DEF Handled
    <2>5. Placed' /\ Settled' /\ DeliveredInOrder'
      BY <2>1, <2>4, Zenon DEF Placed, Settled, DeliveredInOrder
    <2>9. accepted' <= calls' BY <2>1, Zenon
    <2> QED BY <2>2, <2>3, <2>5, <2>9, Zenon
  <1> QED BY <1>1, <1>2, <1>3, Zenon

LEMMA DrainStep ==
    ASSUME Inv, NEW f \in Flushers, Drain(f)
    PROVE  Inv'
  <1> USE DEF Inv
  <1>1. Flushing(f) /\ flush[f] # "send" BY Zenon DEF Drain, Flushing
  <1>2. /\ Handled = accepted - Len(buffer) - Len(batch[f]) /\ Len(batch[f]) = 0
        /\ \A g \in Flushers \ {f} : Len(batch[g]) = 0 /\ ~Flushing(g)
    BY <1>1, OneBatch, Zenon
  <1>3. /\ buffer \in Seq(1..accepted) /\ Len(buffer) \in Nat /\ accepted \in Nat
        /\ Drained \in 0..Len(buffer) /\ Drained <= FlushSize
        /\ Drained = 0 <=> Len(buffer) = 0
    BY LoggerAssumption DEF TypeOK, Drained
  <1>4. /\ batch'[f] = SubSeq(buffer, 1, Drained)
        /\ \A g \in Flushers \ {f} : batch'[g] = batch[g]
        /\ buffer' = SubSeq(buffer, Drained + 1, Len(buffer))
        /\ flush' = [flush EXCEPT ![f] = IF buffer = <<>> THEN AfterFlush(f) ELSE "send"]
        /\ UNCHANGED <<dropped, reportedDrops, sendFailures, full, delivered, accepted, lost, calls,
                       atStop>>
    BY Zenon DEF Drain, TypeOK
  <1>5. /\ batch'[f] \in Seq(1..accepted) /\ Len(batch'[f]) = Drained
        /\ \A i \in 1..Drained : batch'[f][i] = buffer[i]
    BY <1>3, <1>4, SMTT(30)
  <1>6. /\ buffer' \in Seq(1..accepted) /\ Len(buffer') = Len(buffer) - Drained
        /\ \A i \in 1..(Len(buffer) - Drained) : buffer'[i] = buffer[i + Drained]
    <2> DEFINE from == Drained + 1
               rest == SubSeq(buffer, from, Len(buffer))
    <2>1. from \in 1..(Len(buffer) + 1) /\ Len(buffer) \in (from - 1)..Len(buffer)
      BY <1>3
    <2>2. /\ rest \in Seq(1..accepted) /\ Len(rest) = Len(buffer) - from + 1
          /\ \A i \in 1..(Len(buffer) - from + 1) : rest[i] = buffer[from + i - 1]
      <3> HIDE DEF from
      <3> QED BY <1>3, <2>1, SeqSub, SMTT(30)
    <2>3. Len(buffer) - from + 1 = Len(buffer) - Drained BY <1>3
    <2>4. \A i \in 1..(Len(buffer) - Drained) : from + i - 1 = i + Drained BY <1>3
    <2> QED BY <1>4, <2>2, <2>3, <2>4, Zenon
  <1>7. TypeOK'
    <2>1. batch' \in [Flushers -> Seq(1..accepted)]
      BY <1>5, Zenon DEF Drain, TypeOK
    <2>2. flush' \in [Flushers -> {"running", "waiting", "report", "drain", "send", "done"}]
      BY <1>4, Zenon DEF TypeOK, AfterFlush
    <2>3. Len(buffer') <= BufferSize
      BY <1>3, <1>6, LoggerAssumption DEF TypeOK
    <2> QED BY <1>4, <1>6, <2>1, <2>2, <2>3, Zenon DEF TypeOK
  <1>8. Discipline'
    <2>1. flush'[f] = IF buffer = <<>> THEN AfterFlush(f) ELSE "send"
      BY <1>4, Zenon DEF TypeOK
    <2>2. \A g \in Flushers \ {f} : flush'[g] = flush[g]
      BY <1>4, Zenon DEF TypeOK
    <2>3. flush'["loop"] \in {"waiting", "report", "drain", "send", "done"}
      BY <2>1, <2>2, Zenon DEF Discipline, AfterFlush, Flushers
    <2>4. flush'["stop"] \notin {"running", "waiting"} => flush'["loop"] = "done"
      BY <1>1, <2>1, <2>2, Zenon DEF Discipline, AfterFlush, Flushers, Flushing
    <2>5. flush'[f] # "send" => Len(batch'[f]) = 0
      BY <1>3, <1>5, <2>1
    <2>6. \A g \in Flushers : flush'[g] # "send" => Len(batch'[g]) = 0
      <3> SUFFICES ASSUME NEW g \in Flushers, g # f PROVE Len(batch'[g]) = 0
        BY <2>5, Zenon
      <3> QED BY <1>2, <1>4
    <2>7. \A g \in Flushers : Len(batch'[g]) <= FlushSize
      BY <1>3, <1>4, <1>5, Zenon DEF Discipline
    <2> QED BY <2>3, <2>4, <2>6, <2>7, Zenon DEF Discipline
  <1>9. /\ \A g \in Flushers \ {f} : Len(batch'[g]) = 0
        /\ Len(batch'[f]) = Drained
    <2> SUFFICES ASSUME NEW g \in Flushers \ {f} PROVE Len(batch'[g]) = 0
      BY <1>5, Zenon
    <2> QED BY <1>2, <1>4
  <1>10. Handled' = accepted' - Len(buffer') - Len(batch'[f])
    <2>1. Len(buffer') \in Int /\ accepted' \in Int /\ Len(batch'[f]) \in Int
      BY <1>3, <1>4, <1>6, <1>9
    <2>2. CASE f = "loop"
      <3>1. Len(batch'["stop"]) = 0 BY <1>9, <2>2, Zenon DEF Flushers
      <3> QED BY <2>1, <2>2, <3>1 DEF Handled
    <2>3. CASE f = "stop"
      <3>1. Len(batch'["loop"]) = 0 BY <1>9, <2>3, Zenon DEF Flushers
      <3> QED BY <2>1, <2>3, <3>1 DEF Handled
    <2> QED BY <2>2, <2>3, Zenon DEF Flushers
  <1>11. Handled' = Handled /\ Handled = accepted - Len(buffer)
    BY <1>2, <1>3, <1>4, <1>6, <1>9, <1>10
  <1>12. Placed'
    <2>1. \A i \in 1..Len(buffer') : buffer'[i] = accepted' - Len(buffer') + i
      <3> SUFFICES ASSUME NEW i \in 1..Len(buffer') PROVE buffer'[i] = accepted' - Len(buffer') + i
        BY Zenon
      <3>1. buffer'[i] = buffer[i + Drained] /\ i + Drained \in 1..Len(buffer)
        BY <1>3, <1>6
      <3>2. buffer[i + Drained] = accepted - Len(buffer) + (i + Drained) BY <3>1, Zenon DEF Placed
      <3>3. i \in Int /\ Drained \in Int /\ Len(buffer') = Len(buffer) - Drained
        BY <1>3, <1>6
      <3>4. accepted - Len(buffer) + (i + Drained) = accepted - (Len(buffer) - Drained) + i
        <4>1. accepted \in Int /\ Len(buffer) \in Int BY <1>3
        <4> QED BY <3>3, <4>1, Regroup
      <3>5. accepted' = accepted BY <1>4, Zenon
      <3> QED BY <3>1, <3>2, <3>3, <3>4, <3>5, Zenon
    <2>2. \A i \in 1..Len(batch'[f]) : batch'[f][i] = Handled' + i
      BY <1>3, <1>5, <1>11, SMTT(30) DEF Placed
    <2> QED BY <1>9, <2>1, <2>2 DEF Placed
  <1>13. Settled' /\ DeliveredInOrder'
    BY <1>4, <1>11, Zenon DEF Settled, DeliveredInOrder
  <1>14. accepted' <= calls' BY <1>4, Zenon
  <1> QED BY <1>7, <1>8, <1>12, <1>13, <1>14, Zenon

\* A send, whole or not: the first n entries of the batch arrive, the others are lost.
SinkStep(f, n) ==
    /\ flush[f] = "send"
    /\ delivered' = delivered \o SubSeq(batch[f], 1, n)
    /\ lost' = lost \cup {batch[f][i] : i \in (n + 1)..Len(batch[f])}
    /\ batch' = [batch EXCEPT ![f] = <<>>]
    /\ flush' = [flush EXCEPT ![f] = AfterFlush(f)]
    /\ UNCHANGED <<buffer, dropped, reportedDrops, full, accepted, calls, atStop>>
    /\ IF n = Len(batch[f]) THEN sendFailures' \in {sendFailures, sendFailures + 1}
                            ELSE sendFailures' = sendFailures + 1

LEMMA SinkSteps ==
    ASSUME Inv, NEW f \in Flushers, Send(f) \/ (\E n \in 0..FlushSize : SendFails(f, n))
    PROVE  \E n \in 0..Len(batch[f]) : SinkStep(f, n)
  <1>1. batch[f] \in Seq(1..accepted) /\ Len(batch[f]) \in Nat
    BY DEF Inv, TypeOK
  <1>2. CASE Send(f)
    <2> DEFINE n == Len(batch[f])
    <2>1. SubSeq(batch[f], 1, n) = batch[f] BY <1>1, SeqWhole, Zenon
    <2>2. (n + 1)..n = {} BY <1>1
    <2>3. {batch[f][i] : i \in (n + 1)..Len(batch[f])} = {} BY <2>2, Zenon
    <2>4. SinkStep(f, n) BY <1>2, <2>1, <2>3, SMTT(30) DEF Send, SinkStep
    <2>5. n \in 0..Len(batch[f]) BY <1>1
    <2> QED BY <2>4, <2>5, Zenon
  <1>3. CASE \E n \in 0..FlushSize : SendFails(f, n)
    <2>1. PICK n \in 0..FlushSize : SendFails(f, n) BY <1>3, Zenon
    <2>2. n \in 0..Len(batch[f]) /\ SinkStep(f, n) BY <2>1, Zenon DEF SendFails, SinkStep
    <2> QED BY <2>2, Zenon
  <1> QED BY <1>2, <1>3, Zenon

\* The entries of a batch after the n-th are consecutive.
LEMMA LateEntries ==
    ASSUME Inv, NEW f \in Flushers, NEW n \in 0..Len(batch[f])
    PROVE  {batch[f][i] : i \in (n + 1)..Len(batch[f])} = (Handled + n + 1)..(Handled + Len(batch[f]))
  <1> USE DEF Inv
  <1> DEFINE size == Len(batch[f])
             late == {batch[f][i] : i \in (n + 1)..size}
  <1>1. size \in Nat /\ n \in Nat /\ n <= size /\ Handled \in Int BY DEF TypeOK, Settled
  <1>2. \A i \in (n + 1)..size : i \in 1..size /\ batch[f][i] = Handled + i
    BY <1>1 DEF Placed
  <1>3. /\ \A e \in (Handled + n + 1)..(Handled + size) :
              e - Handled \in (n + 1)..size /\ Handled + (e - Handled) = e
        /\ \A i \in (n + 1)..size : Handled + i \in (Handled + n + 1)..(Handled + size)
    <2>1. size \in Int /\ n \in Int /\ Handled \in Int BY <1>1
    <2> HIDE DEF size
    <2> QED BY <2>1, Shift, Zenon
  <1>4. \A e \in late : e \in (Handled + n + 1)..(Handled + size)
    BY <1>2, <1>3
  <1>5. \A e \in (Handled + n + 1)..(Handled + size) : e \in late
    <2> SUFFICES ASSUME NEW e \in (Handled + n + 1)..(Handled + size) PROVE e \in late
      BY Zenon
    <2>1. e - Handled \in (n + 1)..size /\ batch[f][e - Handled] = e
      BY <1>2, <1>3, Zenon
    <2> QED BY <2>1, Zenon
  <1> HIDE DEF late
  <1>6. late = (Handled + n + 1)..(Handled + size) BY <1>4, <1>5, Zenon
  <1> QED BY <1>6, Zenon DEF late

LEMMA FirstOf ==
    ASSUME NEW S, NEW s \in Seq(S), NEW n \in 0..Len(s)
    PROVE  /\ SubSeq(s, 1, n) \in Seq(S) /\ Len(SubSeq(s, 1, n)) = n
           /\ \A i \in 1..n : SubSeq(s, 1, n)[i] = s[i]
  OBVIOUS

LEMMA SinkInv ==
    ASSUME Inv, NEW f \in Flushers, NEW n \in 0..Len(batch[f]), SinkStep(f, n)
    PROVE  Inv'
  <1> USE DEF Inv
  <1> DEFINE size == Len(batch[f])
             part == SubSeq(batch[f], 1, n)
             late == {batch[f][i] : i \in (n + 1)..size}
             old == Len(delivered)
  <1>1. Flushing(f) /\ flush[f] = "send" BY Zenon DEF SinkStep, Flushing
  <1>2. /\ Handled = accepted - Len(buffer) - size
        /\ \A g \in Flushers \ {f} : Len(batch[g]) = 0 /\ ~Flushing(g)
        /\ Handled \in Int
    BY <1>1, OneBatch, Zenon
  <1>3. /\ batch[f] \in Seq(1..accepted) /\ size \in Nat /\ n \in Nat /\ n <= size
        /\ accepted \in Nat /\ Len(buffer) \in Nat /\ delivered \in Seq(1..accepted) /\ old \in Nat
        /\ size <= FlushSize
    BY DEF TypeOK, Discipline
  <1>4. /\ delivered' = delivered \o part /\ lost' = lost \cup late
        /\ batch'[f] = <<>> /\ \A g \in Flushers \ {f} : batch'[g] = batch[g]
        /\ flush' = [flush EXCEPT ![f] = AfterFlush(f)]
        /\ UNCHANGED <<buffer, dropped, reportedDrops, full, accepted, calls, atStop>>
    BY Zenon DEF SinkStep, TypeOK
  <1>5. /\ part \in Seq(1..accepted) /\ Len(part) = n
        /\ \A i \in 1..n : part[i] = Handled + i
    <2>1. /\ part \in Seq(1..accepted) /\ Len(part) = n
          /\ \A i \in 1..n : part[i] = batch[f][i]
      BY <1>3, FirstOf, Zenon
    <2>2. \A i \in 1..n : i \in 1..size BY <1>3
    <2> QED BY <2>1, <2>2, Zenon DEF Placed
  <1>6. late = (Handled + n + 1)..(Handled + size) BY LateEntries, Zenon
  <1>7. /\ delivered' \in Seq(1..accepted) /\ Len(delivered') = old + n
        /\ \A i \in 1..old : delivered'[i] = delivered[i]
        /\ \A i \in (old + 1)..(old + n) : delivered'[i] = Handled + (i - old)
    <2>1. /\ delivered' \in Seq(1..accepted) /\ Len(delivered') = old + n
          /\ \A i \in 1..old : delivered'[i] = delivered[i]
          /\ \A i \in (old + 1)..(old + n) : delivered'[i] = part[i - old]
      <3>1. delivered \in Seq(1..accepted) /\ part \in Seq(1..accepted) /\ Len(part) = n
        BY <1>3, <1>5, Zenon
      <3>2. delivered' = delivered \o part /\ old \in Nat /\ n \in Nat
        BY <1>3, <1>4, Zenon
      <3> HIDE DEF part
      <3>3. /\ delivered \o part \in Seq(1..accepted) /\ Len(delivered \o part) = old + n
            /\ \A i \in 1..(old + n) : (delivered \o part)[i] =
                  IF i <= old THEN delivered[i] ELSE part[i - old]
        BY <3>1, SeqConcat, Zenon
      <3> HIDE DEF old, Inv
      <3> QED BY <3>2, <3>3, SMTT(30)
    <2>2. \A i \in (old + 1)..(old + n) : i - old \in 1..n BY <1>3
    <2> HIDE DEF part, old
    <2> QED BY <1>5, <2>1, <2>2, Zenon
  <1>8. /\ \A g \in Flushers : Len(batch'[g]) = 0
        /\ Handled' = Handled + size
    <2>1. \A g \in Flushers : Len(batch'[g]) = 0
      <3> SUFFICES ASSUME NEW g \in Flushers, g # f PROVE Len(batch'[g]) = 0
        BY <1>4
      <3> QED BY <1>2, <1>4, Zenon
    <2>2. Len(batch'["loop"]) = 0 /\ Len(batch'["stop"]) = 0 BY <2>1, Zenon DEF Flushers
    <2>3. Handled' = accepted - Len(buffer) BY <1>3, <1>4, <2>2 DEF Handled
    <2> QED BY <1>2, <1>3, <2>1, <2>3
  <1>9. TypeOK'
    <2>1. batch' \in [Flushers -> Seq(1..accepted)]
      <3>1. <<>> \in Seq(1..accepted) OBVIOUS
      <3> QED BY <3>1, Zenon DEF SinkStep, TypeOK
    <2>2. flush' \in [Flushers -> {"running", "waiting", "report", "drain", "send", "done"}]
      BY <1>4, Zenon DEF TypeOK, AfterFlush
    <2>3. late \in SUBSET (1..accepted)
      <3>1. \A i \in (n + 1)..size : i \in 1..size BY <1>3
      <3>2. \A i \in 1..size : batch[f][i] \in 1..accepted BY <1>3
      <3> QED BY <3>1, <3>2, Zenon
    <2>4. sendFailures' \in Nat BY DEF SinkStep, TypeOK
    <2> QED BY <1>4, <1>7, <2>1, <2>2, <2>3, <2>4, Zenon DEF TypeOK
  <1>10. Discipline'
    <2>1. flush'[f] = AfterFlush(f) /\ \A g \in Flushers \ {f} : flush'[g] = flush[g]
      BY <1>4, Zenon DEF TypeOK
    <2>2. flush'["loop"] \in {"waiting", "report", "drain", "send", "done"}
      BY <2>1, Zenon DEF Discipline, AfterFlush, Flushers
    <2>3. flush'["stop"] \notin {"running", "waiting"} => flush'["loop"] = "done"
      BY <1>1, <2>1, Zenon DEF Discipline, AfterFlush, Flushers
    <2> QED BY <1>8, <2>2, <2>3, LoggerAssumption DEF Discipline
  <1>11. Placed'
    <2>1. \A g \in Flushers : 1..Len(batch'[g]) = {} BY <1>8
    <2> QED BY <1>4, <2>1, Zenon DEF Placed
  <1> HIDE DEF size, part, late, old
  <1>12. Settled'
    <2>1. /\ Handled \in Nat /\ lost \in SUBSET (1..Handled)
          /\ \A i \in 1..old : delivered[i] \in 1..Handled /\ delivered[i] \notin lost
      BY Zenon DEF Settled, old
    <2>2. \A e \in 1..Handled : e \in lost \/ \E i \in 1..old : delivered[i] = e
      BY Zenon DEF Settled, old
    <2>3. Handled' \in Nat /\ 1..Handled \in SUBSET (1..Handled') BY <1>3, <1>8, <2>1
    <2>4. \A e \in 1..Handled : e \notin late BY <1>3, <1>6, <2>1
    <2>5. \A i \in (old + 1)..(old + n) :
             Handled + (i - old) \in (Handled + 1)..(Handled + n)
      BY <1>3, <2>1
    <2>6. \A e \in (Handled + 1)..(Handled + n) : e \in 1..Handled' /\ e \notin lost /\ e \notin late
      BY <1>3, <1>6, <1>8, <2>1
    <2>7. \A i \in 1..Len(delivered') : delivered'[i] \in 1..Handled' /\ delivered'[i] \notin lost'
      <3> SUFFICES ASSUME NEW i \in 1..(old + n)
                   PROVE  delivered'[i] \in 1..Handled' /\ delivered'[i] \notin lost'
        BY <1>7, Zenon
      <3>1. CASE i \in 1..old
        BY <1>4, <1>7, <2>1, <2>3, <2>4, <3>1, Zenon
      <3>2. CASE i \in (old + 1)..(old + n)
        BY <1>4, <1>7, <2>5, <2>6, <3>2, Zenon
      <3> QED BY <1>3, <3>1, <3>2
    <2>8. late \in SUBSET (1..Handled') BY <1>3, <1>6, <1>8, <2>1
    <2>9. ASSUME NEW e \in 1..Handled'
          PROVE  e \in lost' \/ \E i \in 1..Len(delivered') : delivered'[i] = e
      <3>1. e \in Int /\ (e \in 1..Handled \/ e \in (Handled + 1)..(Handled + n) \/ e \in late)
        BY <1>3, <1>6, <1>8, <2>1
      <3>2. CASE e \in 1..Handled /\ e \notin lost
        <4>1. PICK i \in 1..old : delivered[i] = e BY <2>2, <3>2, Zenon
        <4>2. i \in 1..Len(delivered') /\ delivered'[i] = e BY <1>3, <1>7, <4>1, SMTT(30)
        <4> QED BY <4>2, Zenon
      <3>3. CASE e \in (Handled + 1)..(Handled + n)
        <4> DEFINE i == old + (e - Handled)
        <4>1. i \in (old + 1)..(old + n) /\ Handled + (i - old) = e
          BY <1>3, <2>1, <3>1, <3>3
        <4>2. i \in 1..Len(delivered') BY <1>3, <1>7, <4>1
        <4> HIDE DEF i
        <4> QED BY <1>7, <4>1, <4>2, Zenon
      <3> QED BY <1>4, <3>1, <3>2, <3>3, Zenon
    <2> QED BY <1>4, <2>1, <2>3, <2>7, <2>8, <2>9, Zenon DEF Settled
  <1>13. DeliveredInOrder'
    <2>1. \A i \in 1..old : delivered[i] \in 1..Handled /\ Handled \in Nat BY Zenon DEF Settled, old
    <2> SUFFICES ASSUME NEW i \in 1..(old + n), NEW j \in 1..(old + n), i < j
                 PROVE  delivered'[i] < delivered'[j]
      BY <1>7, Zenon DEF DeliveredInOrder
    <2>2. CASE j <= old
      <3>1. i \in 1..old /\ j \in 1..old BY <1>3, <2>2
      <3> QED BY <1>7, <3>1, Zenon DEF DeliveredInOrder, old
    <2>3. CASE ~(i <= old)
      <3>1. i \in (old + 1)..(old + n) /\ j \in (old + 1)..(old + n) BY <1>3, <2>3
      <3>2. delivered'[i] = Handled + (i - old) /\ delivered'[j] = Handled + (j - old)
        BY <1>7, <3>1, Zenon
      <3> QED BY <1>2, <1>3, <3>2
    <2>4. CASE i <= old /\ ~(j <= old)
      <3>1. i \in 1..old /\ j \in (old + 1)..(old + n) BY <1>3, <2>4
      <3>2. delivered'[i] \in 1..Handled /\ delivered'[j] = Handled + (j - old)
        BY <1>7, <2>1, <3>1, Zenon
      <3> QED BY <1>2, <1>3, <3>1, <3>2
    <2> QED BY <1>3, <2>2, <2>3, <2>4, Zenon
  <1>14. accepted' <= calls' BY <1>4, Zenon
  <1> QED BY <1>9, <1>10, <1>11, <1>12, <1>13, <1>14, Zenon

LEMMA NextInv == Inv /\ [Next]_vars => Inv'
  <1> SUFFICES ASSUME Inv, [Next]_vars PROVE Inv'
    BY Zenon
  <1>1. ASSUME NEW c \in Callers, Push(c) \/ CountDrop(c) PROVE Inv'
    BY <1>1, CallerSteps, Zenon
  <1>2. CASE Tick \/ Stop \/ LoopExits \/ FinalFlush
    BY <1>2, ControlSteps, Zenon
  <1>3. ASSUME NEW f \in Flushers, Flush(f) PROVE Inv'
    <2>1. CASE Report(f) BY <2>1, ControlSteps, Zenon
    <2>2. CASE Drain(f) BY <2>2, DrainStep, Zenon
    <2>3. CASE Send(f) \/ \E n \in 0..FlushSize : SendFails(f, n)
      <3>1. PICK n \in 0..Len(batch[f]) : SinkStep(f, n) BY <2>3, SinkSteps, Zenon
      <3> QED BY <3>1, SinkInv, Zenon
    <2> QED BY <1>3, <2>1, <2>2, <2>3, Zenon DEF Flush
  <1>4. CASE UNCHANGED vars
    <2>1. Handled' = Handled BY <1>4, Zenon DEF vars, Handled
    <2>2. TypeOK' /\ Discipline' BY <1>4, Zenon DEF vars, Inv, TypeOK, Discipline
    <2>3. Placed' /\ Settled' BY <1>4, <2>1, Zenon DEF vars, Inv, Placed, Settled
    <2>4. DeliveredInOrder' /\ accepted' <= calls'
      BY <1>4, Zenon DEF vars, Inv, DeliveredInOrder
    <2> QED BY <2>2, <2>3, <2>4, Zenon DEF Inv
  <1> QED BY <1>1, <1>2, <1>3, <1>4, Zenon DEF Next

\* What waits are the entries after the last one the sink has dealt with.
LEMMA ConservedFromInv == Inv => EntriesConserved
  <1> SUFFICES ASSUME Inv PROVE EntriesConserved
    BY Zenon
  <1> USE DEF Inv
  <1> DEFINE b1 == batch["loop"]
             b2 == batch["stop"]
  <1>1. accepted \in Nat /\ Len(b1) \in Nat /\ Len(b2) \in Nat /\ Len(buffer) \in Nat
    BY DEF TypeOK, Flushers
  <1>2. Len(b1) = 0 \/ Len(b2) = 0
    BY Zenon DEF Discipline, Flushers
  <1>3. /\ \A i \in 1..Len(b1) : b1[i] = Handled + i
        /\ \A i \in 1..Len(b2) : b2[i] = Handled + i
        /\ \A i \in 1..Len(buffer) : buffer[i] = accepted - Len(buffer) + i
    BY Zenon DEF Placed, Flushers
  <1>4. Handled = accepted - Len(buffer) - Len(b1) - Len(b2) /\ Handled \in Nat
    BY Zenon DEF Handled, Settled
  <1>5. Waiting = Elements(buffer) \cup Elements(b1) \cup Elements(b2)
    BY Zenon DEF Waiting
  <1> HIDE DEF b1, b2
  <1>6. \A e \in Waiting : e \in (Handled + 1)..accepted
    <2>1. \A i \in 1..Len(b1) : Handled + i \in (Handled + 1)..accepted BY <1>1, <1>4
    <2>2. \A i \in 1..Len(b2) : Handled + i \in (Handled + 1)..accepted BY <1>1, <1>4
    <2>3. \A i \in 1..Len(buffer) : accepted - Len(buffer) + i \in (Handled + 1)..accepted
      BY <1>1, <1>4
    <2> QED BY <1>3, <1>5, <2>1, <2>2, <2>3 DEF Elements
  <1>7. ASSUME NEW e \in (Handled + 1)..accepted PROVE e \in Waiting
    <2> DEFINE i == e - Handled
               j == e - (accepted - Len(buffer))
    <2>1. i \in 1..Len(b1) /\ Handled + i = e => e \in Elements(b1) BY <1>3, Zenon DEF Elements
    <2>2. i \in 1..Len(b2) /\ Handled + i = e => e \in Elements(b2) BY <1>3, Zenon DEF Elements
    <2>3. j \in 1..Len(buffer) /\ accepted - Len(buffer) + j = e => e \in Elements(buffer)
      BY <1>3, Zenon DEF Elements
    <2>4. Handled + i = e /\ accepted - Len(buffer) + j = e BY <1>1, <1>4
    <2>5. i \in 1..Len(b1) \/ i \in 1..Len(b2) \/ j \in 1..Len(buffer) BY <1>1, <1>2, <1>4
    <2> HIDE DEF i, j
    <2> QED BY <1>5, <2>1, <2>2, <2>3, <2>4, <2>5, Zenon
  <1>8. Elements(delivered) \cup lost = 1..Handled /\ Elements(delivered) \cap lost = {}
    BY Zenon DEF Settled, Elements
  <1>9. /\ (1..Handled) \cup ((Handled + 1)..accepted) = 1..accepted
        /\ (1..Handled) \cap ((Handled + 1)..accepted) = {}
    BY <1>1, <1>4
  <1>10. \A i, j \in 1..Len(delivered) : delivered[i] = delivered[j] => i = j
    <2>1. \A i \in 1..Len(delivered) : delivered[i] \in Nat BY DEF Settled
    <2>2. Len(delivered) \in Nat BY DEF TypeOK
    <2> QED BY <2>1, <2>2 DEF DeliveredInOrder
  <1>11. Waiting = (Handled + 1)..accepted BY <1>6, <1>7, Zenon
  <1> QED BY <1>8, <1>9, <1>10, <1>11, Zenon DEF EntriesConserved

\* The shapes and the buffer's bound, for any capacity.
THEOREM LoggerTypes == Spec => []TypeOK
  <1>1. Inv => TypeOK BY Zenon DEF Inv
  <1> QED BY <1>1, InitInv, NextInv, PTL DEF Spec

\* Every accepted entry is delivered once, lost in a counted failure, or waiting.
THEOREM Conservation == Spec => []EntriesConserved
  BY InitInv, NextInv, ConservedFromInv, PTL DEF Spec

\* The control plane receives decisions in the order they were accepted.
THEOREM Ordered == Spec => []DeliveredInOrder
  <1>1. Inv => DeliveredInOrder BY Zenon DEF Inv
  <1> QED BY <1>1, InitInv, NextInv, PTL DEF Spec

(***************************************************************************)
(* Sequences whose elements have no common type: the codes nest            *)
(***************************************************************************)

IsSequence(s) == \E T : s \in Seq(T)
ElementsOf(s) == {s[i] : i \in 1..Len(s)}

LEMMA SequenceLen ==
    ASSUME NEW s, IsSequence(s)
    PROVE  /\ Len(s) \in Nat
           /\ s # <<>> => Len(s) >= 1
           /\ s \in Seq(ElementsOf(s))
<1> PICK T : s \in Seq(T) BY Zenon DEF IsSequence
<1>1. Len(s) \in Nat /\ s \in [1..Len(s) -> T] /\ DOMAIN s = 1..Len(s) BY SeqShape, Zenon
<1>2. s # <<>> => Len(s) >= 1 BY SeqNotEmpty, Zenon
<1>3. s \in [1..Len(s) -> ElementsOf(s)] BY <1>1, Zenon DEF ElementsOf
<1> QED BY <1>1, <1>2, <1>3

LEMMA SequenceAppend ==
    ASSUME NEW s, IsSequence(s), NEW e
    PROVE  /\ IsSequence(Append(s, e))
           /\ Len(Append(s, e)) = Len(s) + 1
           /\ \A i \in 1..Len(s) : Append(s, e)[i] = s[i]
           /\ Append(s, e)[Len(s) + 1] = e
           /\ ElementsOf(Append(s, e)) = ElementsOf(s) \cup {e}
<1> DEFINE T == ElementsOf(s) \cup {e}
<1>1. s \in Seq(T) /\ Len(s) \in Nat
  <2>1. s \in Seq(ElementsOf(s)) /\ Len(s) \in Nat BY SequenceLen, Zenon
  <2>2. Seq(ElementsOf(s)) \subseteq Seq(T) OBVIOUS
  <2> QED BY <2>1, <2>2, Zenon
<1> HIDE DEF T
<1>2. e \in T BY Zenon DEF T
<1>3. /\ Append(s, e) \in Seq(T)
      /\ Len(Append(s, e)) = Len(s) + 1
      /\ \A i \in 1..Len(s) : Append(s, e)[i] = s[i]
      /\ Append(s, e)[Len(s) + 1] = e
  BY <1>1, <1>2, SeqAppend, Zenon
<1>4. ElementsOf(Append(s, e)) = ElementsOf(s) \cup {e}
  BY <1>1, <1>3 DEF ElementsOf
<1> QED BY <1>3, <1>4, Zenon DEF IsSequence

LEMMA SequenceTail ==
    ASSUME NEW s, IsSequence(s), s # <<>>
    PROVE  /\ IsSequence(Tail(s))
           /\ ElementsOf(Tail(s)) \subseteq ElementsOf(s)
           /\ Head(s) \in ElementsOf(s)
<1>1. s \in Seq(ElementsOf(s)) /\ Len(s) \in Nat /\ Len(s) >= 1 BY SequenceLen, Zenon
<1>2. /\ Head(s) \in ElementsOf(s)
      /\ Tail(s) \in Seq(ElementsOf(s))
      /\ Len(Tail(s)) = Len(s) - 1
      /\ \A i \in 1..Len(Tail(s)) : Tail(s)[i] = s[i + 1]
  BY <1>1, SeqHeadTail, Zenon
<1>3. ElementsOf(Tail(s)) \subseteq ElementsOf(s)
  BY <1>1, <1>2 DEF ElementsOf
<1> QED BY <1>2, <1>3, Zenon DEF IsSequence

LEMMA SequenceSubSeq ==
    ASSUME NEW s, IsSequence(s), NEW m \in 1..(Len(s) + 1), NEW n \in 0..Len(s)
    PROVE  SubSeq(s, m, n) \in Seq(ElementsOf(s))
<1>1. Len(s) \in Nat BY SequenceLen, Zenon
<1>2. \A i \in m..n : s[i] \in ElementsOf(s) BY <1>1 DEF ElementsOf
<1> QED BY <1>1, <1>2, SeqSub

\* A sequence over T is one, and its elements are in T.
LEMMA SequenceOver ==
    ASSUME NEW T, NEW s \in Seq(T)
    PROVE  IsSequence(s) /\ ElementsOf(s) \subseteq T
BY SeqShape DEF IsSequence, ElementsOf

LEMMA SequenceWithout ==
    ASSUME NEW s, IsSequence(s), NEW i \in 1..Len(s)
    PROVE  IsSequence(Without(s, i)) /\ ElementsOf(Without(s, i)) \subseteq ElementsOf(s)
<1>1. Len(s) \in Nat BY SequenceLen, Zenon
<1>2. SubSeq(s, 1, i - 1) \in Seq(ElementsOf(s)) BY <1>1, SequenceSubSeq
<1>3. SubSeq(s, i + 1, Len(s)) \in Seq(ElementsOf(s)) BY <1>1, SequenceSubSeq
<1>4. Without(s, i) \in Seq(ElementsOf(s)) BY <1>2, <1>3, SeqConcat, Zenon DEF Without
<1> QED BY <1>4, SequenceOver, Zenon

LEMMA WithoutLen ==
    ASSUME NEW s, IsSequence(s), NEW i \in 1..Len(s)
    PROVE  Len(Without(s, i)) = Len(s) - 1
<1> DEFINE a == SubSeq(s, 1, i - 1)
           b == SubSeq(s, i + 1, Len(s))
<1>1. Len(s) \in Nat BY SequenceLen, Zenon
<1>2. \A n \in 1..Len(s) : s[n] \in ElementsOf(s) BY Zenon DEF ElementsOf
<1>3. a \in Seq(ElementsOf(s)) /\ Len(a) = i - 1
  BY <1>1, <1>2, SeqSub
<1>4. b \in Seq(ElementsOf(s)) /\ Len(b) = Len(s) - i
  BY <1>1, <1>2, SeqSub
<1>5. Without(s, i) = a \o b BY Zenon DEF Without
<1> HIDE DEF a, b
<1>6. Len(a \o b) = Len(a) + Len(b) BY <1>3, <1>4, SeqConcat, Zenon
<1> QED BY <1>1, <1>3, <1>4, <1>5, <1>6

LEMMA SequenceWith ==
    ASSUME NEW s, IsSequence(s), NEW i \in 1..(Len(s) + 1), NEW f
    PROVE  IsSequence(With(s, i, f)) /\ ElementsOf(With(s, i, f)) \subseteq ElementsOf(s) \cup {f}
<1> DEFINE T == ElementsOf(s) \cup {f}
           a == SubSeq(s, 1, i - 1)
           b == SubSeq(s, i, Len(s))
<1>1. Len(s) \in Nat BY SequenceLen, Zenon
<1>2. Seq(ElementsOf(s)) \subseteq Seq(T) OBVIOUS
<1>3. a \in Seq(ElementsOf(s)) BY <1>1, SequenceSubSeq
<1>4. b \in Seq(ElementsOf(s)) BY <1>1, SequenceSubSeq
<1>5. a \in Seq(T) /\ b \in Seq(T) BY <1>2, <1>3, <1>4, Zenon
<1>6. <<f>> \in Seq(T) OBVIOUS
<1>7. With(s, i, f) = a \o <<f>> \o b BY Zenon DEF With
<1> HIDE DEF T, a, b
<1>8. a \o <<f>> \in Seq(T) BY <1>5, <1>6, SeqConcat, Zenon
<1>9. a \o <<f>> \o b \in Seq(T) BY <1>5, <1>8, SeqConcat, Zenon
<1>10. IsSequence(With(s, i, f)) /\ ElementsOf(With(s, i, f)) \subseteq T
  BY <1>7, <1>9, SequenceOver, Zenon
<1> QED BY <1>10, Zenon DEF T

(***************************************************************************)
(* The inductive invariant                                                 *)
(***************************************************************************)

Shape ==
    /\ source \in [Streams -> Seq(Messages)]
    /\ sourceEnd \in [Streams -> {"open", "eof", "error"}]
    /\ encoder \in [Streams -> {"idle", "running", "closing", "failing", "done"}]
    /\ DOMAIN sent = Streams /\ \A k \in Streams : IsSequence(sent[k])
    /\ DOMAIN wire = Streams /\ \A k \in Streams : IsSequence(wire[k])
    /\ DOMAIN reader = Streams
    /\ \A k \in Streams : reader[k].sequence \in Nat /\ reader[k].closed \in BOOLEAN
    /\ exposed \in [Streams -> Seq(Messages)]

IsFrame(f) == DOMAIN f = {"kind", "sequence", "previous", "payload", "mac"}

\* The i-th frame of a stream is its i-th envelope, or the close frame after all.
SentFrame(k, i) ==
    /\ IsFrame(sent[k][i])
    /\ sent[k][i].sequence = i - 1
    /\ sent[k][i].mac = frameMAC(k, sent[k][i])
    /\ \/ /\ sent[k][i].kind = "data"
          /\ i <= Len(source[k])
          /\ sent[k][i].payload = source[k][i]
       \/ /\ sent[k][i].kind = "close"
          /\ i = Len(sent[k])
          /\ i = Len(source[k]) + 1
          /\ sourceEnd[k] = "eof"
          /\ encoder[k] \in {"closing", "done"}

SentInv == \A k \in Streams : \A i \in 1..Len(sent[k]) : SentFrame(k, i)

\* Nothing on a connection has a code nobody has written.
Written(mac) == \E j \in Streams : \E n \in 1..Len(sent[j]) : mac = sent[j][n].mac

WireInv ==
    \A k \in Streams : \A f \in ElementsOf(wire[k]) : IsFrame(f) /\ Written(f.mac)

\* The reader has taken the first frames of the stream, perhaps the close frame.
DataRead(k) ==
    /\ Len(exposed[k]) = reader[k].sequence
    /\ reader[k].closed = FALSE
    /\ \A i \in 1..reader[k].sequence : sent[k][i].kind = "data"

CloseRead(k) ==
    /\ reader[k].sequence = Len(sent[k])
    /\ Len(exposed[k]) + 1 = Len(sent[k])
    /\ sent[k][Len(sent[k])].kind = "close"

Follows(k) == \A i \in 1..Len(exposed[k]) : exposed[k][i] = source[k][i]

ReaderInv ==
    \A k \in Streams :
        /\ reader[k].sequence <= Len(sent[k])
        /\ DataRead(k) \/ CloseRead(k)
        /\ Follows(k)

StreamInv == Shape /\ SentInv /\ WireInv /\ ReaderInv

LEMMA StreamInvInit == StreamInit => StreamInv
<1> SUFFICES ASSUME StreamInit PROVE StreamInv BY Zenon
<1>1. IsSequence(<<>>) /\ Len(<<>>) = 0 BY SeqEmpty, Zenon DEF IsSequence
<1>2. ElementsOf(<<>>) = {} BY <1>1 DEF ElementsOf
<1>7. <<>> \in Seq(Messages) BY SeqEmpty, Zenon
<1>8. DOMAIN reader = Streams
  BY Zenon DEF StreamInit
<1>9. \A k \in Streams : reader[k].sequence = 0 /\ reader[k].closed = FALSE
  BY Zenon DEF StreamInit
<1>12. \A k \in Streams : reader[k].closed \in BOOLEAN
  BY <1>9, Zenon
<1>10. source \in [Streams -> Seq(Messages)] /\ exposed \in [Streams -> Seq(Messages)]
  BY <1>7, Zenon DEF StreamInit
<1>11. /\ sourceEnd \in [Streams -> {"open", "eof", "error"}]
       /\ encoder \in [Streams -> {"idle", "running", "closing", "failing", "done"}]
       /\ DOMAIN sent = Streams /\ \A k \in Streams : sent[k] = <<>>
       /\ DOMAIN wire = Streams /\ \A k \in Streams : wire[k] = <<>>
       /\ \A k \in Streams : exposed[k] = <<>>
  BY Zenon DEF StreamInit
<1>3. Shape BY <1>1, <1>8, <1>9, <1>10, <1>11, <1>12 DEF Shape
<1>4. SentInv BY <1>1 DEF StreamInit, SentInv
<1>5. WireInv BY <1>2, Zenon DEF StreamInit, WireInv
<1>6. ReaderInv
  <2>1. \A k \in Streams : reader[k].sequence = 0 /\ Len(sent[k]) = 0 /\ Len(exposed[k]) = 0
    BY <1>1, <1>9, <1>11, Zenon
  <2> SUFFICES ASSUME NEW k \in Streams
               PROVE  reader[k].sequence <= Len(sent[k]) /\ DataRead(k) /\ Follows(k)
    BY Zenon DEF ReaderInv
  <2>2. reader[k].sequence = 0 /\ Len(sent[k]) = 0 /\ Len(exposed[k]) = 0
    BY <2>1, Zenon
  <2> QED BY <2>2, <1>9 DEF DataRead, Follows
<1> QED BY <1>3, <1>4, <1>5, <1>6, Zenon DEF StreamInv

\* A frame that the reader of k accepts is the next frame written on k.
LEMMA AcceptedIsNext ==
    ASSUME StreamInv, NEW k \in Streams, NEW f \in ElementsOf(wire[k]), Accepts(k, f)
    PROVE  LET n == reader[k].sequence + 1
           IN  /\ n \in 1..Len(sent[k])
               /\ f.kind = sent[k][n].kind
               /\ f.payload = sent[k][n].payload
<1>0. PICK j \in Streams : \E n \in 1..Len(sent[j]) : f.mac = sent[j][n].mac
  BY Zenon DEF StreamInv, WireInv, Written
<1>1. PICK n \in 1..Len(sent[j]) : f.mac = sent[j][n].mac
  BY <1>0, Zenon
<1>2. sent[j][n].sequence = n - 1 /\ sent[j][n].mac = frameMAC(j, sent[j][n])
  BY Zenon DEF StreamInv, SentInv, SentFrame
<1>3. frameMAC(k, f) = frameMAC(j, sent[j][n])
  BY <1>1, <1>2, Zenon DEF Accepts
<1>4. /\ j = k
      /\ f.kind = sent[j][n].kind
      /\ f.sequence = sent[j][n].sequence
      /\ f.payload = sent[j][n].payload
  BY <1>3, Zenon DEF frameMAC
<1>5. reader[k].sequence = n - 1
  BY <1>2, <1>4, Zenon DEF Accepts
<1>6. n \in Nat /\ reader[k].sequence \in Nat
  BY SequenceLen DEF StreamInv, Shape
<1> QED BY <1>4, <1>5, <1>6

(***************************************************************************)
(* Steps                                                                   *)
(***************************************************************************)

\* A step that writes nothing, reads nothing and puts no new code on the wire.
LEMMA QuietStep ==
    ASSUME StreamInv, UNCHANGED <<source, sourceEnd, sent, reader, exposed>>,
           encoder' \in [Streams -> {"idle", "running", "closing", "failing", "done"}],
           \A k \in Streams : encoder[k] \in {"closing", "done"} => encoder'[k] \in {"closing", "done"},
           DOMAIN wire' = Streams, \A k \in Streams : IsSequence(wire'[k]),
           \A k \in Streams : \A f \in ElementsOf(wire'[k]) : IsFrame(f) /\ Written(f.mac)
    PROVE  StreamInv'
<1>1. Shape' BY Zenon DEF StreamInv, Shape
<1>2. SentInv'
  <2> SUFFICES ASSUME NEW k \in Streams, NEW i \in 1..Len(sent[k])
               PROVE  (SentFrame(k, i))'
    BY Zenon DEF SentInv
  <2>1. SentFrame(k, i) BY Zenon DEF StreamInv, SentInv
  <2>2. encoder[k] \in {"closing", "done"} => encoder'[k] \in {"closing", "done"}
    BY Zenon
  <2>3. sent' = sent /\ source' = source /\ sourceEnd' = sourceEnd
    BY Zenon
  <2> QED BY <2>1, <2>2, <2>3, Zenon DEF SentFrame, frameMAC
<1>3. WireInv' BY DEF WireInv, Written
<1>4. ReaderInv'
  <2>1. ReaderInv BY Zenon DEF StreamInv
  <2> QED BY <2>1, Zenon DEF ReaderInv, DataRead, CloseRead, Follows
<1> QED BY <1>1, <1>2, <1>3, <1>4, Zenon DEF StreamInv

LEMMA DamageStep ==
    ASSUME StreamInv, NEW k \in Streams, NEW frames, NEW end, Damage(k, frames, end),
           IsSequence(frames), \A f \in ElementsOf(frames) : IsFrame(f) /\ Written(f.mac)
    PROVE  StreamInv'
<1>1. wire' = [wire EXCEPT ![k] = frames] /\ DOMAIN wire = Streams
  BY Zenon DEF Damage, StreamInv, Shape
<1>2. \A j \in Streams : wire'[j] = IF j = k THEN frames ELSE wire[j]
  BY <1>1, Zenon
<1>3. /\ DOMAIN wire' = Streams
      /\ \A j \in Streams : IsSequence(wire'[j])
      /\ \A j \in Streams : \A f \in ElementsOf(wire'[j]) : IsFrame(f) /\ Written(f.mac)
  BY <1>1, <1>2, Zenon DEF StreamInv, Shape, WireInv
<1>4. UNCHANGED <<source, sourceEnd, encoder, sent, reader, exposed>>
  BY Zenon DEF Damage
<1>5. encoder' \in [Streams -> {"idle", "running", "closing", "failing", "done"}]
  BY <1>4, Zenon DEF StreamInv, Shape
<1> QED BY <1>3, <1>4, <1>5, QuietStep, Zenon

\* A frame with the code of one on the wire.
LEMMA AlteredFrame ==
    ASSUME NEW g, IsFrame(g), NEW f \in Altered(g)
    PROVE  IsFrame(f) /\ f.mac = g.mac
BY Zenon DEF Altered, IsFrame

LEMMA FaultStep ==
    ASSUME StreamInv, NEW k \in Streams, Fault(k)
    PROVE  StreamInv'
<1>0. /\ IsSequence(wire[k])
      /\ \A f \in ElementsOf(wire[k]) : IsFrame(f) /\ Written(f.mac)
  BY Zenon DEF StreamInv, Shape, WireInv
<1>00. Len(wire[k]) \in Nat /\ wire[k] \in Seq(ElementsOf(wire[k]))
  BY <1>0, SequenceLen, Zenon
<1>1. ASSUME NEW i \in 1..Len(wire[k]), Lose(k, i) PROVE StreamInv'
  <2>1. Damage(k, Without(wire[k], i), wireEnd[k]) BY <1>1, Zenon DEF Lose
  <2>2. IsSequence(Without(wire[k], i)) /\ ElementsOf(Without(wire[k], i)) \subseteq ElementsOf(wire[k])
    BY <1>0, SequenceWithout, Zenon
  <2> QED BY <1>0, <2>1, <2>2, DamageStep, Zenon
<1>2. ASSUME NEW i \in 1..(Len(wire[k]) + 1), NEW j \in Streams, NEW n \in 1..Len(sent[j]),
             Insert(k, i, j, n)
      PROVE  StreamInv'
  <2>1. Damage(k, With(wire[k], i, sent[j][n]), wireEnd[k]) BY <1>2, Zenon DEF Insert
  <2>2. IsFrame(sent[j][n]) BY Zenon DEF StreamInv, SentInv, SentFrame
  <2>3. Written(sent[j][n].mac) BY Zenon DEF Written
  <2>4. /\ IsSequence(With(wire[k], i, sent[j][n]))
        /\ ElementsOf(With(wire[k], i, sent[j][n])) \subseteq ElementsOf(wire[k]) \cup {sent[j][n]}
    BY <1>0, SequenceWith, Zenon
  <2> QED BY <1>0, <2>1, <2>2, <2>3, <2>4, DamageStep, Zenon
<1>3. ASSUME NEW i \in 1..(Len(wire[k]) - 1), Reorder(k, i) PROVE StreamInv'
  <2> DEFINE w == Without(wire[k], i)
             r == With(w, i + 1, wire[k][i])
  <2>1. Damage(k, r, wireEnd[k]) BY <1>3, Zenon DEF Reorder
  <2>2. i \in 1..Len(wire[k]) BY <1>00
  <2>3. IsSequence(w) /\ ElementsOf(w) \subseteq ElementsOf(wire[k]) BY <1>0, <2>2, SequenceWithout, Zenon
  <2>4. Len(w) = Len(wire[k]) - 1 BY <1>0, <2>2, WithoutLen, Zenon
  <2>5. i + 1 \in 1..(Len(w) + 1) BY <1>00, <2>4
  <2>6. wire[k][i] \in ElementsOf(wire[k]) BY <2>2, Zenon DEF ElementsOf
  <2> HIDE DEF w
  <2>7. IsSequence(r) /\ ElementsOf(r) \subseteq ElementsOf(w) \cup {wire[k][i]}
    BY <2>3, <2>5, SequenceWith, Zenon
  <2> HIDE DEF r
  <2>8. \A f \in ElementsOf(r) : IsFrame(f) /\ Written(f.mac)
    BY <1>0, <2>3, <2>6, <2>7, Zenon
  <2> QED BY <2>1, <2>7, <2>8, DamageStep, Zenon
<1>4. ASSUME NEW i \in 1..Len(wire[k]), NEW f \in Altered(wire[k][i]), Alter(k, i, f) PROVE StreamInv'
  <2> DEFINE a == [wire[k] EXCEPT ![i] = f]
             T == ElementsOf(wire[k]) \cup {f}
  <2>1. Damage(k, a, wireEnd[k]) BY <1>4, Zenon DEF Alter
  <2>2. wire[k][i] \in ElementsOf(wire[k]) BY Zenon DEF ElementsOf
  <2>3. IsFrame(f) /\ Written(f.mac) BY <1>0, <2>2, AlteredFrame, Zenon
  <2>4. wire[k] \in Seq(T) BY <1>00
  <2>5. f \in T BY Zenon
  <2> HIDE DEF T
  <2>6. a \in Seq(T) BY <2>4, <2>5, SeqExcept, Zenon
  <2> HIDE DEF a
  <2>7. IsSequence(a) /\ ElementsOf(a) \subseteq T BY <2>6, SequenceOver, Zenon
  <2>8. \A g \in ElementsOf(a) : IsFrame(g) /\ Written(g.mac) BY <1>0, <2>3, <2>7, Zenon DEF T
  <2> QED BY <2>1, <2>7, <2>8, DamageStep, Zenon
<1>5. ASSUME NEW n \in 0..Len(wire[k]), NEW end \in {"eof", "reset"}, Cut(k, n, end) PROVE StreamInv'
  <2> DEFINE c == SubSeq(wire[k], 1, n)
  <2>1. Damage(k, c, end) BY <1>5, Zenon DEF Cut
  <2>2. c \in Seq(ElementsOf(wire[k])) BY <1>0, <1>00, SequenceSubSeq
  <2> HIDE DEF c
  <2>3. IsSequence(c) /\ ElementsOf(c) \subseteq ElementsOf(wire[k]) BY <2>2, SequenceOver, Zenon
  <2> QED BY <1>0, <2>1, <2>3, DamageStep, Zenon
<1> QED BY <1>1, <1>2, <1>3, <1>4, <1>5, Zenon DEF Fault

\* Encoder steps that write no frame.
LEMMA EncoderQuiet ==
    ASSUME StreamInv, NEW k \in Streams, RoundTrip(k) \/ CloseBody(k) \/ EncodeFails(k)
    PROVE  StreamInv'
<1>1. UNCHANGED <<source, sourceEnd, sent, wire, reader, exposed>>
  BY Zenon DEF RoundTrip, CloseBody, EncodeFails
<1>2. PICK e \in {"running", "failing", "done"} :
         /\ encoder' = [encoder EXCEPT ![k] = e]
         /\ encoder[k] \in {"closing", "done"} => e = "done"
  BY Zenon DEF RoundTrip, CloseBody, EncodeFails
<1>3. encoder \in [Streams -> {"idle", "running", "closing", "failing", "done"}]
  BY Zenon DEF StreamInv, Shape
<1>4. encoder' \in [Streams -> {"idle", "running", "closing", "failing", "done"}]
  BY <1>2, <1>3, Zenon
<1>5. \A j \in Streams : encoder[j] \in {"closing", "done"} => encoder'[j] \in {"closing", "done"}
  BY <1>2, <1>3, Zenon
<1>6. /\ DOMAIN wire' = Streams
      /\ \A j \in Streams : IsSequence(wire'[j])
      /\ \A j \in Streams : \A f \in ElementsOf(wire'[j]) : IsFrame(f) /\ Written(f.mac)
  BY <1>1, Zenon DEF StreamInv, Shape, WireInv
<1> QED BY <1>1, <1>4, <1>5, <1>6, QuietStep, Zenon

\* Reads that take a frame off the wire and refuse it, or find none.
LEMMA ReaderQuiet ==
    ASSUME StreamInv, NEW k \in Streams, ReadRefused(k) \/ ReadEnd(k)
    PROVE  StreamInv'
<1>1. UNCHANGED <<source, sourceEnd, encoder, sent, reader, exposed>>
  BY Zenon DEF ReadRefused, ReadEnd
<1>2. IsSequence(wire[k]) /\ DOMAIN wire = Streams BY Zenon DEF StreamInv, Shape
<1>3. PICK w : /\ DOMAIN wire' = Streams
               /\ \A j \in Streams : wire'[j] = IF j = k THEN w ELSE wire[j]
               /\ IsSequence(w)
               /\ ElementsOf(w) \subseteq ElementsOf(wire[k])
  <2>1. CASE ReadRefused(k)
    <3>1. wire[k] # <<>> /\ wire' = [wire EXCEPT ![k] = Tail(wire[k])] BY <2>1, Zenon DEF ReadRefused
    <3>2. IsSequence(Tail(wire[k])) /\ ElementsOf(Tail(wire[k])) \subseteq ElementsOf(wire[k])
      BY <3>1, <1>2, SequenceTail, Zenon
    <3> QED BY <3>1, <3>2, <1>2, Zenon
  <2>2. CASE ReadEnd(k)
    <3>1. wire' = wire BY <2>2, Zenon DEF ReadEnd
    <3> QED BY <3>1, <1>2, Zenon
  <2> QED BY <2>1, <2>2, Zenon
<1>5. /\ \A j \in Streams : IsSequence(wire'[j])
      /\ \A j \in Streams : \A f \in ElementsOf(wire'[j]) : IsFrame(f) /\ Written(f.mac)
  BY <1>3, Zenon DEF StreamInv, Shape, WireInv
<1>6. encoder' \in [Streams -> {"idle", "running", "closing", "failing", "done"}]
  BY <1>1, Zenon DEF StreamInv, Shape
<1> QED BY <1>1, <1>3, <1>5, <1>6, QuietStep, Zenon

LEMMA ExposedBound ==
    ASSUME StreamInv, NEW k \in Streams
    PROVE  /\ Len(exposed[k]) \in Nat /\ Len(source[k]) \in Nat /\ Len(sent[k]) \in Nat
           /\ Len(exposed[k]) <= Len(source[k])
           /\ CloseRead(k) => Len(exposed[k]) = Len(source[k]) /\ sourceEnd[k] = "eof"
<1>1. /\ Len(exposed[k]) \in Nat /\ Len(source[k]) \in Nat
      /\ IsSequence(sent[k]) /\ reader[k].sequence \in Nat
  BY SeqShape, Zenon DEF StreamInv, Shape
<1>2. Len(sent[k]) \in Nat BY <1>1, SequenceLen, Zenon
<1>3. reader[k].sequence <= Len(sent[k]) /\ (DataRead(k) \/ CloseRead(k))
  BY Zenon DEF StreamInv, ReaderInv
<1>4. \A i \in 1..Len(sent[k]) : SentFrame(k, i) BY Zenon DEF StreamInv, SentInv
<1>5. CASE DataRead(k) /\ reader[k].sequence = 0
  <2>1. Len(exposed[k]) = 0 BY <1>5, Zenon DEF DataRead
  <2>2. ~CloseRead(k)
    <3> SUFFICES ASSUME CloseRead(k) PROVE FALSE BY Zenon
    <3>1. reader[k].sequence = Len(sent[k]) /\ Len(exposed[k]) + 1 = Len(sent[k]) BY Zenon DEF CloseRead
    <3>2. Len(sent[k]) = 0 BY <1>5, <3>1, Zenon
    <3> QED BY <2>1, <3>1, <3>2
  <2> QED BY <1>1, <1>2, <2>1, <2>2
<1>6. CASE DataRead(k) /\ reader[k].sequence # 0
  <2>1. reader[k].sequence \in 1..Len(sent[k]) BY <1>1, <1>2, <1>3, <1>6
  <2>2. sent[k][reader[k].sequence].kind = "data" BY <1>6, <2>1 DEF DataRead
  <2>3. SentFrame(k, reader[k].sequence) BY <1>4, <2>1, Zenon
  <2>4. reader[k].sequence <= Len(source[k]) BY <2>2, <2>3, Zenon DEF SentFrame
  <2>5. ~CloseRead(k) BY <1>1, <1>2, <1>6 DEF DataRead, CloseRead
  <2> QED BY <1>1, <1>2, <1>6, <2>4, <2>5, Zenon DEF DataRead
<1>7. CASE CloseRead(k)
  <2>1. Len(sent[k]) \in 1..Len(sent[k]) /\ sent[k][Len(sent[k])].kind = "close"
    BY <1>1, <1>2, <1>7 DEF CloseRead
  <2>2. SentFrame(k, Len(sent[k])) BY <1>4, <2>1, Zenon
  <2>3. Len(sent[k]) = Len(source[k]) + 1 /\ sourceEnd[k] = "eof" BY <2>1, <2>2, Zenon DEF SentFrame
  <2> QED BY <1>1, <1>2, <1>7, <2>3 DEF CloseRead
<1> QED BY <1>3, <1>5, <1>6, <1>7, Zenon

LEMMA WriteStep ==
    ASSUME StreamInv, NEW k \in Streams, NEW m \in Messages, Write(k, m)
    PROVE  StreamInv'
<1>1. /\ source' = [source EXCEPT ![k] = Append(source[k], m)]
      /\ sourceEnd[k] = "open"
      /\ sourceEnd' = sourceEnd /\ encoder' = encoder /\ sent' = sent /\ wire' = wire
      /\ reader' = reader /\ exposed' = exposed
  BY Zenon DEF Write
<1>2. source \in [Streams -> Seq(Messages)] BY Zenon DEF StreamInv, Shape
<1>3. /\ \A j \in Streams : j # k => source'[j] = source[j]
      /\ source'[k] = Append(source[k], m)
      /\ source' \in [Streams -> Seq(Messages)]
  BY <1>1, <1>2
<1>4. /\ Len(source[k]) \in Nat
      /\ Len(source'[k]) = Len(source[k]) + 1
      /\ \A i \in 1..Len(source[k]) : source'[k][i] = source[k][i]
  BY <1>2, <1>3, SeqAppend, SeqShape
<1>5. Shape' BY <1>1, <1>3, Zenon DEF StreamInv, Shape
<1>6. SentInv'
  <2> SUFFICES ASSUME NEW j \in Streams, NEW i \in 1..Len(sent[j]) PROVE SentFrame(j, i)'
    BY <1>1, Zenon DEF SentInv
  <2>1. SentFrame(j, i) BY Zenon DEF StreamInv, SentInv
  <2>2. CASE j # k
    <3>1. source'[j] = source[j] BY <1>3, <2>2, Zenon
    <3> QED BY <1>1, <2>1, <3>1, Zenon DEF SentFrame, frameMAC
  <2>3. CASE j = k
    <3>1. /\ IsFrame(sent[k][i])
          /\ sent[k][i].sequence = i - 1
          /\ sent[k][i].mac = frameMAC(k, sent[k][i])
          /\ sent[k][i].kind = "data"
          /\ i <= Len(source[k])
          /\ sent[k][i].payload = source[k][i]
      BY <1>1, <2>1, <2>3, Zenon DEF SentFrame
    <3>2. i \in 1..Len(source[k]) BY <1>4, <3>1, <2>3, SequenceLen DEF StreamInv, Shape
    <3>3. source'[k][i] = source[k][i] /\ i <= Len(source'[k]) BY <1>4, <3>2
    <3> QED BY <1>1, <2>3, <3>1, <3>3, Zenon DEF SentFrame, frameMAC
  <2> QED BY <2>2, <2>3, Zenon
<1>7. WireInv' BY <1>1, Zenon DEF StreamInv, WireInv, Written
<1>8. ReaderInv'
  <2> SUFFICES ASSUME NEW j \in Streams
               PROVE  /\ reader[j].sequence <= Len(sent[j])
                      /\ DataRead(j) \/ CloseRead(j)
                      /\ Follows(j)'
    BY <1>1, Zenon DEF ReaderInv, DataRead, CloseRead
  <2>1. /\ reader[j].sequence <= Len(sent[j])
        /\ DataRead(j) \/ CloseRead(j)
        /\ \A i \in 1..Len(exposed[j]) : exposed[j][i] = source[j][i]
    BY Zenon DEF StreamInv, ReaderInv, Follows
  <2>2. /\ Len(exposed[j]) \in Nat /\ Len(source[j]) \in Nat
        /\ Len(exposed[j]) <= Len(source[j])
    BY ExposedBound, Zenon
  <2>3. ASSUME NEW i \in 1..Len(exposed[j])
        PROVE  exposed[j][i] = source'[j][i]
    <3>1. exposed[j][i] = source[j][i] BY <2>1, Zenon
    <3>2. i \in 1..Len(source[j]) BY <2>2
    <3>3. CASE j = k
      BY <1>4, <3>1, <3>2, <3>3, Zenon
    <3>4. CASE j # k
      BY <1>3, <3>1, <3>4, Zenon
    <3> QED BY <3>3, <3>4, Zenon
  <2> QED BY <1>1, <2>1, <2>3, Zenon DEF Follows
<1> QED BY <1>5, <1>6, <1>7, <1>8, Zenon DEF StreamInv

LEMMA FinishStep ==
    ASSUME StreamInv, NEW k \in Streams, NEW how \in {"eof", "error"}, Finish(k, how)
    PROVE  StreamInv'
<1>1. /\ sourceEnd' = [sourceEnd EXCEPT ![k] = how]
      /\ sourceEnd[k] = "open"
      /\ source' = source /\ encoder' = encoder /\ sent' = sent /\ wire' = wire
      /\ reader' = reader /\ exposed' = exposed
  BY Zenon DEF Finish
<1>2. sourceEnd \in [Streams -> {"open", "eof", "error"}] BY Zenon DEF StreamInv, Shape
<1>3. /\ \A j \in Streams : sourceEnd[j] = "eof" => sourceEnd'[j] = "eof"
      /\ sourceEnd' \in [Streams -> {"open", "eof", "error"}]
  BY <1>1, <1>2, Zenon
<1>4. Shape' BY <1>1, <1>3, Zenon DEF StreamInv, Shape
<1>5. SentInv'
  <2> SUFFICES ASSUME NEW j \in Streams, NEW i \in 1..Len(sent[j]) PROVE SentFrame(j, i)'
    BY <1>1, Zenon DEF SentInv
  <2>1. SentFrame(j, i) BY Zenon DEF StreamInv, SentInv
  <2>2. sourceEnd[j] = "eof" => sourceEnd'[j] = "eof" BY <1>3, Zenon
  <2> QED BY <1>1, <2>1, <2>2, Zenon DEF SentFrame, frameMAC
<1>6. WireInv' BY <1>1, Zenon DEF StreamInv, WireInv, Written
<1>7. ReaderInv'
  <2>1. ReaderInv BY Zenon DEF StreamInv
  <2> QED BY <1>1, <2>1, Zenon DEF ReaderInv, DataRead, CloseRead, Follows
<1> QED BY <1>4, <1>5, <1>6, <1>7, Zenon DEF StreamInv

\* encodeStream writes the next frame: an envelope, or the close frame at the end.
NextFrame(k, f) ==
    /\ IsFrame(f)
    /\ f.sequence = Len(sent[k])
    /\ f.mac = frameMAC(k, f)
    /\ \/ /\ f.kind = "data"
          /\ Len(sent[k]) < Len(source[k])
          /\ f.payload = source[k][Len(sent[k]) + 1]
       \/ /\ f.kind = "close"
          /\ Len(sent[k]) = Len(source[k])
          /\ sourceEnd[k] = "eof"
          /\ encoder'[k] = "closing"

LEMMA EmitStep ==
    ASSUME StreamInv, NEW k \in Streams, NEW f, Emit(k, f), NextFrame(k, f),
           encoder[k] = "running", NEW e \in {"running", "closing"},
           encoder' = [encoder EXCEPT ![k] = e]
    PROVE  StreamInv'
<1>1. /\ source' = source /\ sourceEnd' = sourceEnd /\ reader' = reader /\ exposed' = exposed
      /\ sent' = [sent EXCEPT ![k] = Append(sent[k], f)]
      /\ wire' = [wire EXCEPT ![k] = IF wireEnd[k] = "open" THEN Append(wire[k], f) ELSE wire[k]]
  BY Zenon DEF Emit
<1>2. /\ DOMAIN sent = Streams /\ IsSequence(sent[k])
      /\ DOMAIN wire = Streams /\ IsSequence(wire[k])
      /\ encoder \in [Streams -> {"idle", "running", "closing", "failing", "done"}]
  BY Zenon DEF StreamInv, Shape
<1>3. /\ DOMAIN sent' = Streams
      /\ \A j \in Streams : j # k => sent'[j] = sent[j] /\ encoder'[j] = encoder[j]
      /\ sent'[k] = Append(sent[k], f)
      /\ encoder'[k] = e
      /\ encoder' \in [Streams -> {"idle", "running", "closing", "failing", "done"}]
  BY <1>1, <1>2, Zenon
<1>4. /\ Len(sent[k]) \in Nat
      /\ Len(sent'[k]) = Len(sent[k]) + 1
      /\ IsSequence(sent'[k])
      /\ \A i \in 1..Len(sent[k]) : sent'[k][i] = sent[k][i]
      /\ sent'[k][Len(sent[k]) + 1] = f
  BY <1>2, <1>3, SequenceAppend, SequenceLen
<1>5. /\ DOMAIN wire' = Streams
      /\ \A j \in Streams : j # k => wire'[j] = wire[j]
      /\ wire'[k] = Append(wire[k], f) \/ wire'[k] = wire[k]
  BY <1>1, <1>2, Zenon
<1>6. IsSequence(wire'[k]) /\ ElementsOf(wire'[k]) \subseteq ElementsOf(wire[k]) \cup {f}
  <2>1. /\ IsSequence(Append(wire[k], f))
        /\ ElementsOf(Append(wire[k], f)) = ElementsOf(wire[k]) \cup {f}
    BY <1>2, SequenceAppend, Zenon
  <2>2. CASE wire'[k] = Append(wire[k], f) BY <2>1, <2>2, Zenon
  <2>3. CASE wire'[k] = wire[k] BY <1>2, <2>3, Zenon
  <2> QED BY <1>5, <2>2, <2>3, Zenon
<1>7. Shape'
  <2>1. \A j \in Streams : IsSequence(sent'[j]) /\ IsSequence(wire'[j])
    BY <1>3, <1>4, <1>5, <1>6, Zenon DEF StreamInv, Shape
  <2> QED BY <1>1, <1>3, <1>5, <2>1, Zenon DEF StreamInv, Shape
<1>8. \A mac : Written(mac) => Written(mac)'
  <2> SUFFICES ASSUME NEW mac, Written(mac) PROVE Written(mac)' BY Zenon
  <2>1. PICK j \in Streams : \E n \in 1..Len(sent[j]) : mac = sent[j][n].mac BY Zenon DEF Written
  <2>2. PICK n \in 1..Len(sent[j]) : mac = sent[j][n].mac BY <2>1, Zenon
  <2>3. n \in 1..Len(sent'[j]) /\ sent'[j][n] = sent[j][n] BY <1>3, <1>4
  <2> QED BY <2>2, <2>3, Zenon DEF Written
<1>9. Written(f.mac)'
  <2>1. Len(sent[k]) + 1 \in 1..Len(sent'[k]) BY <1>4
  <2> QED BY <1>4, <2>1, Zenon DEF Written
<1>10. WireInv'
  <2> SUFFICES ASSUME NEW j \in Streams, NEW g \in ElementsOf(wire'[j])
               PROVE  IsFrame(g) /\ Written(g.mac)'
    BY Zenon DEF WireInv
  <2>1. CASE g = f BY <1>9, <2>1, Zenon DEF NextFrame
  <2>2. CASE g # f
    <3>1. g \in ElementsOf(wire[j]) BY <1>5, <1>6, <2>2
    <3> QED BY <1>8, <3>1, Zenon DEF StreamInv, WireInv
  <2> QED BY <2>1, <2>2, Zenon
\* No close frame has been written yet.
<1>11. \A i \in 1..Len(sent[k]) : sent[k][i].kind = "data" /\ i <= Len(source[k])
                                  /\ sent[k][i].payload = source[k][i]
  BY Zenon DEF StreamInv, SentInv, SentFrame
<1>12. SentInv'
  <2> SUFFICES ASSUME NEW j \in Streams, NEW i \in 1..Len(sent'[j]) PROVE SentFrame(j, i)'
    BY Zenon DEF SentInv
  <2>1. CASE j # k
    <3>1. sent'[j] = sent[j] /\ encoder'[j] = encoder[j] BY <1>3, <2>1, Zenon
    <3>2. SentFrame(j, i) BY <3>1, Zenon DEF StreamInv, SentInv
    <3> QED BY <1>1, <3>1, <3>2, Zenon DEF SentFrame, frameMAC
  <2>2. CASE j = k /\ i # Len(sent[k]) + 1
    <3>1. i \in 1..Len(sent[k]) BY <1>4, <2>2
    <3>2. sent'[k][i] = sent[k][i] BY <1>4, <3>1, Zenon
    <3>3. SentFrame(k, i) BY <3>1, Zenon DEF StreamInv, SentInv
    <3>4. IsFrame(sent[k][i]) /\ sent[k][i].sequence = i - 1 /\ sent[k][i].mac = frameMAC(k, sent[k][i])
      BY <3>3, Zenon DEF SentFrame
    <3>5. sent[k][i].kind = "data" /\ i <= Len(source[k]) /\ sent[k][i].payload = source[k][i]
      BY <1>11, <3>1, Zenon
    <3> QED BY <1>1, <2>2, <3>2, <3>4, <3>5, Zenon DEF SentFrame, frameMAC
  <2>3. CASE j = k /\ i = Len(sent[k]) + 1
    <3>1. sent'[k][i] = f BY <1>4, <2>3, Zenon
    <3>2. IsFrame(f) /\ f.sequence = i - 1 /\ f.mac = frameMAC(k, f)
      BY <1>4, <2>3 DEF NextFrame
    <3>3. CASE f.kind = "data"
      <4>1. i <= Len(source[k]) /\ f.payload = source[k][i]
        BY <1>4, <2>3, <3>3, ExposedBound DEF NextFrame
      <4> QED BY <1>1, <2>3, <3>1, <3>2, <3>3, <4>1, Zenon DEF SentFrame, frameMAC
    <3>4. CASE f.kind # "data"
      <4>1. /\ f.kind = "close" /\ i = Len(source[k]) + 1 /\ i = Len(sent'[k])
            /\ sourceEnd[k] = "eof" /\ encoder'[k] \in {"closing", "done"}
        BY <1>4, <2>3, <3>4, Zenon DEF NextFrame
      <4> QED BY <1>1, <2>3, <3>1, <3>2, <4>1, Zenon DEF SentFrame, frameMAC
    <3> QED BY <3>3, <3>4, Zenon
  <2> QED BY <2>1, <2>2, <2>3, Zenon
<1>13. ReaderInv'
  <2> SUFFICES ASSUME NEW j \in Streams
               PROVE  /\ reader[j].sequence <= Len(sent'[j])
                      /\ DataRead(j)' \/ CloseRead(j)'
                      /\ Follows(j)
    BY <1>1, Zenon DEF ReaderInv, Follows
  <2>1. reader[j].sequence <= Len(sent[j]) /\ (DataRead(j) \/ CloseRead(j)) /\ Follows(j)
    BY Zenon DEF StreamInv, ReaderInv
  <2>2. CASE j # k
    <3>1. sent'[j] = sent[j] BY <1>3, <2>2, Zenon
    <3> QED BY <1>1, <2>1, <3>1, Zenon DEF DataRead, CloseRead
  <2>3. CASE j = k
    <3>1. ~CloseRead(k)
      <4> SUFFICES ASSUME CloseRead(k) PROVE FALSE BY Zenon
      <4>1. Len(sent[k]) \in 1..Len(sent[k]) BY <1>4, ExposedBound DEF CloseRead
      <4> QED BY <1>11, <4>1, Zenon DEF CloseRead
    <3>2. reader[k].sequence \in Nat BY Zenon DEF StreamInv, Shape
    <3>3. reader[k].sequence <= Len(sent'[k]) BY <1>4, <2>1, <2>3, <3>2
    <3>4. ASSUME NEW i \in 1..reader[k].sequence
          PROVE  sent'[k][i].kind = "data"
      <4>1. i \in 1..Len(sent[k]) BY <1>4, <2>1, <2>3, <3>2
      <4>2. sent'[k][i] = sent[k][i] BY <1>4, <4>1, Zenon
      <4> QED BY <1>11, <4>1, <4>2, Zenon
    <3>5. DataRead(k)' BY <1>1, <2>1, <2>3, <3>1, <3>4, Zenon DEF DataRead
    <3> QED BY <2>1, <2>3, <3>3, <3>5, Zenon
  <2> QED BY <2>2, <2>3, Zenon
<1> QED BY <1>7, <1>10, <1>12, <1>13, Zenon DEF StreamInv

LEMMA EncodeDataStep ==
    ASSUME StreamInv, NEW k \in Streams, EncodeData(k)
    PROVE  StreamInv'
<1> DEFINE f == marshalStreamFrame(k, "data", NextSequence(k), PreviousMAC(k), source[k][Len(sent[k]) + 1])
<1>1. encoder[k] = "running" /\ Len(sent[k]) < Len(source[k]) /\ encoder' = encoder /\ Emit(k, f)
  BY Zenon DEF EncodeData
<1>2. /\ IsFrame(f) /\ f.sequence = Len(sent[k]) /\ f.mac = frameMAC(k, f)
      /\ f.kind = "data" /\ f.payload = source[k][Len(sent[k]) + 1]
  BY Zenon DEF IsFrame, marshalStreamFrame, NextSequence, frameMAC
<1> HIDE DEF f
<1>3. NextFrame(k, f) BY <1>1, <1>2, Zenon DEF NextFrame
<1>4. encoder' = [encoder EXCEPT ![k] = "running"] BY <1>1, Zenon DEF StreamInv, Shape
<1> QED BY <1>1, <1>3, <1>4, EmitStep, Zenon

LEMMA EncodeCloseStep ==
    ASSUME StreamInv, NEW k \in Streams, EncodeClose(k)
    PROVE  StreamInv'
<1> DEFINE f == marshalStreamFrame(k, "close", NextSequence(k), PreviousMAC(k), Empty)
<1>1. /\ encoder[k] = "running" /\ Len(sent[k]) = Len(source[k]) /\ sourceEnd[k] = "eof"
      /\ encoder' = [encoder EXCEPT ![k] = "closing"] /\ Emit(k, f)
  BY Zenon DEF EncodeClose
<1>2. /\ IsFrame(f) /\ f.sequence = Len(sent[k]) /\ f.mac = frameMAC(k, f) /\ f.kind = "close"
  BY Zenon DEF IsFrame, marshalStreamFrame, NextSequence, frameMAC
<1> HIDE DEF f
<1>3. encoder'[k] = "closing" BY <1>1, Zenon DEF StreamInv, Shape
<1>4. NextFrame(k, f) BY <1>1, <1>2, <1>3, Zenon DEF NextFrame
<1> QED BY <1>1, <1>4, EmitStep, Zenon

\* What Read finds in the next frame when it accepts it.
LEMMA Accepted ==
    ASSUME StreamInv, NEW k \in Streams, wire[k] # <<>>, Accepts(k, Head(wire[k]))
    PROVE  LET n == reader[k].sequence + 1
               f == Head(wire[k])
           IN  /\ n \in 1..Len(sent[k])
               /\ f.sequence = reader[k].sequence
               /\ reader[k].sequence \in Nat
               /\ Len(exposed[k]) = reader[k].sequence
               /\ DataRead(k)
               /\ f.kind = sent[k][n].kind
               /\ f.kind = "data" => n <= Len(source[k]) /\ f.payload = source[k][n]
               /\ f.kind = "close" => n = Len(sent[k]) /\ n = Len(source[k]) + 1 /\ sourceEnd[k] = "eof"
<1> DEFINE n == reader[k].sequence + 1
           f == Head(wire[k])
<1>1. IsSequence(wire[k]) /\ IsSequence(sent[k]) /\ reader[k].sequence \in Nat BY Zenon
                                                                                  DEF StreamInv, Shape
<1>2. f \in ElementsOf(wire[k]) BY <1>1, SequenceTail, Zenon
<1>3. n \in 1..Len(sent[k]) /\ f.kind = sent[k][n].kind /\ f.payload = sent[k][n].payload
  BY <1>2, AcceptedIsNext, Zenon
<1>4. Len(sent[k]) \in Nat BY <1>1, SequenceLen, Zenon
<1>5. DataRead(k)
  <2>1. DataRead(k) \/ CloseRead(k) BY Zenon DEF StreamInv, ReaderInv
  <2>2. ~CloseRead(k)
    <3>1. reader[k].sequence # Len(sent[k]) BY <1>1, <1>3, <1>4
    <3> QED BY <3>1, Zenon DEF CloseRead
  <2> QED BY <2>1, <2>2, Zenon
<1>6. SentFrame(k, n) BY <1>3, Zenon DEF StreamInv, SentInv
<1>7. f.sequence = reader[k].sequence BY Zenon DEF Accepts
<1>8. Len(exposed[k]) = reader[k].sequence BY <1>5, Zenon DEF DataRead
<1>9. sent[k][n].kind = "data" => n <= Len(source[k]) /\ sent[k][n].payload = source[k][n]
  BY <1>6, Zenon DEF SentFrame
<1>10. sent[k][n].kind = "close" => n = Len(sent[k]) /\ n = Len(source[k]) + 1 /\ sourceEnd[k] = "eof"
  BY <1>6, Zenon DEF SentFrame
<1> HIDE DEF n, f
<1>11. f.kind = "data" => n <= Len(source[k]) /\ f.payload = source[k][n]
  BY <1>3, <1>9, Zenon
<1>12. f.kind = "close" => n = Len(sent[k]) /\ n = Len(source[k]) + 1 /\ sourceEnd[k] = "eof"
  BY <1>3, <1>10, Zenon
<1> QED BY <1>1, <1>3, <1>5, <1>7, <1>8, <1>11, <1>12, Zenon DEF n, f

\* Read takes the next frame off the wire and moves on.
LEMMA ReadStep ==
    ASSUME StreamInv, NEW k \in Streams, wire[k] # <<>>, NEW r, NEW e \in Seq(Messages),
           UNCHANGED <<source, sourceEnd, encoder, sent>>,
           wire' = [wire EXCEPT ![k] = Tail(wire[k])],
           reader' = [reader EXCEPT ![k] = r],
           exposed' = [exposed EXCEPT ![k] = e],
           r.sequence \in Nat, r.closed \in BOOLEAN,
           r.sequence <= Len(sent[k]),
           \/ /\ Len(e) = r.sequence
              /\ r.closed = FALSE
              /\ \A i \in 1..r.sequence : sent[k][i].kind = "data"
           \/ /\ r.sequence = Len(sent[k])
              /\ Len(e) + 1 = Len(sent[k])
              /\ sent[k][Len(sent[k])].kind = "close",
           \A i \in 1..Len(e) : e[i] = source[k][i]
    PROVE  StreamInv'
<1>1. /\ DOMAIN wire = Streams /\ DOMAIN reader = Streams
      /\ exposed \in [Streams -> Seq(Messages)] /\ IsSequence(wire[k])
  BY Zenon DEF StreamInv, Shape
<1>2. /\ wire'[k] = Tail(wire[k]) /\ reader'[k] = r /\ exposed'[k] = e
      /\ DOMAIN wire' = Streams /\ DOMAIN reader' = Streams
      /\ exposed' \in [Streams -> Seq(Messages)]
      /\ \A j \in Streams : j # k => /\ wire'[j] = wire[j] /\ reader'[j] = reader[j]
                                     /\ exposed'[j] = exposed[j]
  BY <1>1, Zenon
<1>3. IsSequence(Tail(wire[k])) /\ ElementsOf(Tail(wire[k])) \subseteq ElementsOf(wire[k])
  BY <1>1, SequenceTail, Zenon
<1>4. \A j \in Streams : IsSequence(wire'[j]) /\ ElementsOf(wire'[j]) \subseteq ElementsOf(wire[j])
  <2> TAKE j \in Streams
  <2>1. CASE j = k BY <1>2, <1>3, <2>1, Zenon
  <2>2. CASE j # k BY <1>2, <2>2, Zenon DEF StreamInv, Shape
  <2> QED BY <2>1, <2>2, Zenon
<1>5. \A j \in Streams : reader'[j].sequence \in Nat /\ reader'[j].closed \in BOOLEAN
  BY <1>2, Zenon DEF StreamInv, Shape
<1>6. Shape' BY <1>2, <1>4, <1>5, Zenon DEF StreamInv, Shape
<1>7. SentInv'
  <2> SUFFICES ASSUME NEW j \in Streams, NEW i \in 1..Len(sent[j]) PROVE SentFrame(j, i)'
    BY Zenon DEF SentInv
  <2>1. SentFrame(j, i) BY Zenon DEF StreamInv, SentInv
  <2> QED BY <2>1, Zenon DEF SentFrame, frameMAC
<1>8. WireInv'
  <2> SUFFICES ASSUME NEW j \in Streams, NEW g \in ElementsOf(wire'[j])
               PROVE  IsFrame(g) /\ Written(g.mac)'
    BY Zenon DEF WireInv
  <2>1. g \in ElementsOf(wire[j]) BY <1>4, Zenon
  <2>2. IsFrame(g) /\ Written(g.mac) BY <2>1, Zenon DEF StreamInv, WireInv
  <2> QED BY <2>2, Zenon DEF Written
<1>9. ReaderInv'
  <2> SUFFICES ASSUME NEW j \in Streams
               PROVE  /\ reader'[j].sequence <= Len(sent[j])
                      /\ DataRead(j)' \/ CloseRead(j)'
                      /\ Follows(j)'
    BY Zenon DEF ReaderInv
  <2>1. CASE j = k BY <1>2, <2>1, Zenon DEF DataRead, CloseRead, Follows
  <2>2. CASE j # k
    <3>1. reader'[j] = reader[j] /\ exposed'[j] = exposed[j] BY <1>2, <2>2, Zenon
    <3>2. reader[j].sequence <= Len(sent[j]) /\ (DataRead(j) \/ CloseRead(j)) /\ Follows(j)
      BY Zenon DEF StreamInv, ReaderInv
    <3> QED BY <3>1, <3>2, Zenon DEF DataRead, CloseRead, Follows
  <2> QED BY <2>1, <2>2, Zenon
<1> QED BY <1>6, <1>7, <1>8, <1>9, Zenon DEF StreamInv

\* A data frame that Read accepts holds the next envelope.
LEMMA ReadDataFacts ==
    ASSUME StreamInv, NEW k \in Streams, ReadData(k)
    PROVE  LET n == Len(exposed[k]) + 1
           IN  /\ reader[k].closed = FALSE
               /\ n \in 1..Len(source[k])
               /\ exposed' = [exposed EXCEPT ![k] = Append(exposed[k], source[k][n])]
<1>1. /\ wire[k] # <<>> /\ Accepts(k, Head(wire[k])) /\ Head(wire[k]).kind = "data"
      /\ exposed' = [exposed EXCEPT ![k] = Append(exposed[k], Head(wire[k]).payload)]
  BY Zenon DEF ReadData
<1>2. /\ Len(exposed[k]) = reader[k].sequence /\ reader[k].sequence \in Nat /\ DataRead(k)
      /\ reader[k].sequence + 1 <= Len(source[k])
      /\ Head(wire[k]).payload = source[k][reader[k].sequence + 1]
  BY <1>1, Accepted, Zenon
<1>3. Len(exposed[k]) + 1 \in 1..Len(source[k]) BY <1>2, ExposedBound
<1>4. Head(wire[k]).payload = source[k][Len(exposed[k]) + 1] BY <1>2, Zenon
<1>5. reader[k].closed = FALSE BY <1>2, Zenon DEF DataRead
<1> QED BY <1>1, <1>3, <1>4, <1>5, Zenon

LEMMA ReadDataStep ==
    ASSUME StreamInv, NEW k \in Streams, ReadData(k)
    PROVE  StreamInv'
<1> DEFINE n == reader[k].sequence + 1
           e == Append(exposed[k], source[k][n])
           r == Advance(Head(wire[k]))
<1>1. /\ wire[k] # <<>> /\ Accepts(k, Head(wire[k])) /\ Head(wire[k]).kind = "data"
      /\ UNCHANGED <<source, sourceEnd, encoder, sent>>
      /\ wire' = [wire EXCEPT ![k] = Tail(wire[k])]
      /\ reader' = [reader EXCEPT ![k] = r]
  BY Zenon DEF ReadData
<1>2. /\ n \in 1..Len(sent[k]) /\ Head(wire[k]).sequence = reader[k].sequence
      /\ reader[k].sequence \in Nat /\ Len(exposed[k]) = reader[k].sequence /\ DataRead(k)
      /\ sent[k][n].kind = "data" /\ n <= Len(source[k])
  BY <1>1, Accepted, Zenon
<1>3. exposed' = [exposed EXCEPT ![k] = e] BY <1>2, ReadDataFacts, Zenon
<1>4. r.sequence = n /\ r.closed = FALSE BY <1>2, Zenon DEF Advance
<1>5. exposed[k] \in Seq(Messages) /\ source[k] \in Seq(Messages) /\ Len(source[k]) \in Nat
  BY SeqShape, Zenon DEF StreamInv, Shape
<1>6. source[k][n] \in Messages BY <1>2, <1>5, SeqShape
<1>7. /\ e \in Seq(Messages) /\ Len(e) = n /\ e[n] = source[k][n]
      /\ \A i \in 1..reader[k].sequence : e[i] = exposed[k][i]
  BY <1>2, <1>5, <1>6, SeqAppend
<1>8. \A i \in 1..reader[k].sequence : sent[k][i].kind = "data" /\ exposed[k][i] = source[k][i]
  BY <1>2, Zenon DEF DataRead, StreamInv, ReaderInv, Follows
<1> HIDE DEF r, e
<1>9. \A i \in 1..n : i \in 1..reader[k].sequence \/ i = n
  <2>1. \A m \in Nat : \A i \in 1..(m + 1) : i \in 1..m \/ i = m + 1 OBVIOUS
  <2> QED BY <1>2, <2>1, Zenon
<1> HIDE DEF n
<1>10. \A i \in 1..n : sent[k][i].kind = "data" /\ e[i] = source[k][i]
  BY <1>2, <1>7, <1>8, <1>9, Zenon
<1>11. n \in Nat /\ n <= Len(sent[k]) /\ Len(sent[k]) \in Nat BY <1>2, ExposedBound DEF n
<1>12. r.sequence \in Nat /\ r.closed \in BOOLEAN /\ r.sequence <= Len(sent[k]) BY <1>4, <1>11, Zenon
<1>13. /\ Len(e) = r.sequence
       /\ \A i \in 1..r.sequence : sent[k][i].kind = "data"
       /\ \A i \in 1..Len(e) : e[i] = source[k][i]
  BY <1>4, <1>7, <1>10, Zenon
<1> QED BY <1>1, <1>3, <1>4, <1>7, <1>12, <1>13, ReadStep, Zenon

\* A close frame that Read accepts comes after all the envelopes.
LEMMA ReadCloseFacts ==
    ASSUME StreamInv, NEW k \in Streams, ReadClose(k)
    PROVE  /\ reader[k].closed = FALSE
           /\ sourceEnd[k] = "eof"
           /\ exposed[k] = source[k]
           /\ exposed' = exposed
           /\ \E p \in BOOLEAN :
                reader' = [reader EXCEPT ![k] = [Advance(Head(wire[k])) EXCEPT !.closed = p]]
<1>1. wire[k] # <<>> /\ Accepts(k, Head(wire[k])) /\ Head(wire[k]).kind = "close" /\ exposed' = exposed
  BY Zenon DEF ReadClose
<1>2. /\ Len(exposed[k]) = reader[k].sequence /\ reader[k].sequence \in Nat /\ DataRead(k)
      /\ reader[k].sequence + 1 = Len(source[k]) + 1 /\ sourceEnd[k] = "eof"
  BY <1>1, Accepted, Zenon
<1>3. exposed[k] \in Seq(Messages) /\ source[k] \in Seq(Messages) /\ Len(source[k]) \in Nat
  BY SeqShape, Zenon DEF StreamInv, Shape
<1>4. Len(exposed[k]) = Len(source[k]) BY <1>2, <1>3
<1>5. \A i \in 1..Len(exposed[k]) : exposed[k][i] = source[k][i] BY Zenon
                                                                    DEF StreamInv, ReaderInv, Follows
<1>6. exposed[k] = source[k] BY <1>3, <1>4, <1>5, SeqSame, Zenon
<1>7. reader[k].closed = FALSE BY <1>2, Zenon DEF DataRead
<1>8. \E p \in BOOLEAN : reader' = [reader EXCEPT ![k] = [Advance(Head(wire[k])) EXCEPT !.closed = p]]
  <2> DEFINE proper == Head(wire[k]).payload = Empty /\ Len(wire[k]) = 1 /\ wireEnd[k] = "eof"
  <2>1. reader' = [reader EXCEPT ![k] = [Advance(Head(wire[k])) EXCEPT !.closed = proper]]
    BY Zenon DEF ReadClose
  <2>2. proper \in BOOLEAN BY Zenon
  <2> HIDE DEF proper
  <2> QED BY <2>1, <2>2, Zenon
<1> QED BY <1>1, <1>2, <1>6, <1>7, <1>8, Zenon

LEMMA ReadCloseStep ==
    ASSUME StreamInv, NEW k \in Streams, ReadClose(k)
    PROVE  StreamInv'
<1> DEFINE n == reader[k].sequence + 1
<1>1. /\ wire[k] # <<>> /\ Accepts(k, Head(wire[k])) /\ Head(wire[k]).kind = "close"
      /\ UNCHANGED <<source, sourceEnd, encoder, sent>>
      /\ wire' = [wire EXCEPT ![k] = Tail(wire[k])]
  BY Zenon DEF ReadClose
<1>2. /\ n \in 1..Len(sent[k]) /\ Head(wire[k]).sequence = reader[k].sequence
      /\ reader[k].sequence \in Nat /\ Len(exposed[k]) = reader[k].sequence
      /\ sent[k][n].kind = "close" /\ n = Len(sent[k])
  BY <1>1, Accepted, Zenon
<1>3. PICK p \in BOOLEAN : reader' = [reader EXCEPT ![k] = [Advance(Head(wire[k])) EXCEPT !.closed = p]]
  BY ReadCloseFacts, Zenon
<1> DEFINE r == [Advance(Head(wire[k])) EXCEPT !.closed = p]
<1>4. r.sequence = n /\ r.closed = p BY <1>2, Zenon DEF Advance
<1>5. exposed[k] \in Seq(Messages) /\ exposed' = [exposed EXCEPT ![k] = exposed[k]]
  BY ReadCloseFacts, Zenon DEF StreamInv, Shape
<1>6. \A i \in 1..Len(exposed[k]) : exposed[k][i] = source[k][i] BY Zenon
                                                                    DEF StreamInv, ReaderInv, Follows
<1>7. n \in Nat /\ n <= Len(sent[k]) /\ Len(exposed[k]) + 1 = Len(sent[k])
  BY <1>2, ExposedBound
<1>8. reader' = [reader EXCEPT ![k] = r] BY <1>3, Zenon
<1> HIDE DEF r, n
<1>9. /\ r.sequence \in Nat /\ r.closed \in BOOLEAN /\ r.sequence <= Len(sent[k])
      /\ r.sequence = Len(sent[k]) /\ sent[k][Len(sent[k])].kind = "close"
  BY <1>2, <1>4, <1>7, Zenon
<1> QED BY <1>1, <1>5, <1>6, <1>7, <1>8, <1>9, ReadStep, Zenon

LEMMA StreamInvNext == StreamInv /\ [StreamNext]_streamVars => StreamInv'
<1> SUFFICES ASSUME StreamInv, [StreamNext]_streamVars PROVE StreamInv' BY Zenon
<1>1. ASSUME NEW k \in Streams, Client(k) PROVE StreamInv'
  BY <1>1, EncoderQuiet, WriteStep, FinishStep, Zenon DEF Client
<1>2. ASSUME NEW k \in Streams, Encode(k) PROVE StreamInv'
  BY <1>2, EncoderQuiet, EncodeDataStep, EncodeCloseStep, Zenon DEF Encode
<1>3. ASSUME NEW k \in Streams, Fault(k) PROVE StreamInv'
  BY <1>3, FaultStep, Zenon
<1>4. ASSUME NEW k \in Streams, Read(k) PROVE StreamInv'
  BY <1>4, ReaderQuiet, ReadDataStep, ReadCloseStep, Zenon DEF Read
<1>5. CASE UNCHANGED streamVars
  <2>1. UNCHANGED <<source, sourceEnd, sent, reader, exposed, encoder, wire>> BY <1>5, Zenon
                                                                                 DEF streamVars
  <2> QED BY <2>1, QuietStep, Zenon DEF StreamInv, Shape, WireInv
<1> QED BY <1>1, <1>2, <1>3, <1>4, <1>5, Zenon DEF StreamNext

LEMMA StreamSpecInv == StreamSpec => []StreamInv
BY StreamInvInit, StreamInvNext, PTL DEF StreamSpec

(***************************************************************************)
(* The refinement                                                          *)
(***************************************************************************)

\* Read exposes the next envelope.
LEMMA ReadDataRefines ==
    ASSUME StreamInv, NEW k \in Streams, ReadData(k)
    PROVE  Promise!Expose(k)
<1>1. /\ reader[k].closed = FALSE
      /\ Len(exposed[k]) + 1 \in 1..Len(source[k])
      /\ exposed' = [exposed EXCEPT ![k] = Append(exposed[k], source[k][Len(exposed[k]) + 1])]
  BY ReadDataFacts, Zenon
<1>2. /\ source' = source /\ sourceEnd' = sourceEnd
      /\ reader' = [reader EXCEPT ![k] = Advance(Head(wire[k]))]
  BY Zenon DEF ReadData
<1>3. Len(exposed[k]) < Len(source[k]) BY <1>1, ExposedBound
<1>4. DOMAIN reader = Streams BY Zenon DEF StreamInv, Shape
<1>5. \A j \in Streams : reader'[j].closed = reader[j].closed
  BY <1>1, <1>2, <1>4, Zenon DEF Advance
<1>6. Closed' = Closed BY <1>5, Zenon DEF Closed
<1>7. ~Closed[k] BY <1>1, Zenon DEF Closed
<1> QED BY <1>1, <1>2, <1>3, <1>6, <1>7, Zenon DEF Promise!Expose

\* Read ends the stream, or refuses what follows the close frame.
LEMMA ReadCloseRefines ==
    ASSUME StreamInv, NEW k \in Streams, ReadClose(k)
    PROVE  Promise!End(k) \/ UNCHANGED <<source, sourceEnd, exposed, Closed>>
<1>1. /\ reader[k].closed = FALSE /\ sourceEnd[k] = "eof" /\ exposed[k] = source[k]
      /\ exposed' = exposed
  BY ReadCloseFacts, Zenon
<1>2. PICK p \in BOOLEAN : reader' = [reader EXCEPT ![k] = [Advance(Head(wire[k])) EXCEPT !.closed = p]]
  BY ReadCloseFacts, Zenon
<1>3. source' = source /\ sourceEnd' = sourceEnd BY Zenon DEF ReadClose
<1>4. DOMAIN reader = Streams BY Zenon DEF StreamInv, Shape
<1>5. /\ \A j \in Streams : j # k => reader'[j] = reader[j]
      /\ reader'[k].closed = p
  BY <1>2, <1>4, Zenon DEF Advance
<1>6. CASE p = FALSE
  <2>1. \A j \in Streams : reader'[j].closed = reader[j].closed BY <1>1, <1>5, <1>6, Zenon
  <2>2. Closed' = Closed BY <2>1, Zenon DEF Closed
  <2> QED BY <1>1, <1>3, <2>2, Zenon
<1>7. CASE p = TRUE
  <2>1. ~Closed[k] BY <1>1, Zenon DEF Closed
  <2>2. Closed' = [j \in Streams |-> IF j = k THEN TRUE ELSE Closed[j]]
    BY <1>5, <1>7, Zenon DEF Closed
  <2>3. Closed' = [Closed EXCEPT ![k] = TRUE] BY <2>2, Zenon DEF Closed
  <2> QED BY <1>1, <1>3, <2>1, <2>3, Zenon DEF Promise!End
<1> QED BY <1>6, <1>7, Zenon

LEMMA StepRefines ==
    ASSUME StreamInv, [StreamNext]_streamVars
    PROVE  [Promise!Next]_<<source, sourceEnd, exposed, Closed>>
<1>1. ASSUME reader' = reader PROVE Closed' = Closed BY <1>1, Zenon DEF Closed
<1>2. ASSUME NEW k \in Streams, NEW m \in Messages, Write(k, m) PROVE Promise!Write(k, m)
  BY <1>1, <1>2, Zenon DEF Write, Promise!Write
<1>3. ASSUME NEW k \in Streams, NEW how \in {"eof", "error"}, Finish(k, how) PROVE Promise!Finish(k, how)
  BY <1>1, <1>3, Zenon DEF Finish, Promise!Finish
<1>4. ASSUME NEW k \in Streams, RoundTrip(k) \/ Encode(k)
      PROVE  UNCHANGED <<source, sourceEnd, exposed, Closed>>
  <2>1. CASE RoundTrip(k) BY <1>1, <2>1, Zenon DEF RoundTrip
  <2>2. CASE EncodeData(k) BY <1>1, <2>2, Zenon DEF EncodeData, Emit
  <2>3. CASE EncodeClose(k) BY <1>1, <2>3, Zenon DEF EncodeClose, Emit
  <2>4. CASE EncodeFails(k) BY <1>1, <2>4, Zenon DEF EncodeFails
  <2>5. CASE CloseBody(k) BY <1>1, <2>5, Zenon DEF CloseBody
  <2> QED BY <1>4, <2>1, <2>2, <2>3, <2>4, <2>5, Zenon DEF Encode
<1>5. ASSUME NEW k \in Streams, Fault(k)
      PROVE  UNCHANGED <<source, sourceEnd, exposed, Closed>>
  <2>1. \E frames, end : Damage(k, frames, end)
    BY <1>5, Zenon DEF Fault, Lose, Insert, Reorder, Alter, Cut
  <2> QED BY <1>1, <2>1, Zenon DEF Damage
<1>6. ASSUME NEW k \in Streams, ReadRefused(k) \/ ReadEnd(k)
      PROVE  UNCHANGED <<source, sourceEnd, exposed, Closed>>
  BY <1>1, <1>6, Zenon DEF ReadRefused, ReadEnd
<1>7. CASE UNCHANGED streamVars
  BY <1>1, <1>7, Zenon DEF streamVars
<1>8. ASSUME NEW k \in Streams, Read(k)
      PROVE  Promise!Expose(k) \/ Promise!End(k) \/ UNCHANGED <<source, sourceEnd, exposed, Closed>>
  BY <1>6, <1>8, ReadDataRefines, ReadCloseRefines, Zenon DEF Read
<1>9. ASSUME NEW k \in Streams, Client(k)
      PROVE  \/ \E m \in Messages : Promise!Write(k, m)
             \/ \E how \in {"eof", "error"} : Promise!Finish(k, how)
             \/ UNCHANGED <<source, sourceEnd, exposed, Closed>>
  BY <1>2, <1>3, <1>4, <1>9, Zenon DEF Client
<1> QED BY <1>4, <1>5, <1>7, <1>8, <1>9, Zenon DEF StreamNext, Promise!Next

\* Every stream keeps the promise of PrefixStream, for any number of streams,
\* envelopes and transport faults: what encodeStream writes and the connection
\* spoils, verifiedStreamReader turns into a prefix of what the client wrote, and
\* into EOF only at its end.
THEOREM StreamsImplementPrefix == StreamSpec => ImplementsPrefixStream
<1>1. StreamInit => Promise!Init
  BY DEF StreamInit, Promise!Init, Closed
<1>2. StreamInv /\ [StreamNext]_streamVars => [Promise!Next]_<<source, sourceEnd, exposed, Closed>>
  BY StepRefines, Zenon
<1> QED BY <1>1, <1>2, StreamSpecInv, PTL DEF StreamSpec, ImplementsPrefixStream, Promise!Spec

(***************************************************************************)
(* The sink: a stream per batch                                            *)
(***************************************************************************)

\* The stream a send has open carries the first entries of its batch, all of them
\* once the request has ended, and no later stream has been opened.
Carried(f) ==
    LET k == stream[f]
    IN  /\ flush[f] = "send"
        /\ encoder[k] # "idle"
        /\ Len(source[k]) <= Len(batch[f])
        /\ \A i \in 1..Len(source[k]) : source[k][i] = batch[f][i]
        /\ sourceEnd[k] = "eof" => Len(source[k]) = Len(batch[f])
        /\ \A j \in Streams : j > k => encoder[j] = "idle"

\* A stream whose send is over has entries that the sink has dealt with.
Past(k) ==
    (\A f \in Flushers : stream[f] # k) =>
        \A i \in 1..Len(source[k]) : source[k][i] <= Handled

\* Streams are opened in order, and entries written to them in order.
Opened ==
    /\ \A k \in Streams : encoder[k] = "idle" => source[k] = <<>> /\ sourceEnd[k] = "open"
    /\ \A j, k \in Streams : j < k /\ encoder[k] # "idle" => encoder[j] # "idle"
    /\ \A j, k \in Streams : j < k =>
          \A m \in 1..Len(source[j]), n \in 1..Len(source[k]) : source[j][m] < source[k][n]

\* What counts as delivered has been exposed.
Arrived ==
    \A i \in 1..Len(delivered) :
        \E k \in Streams : \E n \in 1..Len(exposed[k]) : delivered[i] = exposed[k][n]

SinkState ==
    /\ calls <= MaxCalls
    /\ setting \in Settings
    /\ stream \in [Flushers -> Streams \cup {0}]
    /\ \A f \in Flushers : stream[f] # 0 => Carried(f)
    /\ \A k \in Streams : Past(k)
    /\ Opened
    /\ Arrived

DeliveryInv == Inv /\ StreamInv /\ SinkState

\* Shapes that the steps below need.
LEMMA SinkShapes ==
    ASSUME DeliveryInv
    PROVE  /\ Streams = 1..MaxCalls /\ MaxCalls \in Nat /\ Messages = 1..MaxCalls
           /\ \A k \in Streams : /\ source[k] \in Seq(Messages) /\ Len(source[k]) \in Nat
                                 /\ exposed[k] \in Seq(Messages) /\ Len(exposed[k]) \in Nat
                                 /\ \A i \in 1..Len(source[k]) : source[k][i] \in Messages
           /\ DOMAIN source = Streams /\ DOMAIN encoder = Streams /\ DOMAIN sourceEnd = Streams
           /\ \A f \in Flushers : batch[f] \in Seq(1..accepted) /\ Len(batch[f]) \in Nat
           /\ accepted \in Nat /\ Handled \in Nat
           /\ delivered \in Seq(1..accepted) /\ Len(delivered) \in Nat
<1>1. Streams = 1..MaxCalls /\ MaxCalls \in Nat /\ Messages = 1..MaxCalls
  BY DeliveryAssumption, LoggerAssumption, Zenon
<1>2. source \in [Streams -> Seq(Messages)] /\ exposed \in [Streams -> Seq(Messages)]
  BY Zenon DEF DeliveryInv, StreamInv, Shape
<1>3. DOMAIN source = Streams /\ DOMAIN encoder = Streams /\ DOMAIN sourceEnd = Streams
  BY Zenon DEF DeliveryInv, StreamInv, Shape
<1>4. \A k \in Streams : source[k] \in Seq(Messages) /\ exposed[k] \in Seq(Messages)
  BY <1>2, Zenon
<1>5. \A s \in Seq(Messages) : Len(s) \in Nat /\ \A i \in 1..Len(s) : s[i] \in Messages
  BY SeqShape, Zenon
<1>6. batch \in [Flushers -> Seq(1..accepted)] /\ accepted \in Nat /\ delivered \in Seq(1..accepted)
  BY Zenon DEF DeliveryInv, Inv, TypeOK
<1>7. \A f \in Flushers : batch[f] \in Seq(1..accepted)
  BY <1>6, Zenon
<1>8. \A s \in Seq(1..accepted) : Len(s) \in Nat
  BY SeqShape, Zenon
<1>9. Handled \in Nat BY Zenon DEF DeliveryInv, Inv, Settled
<1> QED BY <1>1, <1>3, <1>4, <1>5, <1>6, <1>7, <1>8, <1>9, Zenon

\* Only the flusher that is sending has a stream.
LEMMA OneStream ==
    ASSUME DeliveryInv, NEW f \in Flushers, flush[f] = "send"
    PROVE  /\ \A g \in Flushers : g # f => stream[g] = 0 /\ Len(batch[g]) = 0
           /\ Handled = accepted - Len(buffer) - Len(batch[f])
           /\ \A i \in 1..Len(batch[f]) : batch[f][i] = Handled + i
<1>1. TypeOK /\ Discipline /\ Placed BY Zenon DEF DeliveryInv, Inv
<1>2. Flushing(f) BY Zenon DEF Flushing
<1>3. /\ \A g \in Flushers \ {f} : Len(batch[g]) = 0 /\ ~Flushing(g)
      /\ Handled = accepted - Len(buffer) - Len(batch[f])
  BY <1>1, <1>2, OneBatch, Zenon
<1>4. ASSUME NEW g \in Flushers, g # f PROVE stream[g] = 0 /\ Len(batch[g]) = 0
  <2>1. g \in Flushers \ {f} BY <1>4, Zenon
  <2>2. flush[g] # "send" BY <1>3, <2>1, Zenon DEF Flushing
  <2>3. stream[g] # 0 => flush[g] = "send" BY Zenon DEF DeliveryInv, SinkState, Carried
  <2> QED BY <1>3, <2>1, <2>2, <2>3, Zenon
<1>5. \A i \in 1..Len(batch[f]) : batch[f][i] = Handled + i
  BY <1>1, Zenon DEF Placed
<1> QED BY <1>3, <1>4, <1>5, Zenon

\* The stream of a send.
LEMMA StreamOf ==
    ASSUME DeliveryInv, NEW f \in Flushers, stream[f] # 0
    PROVE  /\ stream[f] \in Streams
           /\ Carried(f)
           /\ flush[f] = "send"
<1>1. stream \in [Flushers -> Streams \cup {0}] /\ (stream[f] # 0 => Carried(f))
  BY Zenon DEF DeliveryInv, SinkState
<1>2. stream[f] \in Streams \cup {0} BY <1>1, Zenon
<1>3. Carried(f) BY <1>1, Zenon
<1>4. flush[f] = "send" BY <1>3, Zenon DEF Carried
<1> QED BY <1>2, <1>3, <1>4, Zenon

\* A step that opens no stream, writes no entry and ends no send.
LEMMA KeepsSink ==
    ASSUME DeliveryInv,
           calls' <= MaxCalls, UNCHANGED <<source, stream, setting, delivered>>,
           \A k \in Streams : encoder'[k] = "idle" <=> encoder[k] = "idle",
           \A k \in Streams : encoder[k] = "idle" => sourceEnd'[k] = sourceEnd[k],
           \A f \in Flushers : stream[f] # 0 =>
               /\ flush'[f] = "send"
               /\ batch'[f] = batch[f]
               /\ sourceEnd'[stream[f]] = "eof" => Len(source[stream[f]]) = Len(batch[f]),
           Handled' = Handled,
           \A k \in Streams : \A n \in 1..Len(exposed[k]) :
               n \in 1..Len(exposed'[k]) /\ exposed'[k][n] = exposed[k][n]
    PROVE  SinkState'
<1>1. stream' = stream /\ source' = source /\ setting' = setting /\ delivered' = delivered
  BY Zenon
<1>2. setting' \in Settings /\ stream' \in [Flushers -> Streams \cup {0}]
  BY <1>1, Zenon DEF DeliveryInv, SinkState
<1>3. ASSUME NEW f \in Flushers, stream'[f] # 0 PROVE Carried(f)'
  <2>1. stream[f] # 0 BY <1>1, <1>3, Zenon
  <2>2. stream[f] \in Streams /\ Carried(f) BY <2>1, StreamOf, Zenon
  <2>3. PICK k \in Streams : k = stream[f] BY <2>2, Zenon
  <2>4. /\ encoder[k] # "idle"
        /\ Len(source[k]) <= Len(batch[f])
        /\ \A i \in 1..Len(source[k]) : source[k][i] = batch[f][i]
        /\ \A j \in Streams : j > k => encoder[j] = "idle"
    BY <2>2, <2>3, Zenon DEF Carried
  <2>5. /\ flush'[f] = "send"
        /\ batch'[f] = batch[f]
        /\ sourceEnd'[k] = "eof" => Len(source[k]) = Len(batch[f])
    BY <2>1, <2>3, Zenon
  <2>6. encoder'[k] # "idle" /\ \A j \in Streams : j > k => encoder'[j] = "idle"
    BY <2>4, Zenon
  <2>7. stream'[f] = k BY <1>1, <2>3, Zenon
  <2> QED BY <1>1, <2>4, <2>5, <2>6, <2>7, Zenon DEF Carried
<1>4. ASSUME NEW k \in Streams PROVE Past(k)'
  <2>1. Past(k) BY Zenon DEF DeliveryInv, SinkState
  <2> QED BY <1>1, <2>1, Zenon DEF Past
<1>5. Opened'
  <2>1. Opened BY Zenon DEF DeliveryInv, SinkState
  <2>2. \A k \in Streams : encoder'[k] = "idle" => source'[k] = <<>> /\ sourceEnd'[k] = "open"
    BY <1>1, <2>1, Zenon DEF Opened
  <2>3. \A j, k \in Streams : j < k /\ encoder'[k] # "idle" => encoder'[j] # "idle"
    BY <2>1, Zenon DEF Opened
  <2>4. \A j, k \in Streams : j < k =>
          \A m \in 1..Len(source'[j]), n \in 1..Len(source'[k]) : source'[j][m] < source'[k][n]
    BY <1>1, <2>1, Zenon DEF Opened
  <2> QED BY <2>2, <2>3, <2>4, Zenon DEF Opened
<1>6. Arrived'
  <2>1. Arrived BY Zenon DEF DeliveryInv, SinkState
  <2>2. ASSUME NEW i \in 1..Len(delivered)
        PROVE  \E k \in Streams : \E n \in 1..Len(exposed'[k]) : delivered[i] = exposed'[k][n]
    <3>1. PICK k \in Streams : \E n \in 1..Len(exposed[k]) : delivered[i] = exposed[k][n]
      BY <2>1, Zenon DEF Arrived
    <3>2. PICK n \in 1..Len(exposed[k]) : delivered[i] = exposed[k][n] BY <3>1, Zenon
    <3>3. n \in 1..Len(exposed'[k]) /\ delivered[i] = exposed'[k][n] BY <3>2, Zenon
    <3> QED BY <3>3, Zenon
  <2>3. ASSUME NEW i \in 1..Len(delivered')
        PROVE  \E k \in Streams : \E n \in 1..Len(exposed'[k]) : delivered'[i] = exposed'[k][n]
    <3>1. i \in 1..Len(delivered) /\ delivered'[i] = delivered[i] BY <1>1, <2>3, Zenon
    <3>2. \E k \in Streams : \E n \in 1..Len(exposed'[k]) : delivered[i] = exposed'[k][n]
      BY <2>2, <3>1, Zenon
    <3> QED BY <3>1, <3>2, Zenon
  <2> QED BY <2>3, Zenon DEF Arrived
<1> QED BY <1>2, <1>3, <1>4, <1>5, <1>6, Zenon DEF SinkState

(***************************************************************************)
(* The steps of the logger and of the streams                              *)
(***************************************************************************)

LEMMA SettingShape ==
    ASSUME DeliveryInv
    PROVE  setting.callers \subseteq Callers
<1>1. /\ setting \in Settings
      /\ Settings \subseteq [callers: SUBSET Callers, calls: 0..MaxCalls, stops: BOOLEAN,
                             timeouts: Nat, faulty: BOOLEAN]
  BY DeliveryAssumption, Zenon DEF DeliveryInv, SinkState
<1>2. setting \in [callers: SUBSET Callers, calls: 0..MaxCalls, stops: BOOLEAN,
                   timeouts: Nat, faulty: BOOLEAN]
  BY <1>1, Zenon
<1>3. setting.callers \in SUBSET Callers BY <1>2, Zenon
<1> QED BY <1>3, Zenon

\* Every step is one of the logger, or leaves it alone.
LEMMA LoggerSteps ==
    ASSUME DeliveryInv, [DeliveryNext]_deliveryVars
    PROVE  [Next]_vars
<1>1. CASE Logs
  <2>1. setting.callers \subseteq Callers BY SettingShape, Zenon
  <2> QED BY <1>1, <2>1, Zenon DEF Logs, Next, Flush
<1>2. CASE Progress \/ Faulty
  <2>1. UNCHANGED vars BY <1>2, Zenon DEF Progress, Faulty
  <2> QED BY <2>1, Zenon
<1>3. ASSUME NEW f \in Flushers, Sends(f) PROVE [Next]_vars
  <2>1. CASE Open(f) \/ SendEntry(f) \/ CloseSend(f)
    <3>1. UNCHANGED vars BY <2>1, Zenon DEF Open, SendEntry, CloseSend
    <3> QED BY <3>1, Zenon
  <2>2. CASE Answered(f)
    BY <2>2, Zenon DEF Answered, Next, Flush
  <2>3. CASE GivesUp(f)
    <3>1. PICK n : n = Len(exposed[stream[f]]) BY Zenon
    <3>2. SendFails(f, n) BY <2>3, <3>1, Zenon DEF GivesUp
    <3>3. n \in 0..Len(batch[f]) BY <3>2, Zenon DEF SendFails
    <3>4. Len(batch[f]) <= FlushSize BY Zenon DEF DeliveryInv, Inv, Discipline
    <3>5. Len(batch[f]) \in Nat BY SinkShapes, Zenon
    <3>6. n \in 0..FlushSize BY <3>3, <3>4, <3>5, LoggerAssumption
    <3> QED BY <3>2, <3>6, Zenon DEF Next, Flush
  <2> QED BY <1>3, <2>1, <2>2, <2>3, Zenon DEF Sends
<1>4. CASE UNCHANGED deliveryVars
  <2>1. UNCHANGED vars BY <1>4, Zenon DEF deliveryVars
  <2> QED BY <2>1, Zenon
<1> QED BY <1>1, <1>2, <1>3, <1>4, Zenon DEF DeliveryNext

\* Every entry has a number that is a message.
LEMMA EntriesAreMessages ==
    ASSUME DeliveryInv, NEW f \in Flushers, NEW i \in 1..Len(batch[f])
    PROVE  batch[f][i] \in Messages
<1>1. /\ Messages = 1..MaxCalls /\ MaxCalls \in Nat /\ accepted \in Nat
      /\ batch[f] \in Seq(1..accepted)
  BY SinkShapes, Zenon
<1>2. batch[f][i] \in 1..accepted BY <1>1, SeqShape, Zenon
<1>3. accepted <= calls /\ calls \in Nat BY Zenon DEF DeliveryInv, Inv, TypeOK
<1>5. calls <= MaxCalls BY Zenon DEF DeliveryInv, SinkState
<1>6. accepted <= MaxCalls BY <1>1, <1>3, <1>5
<1> QED BY <1>1, <1>2, <1>6

\* Every step is one of the streams, or leaves them alone.
LEMMA StreamSteps ==
    ASSUME DeliveryInv, [DeliveryNext]_deliveryVars
    PROVE  [StreamNext]_streamVars
<1>1. CASE Logs
  <2>1. UNCHANGED streamVars BY <1>1, Zenon DEF Logs, sinkVars
  <2> QED BY <2>1, Zenon
<1>2. CASE Progress \/ Faulty
  BY <1>2, Zenon DEF Progress, Faulty, StreamNext
<1>3. ASSUME NEW f \in Flushers, Sends(f) PROVE [StreamNext]_streamVars
  <2>1. CASE Open(f)
    BY <2>1, Zenon DEF Open, StreamNext, Client
  <2>2. CASE SendEntry(f)
    <3>1. stream[f] # 0 BY <2>2, Zenon DEF SendEntry
    <3>2. PICK k \in Streams : k = stream[f] BY <3>1, StreamOf, Zenon
    <3>3. PICK n : n = Len(source[k]) + 1 BY Zenon
    <3>4. Len(source[k]) < Len(batch[f]) /\ Write(k, batch[f][n])
      BY <2>2, <3>2, <3>3, Zenon DEF SendEntry
    <3>5. Len(source[k]) \in Nat /\ Len(batch[f]) \in Nat BY SinkShapes, Zenon
    <3>6. n \in 1..Len(batch[f]) BY <3>3, <3>4, <3>5
    <3>7. batch[f][n] \in Messages BY <3>6, EntriesAreMessages, Zenon
    <3> QED BY <3>4, <3>7, Zenon DEF StreamNext, Client
  <2>3. CASE CloseSend(f)
    <3>1. stream[f] # 0 BY <2>3, Zenon DEF CloseSend
    <3>2. stream[f] \in Streams BY <3>1, StreamOf, Zenon
    <3>3. Finish(stream[f], "eof") BY <2>3, Zenon DEF CloseSend
    <3> QED BY <3>2, <3>3, Zenon DEF StreamNext, Client
  <2>4. CASE Answered(f)
    <3>1. UNCHANGED streamVars BY <2>4, Zenon DEF Answered
    <3> QED BY <3>1, Zenon
  <2>5. CASE GivesUp(f)
    <3>1. stream[f] # 0 BY <2>5, Zenon DEF GivesUp
    <3>2. stream[f] \in Streams BY <3>1, StreamOf, Zenon
    <3>3. Finish(stream[f], "error") \/ UNCHANGED streamVars BY <2>5, Zenon DEF GivesUp
    <3> QED BY <3>2, <3>3, Zenon DEF StreamNext, Client
  <2> QED BY <1>3, <2>1, <2>2, <2>3, <2>4, <2>5, Zenon DEF Sends
<1>4. CASE UNCHANGED deliveryVars
  <2>1. UNCHANGED streamVars BY <1>4, Zenon DEF deliveryVars, sinkVars
  <2> QED BY <2>1, Zenon
<1> QED BY <1>1, <1>2, <1>3, <1>4, Zenon DEF DeliveryNext

(***************************************************************************)
(* What the steps do to the sink                                           *)
(***************************************************************************)

\* Draining and pushing move entries that the sink has not dealt with.
LEMMA LogsKeepHandled ==
    ASSUME DeliveryInv, Logs
    PROVE  Handled' = Handled
<1>1. /\ buffer \in Seq(1..accepted) /\ Len(buffer) \in Nat /\ accepted \in Nat
      /\ batch \in [Flushers -> Seq(1..accepted)]
      /\ Len(batch["loop"]) \in Nat /\ Len(batch["stop"]) \in Nat
  <2>1. buffer \in Seq(1..accepted) /\ batch \in [Flushers -> Seq(1..accepted)]
    BY Zenon DEF DeliveryInv, Inv, TypeOK
  <2>2. Len(buffer) \in Nat BY <2>1
  <2>3. "loop" \in Flushers /\ "stop" \in Flushers BY Zenon DEF Flushers
  <2> QED BY <2>1, <2>2, <2>3, SinkShapes, Zenon
<1>2. ASSUME NEW c, Push(c) PROVE Handled' = Handled
  <2>1. batch' = batch BY <1>2, Zenon DEF Push
  <2>2. CASE Len(buffer) >= BufferSize
    <3>1. buffer' = buffer /\ accepted' = accepted BY <1>2, <2>2, Zenon DEF Push
    <3> QED BY <2>1, <3>1, Zenon DEF Handled
  <2>3. CASE ~(Len(buffer) >= BufferSize)
    <3>1. buffer' = Append(buffer, accepted + 1) /\ accepted' = accepted + 1
      BY <1>2, <2>3, Zenon DEF Push
    <3>2. IsSequence(buffer) BY <1>1, SequenceOver, Zenon
    <3>3. Len(buffer') = Len(buffer) + 1 BY <3>1, <3>2, SequenceAppend, Zenon
    <3> QED BY <1>1, <2>1, <3>1, <3>3 DEF Handled
  <2> QED BY <2>2, <2>3, Zenon
<1>3. ASSUME NEW f \in Flushers, Drain(f) PROVE Handled' = Handled
  <2>1. PICK d : d = Drained BY Zenon
  <2>2. d \in 0..Len(buffer) BY <1>1, <2>1, LoggerAssumption DEF Drained
  <2>3. /\ batch' = [batch EXCEPT ![f] = SubSeq(buffer, 1, d)]
        /\ buffer' = SubSeq(buffer, d + 1, Len(buffer))
        /\ accepted' = accepted /\ flush[f] = "drain"
    BY <1>3, <2>1, Zenon DEF Drain
  <2>4. Len(batch[f]) = 0 BY <2>3, Zenon DEF DeliveryInv, Inv, Discipline
  <2>5. Len(SubSeq(buffer, 1, d)) = d /\ Len(SubSeq(buffer, d + 1, Len(buffer))) = Len(buffer) - d
    BY <1>1, <2>2
  <2>6. Len(batch'[f]) = d BY <1>1, <2>3, <2>5, Zenon
  <2>7. \A g \in Flushers : g # f => batch'[g] = batch[g] BY <1>1, <2>3, Zenon
  <2>8. Len(buffer') = Len(buffer) - d BY <2>3, <2>5, Zenon
  <2>9. CASE f = "loop"
    <3>1. batch'["stop"] = batch["stop"] BY <2>7, <2>9, Zenon DEF Flushers
    <3>2. Len(batch["loop"]) = 0 /\ Len(batch'["loop"]) = d BY <2>4, <2>6, <2>9, Zenon
    <3>3. Handled' = accepted - (Len(buffer) - d) - Len(batch'["loop"]) - Len(batch'["stop"])
      BY <2>3, <2>8, Zenon DEF Handled
    <3>4. Len(batch'["stop"]) = Len(batch["stop"]) BY <3>1, Zenon
    <3>5. Handled = accepted - Len(buffer) - Len(batch["loop"]) - Len(batch["stop"])
      BY Zenon DEF Handled
    <3> QED BY <1>1, <2>2, <3>2, <3>3, <3>4, <3>5
  <2>10. CASE f = "stop"
    <3>1. batch'["loop"] = batch["loop"] BY <2>7, <2>10, Zenon DEF Flushers
    <3>2. Len(batch["stop"]) = 0 /\ Len(batch'["stop"]) = d BY <2>4, <2>6, <2>10, Zenon
    <3>3. Handled' = accepted - (Len(buffer) - d) - Len(batch'["loop"]) - Len(batch'["stop"])
      BY <2>3, <2>8, Zenon DEF Handled
    <3>4. Len(batch'["loop"]) = Len(batch["loop"]) BY <3>1, Zenon
    <3>5. Handled = accepted - Len(buffer) - Len(batch["loop"]) - Len(batch["stop"])
      BY Zenon DEF Handled
    <3> QED BY <1>1, <2>2, <3>2, <3>3, <3>4, <3>5
  <2> QED BY <2>9, <2>10, Zenon DEF Flushers
<1>4. CASE \/ \E c \in Callers : CountDrop(c)
           \/ Tick \/ Stop \/ LoopExits \/ FinalFlush
           \/ \E f \in Flushers : Report(f)
  <2>1. UNCHANGED <<buffer, accepted, batch>>
    BY <1>4, Zenon DEF CountDrop, Tick, Stop, LoopExits, FinalFlush, Report
  <2> QED BY <2>1, Zenon DEF Handled
<1> QED BY <1>2, <1>3, <1>4, Zenon DEF Logs

\* The logger's own steps leave a send that is under way alone.
LEMMA LogsKeepSends ==
    ASSUME DeliveryInv, Logs, NEW f \in Flushers, flush[f] = "send"
    PROVE  flush'[f] = "send" /\ batch'[f] = batch[f]
<1>1. batch \in [Flushers -> Seq(1..accepted)] /\ DOMAIN flush = Flushers
  BY Zenon DEF DeliveryInv, Inv, TypeOK
<1>2. ASSUME NEW c, Push(c) \/ CountDrop(c) PROVE flush' = flush /\ batch' = batch
  BY <1>2, Zenon DEF Push, CountDrop
<1>3. ASSUME NEW g \in Flushers, NEW where,
             flush[g] # "send", flush' = [flush EXCEPT ![g] = where],
             \A h \in Flushers : h # g => batch'[h] = batch[h]
      PROVE  flush'[f] = "send" /\ batch'[f] = batch[f]
  BY <1>1, <1>3, Zenon
<1>4. "loop" \in Flushers /\ "stop" \in Flushers BY Zenon DEF Flushers
<1>5. CASE Tick \/ LoopExits
  <2>1. flush["loop"] # "send" /\ batch' = batch
    BY <1>5, Zenon DEF Tick, LoopExits
  <2>2. PICK where : flush' = [flush EXCEPT !["loop"] = where]
    BY <1>5, Zenon DEF Tick, LoopExits
  <2> QED BY <1>3, <1>4, <2>1, <2>2, Zenon
<1>6. CASE Stop \/ FinalFlush
  <2>1. flush["stop"] # "send" /\ batch' = batch
    BY <1>6, Zenon DEF Stop, FinalFlush
  <2>2. PICK where : flush' = [flush EXCEPT !["stop"] = where]
    BY <1>6, Zenon DEF Stop, FinalFlush
  <2> QED BY <1>3, <1>4, <2>1, <2>2, Zenon
<1>7. ASSUME NEW g \in Flushers, Report(g) PROVE flush'[f] = "send" /\ batch'[f] = batch[f]
  <2>1. flush[g] # "send" /\ batch' = batch BY <1>7, Zenon DEF Report
  <2>2. flush' = [flush EXCEPT ![g] = "drain"] BY <1>7, Zenon DEF Report
  <2> QED BY <1>3, <2>1, <2>2, Zenon
<1>8. ASSUME NEW g \in Flushers, Drain(g) PROVE flush'[f] = "send" /\ batch'[f] = batch[f]
  <2>1. flush[g] # "send" BY <1>8, Zenon DEF Drain
  <2>2. PICK where : flush' = [flush EXCEPT ![g] = where] BY <1>8, Zenon DEF Drain
  <2>3. \A h \in Flushers : h # g => batch'[h] = batch[h] BY <1>1, <1>8, Zenon DEF Drain
  <2> QED BY <1>3, <2>1, <2>2, <2>3, Zenon
<1>9. flush' = flush /\ batch' = batch => flush'[f] = "send" /\ batch'[f] = batch[f]
  BY Zenon
<1> QED BY <1>2, <1>5, <1>6, <1>7, <1>8, <1>9, Zenon DEF Logs

LEMMA LogsKeepSink ==
    ASSUME DeliveryInv, Logs
    PROVE  SinkState'
<1>1. UNCHANGED <<source, sourceEnd, encoder, exposed, stream, setting>>
  BY Zenon DEF Logs, sinkVars, streamVars
<1>2. delivered' = delivered
  BY Zenon DEF Logs, Push, CountDrop, Tick, Stop, LoopExits, FinalFlush, Report, Drain
<1>3. calls' <= MaxCalls
  <2>1. calls <= MaxCalls /\ calls \in Nat BY Zenon DEF DeliveryInv, SinkState, Inv, TypeOK
  <2>2. calls' = calls \/ (calls < MaxCalls /\ calls' = calls + 1)
    BY Zenon DEF Logs, Push, CountDrop, Tick, Stop, LoopExits, FinalFlush, Report, Drain
  <2> QED BY <2>1, <2>2, LoggerAssumption
<1>4. Handled' = Handled BY LogsKeepHandled, Zenon
<1>5. ASSUME NEW f \in Flushers, stream[f] # 0
      PROVE  /\ flush'[f] = "send"
             /\ batch'[f] = batch[f]
             /\ sourceEnd'[stream[f]] = "eof" => Len(source[stream[f]]) = Len(batch[f])
  <2>1. flush[f] = "send" /\ Carried(f) BY <1>5, StreamOf, Zenon
  <2>2. flush'[f] = "send" /\ batch'[f] = batch[f] BY <2>1, LogsKeepSends, Zenon
  <2>3. sourceEnd[stream[f]] = "eof" => Len(source[stream[f]]) = Len(batch[f])
    BY <2>1, Zenon DEF Carried
  <2> QED BY <1>1, <2>2, <2>3, Zenon
<1> QED BY <1>1, <1>2, <1>3, <1>4, <1>5, KeepsSink, Zenon

\* The goroutines of the streams.
LEMMA ProgressKeepsSink ==
    ASSUME DeliveryInv, Progress \/ Faulty
    PROVE  SinkState'
<1>1. UNCHANGED <<vars, stream, setting>> BY Zenon DEF Progress, Faulty
<1>2. PICK k \in Streams : Encode(k) \/ Read(k) \/ Fault(k)
  BY Zenon DEF Progress, Faulty
<1>3. source' = source /\ sourceEnd' = sourceEnd
  BY <1>2, Zenon DEF Encode, Read, Fault, EncodeData, EncodeClose, EncodeFails, CloseBody, Emit,
     ReadData, ReadClose, ReadRefused, ReadEnd, Lose, Insert, Reorder, Alter, Cut, Damage
<1>4. DOMAIN encoder = Streams /\ exposed \in [Streams -> Seq(Messages)]
  BY Zenon DEF DeliveryInv, StreamInv, Shape
<1>5. \A j \in Streams : encoder'[j] = "idle" <=> encoder[j] = "idle"
  <2>1. CASE encoder' = encoder BY <2>1, Zenon
  <2>2. CASE EncodeClose(k) \/ EncodeFails(k) \/ CloseBody(k)
    <3>1. encoder[k] # "idle" BY <2>2, Zenon DEF EncodeClose, EncodeFails, CloseBody
    <3>2. \/ encoder' = [encoder EXCEPT ![k] = "closing"]
          \/ encoder' = [encoder EXCEPT ![k] = "failing"]
          \/ encoder' = [encoder EXCEPT ![k] = "done"]
      BY <2>2, Zenon DEF EncodeClose, EncodeFails, CloseBody
    <3> QED BY <1>4, <3>1, <3>2, Zenon
  <2>3. CASE EncodeData(k) \/ Read(k) \/ Fault(k)
    <3>1. encoder' = encoder
      BY <2>3, Zenon DEF Read, Fault, EncodeData, ReadData, ReadClose, ReadRefused, ReadEnd,
         Lose, Insert, Reorder, Alter, Cut, Damage
    <3> QED BY <2>1, <3>1, Zenon
  <2> QED BY <1>2, <2>2, <2>3, Zenon DEF Encode
<1>6. \A j \in Streams : \A n \in 1..Len(exposed[j]) :
         n \in 1..Len(exposed'[j]) /\ exposed'[j][n] = exposed[j][n]
  <2>1. CASE exposed' = exposed BY <2>1, Zenon
  <2>2. CASE ReadData(k)
    <3>1. PICK m : exposed' = [exposed EXCEPT ![k] = Append(exposed[k], m)]
      BY <2>2, Zenon DEF ReadData
    <3>2. IsSequence(exposed[k]) BY <1>4, SequenceOver, Zenon
    <3>3. /\ Len(Append(exposed[k], m)) = Len(exposed[k]) + 1
          /\ \A n \in 1..Len(exposed[k]) : Append(exposed[k], m)[n] = exposed[k][n]
      BY <3>2, SequenceAppend, ZenonT(30)
    <3>4. Len(exposed[k]) \in Nat BY SinkShapes, Zenon
    <3>5. \A n \in 1..Len(exposed[k]) : n \in 1..Len(Append(exposed[k], m))
      BY <3>3, <3>4
    <3>6. exposed'[k] = Append(exposed[k], m) /\ \A j \in Streams : j # k => exposed'[j] = exposed[j]
      BY <1>4, <3>1, Zenon
    <3> QED BY <3>3, <3>5, <3>6, Zenon
  <2>3. CASE ~ReadData(k)
    <3>1. exposed' = exposed
      BY <1>2, <2>3, Zenon DEF Encode, Read, Fault, EncodeData, EncodeClose, EncodeFails, CloseBody,
         Emit, ReadClose, ReadRefused, ReadEnd, Lose, Insert, Reorder, Alter, Cut, Damage
    <3> QED BY <2>1, <3>1, Zenon
  <2> QED BY <2>2, <2>3, Zenon
<1>7. calls' = calls /\ delivered' = delivered /\ flush' = flush /\ batch' = batch /\ Handled' = Handled
  BY <1>1, Zenon DEF vars, Handled
<1>8. calls <= MaxCalls BY Zenon DEF DeliveryInv, SinkState
<1>9. ASSUME NEW f \in Flushers, stream[f] # 0
      PROVE  /\ flush[f] = "send"
             /\ sourceEnd[stream[f]] = "eof" => Len(source[stream[f]]) = Len(batch[f])
  BY <1>9, StreamOf, Zenon DEF Carried
<1>10. calls' <= MaxCalls /\ UNCHANGED <<source, stream, setting, delivered>>
  BY <1>1, <1>3, <1>7, <1>8, Zenon
<1>11. \A f \in Flushers : stream[f] # 0 =>
           /\ flush'[f] = "send"
           /\ batch'[f] = batch[f]
           /\ sourceEnd'[stream[f]] = "eof" => Len(source[stream[f]]) = Len(batch[f])
  BY <1>3, <1>7, <1>9, Zenon
<1>12. \A j \in Streams : encoder[j] = "idle" => sourceEnd'[j] = sourceEnd[j] BY <1>3, Zenon
<1> QED BY <1>5, <1>6, <1>7, <1>10, <1>11, <1>12, KeepsSink, Zenon

LEMMA CloseKeepsSink ==
    ASSUME DeliveryInv, NEW f \in Flushers, CloseSend(f)
    PROVE  SinkState'
<1>1. stream[f] # 0 BY Zenon DEF CloseSend
<1>2. PICK k \in Streams : k = stream[f] BY <1>1, StreamOf, Zenon
<1>3. /\ UNCHANGED <<vars, stream, setting>>
      /\ Len(source[k]) = Len(batch[f])
      /\ Finish(k, "eof")
  BY <1>2, Zenon DEF CloseSend
<1>4. /\ UNCHANGED <<source, encoder, exposed>>
      /\ encoder[k] # "idle"
      /\ sourceEnd' = [sourceEnd EXCEPT ![k] = "eof"]
  BY <1>3, Zenon DEF Finish
<1>5. \A j \in Streams : j # k => sourceEnd'[j] = sourceEnd[j]
  BY <1>4, SinkShapes, Zenon
<1>6. flush[f] = "send" BY <1>1, StreamOf, Zenon
<1>7. \A g \in Flushers : g # f => stream[g] = 0 BY <1>6, OneStream, Zenon
<1>8. calls' = calls /\ delivered' = delivered /\ flush' = flush /\ batch' = batch /\ Handled' = Handled
  BY <1>3, Zenon DEF vars, Handled
<1>9. calls <= MaxCalls BY Zenon DEF DeliveryInv, SinkState
<1>10. calls' <= MaxCalls /\ UNCHANGED <<source, stream, setting, delivered>>
  BY <1>3, <1>4, <1>8, <1>9, Zenon
<1>11. \A g \in Flushers : stream[g] # 0 =>
           /\ flush'[g] = "send"
           /\ batch'[g] = batch[g]
           /\ sourceEnd'[stream[g]] = "eof" => Len(source[stream[g]]) = Len(batch[g])
  BY <1>2, <1>3, <1>6, <1>7, <1>8, Zenon
<1>12. /\ \A j \in Streams : encoder'[j] = "idle" <=> encoder[j] = "idle"
       /\ \A j \in Streams : encoder[j] = "idle" => sourceEnd'[j] = sourceEnd[j]
       /\ \A j \in Streams : \A n \in 1..Len(exposed[j]) :
             n \in 1..Len(exposed'[j]) /\ exposed'[j][n] = exposed[j][n]
  BY <1>4, <1>5, Zenon
<1> QED BY <1>8, <1>10, <1>11, <1>12, KeepsSink, Zenon

\* A stream is opened after those opened before it.
LEMMA OpenKeepsSink ==
    ASSUME DeliveryInv, NEW f \in Flushers, Open(f)
    PROVE  SinkState'
<1>1. PICK k \in Streams :
          /\ \A j \in 1..(k - 1) : encoder[j] # "idle"
          /\ RoundTrip(k)
          /\ stream' = [stream EXCEPT ![f] = k]
  BY Zenon DEF Open
<1>2. UNCHANGED <<vars, setting>> /\ flush[f] = "send" /\ stream[f] = 0 BY Zenon DEF Open
<1>3. /\ encoder[k] = "idle"
      /\ encoder' = [encoder EXCEPT ![k] = "running"]
      /\ UNCHANGED <<source, sourceEnd, exposed>>
  BY <1>1, Zenon DEF RoundTrip
<1>4. Opened /\ Arrived /\ calls <= MaxCalls /\ setting \in Settings
  BY Zenon DEF DeliveryInv, SinkState
<1>5. /\ stream \in [Flushers -> Streams \cup {0}]
      /\ \A j \in Streams : Past(j)
  BY Zenon DEF DeliveryInv, SinkState
<1>6. \A g \in Flushers : g # f => stream[g] = 0 BY <1>2, OneStream, Zenon
<1>7. stream'[f] = k /\ \A g \in Flushers : g # f => stream'[g] = 0
  BY <1>1, <1>5, <1>6, Zenon
<1>8. calls' = calls /\ delivered' = delivered /\ flush' = flush /\ batch' = batch
      /\ Handled' = Handled /\ setting' = setting
  BY <1>2, Zenon DEF vars, Handled
<1>9. encoder'[k] # "idle" /\ \A j \in Streams : j # k => encoder'[j] = encoder[j]
  <2>1. DOMAIN encoder = Streams BY SinkShapes, Zenon
  <2>2. encoder'[k] = "running" /\ \A j \in Streams : j # k => encoder'[j] = encoder[j]
    BY <1>3, <2>1, Zenon
  <2>3. encoder'[k] # "idle" BY <2>2, Zenon
  <2> QED BY <2>2, <2>3, Zenon
<1>10. source[k] = <<>> /\ sourceEnd[k] = "open" BY <1>3, <1>4, Zenon DEF Opened
<1>11. \A j \in Streams : k \in Nat /\ j \in Nat /\ (j > k => j # k /\ k < j) /\ (j < k => j \in 1..(k - 1))
  BY SinkShapes
<1>12. k # 0 BY SinkShapes
<1>13. Carried(f)'
  <2>1. Len(source[k]) = 0 BY <1>10
  <2>2. \A i \in 1..Len(source[k]) : FALSE BY <2>1
  <2>3. Len(batch[f]) \in Nat BY SinkShapes, Zenon
  <2>4. Len(source[k]) <= Len(batch[f]) BY <2>1, <2>3
  <2>5. sourceEnd[k] # "eof" BY <1>10, Zenon
  <2>6. ASSUME NEW j \in Streams, j > k PROVE encoder'[j] = "idle"
    <3>1. k < j /\ j # k BY <1>11, <2>6, Zenon
    <3>2. encoder[j] = "idle" BY <1>3, <1>4, <3>1, Zenon DEF Opened
    <3> QED BY <1>9, <3>1, <3>2, Zenon
  <2> QED BY <1>2, <1>3, <1>7, <1>8, <1>9, <2>2, <2>4, <2>5, <2>6, Zenon DEF Carried
<1>14. \A g \in Flushers : stream'[g] # 0 => Carried(g)' BY <1>7, <1>13, Zenon
<1>15. stream' \in [Flushers -> Streams \cup {0}] BY <1>1, <1>5, Zenon
<1>16. ASSUME NEW j \in Streams PROVE Past(j)'
  <2>1. CASE j = k BY <1>7, <2>1, Zenon DEF Past
  <2>2. CASE j # k
    <3>1. \A g \in Flushers : stream[g] = 0 BY <1>2, <1>6, Zenon
    <3>2. j # 0 BY SinkShapes
    <3>3. \A g \in Flushers : stream[g] # j BY <3>1, <3>2, Zenon
    <3>4. \A i \in 1..Len(source[j]) : source[j][i] <= Handled BY <1>5, <3>3, Zenon DEF Past
    <3> QED BY <1>3, <1>8, <3>4, Zenon DEF Past
  <2> QED BY <2>1, <2>2, Zenon
<1>17. Opened'
  <2>1. \A j \in Streams : encoder'[j] = "idle" => source'[j] = <<>> /\ sourceEnd'[j] = "open"
    BY <1>3, <1>4, <1>9, Zenon DEF Opened
  <2>2. ASSUME NEW i \in Streams, NEW j \in Streams, i < j, encoder'[j] # "idle"
        PROVE  encoder'[i] # "idle"
    <3>1. CASE j = k
      <4>1. i \in 1..(k - 1) /\ i # k BY <1>11, <2>2, <3>1, Zenon
      <4> QED BY <1>1, <1>9, <4>1, Zenon
    <3>2. CASE j # k
      <4>1. encoder[j] # "idle" BY <1>9, <2>2, <3>2, Zenon
      <4>2. encoder[i] # "idle" BY <1>4, <2>2, <4>1, Zenon DEF Opened
      <4> QED BY <1>9, <4>2, Zenon
    <3> QED BY <3>1, <3>2, Zenon
  <2>3. \A i, j \in Streams : i < j =>
          \A m \in 1..Len(source'[i]), n \in 1..Len(source'[j]) : source'[i][m] < source'[j][n]
    BY <1>3, <1>4, Zenon DEF Opened
  <2> QED BY <2>1, <2>2, <2>3, Zenon DEF Opened
<1>18. Arrived' BY <1>3, <1>4, <1>8 DEF Arrived
<1>19. calls' <= MaxCalls /\ setting' \in Settings BY <1>4, <1>8, Zenon
<1> QED BY <1>14, <1>15, <1>16, <1>17, <1>18, <1>19, Zenon DEF SinkState

\* The next entry of the batch goes to the last stream, after all that went before.
LEMMA WriteKeepsSink ==
    ASSUME DeliveryInv, NEW f \in Flushers, SendEntry(f)
    PROVE  SinkState'
<1>1. stream[f] # 0 /\ UNCHANGED <<vars, stream, setting>> BY Zenon DEF SendEntry
<1>2. PICK k \in Streams : k = stream[f] BY <1>1, StreamOf, Zenon
<1>3. PICK n : n = Len(source[k]) + 1 BY Zenon
<1>4. Len(source[k]) < Len(batch[f]) /\ Write(k, batch[f][n]) BY <1>2, <1>3, Zenon DEF SendEntry
<1>5. PICK s : s = Append(source[k], batch[f][n]) BY Zenon
<1>6. /\ source' = [source EXCEPT ![k] = s]
      /\ sourceEnd[k] = "open"
      /\ UNCHANGED <<sourceEnd, encoder, exposed>>
  BY <1>4, <1>5, Zenon DEF Write
<1>7. /\ Len(source[k]) \in Nat /\ Len(batch[f]) \in Nat /\ Handled \in Nat
      /\ source[k] \in Seq(Messages) /\ DOMAIN source = Streams
  BY SinkShapes, Zenon
<1>8. /\ Len(s) = n
      /\ \A i \in 1..Len(source[k]) : s[i] = source[k][i]
      /\ s[n] = batch[f][n]
  <2>1. IsSequence(source[k]) BY <1>7, SequenceOver, Zenon
  <2>2. PICK e : e = batch[f][n] BY Zenon
  <2>3. /\ Len(Append(source[k], e)) = Len(source[k]) + 1
        /\ \A i \in 1..Len(source[k]) : Append(source[k], e)[i] = source[k][i]
        /\ Append(source[k], e)[Len(source[k]) + 1] = e
    BY <2>1, SequenceAppend, ZenonT(30)
  <2> QED BY <1>3, <1>5, <2>2, <2>3, Zenon
<1>9. n \in Nat /\ n \in 1..Len(batch[f]) /\ n <= Len(batch[f])
      /\ \A i \in 1..n : i = n \/ i \in 1..Len(source[k])
  BY <1>3, <1>4, <1>7
<1>10. source'[k] = s /\ \A j \in Streams : j # k => source'[j] = source[j] BY <1>6, <1>7, Zenon
<1>11. calls' = calls /\ delivered' = delivered /\ flush' = flush /\ batch' = batch
       /\ Handled' = Handled /\ setting' = setting /\ stream' = stream
  BY <1>1, Zenon DEF vars, Handled
<1>12. Carried(f) /\ flush[f] = "send" BY <1>1, StreamOf, Zenon
<1>13. /\ encoder[k] # "idle"
       /\ \A i \in 1..Len(source[k]) : source[k][i] = batch[f][i]
       /\ \A j \in Streams : j > k => encoder[j] = "idle"
  BY <1>2, <1>12, Zenon DEF Carried
<1>14. /\ \A g \in Flushers : g # f => stream[g] = 0
       /\ \A i \in 1..Len(batch[f]) : batch[f][i] = Handled + i
  BY <1>12, OneStream, Zenon
<1>15. Opened /\ Arrived /\ calls <= MaxCalls /\ setting \in Settings
       /\ stream \in [Flushers -> Streams \cup {0}] /\ \A j \in Streams : Past(j)
  BY Zenon DEF DeliveryInv, SinkState
<1>16. \A i \in 1..n : s[i] = batch[f][i] BY <1>8, <1>9, <1>13, Zenon
<1>17. Carried(f)'
  <2>1. stream'[f] = k /\ flush'[f] = "send" /\ batch'[f] = batch[f] BY <1>2, <1>11, <1>12, Zenon
  <2>2. /\ Len(source'[k]) <= Len(batch'[f])
        /\ \A i \in 1..Len(source'[k]) : source'[k][i] = batch'[f][i]
    BY <1>8, <1>9, <1>10, <1>16, <2>1, Zenon
  <2>3. sourceEnd'[k] # "eof" BY <1>6
  <2> QED BY <1>6, <1>13, <2>1, <2>2, <2>3, Zenon DEF Carried
<1>18. \A g \in Flushers : stream'[g] # 0 => Carried(g)' BY <1>11, <1>14, <1>17, Zenon
<1>19. ASSUME NEW j \in Streams PROVE Past(j)'
  <2>1. CASE j = k BY <1>2, <1>11, <2>1, Zenon DEF Past
  <2>2. CASE j # k BY <1>10, <1>11, <1>15, <2>2, Zenon DEF Past
  <2> QED BY <2>1, <2>2, Zenon
<1>20. Opened'
  <2>1. \A j \in Streams : encoder'[j] = "idle" => source'[j] = <<>> /\ sourceEnd'[j] = "open"
    <3>1. \A j \in Streams : encoder[j] = "idle" => j # k /\ source[j] = <<>> /\ sourceEnd[j] = "open"
      BY <1>13, <1>15, Zenon DEF Opened
    <3> QED BY <1>6, <1>10, <3>1, Zenon
  <2>2. \A i, j \in Streams : i < j /\ encoder'[j] # "idle" => encoder'[i] # "idle"
    BY <1>6, <1>15, Zenon DEF Opened
  <2>3. ASSUME NEW i \in Streams, NEW j \in Streams, i < j,
               NEW a \in 1..Len(source'[i]), NEW b \in 1..Len(source'[j])
        PROVE  source'[i][a] < source'[j][b]
    <3>1. i \in Nat /\ j \in Nat BY SinkShapes
    <3>2. CASE i # k /\ j # k
      BY <1>10, <1>15, <2>3, <3>2, Zenon DEF Opened
    <3>3. CASE i = k
      <4>1. j > k /\ j # k BY <2>3, <3>1, <3>3
      <4>2. source[j] = <<>> BY <1>13, <1>15, <4>1, Zenon DEF Opened
      <4>3. source'[j] = <<>> BY <1>10, <4>1, <4>2, Zenon
      <4>4. 1..Len(source'[j]) = {} BY <4>3
      <4> QED BY <4>4, Zenon
    <3>4. CASE j = k
      <4>1. i # k BY <2>3, <3>1, <3>4
      <4>2. i # 0 BY SinkShapes
      <4>3. \A g \in Flushers : stream[g] # i BY <1>2, <1>14, <4>1, <4>2, Zenon
      <4>4. a \in 1..Len(source[i]) /\ source'[i][a] = source[i][a] BY <1>10, <2>3, <4>1, Zenon
      <4>5. source[i][a] <= Handled BY <1>15, <4>3, <4>4, Zenon DEF Past
      <4>6. b \in 1..n /\ source'[j][b] = s[b] BY <1>8, <1>10, <2>3, <3>4, Zenon
      <4>7. s[b] = batch[f][b] BY <1>16, <4>6, Zenon
      <4>8. b \in Nat /\ b > 0 /\ b \in 1..Len(batch[f]) BY <1>7, <1>9, <4>6
      <4>9. source'[j][b] = Handled + b BY <1>14, <4>6, <4>7, <4>8, Zenon
      <4>10. source[i][a] \in Nat
        <5>1. source[i][a] \in Messages BY <4>4, SinkShapes, Zenon
        <5> QED BY <5>1, SinkShapes
      <4> QED BY <1>7, <4>4, <4>5, <4>8, <4>9, <4>10
    <3> QED BY <3>2, <3>3, <3>4, Zenon
  <2> QED BY <2>1, <2>2, <2>3, Zenon DEF Opened
<1>21. Arrived' BY <1>6, <1>11, <1>15 DEF Arrived
<1>22. calls' <= MaxCalls /\ setting' \in Settings /\ stream' \in [Flushers -> Streams \cup {0}]
  BY <1>11, <1>15, Zenon
<1> QED BY <1>18, <1>19, <1>20, <1>21, <1>22, Zenon DEF SinkState

\* The reader has exposed no more than was written.
LEMMA ExposedIsWritten ==
    ASSUME StreamInv, NEW k \in Streams
    PROVE  Len(exposed[k]) <= Len(source[k])
<1>1. exposed[k] \in Seq(Messages) /\ source[k] \in Seq(Messages) /\ IsSequence(sent[k])
  BY Zenon DEF StreamInv, Shape
<1>2. PICK n : n = Len(exposed[k]) BY Zenon
<1>3. n \in Nat /\ Len(source[k]) \in Nat BY <1>1, <1>2
<1>4. Len(sent[k]) \in Nat BY <1>1, SequenceLen, Zenon
<1>5. /\ reader[k].sequence <= Len(sent[k])
      /\ DataRead(k) \/ CloseRead(k)
  BY Zenon DEF StreamInv, ReaderInv
<1>6. CASE n = 0 BY <1>2, <1>3, <1>6
<1>7. CASE n # 0 /\ DataRead(k)
  <2>1. n \in 1..Len(sent[k]) BY <1>2, <1>3, <1>4, <1>5, <1>7 DEF DataRead
  <2>2. sent[k][n].kind = "data" BY <1>2, <1>3, <1>7 DEF DataRead
  <2>3. SentFrame(k, n) BY <2>1, Zenon DEF StreamInv, SentInv
  <2> QED BY <1>2, <2>2, <2>3, Zenon DEF SentFrame
<1>8. CASE n # 0 /\ CloseRead(k)
  <2>1. Len(sent[k]) \in 1..Len(sent[k]) /\ Len(sent[k]) = n + 1
    BY <1>2, <1>3, <1>4, <1>8 DEF CloseRead
  <2>2. SentFrame(k, Len(sent[k])) BY <2>1, Zenon DEF StreamInv, SentInv
  <2>3. sent[k][Len(sent[k])].kind = "close" BY <1>8, Zenon DEF CloseRead
  <2>4. Len(sent[k]) = Len(source[k]) + 1 BY <2>2, <2>3, Zenon DEF SentFrame
  <2> QED BY <1>2, <1>3, <2>1, <2>4
<1> QED BY <1>5, <1>6, <1>7, <1>8, Zenon

\* The reader reports the end of a stream when it has exposed all of it.
LEMMA ClosedIsComplete ==
    ASSUME StreamInv, NEW k \in Streams, reader[k].closed
    PROVE  sourceEnd[k] = "eof" /\ Len(exposed[k]) = Len(source[k])
<1>1. CloseRead(k) BY Zenon DEF StreamInv, ReaderInv, DataRead
<1>2. PICK n : n = Len(sent[k]) BY Zenon
<1>3. /\ IsSequence(sent[k])
      /\ Len(exposed[k]) + 1 = n
      /\ sent[k][n].kind = "close"
  BY <1>1, <1>2, Zenon DEF CloseRead, StreamInv, Shape
<1>4. exposed[k] \in Seq(Messages) /\ source[k] \in Seq(Messages)
  BY Zenon DEF StreamInv, Shape
<1>5. Len(exposed[k]) \in Nat /\ Len(source[k]) \in Nat BY <1>4
<1>6. n \in 1..Len(sent[k]) BY <1>2, <1>3, <1>5
<1>7. SentFrame(k, n) BY <1>6, Zenon DEF StreamInv, SentInv
<1>8. sourceEnd[k] = "eof" /\ n = Len(source[k]) + 1 BY <1>3, <1>7, Zenon DEF SentFrame
<1> QED BY <1>3, <1>5, <1>8

\* A send ends: n entries of the batch count as delivered, and the reader has
\* exposed as many.
LEMMA EndKeepsSink ==
    ASSUME DeliveryInv, NEW f \in Flushers, stream[f] # 0,
           NEW n \in 0..Len(batch[f]), n <= Len(exposed[stream[f]]),
           delivered' = delivered \o SubSeq(batch[f], 1, n),
           batch' = [batch EXCEPT ![f] = <<>>],
           stream' = [stream EXCEPT ![f] = 0],
           UNCHANGED <<buffer, accepted, calls, setting, source, encoder, exposed>>,
           \A j \in Streams : j # stream[f] => sourceEnd'[j] = sourceEnd[j]
    PROVE  SinkState'
<1>1. PICK k \in Streams : k = stream[f] BY StreamOf, Zenon
<1>2. /\ source' = source /\ encoder' = encoder /\ exposed' = exposed
      /\ buffer' = buffer /\ accepted' = accepted /\ calls' = calls /\ setting' = setting
  BY Zenon
<1>3. Carried(f) /\ flush[f] = "send" BY StreamOf, Zenon
<1>4. /\ encoder[k] # "idle"
      /\ Len(source[k]) <= Len(batch[f])
      /\ \A i \in 1..Len(source[k]) : source[k][i] = batch[f][i]
  BY <1>1, <1>3, Zenon DEF Carried
<1>5. /\ \A g \in Flushers : g # f => stream[g] = 0 /\ Len(batch[g]) = 0
      /\ Handled = accepted - Len(buffer) - Len(batch[f])
      /\ \A i \in 1..Len(batch[f]) : batch[f][i] = Handled + i
  BY <1>3, OneStream, Zenon
<1>6. /\ Opened /\ Arrived /\ calls <= MaxCalls /\ setting \in Settings
      /\ stream \in [Flushers -> Streams \cup {0}]
      /\ \A j \in Streams : Past(j)
  BY Zenon DEF DeliveryInv, SinkState
<1>7. /\ Len(batch[f]) \in Nat /\ Handled \in Nat /\ accepted \in Nat
      /\ Len(source[k]) \in Nat /\ Len(exposed[k]) \in Nat /\ Len(delivered) \in Nat
      /\ batch[f] \in Seq(1..accepted) /\ delivered \in Seq(1..accepted)
      /\ DOMAIN batch = Flushers
  <2>1. DOMAIN batch = Flushers BY Zenon DEF DeliveryInv, Inv, TypeOK
  <2> QED BY <2>1, SinkShapes, Zenon
<1>8. \A g \in Flushers : stream'[g] = 0 BY <1>5, <1>6, Zenon
<1>9. Handled' = Handled + Len(batch[f])
  <2>1. batch'[f] = <<>> /\ \A g \in Flushers : g # f => batch'[g] = batch[g] BY <1>7, Zenon
  <2>2. Len(batch'[f]) = 0 BY <2>1, Zenon
  <2>3. \A g \in Flushers : Len(batch'[g]) = 0 BY <1>5, <2>1, <2>2, Zenon
  <2>4. Len(batch'["loop"]) = 0 /\ Len(batch'["stop"]) = 0 BY <2>3, Zenon DEF Flushers
  <2>5. Handled' = accepted - Len(buffer) - Len(batch'["loop"]) - Len(batch'["stop"])
    BY <1>2, Zenon DEF Handled
  <2>6. buffer \in Seq(1..accepted) BY Zenon DEF DeliveryInv, Inv, TypeOK
  <2>7. Len(buffer) \in Nat BY <2>6
  <2> QED BY <1>5, <1>7, <2>4, <2>5, <2>7
<1>10. ASSUME NEW j \in Streams PROVE Past(j)'
  <2>1. ASSUME NEW i \in 1..Len(source[j]) PROVE source[j][i] <= Handled'
    <3>1. CASE j = k
      <4>1. i \in 1..Len(batch[f]) BY <1>4, <1>7, <2>1, <3>1
      <4>2. source[j][i] = Handled + i BY <1>4, <1>5, <2>1, <3>1, <4>1, Zenon
      <4> QED BY <1>7, <1>9, <4>1, <4>2
    <3>2. CASE j # k
      <4>1. j # 0 BY SinkShapes
      <4>2. \A g \in Flushers : stream[g] # j BY <1>1, <1>5, <3>2, <4>1, Zenon
      <4>3. source[j][i] <= Handled BY <1>6, <2>1, <4>2, Zenon DEF Past
      <4>4. source[j][i] \in Messages BY <2>1, SinkShapes, Zenon
      <4>5. source[j][i] \in Nat BY <4>4, SinkShapes
      <4> QED BY <1>7, <1>9, <4>3, <4>5
    <3> QED BY <3>1, <3>2, Zenon
  <2> QED BY <1>2, <2>1, Zenon DEF Past
<1>11. Opened'
  <2>1. \A j \in Streams : encoder'[j] = "idle" => source'[j] = <<>> /\ sourceEnd'[j] = "open"
    BY <1>1, <1>2, <1>4, <1>6, Zenon DEF Opened
  <2>2. \A i, j \in Streams : i < j /\ encoder'[j] # "idle" => encoder'[i] # "idle"
    BY <1>2, <1>6, Zenon DEF Opened
  <2>3. \A i, j \in Streams : i < j =>
          \A a \in 1..Len(source'[i]), b \in 1..Len(source'[j]) : source'[i][a] < source'[j][b]
    BY <1>2, <1>6, Zenon DEF Opened
  <2> QED BY <2>1, <2>2, <2>3, Zenon DEF Opened
<1>12. Arrived'
  <2>1. PICK part : part = SubSeq(batch[f], 1, n) BY Zenon
  <2>2. part \in Seq(1..accepted) /\ Len(part) = n /\ \A i \in 1..n : part[i] = batch[f][i]
    BY <1>7, <2>1
  <2>3. delivered' = delivered \o part BY <2>1, Zenon
  <2>4. /\ Len(delivered') = Len(delivered) + n
        /\ \A i \in 1..Len(delivered) : delivered'[i] = delivered[i]
        /\ \A i \in (Len(delivered) + 1)..(Len(delivered) + n) :
              delivered'[i] = part[i - Len(delivered)]
    BY <1>7, <2>2, <2>3
  <2>5. ASSUME NEW i \in 1..Len(delivered')
        PROVE  \E j \in Streams : \E m \in 1..Len(exposed[j]) : delivered'[i] = exposed[j][m]
    <3>1. CASE i \in 1..Len(delivered)
      <4>1. delivered'[i] = delivered[i] BY <2>4, <3>1, Zenon
      <4>2. \E j \in Streams : \E m \in 1..Len(exposed[j]) : delivered[i] = exposed[j][m]
        BY <1>6, <3>1, Zenon DEF Arrived
      <4> QED BY <4>1, <4>2, Zenon
    <3>2. CASE i \notin 1..Len(delivered)
      <4>1. PICK m : m = i - Len(delivered) BY Zenon
      <4>2. m \in 1..n /\ i \in (Len(delivered) + 1)..(Len(delivered) + n)
        BY <1>7, <2>4, <2>5, <3>2, <4>1
      <4>3. delivered'[i] = batch[f][m] BY <2>2, <2>4, <4>1, <4>2, Zenon
      <4>4. n <= Len(exposed[k]) BY <1>1, Zenon
      <4>5. m \in 1..Len(exposed[k]) BY <1>7, <4>2, <4>4
      <4>6. ReaderInv /\ SentInv BY Zenon DEF DeliveryInv, StreamInv
      <4>7. exposed[k][m] = source[k][m] BY <4>5, <4>6, Zenon DEF ReaderInv, Follows
      <4>8. Len(exposed[k]) <= Len(source[k]) BY ExposedIsWritten, Zenon DEF DeliveryInv
      <4>9. m \in 1..Len(source[k]) BY <1>7, <4>5, <4>8
      <4>10. delivered'[i] = exposed[k][m] BY <1>4, <4>3, <4>7, <4>9, Zenon
      <4> QED BY <4>5, <4>10, Zenon
    <3> QED BY <3>1, <3>2, Zenon
  <2>6. exposed' = exposed BY <1>2, Zenon
  <2>7. ASSUME NEW i \in 1..Len(delivered')
        PROVE  \E j \in Streams : \E m \in 1..Len(exposed'[j]) : delivered'[i] = exposed'[j][m]
    <3>1. PICK j \in Streams : \E m \in 1..Len(exposed[j]) : delivered'[i] = exposed[j][m]
      BY <2>5, Zenon
    <3>2. exposed'[j] = exposed[j] BY <2>6, Zenon
    <3> QED BY <3>1, <3>2, Zenon
  <2> QED BY <2>7, Zenon DEF Arrived
<1>13. /\ calls' <= MaxCalls /\ setting' \in Settings
       /\ stream' \in [Flushers -> Streams \cup {0}]
       /\ \A g \in Flushers : stream'[g] # 0 => Carried(g)'
  BY <1>2, <1>6, <1>8, Zenon
<1> QED BY <1>10, <1>11, <1>12, <1>13, Zenon DEF SinkState

(***************************************************************************)
(* The decision log over its streams                                       *)
(***************************************************************************)

LEMMA DeliveryInitInv == DeliveryInit => DeliveryInv
<1> SUFFICES ASSUME DeliveryInit PROVE DeliveryInv BY Zenon
<1>1. Init /\ StreamInit /\ stream = [f \in Flushers |-> 0] /\ setting \in Settings
  BY Zenon DEF DeliveryInit
<1>2. Inv /\ StreamInv BY <1>1, InitInv, StreamInvInit, Zenon
<1>3. /\ \A k \in Streams : source[k] = <<>> /\ sourceEnd[k] = "open" /\ encoder[k] = "idle"
      /\ delivered = <<>> /\ calls = 0
  BY <1>1, Zenon DEF Init, StreamInit
<1>4. \A k \in Streams : Len(source[k]) = 0 BY <1>3
<1>5. Len(delivered) = 0 BY <1>3, Zenon
<1>6. \A i \in 1..0 : FALSE OBVIOUS
<1>7. \A k \in Streams : Past(k) BY <1>4, <1>6, Zenon DEF Past
<1>8. Opened BY <1>3, <1>4, <1>6, Zenon DEF Opened
<1>9. Arrived BY <1>5, <1>6, Zenon DEF Arrived
<1>10. calls <= MaxCalls BY <1>3, LoggerAssumption
<1>11. /\ stream \in [Flushers -> Streams \cup {0}]
       /\ \A f \in Flushers : stream[f] # 0 => Carried(f)
  BY <1>1, Zenon
<1> QED BY <1>1, <1>2, <1>7, <1>8, <1>9, <1>10, <1>11, Zenon DEF DeliveryInv, SinkState

LEMMA SendsKeepSink ==
    ASSUME DeliveryInv, NEW f \in Flushers, Sends(f)
    PROVE  SinkState'
<1>1. CASE Open(f) BY <1>1, OpenKeepsSink, Zenon
<1>2. CASE SendEntry(f) BY <1>2, WriteKeepsSink, Zenon
<1>3. CASE CloseSend(f) BY <1>3, CloseKeepsSink, Zenon
<1>4. CASE Answered(f)
  <2>1. stream[f] # 0 /\ reader[stream[f]].closed /\ Send(f) /\ UNCHANGED <<streamVars, setting>>
        /\ stream' = [stream EXCEPT ![f] = 0]
    BY <1>4, Zenon DEF Answered
  <2>2. PICK k \in Streams : k = stream[f] BY <2>1, StreamOf, Zenon
  <2>3. sourceEnd[k] = "eof" /\ Len(exposed[k]) = Len(source[k])
    BY <2>1, <2>2, ClosedIsComplete, Zenon DEF DeliveryInv
  <2>4. Carried(f) BY <2>1, StreamOf, Zenon
  <2>5. Len(source[k]) = Len(batch[f]) BY <2>2, <2>3, <2>4, Zenon DEF Carried
  <2>6. PICK n : n = Len(batch[f]) BY Zenon
  <2>7. n \in Nat /\ batch[f] \in Seq(1..accepted) BY <2>6, SinkShapes, Zenon
  <2>8. n \in 0..Len(batch[f]) BY <2>6, <2>7
  <2>9. n <= Len(exposed[stream[f]])
    <3>1. Len(exposed[stream[f]]) = n BY <2>2, <2>3, <2>5, <2>6, Zenon
    <3> QED BY <2>7, <3>1
  <2>10. SubSeq(batch[f], 1, n) = batch[f] BY <2>6, <2>7, SeqWhole, Zenon
  <2>11. /\ delivered' = delivered \o SubSeq(batch[f], 1, n)
         /\ batch' = [batch EXCEPT ![f] = <<>>]
         /\ UNCHANGED <<buffer, accepted, calls>>
    BY <2>1, <2>10, Zenon DEF Send
  <2>12. UNCHANGED <<source, sourceEnd, encoder, exposed, setting>> BY <2>1, Zenon DEF streamVars
  <2> QED BY <2>1, <2>8, <2>9, <2>11, <2>12, EndKeepsSink, Zenon
<1>5. CASE GivesUp(f)
  <2>1. PICK n : n = Len(exposed[stream[f]]) BY Zenon
  <2>2. /\ stream[f] # 0 /\ SendFails(f, n) /\ setting' = setting
        /\ stream' = [stream EXCEPT ![f] = 0]
        /\ Finish(stream[f], "error") \/ UNCHANGED streamVars
    BY <1>5, <2>1, Zenon DEF GivesUp
  <2>3. PICK k \in Streams : k = stream[f] BY <2>2, StreamOf, Zenon
  <2>4. /\ delivered' = delivered \o SubSeq(batch[f], 1, n)
        /\ batch' = [batch EXCEPT ![f] = <<>>]
        /\ n \in 0..Len(batch[f])
        /\ UNCHANGED <<buffer, accepted, calls>>
    BY <2>2, Zenon DEF SendFails
  <2>5. n \in Nat BY <2>1, <2>3, SinkShapes, Zenon
  <2>6. n <= Len(exposed[stream[f]]) BY <2>1, <2>5
  <2>7. UNCHANGED <<source, encoder, exposed>> BY <2>2, Zenon DEF Finish, streamVars
  <2>8. \A j \in Streams : j # stream[f] => sourceEnd'[j] = sourceEnd[j]
    <3>1. DOMAIN sourceEnd = Streams BY SinkShapes, Zenon
    <3>2. sourceEnd' = [sourceEnd EXCEPT ![stream[f]] = "error"] \/ sourceEnd' = sourceEnd
      BY <2>2, Zenon DEF Finish, streamVars
    <3> QED BY <3>1, <3>2, Zenon
  <2> QED BY <2>2, <2>4, <2>6, <2>7, <2>8, EndKeepsSink, Zenon
<1> QED BY <1>1, <1>2, <1>3, <1>4, <1>5, Zenon DEF Sends

LEMMA DeliveryNextInv == DeliveryInv /\ [DeliveryNext]_deliveryVars => DeliveryInv'
<1> SUFFICES ASSUME DeliveryInv, [DeliveryNext]_deliveryVars PROVE DeliveryInv' BY Zenon
<1>1. Inv' BY LoggerSteps, NextInv, Zenon DEF DeliveryInv
<1>2. StreamInv' BY StreamSteps, StreamInvNext, Zenon DEF DeliveryInv
<1>3. ASSUME Logs PROVE SinkState' BY <1>3, LogsKeepSink, Zenon
<1>4. ASSUME Progress \/ Faulty PROVE SinkState' BY <1>4, ProgressKeepsSink, Zenon
<1>5. ASSUME NEW f \in Flushers, Sends(f) PROVE SinkState' BY <1>5, SendsKeepSink, Zenon
<1>6. ASSUME UNCHANGED deliveryVars PROVE SinkState'
  <2>1. UNCHANGED <<source, sourceEnd, encoder, exposed, stream, setting>>
    BY <1>6, Zenon DEF deliveryVars, sinkVars, streamVars
  <2>2. UNCHANGED <<calls, delivered, flush, batch, buffer, accepted>>
    BY <1>6, Zenon DEF deliveryVars, vars
  <2>3. Handled' = Handled BY <2>2, Zenon DEF Handled
  <2>4. calls <= MaxCalls BY Zenon DEF DeliveryInv, SinkState
  <2>5. \A f \in Flushers : stream[f] # 0 =>
            /\ flush[f] = "send"
            /\ sourceEnd[stream[f]] = "eof" => Len(source[stream[f]]) = Len(batch[f])
    BY StreamOf, Zenon DEF Carried
  <2>6. \A f \in Flushers : stream[f] # 0 =>
            /\ flush'[f] = "send"
            /\ batch'[f] = batch[f]
            /\ sourceEnd'[stream[f]] = "eof" => Len(source[stream[f]]) = Len(batch[f])
    BY <2>1, <2>2, <2>5, Zenon
  <2>7. /\ \A k \in Streams : encoder'[k] = "idle" <=> encoder[k] = "idle"
        /\ \A k \in Streams : encoder[k] = "idle" => sourceEnd'[k] = sourceEnd[k]
        /\ \A k \in Streams : \A n \in 1..Len(exposed[k]) :
              n \in 1..Len(exposed'[k]) /\ exposed'[k][n] = exposed[k][n]
    BY <2>1, Zenon
  <2>8. calls' <= MaxCalls /\ UNCHANGED <<source, stream, setting, delivered>>
    BY <2>1, <2>2, <2>4, Zenon
  <2> QED BY <2>3, <2>6, <2>7, <2>8, KeepsSink, Zenon
<1>7. SinkState' BY <1>3, <1>4, <1>5, <1>6, Zenon DEF DeliveryNext
<1> QED BY <1>1, <1>2, <1>7, Zenon DEF DeliveryInv

LEMMA DeliverySpecInv == DeliverySpec => []DeliveryInv
BY DeliveryInitInv, DeliveryNextInv, PTL DEF DeliverySpec

\* What the streams have exposed, in terms of the entries' places.
LEMMA ReceiptsFromInv == DeliveryInv => ReceiptsAccounted
<1> SUFFICES ASSUME DeliveryInv PROVE ReceiptsAccounted BY Zenon
<1>1. Opened /\ Arrived /\ \A k \in Streams : Past(k) BY Zenon DEF DeliveryInv, SinkState
<1>2. ASSUME NEW k \in Streams, NEW n \in 1..Len(exposed[k])
      PROVE  n \in 1..Len(source[k]) /\ exposed[k][n] = source[k][n]
  <2>1. Len(exposed[k]) <= Len(source[k]) BY ExposedIsWritten, Zenon DEF DeliveryInv
  <2>2. Len(exposed[k]) \in Nat /\ Len(source[k]) \in Nat BY SinkShapes, Zenon
  <2>3. n \in 1..Len(source[k]) BY <1>2, <2>1, <2>2
  <2>4. exposed[k][n] = source[k][n]
    BY <1>2, Zenon DEF DeliveryInv, StreamInv, ReaderInv, Follows
  <2> QED BY <2>3, <2>4, Zenon
<1>3. Elements(delivered) \subseteq Received
  <2>1. ASSUME NEW e \in Elements(delivered) PROVE e \in Received
    <3>1. PICK i \in 1..Len(delivered) : e = delivered[i] BY <2>1, Zenon DEF Elements
    <3>2. PICK k \in Streams : \E n \in 1..Len(exposed[k]) : e = exposed[k][n]
      BY <1>1, <3>1, Zenon DEF Arrived
    <3>3. e \in Elements(exposed[k]) BY <3>2, Zenon DEF Elements
    <3> QED BY <3>3, Zenon DEF Received
  <2> QED BY <2>1, Zenon
<1>4. Received \subseteq Elements(delivered) \cup lost
                           \cup Elements(batch["loop"]) \cup Elements(batch["stop"])
  <2>1. ASSUME NEW e \in Received
        PROVE  e \in Elements(delivered) \cup lost
                        \cup Elements(batch["loop"]) \cup Elements(batch["stop"])
    <3>1. PICK k \in Streams : e \in Elements(exposed[k]) BY <2>1, Zenon DEF Received
    <3>2. PICK n \in 1..Len(exposed[k]) : e = exposed[k][n] BY <3>1, Zenon DEF Elements
    <3>3. n \in 1..Len(source[k]) /\ e = source[k][n] BY <1>2, <3>2, Zenon
    <3>4. CASE \A f \in Flushers : stream[f] # k
      <4>1. e <= Handled BY <1>1, <3>3, <3>4, Zenon DEF Past
      <4>2. e \in Messages BY <3>3, SinkShapes, Zenon
      <4>3. e \in 1..Handled BY <4>1, <4>2, SinkShapes
      <4>4. e \in lost \/ \E i \in 1..Len(delivered) : delivered[i] = e
        BY <4>3, Zenon DEF DeliveryInv, Inv, Settled
      <4> QED BY <4>4, Zenon DEF Elements
    <3>5. ASSUME NEW f \in Flushers, stream[f] = k PROVE e \in Elements(batch[f])
      <4>1. stream[f] # 0 BY <3>5, SinkShapes
      <4>2. Carried(f) BY <4>1, StreamOf, Zenon
      <4>3. Len(source[k]) <= Len(batch[f]) /\ source[k][n] = batch[f][n]
        BY <3>3, <3>5, <4>2, Zenon DEF Carried
      <4>4. Len(source[k]) \in Nat /\ Len(batch[f]) \in Nat BY SinkShapes, Zenon
      <4>5. n \in 1..Len(batch[f]) BY <3>3, <4>3, <4>4
      <4> QED BY <3>3, <4>3, <4>5, Zenon DEF Elements
    <3> QED BY <3>4, <3>5, Zenon DEF Flushers
  <2> QED BY <2>1, Zenon
<1>5. ASSUME NEW j \in Streams, NEW k \in Streams, j < k,
             NEW x \in Elements(exposed[j]), NEW y \in Elements(exposed[k])
      PROVE  x < y
  <2>1. PICK m \in 1..Len(exposed[j]) : x = exposed[j][m] BY <1>5, Zenon DEF Elements
  <2>2. PICK n \in 1..Len(exposed[k]) : y = exposed[k][n] BY <1>5, Zenon DEF Elements
  <2>3. m \in 1..Len(source[j]) /\ x = source[j][m] BY <1>2, <2>1, Zenon
  <2>4. n \in 1..Len(source[k]) /\ y = source[k][n] BY <1>2, <2>2, Zenon
  <2> QED BY <1>1, <1>5, <2>3, <2>4, Zenon DEF Opened
<1> QED BY <1>3, <1>4, <1>5, Zenon DEF ReceiptsAccounted

\* The logger over its streams is the logger: every theorem about Spec holds of it.
THEOREM DeliveryRefinesLogger == DeliverySpec => Spec
<1>1. DeliveryInit => Init BY Zenon DEF DeliveryInit
<1>2. DeliveryInv /\ [DeliveryNext]_deliveryVars => [Next]_vars BY LoggerSteps, Zenon
<1> QED BY <1>1, <1>2, DeliverySpecInv, PTL DEF DeliverySpec, Spec

\* The streams the sink uses give the control plane a prefix of what was written.
THEOREM DeliveryKeepsPromise == DeliverySpec => ImplementsPrefixStream
<1>1. DeliveryInit => StreamInit BY Zenon DEF DeliveryInit
<1>2. DeliveryInv /\ [DeliveryNext]_deliveryVars => [StreamNext]_streamVars BY StreamSteps, Zenon
<1>3. DeliverySpec => StreamSpec
  BY <1>1, <1>2, DeliverySpecInv, PTL DEF DeliverySpec, StreamSpec
<1> QED BY <1>3, StreamsImplementPrefix, PTL

\* What the control plane has received is what the logger accounts for, late
\* arrivals after a timeout included (decision/sink.go:42-75).
THEOREM ReceiptAccounting == DeliverySpec => []ReceiptsAccounted
BY DeliverySpecInv, ReceiptsFromInv, PTL

(***************************************************************************)
(* The counters admit every loss.  What a failed send loses are the last   *)
(* entries of its batch: an interval of at most FlushSize numbers.         *)
(***************************************************************************)

INSTANCE FiniteSetTheorems

Counted ==
    /\ IsFiniteSet(lost)
    /\ IsFiniteSet(full)
    /\ LossIsCounted

LEMMA InitCounted == Init => Counted
  BY FS_EmptySet, LoggerAssumption DEF Init, Counted, LossIsCounted

\* A call is counted when it is accepted, while its caller has still to count the
\* drop, and after that.
LEMMA CallersCounted ==
    ASSUME Inv, Counted, NEW c \in Callers, Push(c) \/ CountDrop(c)
    PROVE  Counted'
  <1>1. /\ accepted \in Nat /\ dropped \in Nat /\ calls \in Nat
        /\ IsFiniteSet(full) /\ IsFiniteSet(lost)
        /\ calls = accepted + dropped + Cardinality(full)
        /\ Cardinality(lost) <= sendFailures * FlushSize
    BY Zenon DEF Inv, TypeOK, Counted, LossIsCounted
  <1>2. lost' = lost /\ sendFailures' = sendFailures BY Zenon DEF Push, CountDrop
  <1>3. Cardinality(full) \in Nat BY <1>1, FS_CardinalityType, Zenon
  <1>4. IsFiniteSet(full') /\ calls' = accepted' + dropped' + Cardinality(full')
    <2>1. CASE Push(c) /\ Len(buffer) >= BufferSize
      <3>1. /\ accepted' = accepted /\ dropped' = dropped /\ calls' = calls + 1
            /\ full' = full \cup {c} /\ c \notin full
        BY <2>1, Zenon DEF Push
      <3>2. IsFiniteSet(full') /\ Cardinality(full') = Cardinality(full) + 1
        BY <1>1, <3>1, FS_AddElement
      <3> QED BY <1>1, <1>3, <3>1, <3>2
    <2>2. CASE Push(c) /\ ~(Len(buffer) >= BufferSize)
      <3>1. /\ accepted' = accepted + 1 /\ dropped' = dropped /\ calls' = calls + 1
            /\ full' = full
        BY <2>2, Zenon DEF Push
      <3> QED BY <1>1, <1>3, <3>1
    <2>3. CASE CountDrop(c)
      <3>1. /\ accepted' = accepted /\ dropped' = dropped + 1 /\ calls' = calls
            /\ full' = full \ {c} /\ c \in full
        BY <2>3, Zenon DEF CountDrop
      <3>2. IsFiniteSet(full') /\ Cardinality(full') = Cardinality(full) - 1
        BY <1>1, <3>1, FS_RemoveElement
      <3> QED BY <1>1, <1>3, <3>1, <3>2
    <2> QED BY <2>1, <2>2, <2>3, Zenon
  <1> QED BY <1>1, <1>2, <1>4, Zenon DEF Counted, LossIsCounted

\* A send loses at most a batch, and nothing unless it is counted as failed.
LEMMA SendsCounted ==
    ASSUME Inv, Counted, NEW f \in Flushers, NEW n \in 0..Len(batch[f]), SinkStep(f, n)
    PROVE  Counted'
  <1>1. PICK size : size = Len(batch[f]) BY Zenon
  <1>2. PICK h : h = Handled BY Zenon
  <1>3. PICK late : late = {batch[f][i] : i \in (n + 1)..Len(batch[f])} BY Zenon
  <1>4. /\ size \in Nat /\ n \in 0..size /\ h \in Nat /\ size <= FlushSize
        /\ sendFailures \in Nat /\ FlushSize \in Nat
    BY <1>1, <1>2, LoggerAssumption DEF Inv, TypeOK, Settled, Discipline
  <1>5. /\ lost' = lost \cup late
        /\ UNCHANGED <<full, accepted, dropped, calls>>
        /\ sendFailures' = sendFailures + 1 \/ (sendFailures' = sendFailures /\ n = size)
    BY <1>1, <1>3 DEF SinkStep
  <1>6. late = (h + n + 1)..(h + size) BY <1>1, <1>2, <1>3, LateEntries, Zenon
  <1>7. IsFiniteSet(late) /\ Cardinality(late) = size - n
    <2>1. PICK lo, hi : lo = h + n + 1 /\ hi = h + size BY Zenon
    <2>2. lo \in Int /\ hi \in Int BY <1>4, <2>1
    <2>3. IsFiniteSet(lo..hi) /\ Cardinality(lo..hi) = IF lo > hi THEN 0 ELSE hi - lo + 1
      BY <2>2, FS_Interval, Zenon
    <2>4. (IF lo > hi THEN 0 ELSE hi - lo + 1) = size - n BY <1>4, <2>1
    <2> QED BY <1>6, <2>1, <2>3, <2>4, Zenon
  <1>8. IsFiniteSet(lost) /\ Cardinality(lost) <= sendFailures * FlushSize
    BY Zenon DEF Counted, LossIsCounted
  <1>9. Cardinality(lost) \in Nat BY <1>8, FS_CardinalityType, Zenon
  <1>10. IsFiniteSet(lost') /\ Cardinality(lost') <= Cardinality(lost) + (size - n)
    <2>1. IsFiniteSet(lost \cap late) BY <1>8, FS_Intersection, Zenon
    <2>2. Cardinality(lost \cap late) \in Nat BY <2>1, FS_CardinalityType, Zenon
    <2>3. /\ IsFiniteSet(lost \cup late)
          /\ Cardinality(lost \cup late)
                = Cardinality(lost) + Cardinality(late) - Cardinality(lost \cap late)
      BY <1>7, <1>8, FS_Union, Zenon
    <2> QED BY <1>4, <1>5, <1>7, <1>9, <2>2, <2>3
  <1>11. Cardinality(lost') \in Nat BY <1>10, FS_CardinalityType, Zenon
  <1>12. Cardinality(lost') <= sendFailures' * FlushSize
    <2>1. (sendFailures + 1) * FlushSize = sendFailures * FlushSize + FlushSize BY <1>4
    <2>2. sendFailures * FlushSize \in Nat BY <1>4
    <2>3. CASE sendFailures' = sendFailures + 1
      BY <1>4, <1>8, <1>9, <1>10, <1>11, <2>1, <2>2, <2>3
    <2>4. CASE sendFailures' = sendFailures /\ n = size
      BY <1>4, <1>8, <1>9, <1>10, <1>11, <2>2, <2>4
    <2> QED BY <1>5, <2>3, <2>4, Zenon
  <1> QED BY <1>5, <1>10, <1>12, Zenon DEF Counted, LossIsCounted

LEMMA NextCounted == Inv /\ Counted /\ [Next]_vars => Counted'
  <1> SUFFICES ASSUME Inv, Counted, [Next]_vars PROVE Counted'
    OBVIOUS
  <1>1. ASSUME NEW c \in Callers, Push(c) \/ CountDrop(c) PROVE Counted'
    BY <1>1, CallersCounted, Zenon
  <1>2. ASSUME UNCHANGED <<lost, full, accepted, dropped, calls, sendFailures>> PROVE Counted'
    BY <1>2, Zenon DEF Counted, LossIsCounted
  <1>3. ASSUME NEW f \in Flushers, Flush(f) PROVE Counted'
    <2>1. CASE Report(f) \/ Drain(f) BY <1>2, <2>1, Zenon DEF Report, Drain
    <2>2. CASE Send(f) \/ \E n \in 0..FlushSize : SendFails(f, n)
      <3>1. PICK n \in 0..Len(batch[f]) : SinkStep(f, n) BY <2>2, SinkSteps, Zenon
      <3> QED BY <3>1, SendsCounted, Zenon
    <2> QED BY <1>3, <2>1, <2>2, Zenon DEF Flush
  <1>4. CASE Tick \/ Stop \/ LoopExits \/ FinalFlush \/ UNCHANGED vars
    BY <1>2, <1>4, Zenon DEF Tick, Stop, LoopExits, FinalFlush, vars
  <1> QED BY <1>1, <1>3, <1>4, Zenon DEF Next

\* "Failures are never silent" (decision/logger.go:34-35): the counters account for
\* everything the control plane never sees.
THEOREM LossAccounting == Spec => []LossIsCounted
  <1>1. Counted => LossIsCounted BY Zenon DEF Counted
  <1> QED BY <1>1, InitInv, NextInv, InitCounted, NextCounted, PTL DEF Spec

\* The same when each send is a signed stream that ends as the stream says.
THEOREM DeliveryLossAccounting == DeliverySpec => []LossIsCounted
  BY DeliveryRefinesLogger, LossAccounting, PTL
=============================================================================
