----------------------------- MODULE SignedStream ----------------------------
(***************************************************************************)
(* The signed request streams (hmac/stream.go, and the streaming branch of *)
(* hmac/transport.go): encodeStream, a goroutine between the client's      *)
(* request body and the HTTP transport, frames every envelope with a       *)
(* sequence number, the code of the frame before it and a code of its own, *)
(* and ends with a close frame; verifiedStreamReader undoes that on the    *)
(* server and exposes the envelopes.                                       *)
(*                                                                         *)
(* Every request draws a fresh nonce, so a stream is its own key.  The     *)
(* authentication code is modelled as an injective function of the key and *)
(* the authenticated bytes.  Between the two ends is an HTTP connection    *)
(* and whatever forwards it: it may lose, repeat, reorder or alter frames, *)
(* insert those of another stream, cut the stream or end it early.         *)
(* An alteration that breaks the framing itself is a cut.                  *)
(***************************************************************************)
EXTENDS Naturals, Sequences

CONSTANTS
    Streams,    \* requests, each with its own nonce and key
    Messages,   \* request envelopes
    Oversized,  \* the envelopes above MaxStreamPayloadSize
    Empty,      \* the payload of a close frame
    Zero,       \* the code before the first frame
    MaxFaults   \* bound on transport faults

VARIABLES
    source,     \* per stream: the envelopes the client has written to the request body
    sourceEnd,  \* per stream: "open", "eof" or "error"
    encoder,    \* per stream: where encodeStream is
    sent,       \* per stream: the frames it has written
    wire,       \* per stream: the frames the server has still to read
    wireEnd,    \* per stream: "open"; "eof" at the end of the body; "reset" when it was cut
    reader,     \* per stream: the fields of verifiedStreamReader
    exposed,    \* per stream: the envelopes Read has returned
    refused,    \* streams on which Read has returned an error other than EOF
    faults      \* transport faults so far

streamVars == <<source, sourceEnd, encoder, sent, wire, wireEnd, reader, exposed, refused, faults>>

(***************************************************************************)
(* Frames                                                                  *)
(***************************************************************************)

frameMAC(k, f) == <<k, f.kind, f.sequence, f.previous, f.payload>>

marshalStreamFrame(k, kind, sequence, previous, payload) ==
    LET f == [kind |-> kind, sequence |-> sequence, previous |-> previous, payload |-> payload]
    IN  [kind |-> kind, sequence |-> sequence, previous |-> previous, payload |-> payload,
         mac |-> frameMAC(k, f)]

(***************************************************************************)
(* The client                                                              *)
(***************************************************************************)

\* RoundTrip draws the nonce, derives the key and starts encodeStream.
RoundTrip(k) ==
    /\ encoder[k] = "idle"
    /\ encoder' = [encoder EXCEPT ![k] = "running"]
    /\ UNCHANGED <<source, sourceEnd, sent, wire, wireEnd, reader, exposed, refused, faults>>

Write(k, m) ==
    /\ encoder[k] # "idle"
    /\ sourceEnd[k] = "open"
    /\ source' = [source EXCEPT ![k] = Append(@, m)]
    /\ UNCHANGED <<sourceEnd, encoder, sent, wire, wireEnd, reader, exposed, refused, faults>>

\* The client ends its stream ("eof"), or it gives up, is cancelled or breaks off
\* inside an envelope ("error").
Finish(k, how) ==
    /\ encoder[k] # "idle"
    /\ sourceEnd[k] = "open"
    /\ sourceEnd' = [sourceEnd EXCEPT ![k] = how]
    /\ UNCHANGED <<source, encoder, sent, wire, wireEnd, reader, exposed, refused, faults>>

(***************************************************************************)
(* encodeStream                                                            *)
(***************************************************************************)

\* encodeStream's sequence and previous.
NextSequence(k) == Len(sent[k])
PreviousMAC(k) == IF sent[k] = <<>> THEN Zero ELSE sent[k][Len(sent[k])].mac

\* writeOuterFrame: what is written after the connection was cut arrives nowhere.
Emit(k, f) ==
    /\ sent' = [sent EXCEPT ![k] = Append(@, f)]
    /\ wire' = [wire EXCEPT ![k] = IF wireEnd[k] = "open" THEN Append(@, f) ELSE @]
    /\ UNCHANGED <<source, sourceEnd, wireEnd, reader, exposed, refused, faults>>

\* One turn of the loop with an envelope to read.
EncodeData(k) ==
    /\ encoder[k] = "running"
    /\ Len(sent[k]) < Len(source[k])
    /\ LET m == source[k][Len(sent[k]) + 1]
       IN  /\ m \notin Oversized
           /\ Emit(k, marshalStreamFrame(k, "data", NextSequence(k), PreviousMAC(k), m))
    /\ UNCHANGED encoder

\* The body is at EOF.
EncodeClose(k) ==
    /\ encoder[k] = "running"
    /\ Len(sent[k]) = Len(source[k])
    /\ sourceEnd[k] = "eof"
    /\ Emit(k, marshalStreamFrame(k, "close", NextSequence(k), PreviousMAC(k), Empty))
    /\ encoder' = [encoder EXCEPT ![k] = "closing"]

\* writer.CloseWithError: the transport ends the request body, or aborts the request.
CloseBody(k) ==
    /\ encoder[k] \in {"closing", "failing"}
    /\ encoder' = [encoder EXCEPT ![k] = "done"]
    /\ wireEnd' = [wireEnd EXCEPT ![k] =
                      IF @ # "open" THEN @ ELSE IF encoder[k] = "closing" THEN "eof" ELSE "reset"]
    /\ UNCHANGED <<source, sourceEnd, sent, wire, reader, exposed, refused, faults>>

\* The context is done, the body breaks off or holds an oversized envelope, or the
\* pipe is closed at its other end.
EncodeFails(k) ==
    /\ encoder[k] = "running"
    /\ \/ sourceEnd[k] = "error"
       \/ wireEnd[k] # "open"
       \/ /\ Len(sent[k]) < Len(source[k])
          /\ source[k][Len(sent[k]) + 1] \in Oversized
    /\ encoder' = [encoder EXCEPT ![k] = "failing"]
    /\ UNCHANGED <<source, sourceEnd, sent, wire, wireEnd, reader, exposed, refused, faults>>

(***************************************************************************)
(* The connection                                                          *)
(***************************************************************************)

Damage(k, frames, end) ==
    /\ faults < MaxFaults
    /\ faults' = faults + 1
    /\ wire' = [wire EXCEPT ![k] = frames]
    /\ wireEnd' = [wireEnd EXCEPT ![k] = end]
    /\ UNCHANGED <<source, sourceEnd, encoder, sent, reader, exposed, refused>>

\* The frames of s without the i-th, and with f before the i-th.
Without(s, i) == SubSeq(s, 1, i - 1) \o SubSeq(s, i + 1, Len(s))
With(s, i, f) == SubSeq(s, 1, i - 1) \o <<f>> \o SubSeq(s, i, Len(s))

Lose(k, i) ==
    /\ i \in 1..Len(wire[k])
    /\ Damage(k, Without(wire[k], i), wireEnd[k])

\* A frame of this stream again, or one of another stream.
Insert(k, i, j, n) ==
    /\ i \in 1..(Len(wire[k]) + 1)
    /\ n \in 1..Len(sent[j])
    /\ Damage(k, With(wire[k], i, sent[j][n]), wireEnd[k])

Reorder(k, i) ==
    /\ i \in 1..(Len(wire[k]) - 1)
    /\ Damage(k, With(Without(wire[k], i), i + 1, wire[k][i]), wireEnd[k])

\* The same code on other contents.
Altered(f) ==
    {[f EXCEPT !.payload = m] : m \in Messages \cup {Empty}}
        \cup {[f EXCEPT !.kind = kind] : kind \in {"data", "close"}}
        \cup {[f EXCEPT !.sequence = f.sequence + 1]}

Alter(k, i, f) ==
    /\ i \in 1..Len(wire[k])
    /\ f \in Altered(wire[k][i]) \ {wire[k][i]}
    /\ Damage(k, [wire[k] EXCEPT ![i] = f], wireEnd[k])

\* The server sees the body end, or the request fail, after n of the frames.
Cut(k, n, end) ==
    /\ encoder[k] # "idle"
    /\ n \in 0..Len(wire[k])
    /\ Damage(k, SubSeq(wire[k], 1, n), end)

(***************************************************************************)
(* verifiedStreamReader                                                    *)
(*                                                                         *)
(* An error is not remembered: a Read after one reads the next frame.      *)
(***************************************************************************)

Accepts(k, f) ==
    /\ f.sequence = reader[k].sequence
    /\ f.previous = reader[k].previous
    /\ f.mac = frameMAC(k, f)

Advance(f) == [sequence |-> f.sequence + 1, previous |-> f.mac, closed |-> FALSE]

ReadData(k) ==
    /\ ~reader[k].closed
    /\ wire[k] # <<>>
    /\ LET f == Head(wire[k])
       IN  /\ Accepts(k, f)
           /\ f.kind = "data"
           /\ reader' = [reader EXCEPT ![k] = Advance(f)]
           /\ exposed' = [exposed EXCEPT ![k] = Append(@, f.payload)]
    /\ wire' = [wire EXCEPT ![k] = Tail(@)]
    /\ UNCHANGED <<source, sourceEnd, encoder, sent, wireEnd, refused, faults>>

\* A close frame is the end only when nothing at all follows it: Read waits for
\* what comes next.
ReadClose(k) ==
    /\ ~reader[k].closed
    /\ wire[k] # <<>>
    /\ Len(wire[k]) > 1 \/ wireEnd[k] # "open"
    /\ LET f == Head(wire[k])
           proper == f.payload = Empty /\ Len(wire[k]) = 1 /\ wireEnd[k] = "eof"
       IN  /\ Accepts(k, f)
           /\ f.kind = "close"
           /\ reader' = [reader EXCEPT ![k] = [Advance(f) EXCEPT !.closed = proper]]
           /\ refused' = IF proper THEN refused ELSE refused \cup {k}
    /\ wire' = [wire EXCEPT ![k] = Tail(@)]
    /\ UNCHANGED <<source, sourceEnd, encoder, sent, wireEnd, exposed, faults>>

\* ErrStreamSequence, ErrStreamIntegrity.
ReadRefused(k) ==
    /\ ~reader[k].closed
    /\ wire[k] # <<>>
    /\ ~Accepts(k, Head(wire[k]))
    /\ refused' = refused \cup {k}
    /\ wire' = [wire EXCEPT ![k] = Tail(@)]
    /\ UNCHANGED <<source, sourceEnd, encoder, sent, wireEnd, reader, exposed, faults>>

\* Fault: the end of the body is the end of the stream.
ReadEndIsEOF(k) ==
    /\ ~reader[k].closed
    /\ wire[k] = <<>>
    /\ wireEnd[k] # "open"
    /\ reader' = [reader EXCEPT ![k].closed = wireEnd[k] = "eof"]
    /\ refused' = IF wireEnd[k] = "eof" THEN refused ELSE refused \cup {k}
    /\ UNCHANGED <<source, sourceEnd, encoder, sent, wire, wireEnd, exposed, faults>>

\* ErrStreamTruncated at the end of the body, ErrStreamMalformed at a cut.
ReadEnd(k) ==
    /\ ~reader[k].closed
    /\ wire[k] = <<>>
    /\ wireEnd[k] # "open"
    /\ refused' = refused \cup {k}
    /\ UNCHANGED <<source, sourceEnd, encoder, sent, wire, wireEnd, reader, exposed, faults>>

(***************************************************************************)
(* Specification                                                           *)
(***************************************************************************)

StreamInit ==
    /\ source = [k \in Streams |-> <<>>]
    /\ sourceEnd = [k \in Streams |-> "open"]
    /\ encoder = [k \in Streams |-> "idle"]
    /\ sent = [k \in Streams |-> <<>>]
    /\ wire = [k \in Streams |-> <<>>]
    /\ wireEnd = [k \in Streams |-> "open"]
    /\ reader = [k \in Streams |-> [sequence |-> 0, previous |-> Zero, closed |-> FALSE]]
    /\ exposed = [k \in Streams |-> <<>>]
    /\ refused = {}
    /\ faults = 0

Encode(k) == EncodeData(k) \/ EncodeClose(k) \/ EncodeFails(k) \/ CloseBody(k)

Read(k) == ReadData(k) \/ ReadClose(k) \/ ReadRefused(k) \/ ReadEnd(k)

Fault(k) ==
    \/ \E i \in 1..Len(wire[k]) : Lose(k, i)
    \/ \E i \in 1..(Len(wire[k]) + 1), j \in Streams : \E n \in 1..Len(sent[j]) : Insert(k, i, j, n)
    \/ \E i \in 1..(Len(wire[k]) - 1) : Reorder(k, i)
    \/ \E i \in 1..Len(wire[k]) : \E f \in Altered(wire[k][i]) : Alter(k, i, f)
    \/ \E n \in 0..Len(wire[k]), end \in {"eof", "reset"} : Cut(k, n, end)

Client(k) ==
    \/ RoundTrip(k)
    \/ \E m \in Messages : Write(k, m)
    \/ \E how \in {"eof", "error"} : Finish(k, how)

StreamNext == \E k \in Streams : Client(k) \/ Encode(k) \/ Fault(k) \/ Read(k)

StreamSpec == StreamInit /\ [][StreamNext]_streamVars

(***************************************************************************)
(* Properties                                                              *)
(***************************************************************************)

Closed == [k \in Streams |-> reader[k].closed]

Promise ==
    INSTANCE PrefixStream WITH written <- source, writerEnd <- sourceEnd,
                               seen <- exposed, ended <- Closed

\* Whatever the connection does to the frames, and although Read may be called
\* again after an error, the server is given the envelopes of this stream, in the
\* order they were written and each once, and EOF only when the client has ended
\* the stream and all of them have been given (hmac/stream.go:86-88, :173-250,
\* hmac/transport.go:32-34).
ImplementsPrefixStream == Promise!Spec
=============================================================================
