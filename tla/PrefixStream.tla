----------------------------- MODULE PrefixStream ----------------------------
(***************************************************************************)
(* What a signed stream promises the server ("every request envelope is    *)
(* authenticated and chained, and an authenticated close frame prevents    *)
(* truncation", hmac/transport.go; "EOF is returned only after a valid     *)
(* authenticated close frame", hmac/stream.go): the server sees what the   *)
(* client wrote, in order, possibly not all of it, and the end only when   *)
(* the client has ended the stream and every envelope has been seen.       *)
(***************************************************************************)
EXTENDS Naturals, Sequences

CONSTANTS
    Streams,   \* requests
    Messages   \* request envelopes

VARIABLES
    written,    \* per stream: the envelopes the client has written
    writerEnd,  \* per stream: "open"; "eof" once the client is done; "error" once it has given up
    seen,       \* per stream: the envelopes the server has been given
    ended       \* per stream: the server has been given the end of it

Write(k, m) ==
    /\ writerEnd[k] = "open"
    /\ written' = [written EXCEPT ![k] = Append(@, m)]
    /\ UNCHANGED <<writerEnd, seen, ended>>

Finish(k, how) ==
    /\ writerEnd[k] = "open"
    /\ writerEnd' = [writerEnd EXCEPT ![k] = how]
    /\ UNCHANGED <<written, seen, ended>>

Expose(k) ==
    /\ ~ended[k]
    /\ Len(seen[k]) < Len(written[k])
    /\ seen' = [seen EXCEPT ![k] = Append(@, written[k][Len(@) + 1])]
    /\ UNCHANGED <<written, writerEnd, ended>>

End(k) ==
    /\ ~ended[k]
    /\ writerEnd[k] = "eof"
    /\ seen[k] = written[k]
    /\ ended' = [ended EXCEPT ![k] = TRUE]
    /\ UNCHANGED <<written, writerEnd, seen>>

Init ==
    /\ written = [k \in Streams |-> <<>>]
    /\ writerEnd = [k \in Streams |-> "open"]
    /\ seen = [k \in Streams |-> <<>>]
    /\ ended = [k \in Streams |-> FALSE]

Next ==
    \E k \in Streams :
        \/ \E m \in Messages : Write(k, m)
        \/ \E how \in {"eof", "error"} : Finish(k, how)
        \/ Expose(k)
        \/ End(k)

Spec == Init /\ [][Next]_<<written, writerEnd, seen, ended>>
=============================================================================
