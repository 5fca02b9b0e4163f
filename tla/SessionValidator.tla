-------------------------- MODULE SessionValidator --------------------------
(***************************************************************************)
(* The revoked-session list (session_validator.go): one goroutine polls    *)
(* the control plane and swaps the list, and records the outcome of the    *)
(* poll in a second critical section.  Requests read the list in between.  *)
(***************************************************************************)
EXTENDS Naturals

CONSTANT Sessions      \* JWT ids of user sessions

VARIABLES
    revokedSessions,   \* revoked at the control plane
    revoked,           \* v.revoked
    healthy,           \* v.lastRefreshErr is nil
    consecutiveFailures,
    poll               \* the polling goroutine

crlVars == <<revokedSessions, revoked, healthy, consecutiveFailures, poll>>

\* poll.asked and poll.known are history: what was revoked when this poll,
\* and when the last one to swap the list, asked for it.
CRLTypeOK ==
    /\ revokedSessions \subseteq Sessions
    /\ revoked \subseteq Sessions
    /\ healthy \in BOOLEAN
    /\ consecutiveFailures \in Nat
    /\ healthy <=> consecutiveFailures = 0
    /\ poll \in [pc : {"calling", "answered", "swapped", "failed", "idle", "ended"},
                 answer : SUBSET Sessions, asked : SUBSET Sessions, known : SUBSET Sessions,
                 started : BOOLEAN, stopped : BOOLEAN, count : Nat]

\* NewSessionValidator, and Start in its first fetch.
CRLInit ==
    /\ revokedSessions = {}
    /\ revoked = {}
    /\ healthy = TRUE
    /\ consecutiveFailures = 0
    /\ poll = [pc |-> "calling", answer |-> {}, asked |-> {}, known |-> {},
               started |-> FALSE, stopped |-> FALSE, count |-> 0]

IsRevoked(s) == s \in revoked

\* A tick of the poll interval.  A goroutine that is told to stop may take a
\* tick that is due as well.
BeginPoll ==
    /\ poll.pc = "idle"
    /\ poll' = [poll EXCEPT !.pc = "calling", !.asked = revokedSessions, !.count = @ + 1]
    /\ UNCHANGED <<revokedSessions, revoked, healthy, consecutiveFailures>>

ListRevokedSessions ==
    /\ poll.pc = "calling"
    /\ poll' = [poll EXCEPT !.pc = "answered", !.answer = revokedSessions]
    /\ UNCHANGED <<revokedSessions, revoked, healthy, consecutiveFailures>>

\* Fault: a failure empties the list.
PollFailsClearing ==
    /\ poll.pc \in {"calling", "answered"}
    /\ poll' = [poll EXCEPT !.pc = "failed", !.answer = {}]
    /\ revoked' = {}
    /\ UNCHANGED <<revokedSessions, healthy, consecutiveFailures>>

\* The call fails or times out, answered or not.
PollFails ==
    /\ poll.pc \in {"calling", "answered"}
    /\ poll' = [poll EXCEPT !.pc = "failed", !.answer = {}]
    /\ UNCHANGED <<revokedSessions, revoked, healthy, consecutiveFailures>>

\* refresh swaps the whole set.
refreshSwap ==
    /\ poll.pc = "answered"
    /\ revoked' = poll.answer
    /\ poll' = [poll EXCEPT !.pc = "swapped", !.answer = {}, !.known = poll.asked]
    /\ UNCHANGED <<revokedSessions, healthy, consecutiveFailures>>

refreshAndRecord ==
    /\ poll.pc \in {"swapped", "failed"}
    /\ healthy' = (poll.pc = "swapped")
    /\ consecutiveFailures' = IF poll.pc = "swapped" THEN 0 ELSE consecutiveFailures + 1
    /\ poll' = [poll EXCEPT !.pc = "idle", !.started = TRUE]
    /\ UNCHANGED <<revokedSessions, revoked>>

Stop ==
    /\ poll.started /\ ~poll.stopped
    /\ poll' = [poll EXCEPT !.stopped = TRUE]
    /\ UNCHANGED <<revokedSessions, revoked, healthy, consecutiveFailures>>

PollingEnds ==
    /\ poll.pc = "idle" /\ poll.stopped
    /\ poll' = [poll EXCEPT !.pc = "ended"]
    /\ UNCHANGED <<revokedSessions, revoked, healthy, consecutiveFailures>>

RefreshStep ==
    \/ ListRevokedSessions \/ PollFails \/ refreshSwap \/ refreshAndRecord
    \/ Stop \/ PollingEnds

Revoke(s) ==
    /\ s \notin revokedSessions
    /\ revokedSessions' = revokedSessions \cup {s}
    /\ UNCHANGED <<revoked, healthy, consecutiveFailures, poll>>

-----------------------------------------------------------------------------
=============================================================================
