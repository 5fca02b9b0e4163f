----------------------------- MODULE RequestPath -----------------------------
(***************************************************************************)
(* Authentication of the requests of a resource server: the HTTP           *)
(* middleware and the Connect and gRPC interceptors (middleware/) take a   *)
(* request through the token validator (auth.go) with its key cache, the   *)
(* revoked-session list, the drift detector and the proof check, while     *)
(* other requests do the same, keys rotate, sessions are revoked, devices  *)
(* are bound and the clock moves.                                          *)
(*                                                                         *)
(* A token, a proof and a request are records of what the checks tell      *)
(* apart; their encodings are left out.                                    *)
(***************************************************************************)
EXTENDS JWKSFetcher, SessionValidator, DPoPValidator, DriftDetector

CONSTANTS
    Deployments,    \* what the SDK was built with, the requests it meets and the bounds of its environment
    Leeway          \* tokenValidationLeeway

ASSUME DeploymentAssumption ==
    /\ Leeway \in Nat
    /\ "none" \notin Sessions
    /\ \A d \in Deployments :
          /\ {d.validator, d.crl, d.drift, d.requireDPoP, d.sharedGuard, d.warm} \subseteq BOOLEAN
          /\ d.crl => d.validator
          /\ d.devices \subseteq Devices
          /\ d.published \subseteq Kids /\ d.keySets \subseteq SUBSET Kids
          /\ \A q \in d.requests :
                /\ q.entry \in {"http", "connect", "grpc", "http then connect"}
                /\ q.scheme \in {"Bearer", "DPoP", "none"}
                /\ q.token.form \in {"ok", "malformed"} /\ q.token.claims \in {"ok", "bad"}
                /\ q.token.kid \in Kids /\ q.token.exp \in Nat /\ q.proof.iat \in Int
          /\ d.maxNow \in Nat /\ d.maxRequests \in Nat /\ d.maxPolls \in Nat /\ d.maxChanges \in Nat

VARIABLES
    deployment,
    req,          \* per caller: its request and how far it is
    arrivals,     \* requests so far
    changes       \* rotations, revocations and bindings so far

components == <<jwksVars, crlVars, dpopVars, driftVars>>
vars == <<components, now, deployment, req, arrivals, changes>>

NoRequest ==
    [entry |-> "http", scheme |-> "none", proof |-> NoProof, target |-> "none", family |-> "none", plain |-> FALSE,
     token |-> [id |-> "none", form |-> "malformed", kid |-> "none", claims |-> "bad", exp |-> 0,
                session |-> "none", org |-> "none", jkt |-> "none"]]

Idle == [pc |-> "idle", q |-> NoRequest, proven |-> FALSE, dead |-> FALSE]

TypeOK ==
    /\ JWKSTypeOK
    /\ CRLTypeOK
    /\ deployment \in Deployments
    /\ now \in 0..deployment.maxNow
    /\ \A c \in Callers :
          /\ req[c].pc \in {"idle", "findKey", "revocation", "drift", "proof", "guard",
                            "interceptor", "served", "rejected"}
          /\ req[c].pc = "findKey" <=> find[c].pc # "idle"
          /\ req[c].pc = "drift" <=> inspect[c].pc # "idle"
    /\ arrivals \in 0..deployment.maxRequests
    /\ changes \in 0..deployment.maxChanges

Init ==
    /\ deployment \in Deployments
    /\ now = 0
    /\ JWKSInit(deployment.published, deployment.warm)
    /\ CRLInit
    /\ DPoPInit
    /\ DriftInit(Sessions)
    /\ req = [c \in Callers |-> Idle]
    /\ arrivals = 0
    /\ changes = 0

Goto(c, pc) == req' = [req EXCEPT ![c].pc = pc]

-----------------------------------------------------------------------------
(* The handlers up to the key lookup are the same in all three.            *)

TurnedAway(q) ==
    \/ q.scheme = "none"
    \/ deployment.requireDPoP /\ q.scheme # "DPoP"
    \/ ~deployment.validator
    \/ q.token.form = "malformed"

\* New starts the session validator, its first poll included, before it returns.
Arrive(c) ==
    /\ req[c].pc = "idle"
    /\ arrivals < deployment.maxRequests
    /\ deployment.crl => poll.started
    /\ \E q \in deployment.requests :
          /\ req' = [req EXCEPT ![c] = [pc |-> IF TurnedAway(q) THEN "rejected" ELSE "findKey", q |-> q,
                                        proven |-> FALSE, dead |-> q.token.session \in poll.known]]
          /\ IF TurnedAway(q)
             THEN UNCHANGED jwksVars
             ELSE /\ CallFindKey(c, q.token.kid)
                  /\ UNCHANGED <<published, retiredAt, keys, fetchedAt, forcedAt, lockedAt, holding>>
    /\ arrivals' = arrivals + 1
    /\ UNCHANGED <<crlVars, dpopVars, driftVars, now, deployment, changes>>

ClaimsValid(token) == token.claims = "ok" /\ now <= token.exp + Leeway

IsBound(q) == q.token.jkt # "none"

\* An interceptor that finds no principal cannot check a proof.
ConnectInterceptor(q) == IF IsBound(q) THEN "rejected" ELSE "served"
GRPCUnaryInterceptor(q) == IF IsBound(q) THEN "rejected" ELSE "served"

ValidateToken(c) ==
    /\ req[c].pc = "findKey"
    /\ find[c].pc = "done"
    /\ find' = [find EXCEPT ![c] = NotFinding]
    /\ LET q == req[c].q
       IN  Goto(c, IF find[c].out # "found" \/ ~ClaimsValid(q.token) THEN "rejected"
                   ELSE IF q.entry = "connect" THEN ConnectInterceptor(q)
                   ELSE IF q.entry = "grpc" THEN GRPCUnaryInterceptor(q)
                   ELSE "revocation")
    /\ UNCHANGED <<published, retiredAt, keys, fetchedAt, forcedAt, lockedAt, holding>>
    /\ UNCHANGED <<crlVars, dpopVars, driftVars, now, deployment, arrivals, changes>>

-----------------------------------------------------------------------------
(* The rest of the HTTP middleware.                                        *)

HasSession(q) == q.token.session # "none"

\* Inspect returns at once for a principal of no organisation.
HasOrg(q) == q.token.org # "none"

CheckRevocation(c) ==
    /\ req[c].pc = "revocation"
    /\ LET q == req[c].q
           revokedHere == deployment.crl /\ HasSession(q) /\ IsRevoked(q.token.session)
           inspected == deployment.drift /\ HasSession(q) /\ HasOrg(q)
       IN  /\ Goto(c, IF revokedHere THEN "rejected" ELSE IF inspected THEN "drift" ELSE "proof")
           /\ IF ~revokedHere /\ inspected
              THEN CallInspect(c, q.token.session, q.family, q.plain)
              ELSE UNCHANGED inspect
    /\ UNCHANGED <<jwksVars, crlVars, dpopVars, bound, cache, reported, reports, resets>>
    /\ UNCHANGED <<now, deployment, arrivals, changes>>

Inspected(c) ==
    /\ req[c].pc = "drift"
    /\ inspect[c].pc = "done"
    /\ inspect' = [inspect EXCEPT ![c] = NotInspecting]
    /\ Goto(c, "proof")
    /\ UNCHANGED <<jwksVars, crlVars, dpopVars, bound, cache, reported, reports, resets>>
    /\ UNCHANGED <<now, deployment, arrivals, changes>>

\* A handler behind both middlewares meets the interceptor's fast path next.
Passed(q) == IF q.entry = "http then connect" THEN "interceptor" ELSE "served"

\* Fault: only the scheme asks for a proof.
NeedsProofByScheme(q) == q.scheme = "DPoP"

NeedsProof(q) == IsBound(q) \/ q.scheme = "DPoP"

\* The SDK builds its validator without WithRequireATH.
CheckProof(c) ==
    /\ req[c].pc = "proof"
    /\ LET q == req[c].q
       IN  Goto(c, IF ~NeedsProof(q) THEN Passed(q)
                   ELSE IF ClaimsMatch(q.proof, q.target, q.token.id, FALSE) /\ InWindow(q.proof)
                   THEN "guard"
                   ELSE "rejected")
    /\ UNCHANGED <<components, now, deployment, arrivals, changes>>

\* The proof's id is recorded before its key is compared.
PassGuard(c) ==
    /\ req[c].pc = "guard"
    /\ LET q == req[c].q
           passes == ~IsReplay(q.proof) /\ JKTMatches(q.proof, q.token.jkt)
       IN  /\ CheckAndRecord(q.proof)
           /\ IF IsReplay(q.proof) THEN UNCHANGED accepted ELSE CountPass(q.proof)
           /\ req' = [req EXCEPT ![c].pc = IF passes THEN Passed(q) ELSE "rejected",
                                 ![c].proven = passes]
    /\ UNCHANGED <<jwksVars, crlVars, driftVars, now, deployment, arrivals, changes>>

\* A shared guard that cannot answer rejects the proof.
GuardFails(c) ==
    /\ req[c].pc = "guard"
    /\ deployment.sharedGuard
    /\ Goto(c, "rejected")
    /\ UNCHANGED <<components, now, deployment, arrivals, changes>>

FastPath(c) ==
    /\ req[c].pc = "interceptor"
    /\ Goto(c, "served")
    /\ UNCHANGED <<components, now, deployment, arrivals, changes>>

Respond(c) ==
    /\ req[c].pc \in {"served", "rejected"}
    /\ req' = [req EXCEPT ![c] = Idle]
    /\ UNCHANGED <<components, now, deployment, arrivals, changes>>

-----------------------------------------------------------------------------
(* The components' own steps and the environment.                          *)

Find(c) ==
    /\ FindKeyStep(c)
    /\ UNCHANGED <<crlVars, dpopVars, driftVars, now, deployment, req, arrivals, changes>>

Inspect(c) ==
    /\ InspectStep(c)
    /\ UNCHANGED <<jwksVars, crlVars, dpopVars, now, deployment, req, arrivals, changes>>

Poll ==
    /\ deployment.crl
    /\ RefreshStep \/ (poll.count < deployment.maxPolls /\ BeginPoll)
    /\ UNCHANGED <<jwksVars, dpopVars, driftVars, now, deployment, req, arrivals, changes>>

Change ==
    /\ changes < deployment.maxChanges
    /\ changes' = changes + 1
    /\ \/ /\ \E set \in deployment.keySets : RotateKeys(set)
          /\ UNCHANGED <<crlVars, driftVars>>
       \/ /\ deployment.crl
          /\ \E s \in Sessions : Revoke(s)
          /\ UNCHANGED <<jwksVars, driftVars>>
       \/ /\ deployment.drift
          /\ \E s \in Sessions, device \in deployment.devices : Bind(s, device)
          /\ UNCHANGED <<jwksVars, crlVars>>
    /\ UNCHANGED <<dpopVars, now, deployment, req, arrivals>>

Tick ==
    /\ now < deployment.maxNow
    /\ FetchInTime
    /\ now' = now + 1
    /\ UNCHANGED <<components, deployment, req, arrivals, changes>>

Handle(c) ==
    \/ Arrive(c) \/ ValidateToken(c) \/ CheckRevocation(c) \/ Inspected(c) \/ CheckProof(c)
    \/ PassGuard(c) \/ GuardFails(c) \/ FastPath(c) \/ Respond(c)

Next ==
    \/ \E c \in Callers : Handle(c) \/ Find(c) \/ Inspect(c)
    \/ Poll
    \/ Change
    \/ Tick

Spec == Init /\ [][Next]_vars

-----------------------------------------------------------------------------
\* A session is turned away by the HTTP middleware from the moment a poll
\* that began after its revocation has swapped the list: no later poll, failed
\* or stopped, and no wait for keys lets it in again (README.md:210).
RevokedStaysOut ==
    \A c \in Callers :
       req[c].pc = "served" /\ deployment.crl /\ req[c].q.entry \in {"http", "http then connect"}
       => ~req[c].dead

\* No handler runs on a token that is bound to a key without a proof by that
\* key, for this request, that passed the guard: neither under the Bearer
\* scheme nor behind an interceptor alone (http.go:79-83, connect.go:57-60).
BoundTokenProven ==
    \A c \in Callers :
       req[c].pc = "served" /\ IsBound(req[c].q) =>
          req[c].proven /\ req[c].q.proof.key = req[c].q.token.jkt
=============================================================================
