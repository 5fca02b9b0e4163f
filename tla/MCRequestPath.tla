---------------------------- MODULE MCRequestPath ----------------------------
(***************************************************************************)
(* Instances of RequestPath: rotating keys, revocations, proofs and drift, *)
(* each with the requests that exercise it.                                *)
(***************************************************************************)
EXTENDS RequestPath, TLC

CONSTANTS g1, g2

Token ==
    [id |-> "t", form |-> "ok", kid |-> "k1", claims |-> "ok", exp |-> 9, session |-> "none", org |-> "o", jkt |-> "none"]
Bound(id) == [Token EXCEPT !.id = id, !.jkt = "owner"]
OfSession(s) == [Token EXCEPT !.session = s]

Request ==
    [entry |-> "http", scheme |-> "Bearer", token |-> Token, proof |-> NoProof,
     target |-> "GET", family |-> "firefox", plain |-> FALSE]
Proof == [jti |-> "j1", iat |-> 1, key |-> "owner", ath |-> "none", target |-> "GET", form |-> "ok"]
Proving(token, proof) == [Request EXCEPT !.scheme = "DPoP", !.token = token, !.proof = proof]

\* Requests that stop early.
Early ==
    {[Request EXCEPT !.scheme = "none"],
     [Request EXCEPT !.token.form = "malformed"],
     [Request EXCEPT !.token.claims = "bad"],
     [Request EXCEPT !.token.exp = 0]}

Deployment ==
    [validator |-> TRUE, crl |-> FALSE, drift |-> FALSE, requireDPoP |-> FALSE, sharedGuard |-> FALSE,
     warm |-> FALSE, published |-> {"k1"}, keySets |-> {}, devices |-> {},
     requests |-> {}, maxNow |-> 0, maxRequests |-> 2, maxPolls |-> 0, maxChanges |-> 0]

MCDeployments ==
    {[Deployment EXCEPT !.keySets = {{"k1"}, {"k2"}}, !.maxNow = 5, !.maxRequests = 3, !.maxChanges = 1,
                        !.requests = {Request, [Request EXCEPT !.token.kid = "k2"]}],
     [Deployment EXCEPT !.crl = TRUE, !.maxPolls = 2, !.maxChanges = 1, !.maxRequests = 2,
                        !.requests = {[Request EXCEPT !.entry = e, !.token = OfSession("s1")] :
                                        e \in {"http", "http then connect", "grpc"}}],
     [Deployment EXCEPT !.maxNow = 5, !.maxRequests = 4,
                        !.requests = {Proving(Bound("a"), Proof), Proving(Bound("b"), [Proof EXCEPT !.ath = "b"]),
                                      Proving(Bound("a"), [Proof EXCEPT !.jti = "j2", !.iat = 4])}],
     [Deployment EXCEPT !.sharedGuard = TRUE, !.maxNow = 1,
                        !.requests = {[Proving(Bound("a"), Proof) EXCEPT !.entry = e, !.scheme = s] :
                                        e \in {"http", "connect", "grpc", "http then connect"},
                                        s \in {"Bearer", "DPoP"}}
                               \cup {Proving(Bound("a"), [Proof EXCEPT !.key = "other"]),
                                     Proving(Token, NoProof),
                                     Proving(Bound("a"), [Proof EXCEPT !.ath = "b"])}],
     [Deployment EXCEPT !.requireDPoP = TRUE, !.maxNow = 2, !.requests = Early \cup {Request, Proving(Bound("a"), Proof)}],
     [Deployment EXCEPT !.validator = FALSE, !.requests = {Request}],
     [Deployment EXCEPT !.drift = TRUE, !.warm = TRUE, !.maxNow = 2, !.maxRequests = 3, !.maxChanges = 2,
                        !.devices = {"firefox", "chrome"},
                        !.requests = {[Request EXCEPT !.token = OfSession(s), !.plain = p] :
                                        s \in Sessions, p \in BOOLEAN}],
     [Deployment EXCEPT !.drift = TRUE, !.warm = TRUE, !.maxChanges = 2,
                        !.devices = {"unnamed", "unfingerprinted"},
                        !.requests = {[Request EXCEPT !.token = OfSession("s1"), !.token.org = o, !.plain = p] :
                                        o \in {"o", "none"}, p \in BOOLEAN}]}

CallerSymmetry == Permutations({g1, g2})
=============================================================================
