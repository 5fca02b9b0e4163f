---------------------------- MODULE DPoPValidator ----------------------------
(***************************************************************************)
(* Proof-of-possession checks (dpop.go): a proof's claims and age are      *)
(* checked first, then its id is looked up and recorded in the replay      *)
(* guard, then its key is compared with the key the token is bound to.     *)
(* The clock is read for the age and again by the guard.                   *)
(***************************************************************************)
EXTENDS RequestClock, FiniteSets, Functions

CONSTANTS
    Skew,      \* DefaultDPoPSkew
    MaxAge     \* DefaultDPoPMaxAge

ASSUME ProofAgeAssumption == Skew \in Nat /\ MaxAge \in Nat

VARIABLES
    seen,        \* memoryReplayGuard.seen: proof id -> when it may be dropped
    accepted     \* history: proofs the guard let pass within their window, with the number of times

dpopVars == <<seen, accepted>>

DPoPInit == seen = <<>> /\ accepted = <<>>

NoProof == [jti |-> "none", iat |-> 0, key |-> "none", ath |-> "none", target |-> "none", form |-> "none"]

\* The window the guard must remember a proof for.
ExpiresAt(proof) == proof.iat + MaxAge + Skew

\* Method and normalised URI of the proof and of the request, as one value.
SameTarget(proof, target) == proof.target = target

\* The checks before the guard; `form` stands for the header, the signature and missing claims.
ClaimsMatch(proof, target, token, requireATH) ==
    /\ proof.form = "ok"
    /\ SameTarget(proof, target)
    /\ IF proof.ath = "none" THEN ~requireATH ELSE proof.ath = token

InWindow(proof) ==
    /\ proof.iat # 0
    /\ proof.iat <= now + Skew
    /\ proof.iat >= now - MaxAge - Skew

\* Fault: off by one at the end of the window.
RememberedShort == {j \in DOMAIN seen : seen[j] > now}

\* CheckAndRecord drops what is past its window before it looks.  It reads the clock
\* just before it takes the mutex; an earlier reading drops less.
Remembered == {j \in DOMAIN seen : seen[j] >= now}

IsReplay(proof) == proof.jti \in Remembered

CheckAndRecord(proof) ==
    seen' = IF IsReplay(proof)
            THEN Restrict(seen, Remembered)
            ELSE [j \in Remembered \cup {proof.jti} |->
                    IF j = proof.jti THEN ExpiresAt(proof) ELSE seen[j]]

\* History of the passes within the proof's window.
CountPass(proof) ==
    accepted' = IF now > ExpiresAt(proof) THEN accepted
                ELSE [p \in DOMAIN accepted \cup {proof} |->
                        (IF p \in DOMAIN accepted THEN accepted[p] ELSE 0)
                        + (IF p = proof THEN 1 ELSE 0)]

JKTMatches(proof, jkt) == jkt = "none" \/ proof.key = jkt

-----------------------------------------------------------------------------
\* Up to the end of its window a proof passes the guard at most once, for all
\* interleavings of requests, pruning and the clock: the guard forgets no
\* proof that still is fresh enough to be accepted (dpop.go:295-296).
AcceptedOnceInWindow == \A p \in DOMAIN accepted : accepted[p] <= 1
=============================================================================
