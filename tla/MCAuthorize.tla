----------------------------- MODULE MCAuthorize -----------------------------
(***************************************************************************)
(* Instances of Authorize: a synced deployment with either staleness mode, *)
(* one with changing bundles, and deployments without sync.                *)
(***************************************************************************)
EXTENDS Authorize, TLC

CONSTANTS c1, c2

Yes == [allow |-> "true", reason |-> "absent", stepUp |-> "absent"]
No == [allow |-> "false", reason |-> "text", stepUp |-> "method"]
BareNo == [No EXCEPT !.reason = "absent", !.stepUp = "absent"]
Rule(when, value) == [when |-> when, value |-> value]
Undefined == Rule("never", BareNo)

\* A global allow, and no opinion.
Open == [rules |-> <<Undefined, Undefined, Undefined, Rule("always", Yes)>>, data |-> FALSE]
Silent == [rules |-> <<Undefined, Undefined, Undefined, Undefined>>, data |-> FALSE]

\* Two bundles that deny, each by its own data; mixed they would allow.
Flagged == [rules |-> <<Rule("data", Yes), Rule("always", No), Undefined, Undefined>>, data |-> FALSE]
Unflagged == [rules |-> <<Rule("no data", Yes), Rule("always", No), Undefined, Undefined>>, data |-> TRUE]

\* Bundles that ask for the relationship, fail, or break the contract.
Asking == [rules |-> <<Undefined, Rule("check", Yes), Rule("no check", BareNo), Undefined>>, data |-> FALSE]
Conflicting == [rules |-> <<Undefined, Rule("conflict", No), Undefined, Undefined>>, data |-> FALSE]
Invalid == [rules |-> <<Rule("always", [Yes EXCEPT !.stepUp = "invalid"]), Rule("always", Yes),
                        Undefined, Undefined>>, data |-> FALSE]

Deployment ==
    [localOnly |-> FALSE, disableSync |-> FALSE, controlPlane |-> TRUE, mode |-> "off",
     budget |-> 0, lease |-> 2, bundles |-> {Open}, maxNow |-> 2, maxLoads |-> 1,
     maxChanges |-> 0, maxCalls |-> 1]

MCDeployments ==
    {[Deployment EXCEPT !.mode = "error", !.budget = 1, !.lease = 5, !.maxNow = 4],
     [Deployment EXCEPT !.mode = "fail closed", !.budget = 1, !.lease = 5, !.maxNow = 4],
     [Deployment EXCEPT !.bundles = {Asking, Silent}, !.maxChanges = 2],
     [Deployment EXCEPT !.localOnly = TRUE, !.controlPlane = FALSE, !.mode = "error", !.budget = 1,
                        !.bundles = {Flagged, Unflagged}, !.maxNow = 0, !.maxLoads = 2,
                        !.maxChanges = 1, !.maxCalls = 2],
     [Deployment EXCEPT !.localOnly = TRUE, !.bundles = {Conflicting, Invalid, Silent},
                        !.maxNow = 1, !.maxChanges = 1],
     [Deployment EXCEPT !.disableSync = TRUE, !.controlPlane = FALSE, !.mode = "fail closed",
                        !.budget = 1, !.maxNow = 2]}

CallSymmetry == Permutations({c1, c2})
=============================================================================
