------------------------------ MODULE Authorize ------------------------------
(***************************************************************************)
(* The decision path of the SDK (atol.go, check.go, staleness.go,          *)
(* tenant_serving.go): Authorize and the Can family run through the        *)
(* serving gate, the staleness gate, the policy engine and the fallback to *)
(* a bare relationship check, and log what they decided, while Bootstrap   *)
(* builds the sync client, the stream comes and goes, the lease runs out,  *)
(* tuples change and bundles are swapped.                                  *)
(*                                                                         *)
(* A relationship check is one step here (Checker has its steps), as are   *)
(* an engine's gate check and the sync client's status.                    *)
(***************************************************************************)
EXTENDS PolicyEngine, Integers, FiniteSets

CONSTANTS
    Calls,         \* calls of the decision API
    Deployments    \* what the SDK was built with, and the bounds of its environment

ASSUME DeploymentAssumption ==
    \A d \in Deployments :
       /\ d.localOnly \in BOOLEAN                      \* WithLocalOnly
       /\ d.disableSync \in BOOLEAN
       /\ d.controlPlane \in BOOLEAN                   \* control plane and store configured
       /\ d.disableSync => d.localOnly \/ ~d.controlPlane
       /\ d.mode \in {"off", "error", "fail closed"}   \* StalenessMode
       /\ d.budget \in Nat                             \* MaxStaleness, in ticks
       /\ d.lease \in Nat                              \* longest lease, in ticks
       /\ \A b \in d.bundles : b.rules \in Rules /\ b.data \in BOOLEAN
       /\ d.maxNow \in Nat /\ d.maxLoads \in Nat /\ d.maxChanges \in Nat /\ d.maxCalls \in Nat

VARIABLES
    deployment,
    relation,        \* what a check finds: "no model", "held" or "not held"
    boot,            \* how far Bootstrap is
    connected,       \* Client.connected
    lastActivity,    \* Client.lastStreamActivity
    leaseExpiresAt,  \* TenantServingGate.leaseExpiresAt
    now,             \* the clock
    call,            \* per call: where it is and what it holds
    logged           \* per call: its entries in the decision log

\* The environment and history.
VARIABLES
    link,            \* the connection behind the stream is alive
    reached,         \* the last time it was
    changes,         \* updates and tuple changes so far
    saw              \* per call: what held at some time during it

client == <<boot, connected, lastActivity, leaseExpiresAt>>
network == <<link, reached>>
vars == <<engineVars, deployment, relation, client, now, call, logged, network, changes, saw>>

Never == -1

NoCall ==
    [pc |-> "idle", context |-> FALSE, generation |-> NoGeneration,
     data |-> FALSE, path |-> 1, result |-> Error]

StaleError == [Error EXCEPT !.kind = "stale error"]
StaleDeny == [Error EXCEPT !.kind = "stale deny"]
NoPrincipal == [Error EXCEPT !.kind = "no principal"]
NotAsked == [Error EXCEPT !.kind = "not asked"]

(***************************************************************************)
(* The gates                                                               *)
(***************************************************************************)

Local == deployment.localOnly \/ deployment.disableSync
Required == ~deployment.localOnly /\ deployment.controlPlane

\* TenantServingGate.RequireActive returns nil.
RequireActive == boot # "new" /\ now < leaseExpiresAt

requireServingActive == Required => RequireActive

\* NewClient installs the gate in both engines.
ClientBuilt == boot \in {"built", "live"}
EngineGate == ClientBuilt => RequireActive

\* The zero time of a stream that was never open is past every budget.
checkStale ==
    /\ deployment.mode # "off" /\ deployment.budget > 0
    /\ ~Local
    /\ \/ boot # "live"
       \/ ~connected /\ (lastActivity = Never \/ now - lastActivity > deployment.budget)

\* A check of the Zanzibar engine; context tuples may grant the relation.
CheckFails == ((Required \/ ClientBuilt) /\ ~RequireActive) \/ relation = "no model"
CheckAnswer(c) == relation = "held" \/ call[c].context

\* The zanzibar.check built-in answers false where the check fails.
checkAccessFn(c) == ~CheckFails /\ CheckAnswer(c)

(***************************************************************************)
(* A call                                                                  *)
(***************************************************************************)

\* Moves the call on; Observe records history.
Moves(c, changed) ==
    /\ call' = [call EXCEPT ![c] = changed]
    /\ UNCHANGED <<deployment, relation, client, now, network, changes>>

Entry(r) ==
    [allowed |-> r.allow,
     rule |-> IF r.kind = "decision" THEN IF r.rule = 0 THEN "zanzibar.check" ELSE "policy"
                                     ELSE r.kind]

\* Logs the outcome, where there is a logger, and returns it.
Returns(c, r) ==
    /\ logged' = IF deployment.controlPlane THEN [logged EXCEPT ![c] = Append(@, Entry(r))]
                                            ELSE logged
    /\ Moves(c, [call[c] EXCEPT !.pc = "done", !.result = r])

MayBegin(c) ==
    call[c].pc = "idle" /\ Cardinality({d \in Calls : call[d].pc # "idle"}) < deployment.maxCalls

\* Authorize, for the principal of the context, or Can, which may have context
\* tuples that grant the relation.
Begin(c, context) ==
    /\ MayBegin(c)
    /\ Moves(c, [NoCall EXCEPT !.pc = "serving", !.context = context])
    /\ UNCHANGED <<engineVars, logged>>

AuthorizeNoPrincipal(c) ==
    /\ MayBegin(c)
    /\ Returns(c, NoPrincipal)
    /\ UNCHANGED engineVars

\* Check returns false without a log entry.
CheckNoPrincipal(c) ==
    /\ MayBegin(c)
    /\ Moves(c, [NoCall EXCEPT !.pc = "done", !.result = NotAsked])
    /\ UNCHANGED <<engineVars, logged>>

\* Fault: the policy engine's own gate is trusted.
RequireServingSkipped(c) ==
    /\ call[c].pc = "serving"
    /\ Moves(c, [call[c] EXCEPT !.pc = "stale"]) /\ UNCHANGED logged
    /\ UNCHANGED engineVars

\* evaluateGated: the serving gate comes first.
RequireServing(c) ==
    /\ call[c].pc = "serving"
    /\ IF requireServingActive THEN Moves(c, [call[c] EXCEPT !.pc = "stale"]) /\ UNCHANGED logged
                               ELSE Returns(c, Error)
    /\ UNCHANGED engineVars

\* Fault: Authorize does not log the denial of a stale snapshot.
StaleGateUnlogged(c) ==
    /\ call[c].pc = "stale"
    /\ \/ ~checkStale /\ Moves(c, [call[c] EXCEPT !.pc = "gate"]) /\ UNCHANGED logged
       \/ checkStale /\ deployment.mode = "error" /\ Returns(c, StaleError)
       \/ /\ checkStale /\ deployment.mode = "fail closed"
          /\ Moves(c, [call[c] EXCEPT !.pc = "done", !.result = StaleDeny])
          /\ UNCHANGED logged
    /\ UNCHANGED engineVars

StaleGate(c) ==
    /\ call[c].pc = "stale"
    /\ \/ ~checkStale /\ Moves(c, [call[c] EXCEPT !.pc = "gate"]) /\ UNCHANGED logged
       \/ checkStale /\ deployment.mode = "error" /\ Returns(c, StaleError)
       \/ checkStale /\ deployment.mode = "fail closed" /\ Returns(c, StaleDeny)
    /\ UNCHANGED engineVars

\* Engine.Evaluate looks at its own gate, ...
EvaluateGate(c) ==
    /\ call[c].pc = "gate"
    /\ IF EngineGate THEN Moves(c, [call[c] EXCEPT !.pc = "pin"]) /\ UNCHANGED logged
                     ELSE Returns(c, Error)
    /\ UNCHANGED engineVars

\* ... and pins the generation it evaluates.
Snapshot(c) ==
    /\ call[c].pc = "pin"
    /\ Moves(c, [call[c] EXCEPT !.pc = IF Current = NoGeneration THEN "fallback" ELSE "prepare",
                                !.generation = Current])
    /\ UNCHANGED <<engineVars, logged>>

\* evalQuery: the query is prepared or taken from the cache; the evaluation reads
\* one version of the data.
Prepare(c) ==
    LET g == call[c].generation IN
    /\ call[c].pc = "prepare"
    /\ preparedQuery(g)
    /\ Moves(c, [call[c] EXCEPT !.pc = "eval", !.generation = QueryOf(g),
                                !.data = generations[QueryOf(g)].data])
    /\ UNCHANGED <<updates, logged>>

RuleAt(c) == generations[call[c].generation].rules[call[c].path]

\* The rule path is not defined: the next one, or the bare check after the last.
NextPath(c) ==
    /\ UNCHANGED logged
    /\ IF call[c].path = 4 THEN Moves(c, [call[c] EXCEPT !.pc = "fallback"])
                           ELSE Moves(c, [call[c] EXCEPT !.path = @ + 1])

\* Fault: an evaluation error is taken for no opinion.
EvaluatePathLenient(c) ==
    LET rule == RuleAt(c) IN
    /\ call[c].pc = "eval"
    /\ IF IsDefined(rule, call[c].data, checkAccessFn(c))
         THEN Returns(c, decodePolicyDecision(call[c].path, rule.value))
         ELSE NextPath(c)
    /\ UNCHANGED engineVars

\* One rule path.
EvaluatePath(c) ==
    LET rule == RuleAt(c) IN
    /\ call[c].pc = "eval"
    /\ IF rule.when = "conflict" THEN Returns(c, Error)
       ELSE IF IsDefined(rule, call[c].data, checkAccessFn(c))
         THEN Returns(c, decodePolicyDecision(call[c].path, rule.value))
         ELSE NextPath(c)
    /\ UNCHANGED engineVars

\* The context is cancelled, or the query cannot be prepared.
EvaluationFails(c) ==
    /\ call[c].pc \in {"prepare", "eval", "fallback"}
    /\ Returns(c, Error)
    /\ UNCHANGED engineVars

\* The bare check: its errors are the call's.
fallbackCheck(c) ==
    /\ call[c].pc = "fallback"
    /\ Returns(c, IF CheckFails THEN Error ELSE Decision(CheckAnswer(c), 0, FALSE))
    /\ UNCHANGED engineVars

CallStep(c) ==
    \/ RequireServing(c)
    \/ StaleGate(c)
    \/ EvaluateGate(c)
    \/ Snapshot(c)
    \/ Prepare(c)
    \/ EvaluatePath(c)
    \/ EvaluationFails(c)
    \/ fallbackCheck(c)

(***************************************************************************)
(* Bootstrap, the stream and the lease                                     *)
(***************************************************************************)

\* The state has been loaded, by LoadModel and LoadBundle below.
MarkBootstrapped ==
    /\ boot = "new" /\ deployment.controlPlane
    /\ boot' = "bootstrapped"
    /\ UNCHANGED <<connected, lastActivity, leaseExpiresAt, link, reached>>

BuildClient ==
    /\ boot = "bootstrapped" /\ ~deployment.disableSync
    /\ boot' = "built"
    /\ UNCHANGED <<connected, lastActivity, leaseExpiresAt, link, reached>>

\* The client is published, and Run starts.
PublishClient ==
    /\ boot = "built"
    /\ boot' = "live"
    /\ UNCHANGED <<connected, lastActivity, leaseExpiresAt, link, reached>>

markStreamOpen ==
    /\ boot = "live" /\ ~connected
    /\ connected' = TRUE
    /\ lastActivity' = now
    /\ link' = TRUE
    /\ reached' = now
    /\ UNCHANGED <<boot, leaseExpiresAt>>

\* A frame, with or without a lease.
markActivity ==
    /\ connected /\ link
    /\ lastActivity' = now
    /\ leaseExpiresAt' \in {leaseExpiresAt, now + deployment.lease}
    /\ UNCHANGED <<boot, connected, link, reached>>

\* The connection dies; the client does not know yet.
LinkBreaks ==
    /\ link
    /\ link' = FALSE
    /\ UNCHANGED <<client, reached>>

\* Fault: closing counts as activity.
markStreamClosedRefreshes ==
    /\ connected /\ ~link
    /\ connected' = FALSE
    /\ lastActivity' = now
    /\ UNCHANGED <<boot, leaseExpiresAt, link, reached>>

\* The clock of the last activity stays.
markStreamClosed ==
    /\ connected /\ ~link
    /\ connected' = FALSE
    /\ UNCHANGED <<boot, lastActivity, leaseExpiresAt, link, reached>>

StreamStep ==
    /\ \/ MarkBootstrapped \/ BuildClient \/ PublishClient
       \/ markStreamOpen \/ markActivity \/ LinkBreaks \/ markStreamClosed
    /\ UNCHANGED <<engineVars, deployment, relation, now, call, logged, changes>>

Tick ==
    /\ now < deployment.maxNow
    /\ now' = now + 1
    /\ reached' = IF link THEN now' ELSE reached
    /\ UNCHANGED <<engineVars, deployment, relation, client, call, logged, link, changes>>

(***************************************************************************)
(* Changes of what is decided on                                           *)
(***************************************************************************)

\* The model is loaded, or the user's tuple is written or deleted.
ChangeRelation(r) ==
    /\ changes < deployment.maxChanges
    /\ r # relation /\ r # "no model"
    /\ relation' = r
    /\ changes' = changes + 1
    /\ UNCHANGED <<engineVars, deployment, client, now, call, logged, network>>

ChangeEngine ==
    /\ \/ \E b \in deployment.bundles :
             Current < deployment.maxLoads /\ LoadBundle(b) /\ UNCHANGED changes
       \/ changes < deployment.maxChanges /\ PinForUpdate /\ changes' = changes + 1
       \/ \E g \in updates, value \in BOOLEAN : WriteData(g, value) /\ UNCHANGED changes
    /\ UNCHANGED <<deployment, relation, client, now, call, logged, network>>

(***************************************************************************)
(* Specification                                                           *)
(***************************************************************************)

NothingSeen == [generations |-> {}, answers |-> {}, active |-> FALSE, fresh |-> FALSE]

Running(c) == call[c].pc \notin {"idle", "done"}

\* The data is no older than the budget, or the client believes itself connected.
Fresh ==
    \/ Local
    \/ /\ boot = "live"
       /\ connected \/ (reached # Never /\ now - reached <= deployment.budget)

Sees(c) ==
    [generations |-> saw[c].generations \cup {Current},
     answers |-> saw[c].answers \cup {checkAccessFn(c)},
     active |-> saw[c].active \/ RequireActive,
     fresh |-> saw[c].fresh \/ Fresh]

\* History of the states a call runs in.
Observe == saw' = [c \in Calls |-> IF Running(c) THEN Sees(c) ELSE saw[c]]

Init ==
    /\ deployment \in Deployments
    /\ EngineInit
    /\ relation \in {"no model", "not held"}
    /\ boot = "new"
    /\ connected = FALSE
    /\ lastActivity = Never
    /\ leaseExpiresAt = 0
    /\ now = 0
    /\ call = [c \in Calls |-> NoCall]
    /\ logged = [c \in Calls |-> <<>>]
    /\ link = FALSE
    /\ reached = Never
    /\ changes = 0
    /\ saw = [c \in Calls |-> NothingSeen]

Next ==
    /\ \/ \E c \in Calls :
             \/ \E context \in BOOLEAN : Begin(c, context)
             \/ AuthorizeNoPrincipal(c)
             \/ CheckNoPrincipal(c)
             \/ CallStep(c)
       \/ StreamStep
       \/ Tick
       \/ \E r \in {"held", "not held"} : ChangeRelation(r)
       \/ ChangeEngine
    /\ Observe

Spec == Init /\ [][Next]_vars

(***************************************************************************)
(* Properties                                                              *)
(***************************************************************************)

\* Every variable has its shape.
TypeOK ==
    /\ deployment \in Deployments
    /\ \A g \in 1..Current : /\ generations[g].rules \in Rules
                             /\ generations[g].data \in generations[g].versions
                             /\ generations[g].prepared \in 0..Current
    /\ updates \subseteq 1..Current
    /\ relation \in {"no model", "held", "not held"}
    /\ boot \in {"new", "bootstrapped", "built", "live"}
    /\ connected \in BOOLEAN /\ link \in BOOLEAN
    /\ lastActivity \in {Never} \cup 0..now
    /\ reached \in {Never} \cup 0..now
    /\ leaseExpiresAt \in 0..(now + deployment.lease)
    /\ \A c \in Calls : /\ call[c].generation \in 0..Current
                        /\ call[c].path \in Paths
                        /\ Len(logged[c]) <= 1

Returned(c) == call[c].pc = "done"
Served(c) == Returned(c) /\ call[c].result.kind = "decision"

\* What the rules decide with this data where the checks answer like this.
Decided(rules, data, answers) ==
    LET defined == {p \in Paths : IsDefined(rules[p], data, answers[p]) \/ rules[p].when = "conflict"}
        first == CHOOSE p \in defined : \A q \in defined : p <= q
    IN  IF defined = {} THEN "no opinion"
        ELSE IF rules[first].when = "conflict" THEN "error"
        ELSE IF \/ rules[first].value.allow = "invalid" \/ rules[first].value.reason = "invalid"
                \/ rules[first].value.stepUp = "invalid" THEN "error"
        ELSE IF rules[first].value.allow = "true" THEN "allow" ELSE "deny"

\* A generation that was the engine's during the call, with data it had, gives this.
Explained(c, outcome) ==
    \E g \in saw[c].generations \ {NoGeneration} :
       \E data \in generations[g].versions, answers \in [Paths -> saw[c].answers] :
          Decided(generations[g].rules, data, answers) = outcome

\* A decision of the policy is one that the rules and the data of a single
\* generation give, one that was in force during the call: a swap mixes nothing
\* (engine.go:94-98, 164-170).
OneGeneration ==
    \A c \in Calls : Served(c) /\ call[c].result.rule # 0 =>
       Explained(c, IF call[c].result.allow THEN "allow" ELSE "deny")

\* The bare check decides only where no bundle was loaded or the rules had no
\* opinion, never after an evaluation error (engine.go:200-206).
NoFallbackOnError ==
    \A c \in Calls : Served(c) /\ call[c].result.rule = 0 =>
       /\ NoGeneration \in saw[c].generations \/ Explained(c, "no opinion")
       /\ call[c].result.allow \in saw[c].answers

\* With a serving gate, no call returns a decision unless the lease was in force
\* at some time during it: not before Bootstrap, and not while Bootstrap has
\* loaded the state and has not built the client (staleness.go:81).
ServedUnderLease == \A c \in Calls : Required /\ Served(c) => saw[c].active

\* With the staleness gate on, no call returns a decision from data whose
\* connection was down for longer than the budget all the time, once the client
\* has noticed (staleness.go:100-128).
ServedFresh ==
    \A c \in Calls : deployment.mode # "off" /\ deployment.budget > 0 /\ Served(c) => saw[c].fresh

\* A call that returns has one entry in the log, which says what the call returned;
\* Check without a principal has none (atol.go:422-478).
LogTellsOutcome ==
    \A c \in Calls : Returned(c) /\ deployment.controlPlane =>
       IF call[c].result = NotAsked THEN logged[c] = <<>>
       ELSE /\ Len(logged[c]) = 1
            /\ logged[c][1].allowed = call[c].result.allow
            /\ logged[c][1].rule \in {"policy", "zanzibar.check"} <=> Served(c)
=============================================================================
