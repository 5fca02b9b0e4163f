---------------------------- MODULE PolicyEngine -----------------------------
(***************************************************************************)
(* The policy engine (policy/engine): bundle generations that are swapped  *)
(* as a whole, the data of a generation, which SetPolicyData changes in    *)
(* place, the cache of prepared queries, and the decision contract.        *)
(*                                                                         *)
(* A bundle is [rules, data].  The adapter module asks four rule paths in  *)
(* order: the resource type's decision, the global decision, the resource  *)
(* type's allow and the global allow.  A rule is [when, value]: it is      *)
(* defined where its condition holds.  A value is [allow, reason, stepUp]  *)
(* as a Rego value has it: absent, well-formed or not.  The adapter wraps  *)
(* a bare allow in an object that has neither a reason nor a step-up.      *)
(***************************************************************************)
EXTENDS Naturals, Sequences

Paths == 1..4

Conditions ==
    {"always", "never",     \* whatever the input
     "data", "no data",     \* depends on the policy data
     "check", "no check",   \* depends on zanzibar.check
     "conflict"}            \* evaluation fails

Values ==
    [allow : {"true", "false", "invalid"}, reason : {"absent", "text", "invalid"},
     stepUp : {"absent", "method", "invalid"}]

BarePaths == {3, 4}
Bare == {v \in Values : v.reason = "absent" /\ v.stepUp = "absent"}

Rules ==
    {rules \in [Paths -> [when : Conditions, value : Values]] :
        \A p \in BarePaths : rules[p].value \in Bare}

VARIABLES
    generations,   \* the bundle generations; the last one is the engine's bundle
    updates        \* SetPolicyData calls that have pinned a generation, in it

engineVars == <<generations, updates>>

Current == Len(generations)
NoGeneration == 0

EngineInit ==
    /\ generations = <<>>
    /\ updates = {}

(***************************************************************************)
(* Changing the engine                                                     *)
(***************************************************************************)

\* Fault: the prepared queries are kept over a swap.
LoadBundleKeepsQueries(bundle) ==
    /\ generations' =
          Append(generations,
                 [rules |-> bundle.rules, data |-> bundle.data, versions |-> {bundle.data},
                  prepared |-> IF Current = 0 THEN 0 ELSE generations[Current].prepared])
    /\ UNCHANGED updates

\* A new generation, with a cache of its own.  "versions" is history: every value
\* the generation's data has had.  "prepared" is the generation that the cached
\* query was prepared for.
LoadBundle(bundle) ==
    /\ generations' =
          Append(generations,
                 [rules |-> bundle.rules, data |-> bundle.data, versions |-> {bundle.data},
                  prepared |-> 0])
    /\ UNCHANGED updates

\* SetPolicyData pins the generation, and fails when there is none.
PinForUpdate ==
    /\ Current # NoGeneration
    /\ updates' = updates \cup {Current}
    /\ UNCHANGED generations

\* The write transaction on the pinned generation, which may have been swapped out.
WriteData(g, value) ==
    /\ g \in updates
    /\ updates' = updates \ {g}
    /\ generations' = [generations EXCEPT ![g].data = value, ![g].versions = @ \cup {value}]

(***************************************************************************)
(* Evaluating                                                              *)
(***************************************************************************)

\* The generation that the cached query of generation g evaluates.
QueryOf(g) == IF generations[g].prepared = 0 THEN g ELSE generations[g].prepared

preparedQuery(g) == generations' = [generations EXCEPT ![g].prepared = QueryOf(g)]

\* Whether a rule is defined, given the data and what zanzibar.check answers.
IsDefined(rule, data, check) ==
    CASE rule.when = "always" -> TRUE
      [] rule.when = "data" -> data
      [] rule.when = "no data" -> ~data
      [] rule.when = "check" -> check
      [] rule.when = "no check" -> ~check
      [] OTHER -> FALSE

\* Outcomes of an evaluation; rule 0 is the bare check.
Error == [kind |-> "error", allow |-> FALSE, rule |-> 0, stepUp |-> FALSE]
Decision(allow, rule, stepUp) ==
    [kind |-> "decision", allow |-> allow, rule |-> rule, stepUp |-> stepUp]

\* A value that breaks the contract is an error, whatever its allow says.
decodePolicyDecision(path, value) ==
    IF \/ value.allow = "invalid"
       \/ value.reason = "invalid"
       \/ value.stepUp = "invalid"
      THEN Error
      ELSE Decision(value.allow = "true", path, value.stepUp # "absent")
=============================================================================
