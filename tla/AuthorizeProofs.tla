--------------------------- MODULE AuthorizeProofs ---------------------------
(***************************************************************************)
(* The decisions of the SDK, for any number of calls, any bundles and any  *)
(* deployment.                                                             *)
(*                                                                         *)
(* The inductive invariant follows a call from gate to gate.  Behind the   *)
(* serving gate the lease was seen in force, behind the staleness gate the *)
(* data was seen fresh.  From Snapshot on, the call holds a generation     *)
(* that was the engine's during the call; the rules of a generation never  *)
(* change and its versions of data only grow, so what explains a decision  *)
(* when it is made explains it for ever.  While the rule paths are asked,  *)
(* every path behind the call was undefined for some answer of the check   *)
(* that the call has seen.                                                 *)
(***************************************************************************)
EXTENDS Authorize, TLAPS

Generation == [rules : Rules, data : BOOLEAN, versions : SUBSET BOOLEAN, prepared : Nat]

Behind == {"gate", "pin", "prepare", "eval", "fallback"}   \* the staleness gate
Outcomes ==
    [kind : {"error", "decision", "stale error", "stale deny", "no principal", "not asked"},
     allow : BOOLEAN, rule : 0..4, stepUp : BOOLEAN]
CallStates ==
    [pc : {"idle", "serving", "stale", "done"} \cup Behind, context : BOOLEAN,
     generation : Nat, data : BOOLEAN, path : Paths, result : Outcomes]
Histories ==
    [generations : SUBSET Nat, answers : SUBSET BOOLEAN, active : BOOLEAN, fresh : BOOLEAN]

Shape ==
    /\ deployment \in Deployments
    /\ generations \in Seq(Generation)
    /\ updates \subseteq 1..Current
    /\ now \in Nat /\ reached \in Int /\ lastActivity \in Int
    /\ call \in [Calls -> CallStates]
    /\ saw \in [Calls -> Histories]
    /\ DOMAIN logged = Calls

\* The cached query of a generation is its own.
EngineInv ==
    \A g \in 1..Current : /\ generations[g].data \in generations[g].versions
                          /\ generations[g].prepared \in {0, g}

\* The client heard of the stream no later than it was alive.
ClockInv ==
    /\ Never <= lastActivity /\ lastActivity <= reached
    /\ reached <= now
    /\ link => reached = now

\* The call holds a generation it has seen, and a version of its data.
Pinned(c) == call[c].generation \in saw[c].generations \ {NoGeneration}

Reads(c) == Pinned(c) /\ call[c].data \in generations[call[c].generation].versions

\* The rule path had no opinion.
Passed(c, p) ==
    /\ generations[call[c].generation].rules[p].when # "conflict"
    /\ \E a \in saw[c].answers :
          ~IsDefined(generations[call[c].generation].rules[p], call[c].data, a)

Progress(c) ==
    /\ saw[c].generations \subseteq 0..Current
    /\ call[c].pc \notin {"eval", "fallback", "done"} => call[c].path = 1
    /\ call[c].pc = "prepare" => Pinned(c)
    /\ call[c].pc = "eval" => Reads(c) /\ \A p \in 1..(call[c].path - 1) : Passed(c, p)
    /\ call[c].pc = "fallback" =>
          \/ NoGeneration \in saw[c].generations
          \/ Reads(c) /\ \A p \in Paths : Passed(c, p)

StalenessOn == deployment.mode # "off" /\ deployment.budget > 0

Gated(c) ==
    /\ Required /\ (call[c].pc \in {"stale"} \cup Behind \/ Served(c)) => saw[c].active
    /\ StalenessOn /\ (call[c].pc \in Behind \/ Served(c)) => saw[c].fresh

\* What the properties say of one call.
Justified(c) ==
    /\ Served(c) /\ call[c].result.rule # 0 =>
          Explained(c, IF call[c].result.allow THEN "allow" ELSE "deny")
    /\ Served(c) /\ call[c].result.rule = 0 =>
          /\ NoGeneration \in saw[c].generations \/ Explained(c, "no opinion")
          /\ call[c].result.allow \in saw[c].answers

Recorded(c) ==
    /\ call[c].pc # "done" => logged[c] = <<>>
    /\ Returned(c) /\ deployment.controlPlane =>
          IF call[c].result = NotAsked THEN logged[c] = <<>>
          ELSE Len(logged[c]) = 1 /\ logged[c][1] = Entry(call[c].result)

CallInv(c) == Progress(c) /\ Gated(c) /\ Justified(c) /\ Recorded(c)

Inv == Shape /\ EngineInv /\ ClockInv /\ \A c \in Calls : CallInv(c)

(***************************************************************************)
(* Steps                                                                   *)
(***************************************************************************)

\* Generations are added and their data changes; the rest of them stays.
Grown ==
    \A g \in 1..Current : /\ g \in 1..Current'
                          /\ generations'[g].rules = generations[g].rules
                          /\ generations[g].versions \subseteq generations'[g].versions

LEMMA AppendTo ==
    ASSUME NEW T, NEW s \in Seq(T), NEW e \in T
    PROVE  /\ Append(s, e) \in Seq(T)
           /\ Len(Append(s, e)) = Len(s) + 1
           /\ \A i \in 1..Len(s) : Append(s, e)[i] = s[i]
           /\ Append(s, e)[Len(s) + 1] = e
  OBVIOUS

LEMMA AppendGeneration ==
    ASSUME NEW s \in Seq(Generation), NEW e \in Generation
    PROVE  /\ Append(s, e) \in Seq(Generation)
           /\ Len(Append(s, e)) = Len(s) + 1
           /\ \A i \in 1..Len(s) : Append(s, e)[i] = s[i]
           /\ Append(s, e)[Len(s) + 1] = e
  OBVIOUS

LEMMA Empty ==
    ASSUME NEW T
    PROVE  <<>> \in Seq(T) /\ Len(<<>>) = 0
  OBVIOUS

LEMMA AppendOne ==
    ASSUME NEW e
    PROVE  Len(Append(<<>>, e)) = 1 /\ Append(<<>>, e)[1] = e
  <1>1. <<>> \in Seq({e}) /\ Len(<<>>) = 0 BY Empty, Zenon
  <1>2. /\ Len(Append(<<>>, e)) = Len(<<>>) + 1
        /\ Append(<<>>, e)[Len(<<>>) + 1] = e
    BY <1>1, AppendTo, Zenon
  <1> QED BY <1>1, <1>2

LEMMA CallShape ==
    ASSUME Shape, NEW c \in Calls
    PROVE  /\ call[c] \in CallStates
           /\ saw[c] \in Histories
  BY Zenon DEF Shape

LEMMA ErrorShape ==
    /\ Error \in Outcomes /\ Error.kind = "error" /\ Error.allow = FALSE
    /\ StaleError \in Outcomes /\ StaleError.kind = "stale error"
    /\ StaleDeny \in Outcomes /\ StaleDeny.kind = "stale deny"
    /\ NoPrincipal \in Outcomes /\ NoPrincipal.kind = "no principal"
    /\ NotAsked \in Outcomes /\ NotAsked.kind = "not asked"
  <1>1. /\ Error \in Outcomes /\ Error.kind = "error" /\ Error.allow = FALSE
        /\ \A k : [Error EXCEPT !.kind = k].kind = k
    BY DEF Error, Outcomes
  <1>2. \A k \in {"stale error", "stale deny", "no principal", "not asked"} :
           [Error EXCEPT !.kind = k] \in Outcomes
    BY <1>1 DEF Outcomes
  <1> QED BY <1>1, <1>2, Zenon DEF StaleError, StaleDeny, NoPrincipal, NotAsked

LEMMA NoCallShape ==
    /\ NoCall \in CallStates /\ NoCall.pc = "idle" /\ NoCall.path = 1
    /\ NoCall.result = Error
  <1>1. Error \in Outcomes BY ErrorShape, Zenon
  <1> QED BY <1>1 DEF NoCall, NoGeneration, CallStates, Paths, Behind

\* The state a call moves to.
LEMMA Moved ==
    ASSUME Shape, NEW c \in Calls, NEW k \in CallStates, Moves(c, k)
    PROVE  /\ call' \in [Calls -> CallStates]
           /\ call'[c] = k
           /\ \A d \in Calls \ {c} : call'[d] = call[d]
           /\ deployment' = deployment /\ relation' = relation /\ boot' = boot
           /\ connected' = connected /\ lastActivity' = lastActivity
           /\ leaseExpiresAt' = leaseExpiresAt /\ now' = now
           /\ link' = link /\ reached' = reached /\ changes' = changes
  <1>1. call \in [Calls -> CallStates] BY Zenon DEF Shape
  <1>2. call' = [call EXCEPT ![c] = k] BY Zenon DEF Moves
  <1>3. /\ deployment' = deployment /\ relation' = relation /\ boot' = boot
        /\ connected' = connected /\ lastActivity' = lastActivity
        /\ leaseExpiresAt' = leaseExpiresAt /\ now' = now
        /\ link' = link /\ reached' = reached /\ changes' = changes
    BY Zenon DEF Moves, client, network
  <1>4. /\ call' \in [Calls -> CallStates]
        /\ call'[c] = k
        /\ \A d \in Calls \ {c} : call'[d] = call[d]
    BY <1>1, <1>2
  <1> QED BY <1>3, <1>4, Zenon

\* A call that returns.
LEMMA Returning ==
    ASSUME Shape, NEW c \in Calls, NEW r \in Outcomes, Returns(c, r)
    PROVE  /\ Moves(c, [call[c] EXCEPT !.pc = "done", !.result = r])
           /\ [call[c] EXCEPT !.pc = "done", !.result = r] \in CallStates
           /\ call'[c].pc = "done" /\ call'[c].result = r
           /\ call'[c].generation = call[c].generation
           /\ \A d \in Calls \ {c} : logged'[d] = logged[d]
           /\ DOMAIN logged' = Calls
           /\ deployment.controlPlane => logged'[c] = Append(logged[c], Entry(r))
  <1>1. PICK k : k = [call[c] EXCEPT !.pc = "done", !.result = r] BY Zenon
  <1>2. call[c] \in CallStates BY CallShape, Zenon
  <1>3. /\ k \in CallStates /\ k.pc = "done" /\ k.result = r
        /\ k.generation = call[c].generation
    BY <1>1, <1>2 DEF CallStates
  <1>4. Moves(c, k) BY <1>1, Zenon DEF Returns
  <1>5. call'[c] = k BY <1>3, <1>4, Moved, Zenon
  <1>6. DOMAIN logged = Calls BY Zenon DEF Shape
  <1>7. logged' = IF deployment.controlPlane THEN [logged EXCEPT ![c] = Append(@, Entry(r))]
                                             ELSE logged
    BY Zenon DEF Returns
  <1>8. /\ \A d \in Calls \ {c} : logged'[d] = logged[d]
        /\ DOMAIN logged' = Calls
        /\ deployment.controlPlane => logged'[c] = Append(logged[c], Entry(r))
    BY <1>6, <1>7, Zenon
  <1> QED BY <1>1, <1>3, <1>4, <1>5, <1>8, Zenon

\* What a call has seen after a step.
LEMMA Seen ==
    ASSUME Shape, NEW c \in Calls, Observe
    PROVE  /\ saw' \in [Calls -> Histories]
           /\ saw[c].generations \subseteq saw'[c].generations
           /\ saw'[c].generations \subseteq saw[c].generations \cup {Current}
           /\ saw[c].answers \subseteq saw'[c].answers
           /\ saw[c].active => saw'[c].active
           /\ saw[c].fresh => saw'[c].fresh
           /\ Running(c) => /\ Current \in saw'[c].generations
                            /\ checkAccessFn(c) \in saw'[c].answers
                            /\ RequireActive => saw'[c].active
                            /\ Fresh => saw'[c].fresh
  <1>1. saw' = [d \in Calls |-> IF Running(d) THEN Sees(d) ELSE saw[d]] BY Zenon DEF Observe
  <1>2. Current \in Nat BY DEF Shape, Current
  <1>3. ASSUME NEW d \in Calls PROVE Sees(d) \in Histories
    <2>1. saw[d] \in Histories BY CallShape, Zenon
    <2>2. checkAccessFn(d) \in BOOLEAN BY Zenon DEF checkAccessFn
    <2>3. RequireActive \in BOOLEAN BY Zenon DEF RequireActive
    <2>4. Fresh \in BOOLEAN BY Zenon DEF Fresh
    <2>5. PICK a, b, f : a = checkAccessFn(d) /\ b = RequireActive /\ f = Fresh BY Zenon
    <2>6. Sees(d) = [generations |-> saw[d].generations \cup {Current},
                     answers |-> saw[d].answers \cup {a},
                     active |-> saw[d].active \/ b, fresh |-> saw[d].fresh \/ f]
      BY <2>5, Zenon DEF Sees
    <2> QED BY <1>2, <2>1, <2>2, <2>3, <2>4, <2>5, <2>6 DEF Histories
  <1>4. saw' \in [Calls -> Histories] BY <1>1, <1>3, CallShape, Zenon
  <1>5. CASE Running(c)
    <2>1. saw'[c] = Sees(c) BY <1>1, <1>5, Zenon
    <2>2. /\ saw'[c].generations = saw[c].generations \cup {Current}
          /\ saw'[c].answers = saw[c].answers \cup {checkAccessFn(c)}
      BY <2>1, SMT DEF Sees
    <2>3. (saw[c].active \/ RequireActive) = saw'[c].active BY <2>1 DEF Sees
    <2>4. (saw[c].fresh \/ Fresh) = saw'[c].fresh BY <2>1 DEF Sees
    <2> QED BY <1>4, <2>2, <2>3, <2>4, Zenon
  <1>6. CASE ~Running(c)
    <2>1. saw'[c] = saw[c] BY <1>1, <1>6, Zenon
    <2> QED BY <1>4, <1>6, <2>1, Zenon
  <1> QED BY <1>5, <1>6, Zenon

\* What explains an outcome goes on doing so.
LEMMA ExplanationLasts ==
    ASSUME Shape, Observe, Grown, NEW c \in Calls, NEW outcome,
           saw[c].generations \subseteq 0..Current, Explained(c, outcome)
    PROVE  Explained(c, outcome)'
  <1>1. PICK g \in saw[c].generations \ {NoGeneration} :
           \E data \in generations[g].versions, answers \in [Paths -> saw[c].answers] :
              Decided(generations[g].rules, data, answers) = outcome
    BY Zenon DEF Explained
  <1>2. PICK data \in generations[g].versions, answers \in [Paths -> saw[c].answers] :
           Decided(generations[g].rules, data, answers) = outcome
    BY <1>1, Zenon
  <1>3. g \in 1..Current
    <2>1. Current \in Nat BY DEF Shape, Current
    <2>2. g \in 0..Current /\ g # 0 BY <1>1, Zenon DEF NoGeneration
    <2> QED BY <2>1, <2>2
  <1>4. generations'[g].rules = generations[g].rules /\ data \in generations'[g].versions
    BY <1>2, <1>3, Zenon DEF Grown
  <1>5. g \in saw'[c].generations \ {NoGeneration} BY <1>1, Seen, Zenon
  <1>6. answers \in [Paths -> saw'[c].answers]
    <2>1. saw[c].answers \subseteq saw'[c].answers BY Seen, Zenon
    <2> QED BY <1>2, <2>1
  <1>7. Decided(generations'[g].rules, data, answers) = outcome BY <1>2, <1>4, Zenon
  <1> QED BY <1>4, <1>5, <1>6, <1>7, Zenon DEF Explained

\* A path that had no opinion, and a generation that was pinned, stay so.
LEMMA PinLasts ==
    ASSUME Shape, Observe, Grown, NEW c \in Calls,
           saw[c].generations \subseteq 0..Current, Pinned(c),
           call'[c].generation = call[c].generation, call'[c].data = call[c].data
    PROVE  /\ Pinned(c)'
           /\ Reads(c) => Reads(c)'
           /\ \A p \in Paths : Passed(c, p) => Passed(c, p)'
  <1>1. PICK g : g = call[c].generation BY Zenon
  <1>2. g \in saw[c].generations \ {NoGeneration} BY <1>1, Zenon DEF Pinned
  <1>3. g \in 1..Current
    <2>1. Current \in Nat BY DEF Shape, Current
    <2>2. g \in 0..Current /\ g # 0 BY <1>2, Zenon DEF NoGeneration
    <2> QED BY <2>1, <2>2
  <1>4. /\ generations'[g].rules = generations[g].rules
        /\ generations[g].versions \subseteq generations'[g].versions
    BY <1>3, Zenon DEF Grown
  <1>5. Pinned(c)' BY <1>1, <1>2, Seen, Zenon DEF Pinned
  <1>6. Reads(c) => Reads(c)' BY <1>1, <1>4, <1>5, Zenon DEF Reads
  <1>7. ASSUME NEW p \in Paths, Passed(c, p) PROVE Passed(c, p)'
    <2>1. PICK rule, data : rule = generations[g].rules[p] /\ data = call[c].data BY Zenon
    <2>2. rule = generations'[g].rules[p] BY <1>4, <2>1, Zenon
    <2>3. rule.when # "conflict" /\ \E a \in saw[c].answers : ~IsDefined(rule, data, a)
      BY <1>1, <1>7, <2>1, Zenon DEF Passed
    <2>4. saw[c].answers \subseteq saw'[c].answers BY Seen, Zenon
    <2>5. \E a \in saw'[c].answers : ~IsDefined(rule, data, a) BY <2>3, <2>4, Zenon
    <2>6. g = call'[c].generation /\ data = call'[c].data BY <1>1, <2>1, Zenon
    <2> QED BY <2>2, <2>3, <2>5, <2>6, Zenon DEF Passed
  <1> QED BY <1>5, <1>6, <1>7, Zenon

LEMMA SeenGenerations ==
    ASSUME Shape, Observe, NEW c \in Calls, Current' \in Nat, Current <= Current',
           saw[c].generations \subseteq 0..Current
    PROVE  saw'[c].generations \subseteq 0..Current'
  <1>1. Current \in Nat BY DEF Shape, Current
  <1>2. saw'[c].generations \subseteq saw[c].generations \cup {Current} BY Seen, Zenon
  <1> QED BY <1>1, <1>2

\* A step that leaves the call alone.
LEMMA CallKept ==
    ASSUME Shape, Observe, Grown, NEW c \in Calls, CallInv(c),
           Current' \in Nat, Current <= Current', deployment' = deployment,
           call'[c] = call[c], logged'[c] = logged[c]
    PROVE  CallInv(c)'
  <1>1. saw[c].generations \subseteq 0..Current BY Zenon DEF CallInv, Progress
  <1>2. Progress(c)'
    <2>1. saw'[c].generations \subseteq 0..Current' BY <1>1, SeenGenerations, Zenon
    <2>2. NoGeneration \in saw[c].generations => NoGeneration \in saw'[c].generations
      BY Seen, Zenon
    <2>3. call[c].path \in Paths BY CallShape DEF CallStates
    <2>4. Pinned(c) => /\ Pinned(c)'
                       /\ Reads(c) => Reads(c)'
                       /\ \A p \in Paths : Passed(c, p) => Passed(c, p)'
      BY <1>1, PinLasts, Zenon
    <2>5. Reads(c) => Pinned(c) BY Zenon DEF Reads
    <2>6. 1..(call[c].path - 1) \subseteq Paths BY <2>3 DEF Paths
    <2> QED BY <2>1, <2>2, <2>4, <2>5, <2>6, Zenon DEF CallInv, Progress
  <1>3. Gated(c)'
    BY Seen, Zenon DEF CallInv, Gated, Required, StalenessOn, Served, Returned
  <1>4. Justified(c)'
    <2>1. NoGeneration \in saw[c].generations => NoGeneration \in saw'[c].generations
      BY Seen, Zenon
    <2>2. saw[c].answers \subseteq saw'[c].answers BY Seen, Zenon
    <2>3. ASSUME NEW o, Explained(c, o) PROVE Explained(c, o)'
      BY <1>1, <2>3, ExplanationLasts, Zenon
    <2>4. CASE Served(c)
      <3>1. Served(c)' BY <2>4, Zenon DEF Served, Returned
      <3> QED BY <2>1, <2>2, <2>3, <2>4, Zenon DEF CallInv, Justified
    <2>5. CASE ~Served(c)
      <3>1. ~Served(c)' BY <2>5, Zenon DEF Served, Returned
      <3> QED BY <3>1, Zenon DEF Justified
    <2> QED BY <2>4, <2>5, Zenon
  <1>5. Recorded(c)' BY Zenon DEF CallInv, Recorded, Returned
  <1> QED BY <1>2, <1>3, <1>4, <1>5, Zenon DEF CallInv

(***************************************************************************)
(* The rules                                                               *)
(***************************************************************************)

Opines(rule, data, answer) == IsDefined(rule, data, answer) \/ rule.when = "conflict"
Breaks(value) ==
    \/ value.allow = "invalid" \/ value.reason = "invalid" \/ value.stepUp = "invalid"

\* The first path with an opinion decides.
LEMMA FirstDecides ==
    ASSUME NEW rules, NEW data, NEW answers, NEW p \in Paths,
           Opines(rules[p], data, answers[p]),
           \A q \in 1..(p - 1) : ~Opines(rules[q], data, answers[q])
    PROVE  Decided(rules, data, answers) =
              IF rules[p].when = "conflict" THEN "error"
              ELSE IF Breaks(rules[p].value) THEN "error"
              ELSE IF rules[p].value.allow = "true" THEN "allow" ELSE "deny"
  <1> DEFINE defined == {q \in Paths : Opines(rules[q], data, answers[q])}
             first == CHOOSE q \in defined : \A o \in defined : q <= o
  <1>1. p \in defined BY Zenon
  <1>2. ASSUME NEW q \in defined PROVE p <= q
    <2>1. q \in Paths /\ Opines(rules[q], data, answers[q]) BY Zenon
    <2>2. q \notin 1..(p - 1) BY <2>1, Zenon
    <2> QED BY <2>1, <2>2 DEF Paths
  <1>3. first = p
    <2>1. first \in defined /\ \A o \in defined : first <= o BY <1>1, <1>2, Zenon
    <2>2. first <= p /\ p <= first BY <1>1, <1>2, <2>1, Zenon
    <2>3. first \in Paths BY <2>1, Zenon
    <2> HIDE DEF first, defined
    <2> QED BY <2>2, <2>3 DEF Paths
  <1>4. defined # {} BY <1>1, Zenon
  <1>5. Decided(rules, data, answers) =
           IF defined = {} THEN "no opinion"
           ELSE IF rules[first].when = "conflict" THEN "error"
           ELSE IF Breaks(rules[first].value) THEN "error"
           ELSE IF rules[first].value.allow = "true" THEN "allow" ELSE "deny"
    BY Zenon DEF Decided, Opines, Breaks
  <1> HIDE DEF first, defined
  <1> QED BY <1>3, <1>4, <1>5, Zenon

LEMMA NoneDecides ==
    ASSUME NEW rules, NEW data, NEW answers,
           \A q \in Paths : ~Opines(rules[q], data, answers[q])
    PROVE  Decided(rules, data, answers) = "no opinion"
  BY Zenon DEF Decided, Opines

\* The paths before p have no opinion, each for some answer of the check.
SilentBefore(rules, data, seen, p) ==
    \A q \in Paths : q < p =>
       rules[q].when # "conflict" /\ \E a \in seen : ~IsDefined(rules[q], data, a)

Verdict(rule) ==
    IF rule.when = "conflict" \/ Breaks(rule.value) THEN "error"
    ELSE IF rule.value.allow = "true" THEN "allow" ELSE "deny"

\* So there are answers of the check for which path p decides, ...
LEMMA FirstExplains ==
    ASSUME NEW rules, NEW data, NEW seen, NEW last \in seen, NEW p \in Paths,
           SilentBefore(rules, data, seen, p), Opines(rules[p], data, last)
    PROVE  \E answers \in [Paths -> seen] : Decided(rules, data, answers) = Verdict(rules[p])
  <1> DEFINE witness(q) == CHOOSE a \in seen : ~IsDefined(rules[q], data, a)
             answers == [q \in Paths |-> IF q < p THEN witness(q) ELSE last]
  <1>1. \A q \in Paths : q < p => /\ rules[q].when # "conflict"
                                 /\ witness(q) \in seen
                                 /\ ~IsDefined(rules[q], data, witness(q))
    BY Zenon DEF SilentBefore
  <1> HIDE DEF witness
  <1>2. answers \in [Paths -> seen] BY <1>1, Zenon
  <1>3. ~(p < p) /\ \A q \in 1..(p - 1) : q \in Paths /\ q < p BY DEF Paths
  <1>4. answers[p] = last BY <1>3, Zenon
  <1>5. ASSUME NEW q \in 1..(p - 1) PROVE ~Opines(rules[q], data, answers[q])
    <2>1. answers[q] = witness(q) BY <1>3, Zenon
    <2> QED BY <1>1, <1>3, <2>1, Zenon DEF Opines
  <1> HIDE DEF answers
  <1>6. Decided(rules, data, answers) =
           IF rules[p].when = "conflict" THEN "error"
           ELSE IF Breaks(rules[p].value) THEN "error"
           ELSE IF rules[p].value.allow = "true" THEN "allow" ELSE "deny"
    BY <1>4, <1>5, FirstDecides, Zenon
  <1>7. Decided(rules, data, answers) = Verdict(rules[p]) BY <1>6, Zenon DEF Verdict
  <1> QED BY <1>2, <1>7, Zenon

\* ... or for which none does.
LEMMA SilenceExplains ==
    ASSUME NEW rules, NEW data, NEW seen, SilentBefore(rules, data, seen, 5)
    PROVE  \E answers \in [Paths -> seen] : Decided(rules, data, answers) = "no opinion"
  <1> DEFINE witness(q) == CHOOSE a \in seen : ~IsDefined(rules[q], data, a)
             answers == [q \in Paths |-> witness(q)]
  <1>1. \A q \in Paths : q < 5 BY DEF Paths
  <1>2. \A q \in Paths : /\ rules[q].when # "conflict"
                         /\ witness(q) \in seen
                         /\ ~IsDefined(rules[q], data, witness(q))
    BY <1>1, Zenon DEF SilentBefore
  <1> HIDE DEF witness
  <1>3. answers \in [Paths -> seen] BY <1>2, Zenon
  <1>4. ASSUME NEW q \in Paths PROVE ~Opines(rules[q], data, answers[q])
    <2>1. answers[q] = witness(q) BY Zenon
    <2> QED BY <1>2, <2>1, Zenon DEF Opines
  <1> HIDE DEF answers
  <1>5. Decided(rules, data, answers) = "no opinion" BY <1>4, NoneDecides, Zenon
  <1> QED BY <1>3, <1>5, Zenon

(***************************************************************************)
(* The steps of a call                                                     *)
(***************************************************************************)

LEMMA EngineKept ==
    ASSUME Shape, UNCHANGED engineVars
    PROVE  /\ Grown /\ Current \in Nat /\ Current' = Current
           /\ generations' = generations /\ updates' = updates
  <1>1. generations' = generations /\ updates' = updates BY Zenon DEF engineVars
  <1>2. Current \in Nat BY DEF Shape, Current
  <1>3. Current' = Current BY <1>1, Zenon DEF Current
  <1> QED BY <1>1, <1>2, <1>3, Zenon DEF Grown

\* What the history keeps of any step.
LEMMA HistoryKept ==
    ASSUME Inv, Observe, NEW c \in Calls, UNCHANGED engineVars
    PROVE  saw'[c].generations \subseteq 0..Current'
  <1>1. saw[c].generations \subseteq 0..Current BY Zenon DEF Inv, CallInv, Progress
  <1>2. Current \in Nat /\ Current' = Current BY EngineKept, Zenon DEF Inv
  <1>3. Current <= Current' BY <1>2
  <1> QED BY <1>1, <1>2, <1>3, SeenGenerations, Zenon DEF Inv

\* A return without a decision.
LEMMA RefusalKept ==
    ASSUME Inv, Observe, NEW c \in Calls, NEW r \in Outcomes,
           r.kind \notin {"decision", "not asked"},
           call[c].pc # "done", Returns(c, r), UNCHANGED engineVars
    PROVE  CallInv(c)'
  <1>1. Shape BY Zenon DEF Inv
  <1>2. /\ call'[c].pc = "done" /\ call'[c].result = r
        /\ deployment.controlPlane => logged'[c] = Append(logged[c], Entry(r))
    BY <1>1, Returning, Zenon
  <1>3. deployment' = deployment BY <1>1, Returning, Moved, Zenon
  <1>4. Progress(c)' BY <1>2, HistoryKept, Zenon DEF Progress
  <1>5. ~Served(c)' BY <1>2, Zenon DEF Served
  <1>6. Gated(c)' BY <1>2, <1>5, Zenon DEF Gated, Behind
  <1>7. Justified(c)' BY <1>5, Zenon DEF Justified
  <1>8. Recorded(c)'
    <2>1. logged[c] = <<>> BY Zenon DEF Inv, CallInv, Recorded
    <2>2. r # NotAsked BY ErrorShape, Zenon
    <2>3. Len(Append(<<>>, Entry(r))) = 1 /\ Append(<<>>, Entry(r))[1] = Entry(r)
      BY AppendOne, Zenon
    <2> QED BY <1>2, <1>3, <2>1, <2>2, <2>3, Zenon DEF Recorded
  <1> QED BY <1>4, <1>6, <1>7, <1>8, Zenon DEF CallInv

\* A step before the snapshot: the gates are behind the call once they were seen open.
LEMMA GateKept ==
    ASSUME Inv, Observe, NEW c \in Calls, NEW k \in CallStates, Moves(c, k),
           UNCHANGED logged, UNCHANGED engineVars,
           call[c].pc # "done", k.pc \in {"serving", "stale", "gate", "pin"}, k.path = 1,
           Required /\ k.pc # "serving" => saw'[c].active,
           StalenessOn /\ k.pc \in {"gate", "pin"} => saw'[c].fresh
    PROVE  CallInv(c)'
  <1>1. Shape BY Zenon DEF Inv
  <1>2. call'[c] = k /\ deployment' = deployment BY <1>1, Moved, Zenon
  <1>3. Progress(c)' BY <1>2, HistoryKept, Zenon DEF Progress
  <1>4. ~Served(c)' BY <1>2, Zenon DEF Served, Returned
  <1>5. Gated(c)' BY <1>2, <1>4, Zenon DEF Gated, Behind, Required, StalenessOn
  <1>6. Justified(c)' BY <1>4, Zenon DEF Justified
  <1>7. logged'[c] = <<>> BY Zenon DEF Inv, CallInv, Recorded
  <1>8. Recorded(c)' BY <1>2, <1>7, Zenon DEF Recorded, Returned
  <1> QED BY <1>3, <1>5, <1>6, <1>8, Zenon DEF CallInv

LEMMA BeginKept ==
    ASSUME Inv, Observe, NEW c \in Calls, NEW context \in BOOLEAN, Begin(c, context)
    PROVE  CallInv(c)'
  <1>1. PICK k : k = [NoCall EXCEPT !.pc = "serving", !.context = context] BY Zenon
  <1>2. k \in CallStates /\ k.pc = "serving" /\ k.path = 1
    BY <1>1, NoCallShape DEF CallStates
  <1>3. /\ Moves(c, k) /\ UNCHANGED logged /\ UNCHANGED engineVars
        /\ call[c].pc = "idle"
    BY <1>1, Zenon DEF Begin, MayBegin
  <1> QED BY <1>2, <1>3, GateKept, Zenon

LEMMA NoPrincipalKept ==
    ASSUME Inv, Observe, NEW c \in Calls, AuthorizeNoPrincipal(c) \/ CheckNoPrincipal(c)
    PROVE  CallInv(c)'
  <1>1. CASE AuthorizeNoPrincipal(c)
    BY <1>1, ErrorShape, RefusalKept, Zenon DEF AuthorizeNoPrincipal, MayBegin
  <1>2. CASE CheckNoPrincipal(c)
    <2>1. PICK k : k = [NoCall EXCEPT !.pc = "done", !.result = NotAsked] BY Zenon
    <2>2. /\ k \in CallStates /\ k.pc = "done" /\ k.result = NotAsked
          /\ k.result.kind = "not asked"
      <3>1. NotAsked \in Outcomes /\ NotAsked.kind = "not asked" BY ErrorShape, Zenon
      <3> QED BY <2>1, <3>1, NoCallShape DEF CallStates
    <2>3. /\ Moves(c, k) /\ UNCHANGED logged /\ UNCHANGED engineVars
          /\ call[c].pc = "idle"
      BY <1>2, <2>1, Zenon DEF CheckNoPrincipal, MayBegin
    <2>4. call'[c] = k BY <2>2, <2>3, Moved, Zenon DEF Inv
    <2>5. Progress(c)' BY <2>2, <2>3, <2>4, HistoryKept, Zenon DEF Progress
    <2>6. ~Served(c)' BY <2>2, <2>4, Zenon DEF Served
    <2>7. Gated(c)' BY <2>2, <2>4, <2>6, Zenon DEF Gated, Behind
    <2>8. Justified(c)' BY <2>6, Zenon DEF Justified
    <2>9. logged'[c] = <<>> BY <2>3, Zenon DEF Inv, CallInv, Recorded
    <2>10. Recorded(c)' BY <2>2, <2>4, <2>9, Zenon DEF Recorded
    <2> QED BY <2>5, <2>7, <2>8, <2>10, Zenon DEF CallInv
  <1> QED BY <1>1, <1>2, Zenon

\* The gates and the facts they vouch for.
LEMMA FreshWhenNotStale ==
    ASSUME Shape, ClockInv, ~checkStale, StalenessOn
    PROVE  Fresh
  <1>1. CASE Local BY <1>1, Zenon DEF Fresh
  <1>2. CASE ~Local
    <2>1. /\ boot = "live"
          /\ connected \/ ~(lastActivity = Never \/ now - lastActivity > deployment.budget)
      BY <1>2, Zenon DEF checkStale, StalenessOn
    <2>2. CASE connected BY <2>1, <2>2, Zenon DEF Fresh
    <2>3. CASE ~connected
      <3>1. lastActivity # Never /\ ~(now - lastActivity > deployment.budget)
        BY <2>1, <2>3, Zenon
      <3>2. /\ now \in Nat /\ reached \in Int /\ lastActivity \in Int
            /\ Never <= lastActivity /\ lastActivity <= reached /\ deployment.budget \in Nat
        BY DeploymentAssumption, Zenon DEF Shape, ClockInv
      <3>3. reached # Never /\ now - reached <= deployment.budget
        BY <3>1, <3>2 DEF Never
      <3> QED BY <2>1, <3>3, Zenon DEF Fresh
    <2> QED BY <2>2, <2>3, Zenon
  <1> QED BY <1>1, <1>2, Zenon

LEMMA GatesKept ==
    ASSUME Inv, Observe, NEW c \in Calls,
           RequireServing(c) \/ StaleGate(c) \/ EvaluateGate(c)
    PROVE  CallInv(c)'
  <1>1. Shape BY Zenon DEF Inv
  <1>2. call[c] \in CallStates BY <1>1, CallShape, Zenon
  <1>3. ASSUME NEW pc \in {"stale", "gate", "pin"}
        PROVE  /\ [call[c] EXCEPT !.pc = pc] \in CallStates
               /\ [call[c] EXCEPT !.pc = pc].pc = pc
               /\ [call[c] EXCEPT !.pc = pc].path = call[c].path
    BY <1>2 DEF CallStates, Behind
  <1>4. CASE RequireServing(c)
    <2>1. call[c].pc = "serving" /\ UNCHANGED engineVars BY <1>4, Zenon DEF RequireServing
    <2>2. call[c].path = 1 BY <2>1, Zenon DEF Inv, CallInv, Progress
    <2>3. CASE requireServingActive
      <3>1. Required => saw'[c].active
        BY <1>1, <2>1, <2>3, Seen, Zenon DEF requireServingActive, Running
      <3>2. Moves(c, [call[c] EXCEPT !.pc = "stale"]) /\ UNCHANGED logged
        BY <1>4, <2>3, Zenon DEF RequireServing
      <3> QED BY <1>3, <2>1, <2>2, <3>1, <3>2, GateKept, Zenon
    <2>4. CASE ~requireServingActive
      <3>1. Returns(c, Error) BY <1>4, <2>4, Zenon DEF RequireServing
      <3> QED BY <2>1, <3>1, ErrorShape, RefusalKept, Zenon
    <2> QED BY <2>3, <2>4, Zenon
  <1>5. CASE StaleGate(c)
    <2>1. call[c].pc = "stale" /\ UNCHANGED engineVars BY <1>5, Zenon DEF StaleGate
    <2>2. call[c].path = 1 BY <2>1, Zenon DEF Inv, CallInv, Progress
    <2>3. CASE ~checkStale
      <3>1. Required => saw[c].active BY <2>1, Zenon DEF Inv, CallInv, Gated
      <3>2. StalenessOn => Fresh BY <1>1, <2>3, FreshWhenNotStale, Zenon DEF Inv
      <3>3. /\ Required => saw'[c].active
            /\ StalenessOn => saw'[c].fresh
        BY <1>1, <2>1, <3>1, <3>2, Seen, Zenon DEF Running
      <3>4. Moves(c, [call[c] EXCEPT !.pc = "gate"]) /\ UNCHANGED logged
        BY <1>5, <2>3, Zenon DEF StaleGate
      <3> QED BY <1>3, <2>1, <2>2, <3>3, <3>4, GateKept, Zenon
    <2>4. CASE checkStale
      <3>1. Returns(c, StaleError) \/ Returns(c, StaleDeny) BY <1>5, <2>4, Zenon DEF StaleGate
      <3> QED BY <2>1, <3>1, ErrorShape, RefusalKept, Zenon
    <2> QED BY <2>3, <2>4, Zenon
  <1>6. CASE EvaluateGate(c)
    <2>1. call[c].pc = "gate" /\ UNCHANGED engineVars BY <1>6, Zenon DEF EvaluateGate
    <2>2. call[c].path = 1 BY <2>1, Zenon DEF Inv, CallInv, Progress
    <2>3. CASE EngineGate
      <3>1. /\ Required => saw[c].active
            /\ StalenessOn => saw[c].fresh
        BY <2>1, Zenon DEF Inv, CallInv, Gated, Behind
      <3>2. /\ Required => saw'[c].active
            /\ StalenessOn => saw'[c].fresh
        BY <1>1, <3>1, Seen, Zenon
      <3>3. Moves(c, [call[c] EXCEPT !.pc = "pin"]) /\ UNCHANGED logged
        BY <1>6, <2>3, Zenon DEF EvaluateGate
      <3> QED BY <1>3, <2>1, <2>2, <3>2, <3>3, GateKept, Zenon
    <2>4. CASE ~EngineGate
      <3>1. Returns(c, Error) BY <1>6, <2>4, Zenon DEF EvaluateGate
      <3> QED BY <2>1, <3>1, ErrorShape, RefusalKept, Zenon
    <2> QED BY <2>3, <2>4, Zenon
  <1> QED BY <1>4, <1>5, <1>6, Zenon

\* A step behind the gates that does not return: they stay behind.
LEMMA BehindKept ==
    ASSUME Inv, Observe, NEW c \in Calls, NEW k \in CallStates, Moves(c, k),
           UNCHANGED logged, call[c].pc \in Behind, k.pc \in Behind, Progress(c)'
    PROVE  CallInv(c)'
  <1>1. Shape BY Zenon DEF Inv
  <1>2. call'[c] = k /\ deployment' = deployment BY <1>1, Moved, Zenon
  <1>3. k.pc # "done" /\ call[c].pc # "done" BY Zenon DEF Behind
  <1>4. ~Served(c)' BY <1>2, <1>3, Zenon DEF Served, Returned
  <1>5. Gated(c)'
    <2>1. /\ Required => saw[c].active
          /\ StalenessOn => saw[c].fresh
      BY Zenon DEF Inv, CallInv, Gated, Behind
    <2>2. /\ Required => saw'[c].active
          /\ StalenessOn => saw'[c].fresh
      BY <1>1, <2>1, Seen, Zenon
    <2> QED BY <1>2, <2>2, Zenon DEF Gated, Required, StalenessOn
  <1>6. Justified(c)' BY <1>4, Zenon DEF Justified
  <1>7. logged'[c] = <<>> BY <1>3, Zenon DEF Inv, CallInv, Recorded
  <1>8. Recorded(c)' BY <1>2, <1>3, <1>7, Zenon DEF Recorded, Returned
  <1> QED BY <1>5, <1>6, <1>8, Zenon DEF CallInv

LEMMA SnapshotKept ==
    ASSUME Inv, Observe, NEW c \in Calls, Snapshot(c)
    PROVE  CallInv(c)'
  <1>1. Shape BY Zenon DEF Inv
  <1>2. call[c] \in CallStates BY <1>1, CallShape, Zenon
  <1>3. PICK k : k = [call[c] EXCEPT !.pc = IF Current = NoGeneration THEN "fallback" ELSE "prepare",
                                     !.generation = Current]
    BY Zenon
  <1>4. Current \in Nat /\ UNCHANGED engineVars /\ Current' = Current
    BY <1>1, EngineKept, Zenon DEF Snapshot
  <1>5. /\ k \in CallStates /\ k.generation = Current /\ k.path = call[c].path
        /\ k.pc = IF Current = NoGeneration THEN "fallback" ELSE "prepare"
    BY <1>2, <1>3, <1>4 DEF CallStates, Behind
  <1>6. call[c].pc = "pin" /\ Moves(c, k) /\ UNCHANGED logged BY <1>3, Zenon DEF Snapshot
  <1>7. call'[c] = k BY <1>1, <1>5, <1>6, Moved, Zenon
  <1>8. Current \in saw'[c].generations BY <1>1, <1>6, Seen, Zenon DEF Running
  <1>9. Progress(c)'
    <2>1. call[c].path = 1 BY <1>6, Zenon DEF Inv, CallInv, Progress
    <2>2. saw'[c].generations \subseteq 0..Current' BY <1>4, HistoryKept, Zenon
    <2>3. CASE Current = NoGeneration
      BY <1>5, <1>7, <1>8, <2>1, <2>2, <2>3, Zenon DEF Progress
    <2>4. CASE Current # NoGeneration
      <3>1. Pinned(c)' BY <1>5, <1>7, <1>8, <2>4, Zenon DEF Pinned
      <3> QED BY <1>5, <1>7, <2>1, <2>2, <2>4, <3>1, Zenon DEF Progress
    <2> QED BY <2>3, <2>4, Zenon
  <1>10. call[c].pc \in Behind /\ k.pc \in Behind BY <1>5, <1>6, Zenon DEF Behind
  <1> QED BY <1>5, <1>6, <1>9, <1>10, BehindKept, Zenon

\* A generation's query is its own, so preparing it changes no rule and no data.
LEMMA Preparing ==
    ASSUME Inv, NEW g \in 1..Current, preparedQuery(g), UNCHANGED updates
    PROVE  /\ QueryOf(g) = g
           /\ generations' \in Seq(Generation) /\ Current' = Current
           /\ \A h \in 1..Current : /\ generations'[h].rules = generations[h].rules
                                    /\ generations'[h].data = generations[h].data
                                    /\ generations'[h].versions = generations[h].versions
                                    /\ generations'[h].prepared \in {generations[h].prepared, h}
  <1>1. generations \in Seq(Generation) BY Zenon DEF Inv, Shape
  <1>2. generations[g].prepared \in {0, g} BY Zenon DEF Inv, EngineInv
  <1>3. QueryOf(g) = g BY <1>2, Zenon DEF QueryOf
  <1>4. g \in 1..Len(generations) /\ g \in Nat BY <1>1 DEF Current
  <1>5. generations[g] \in Generation BY <1>1, <1>4
  <1>6. PICK new : new = [generations[g] EXCEPT !.prepared = g] BY Zenon
  <1>7. /\ new \in Generation /\ new.rules = generations[g].rules
        /\ new.data = generations[g].data /\ new.versions = generations[g].versions
        /\ new.prepared = g
    BY <1>4, <1>5, <1>6 DEF Generation
  <1>8. generations' = [generations EXCEPT ![g] = new]
    BY <1>3, <1>6, Zenon DEF preparedQuery
  <1>9. /\ generations' \in Seq(Generation) /\ Len(generations') = Len(generations)
        /\ generations'[g] = new
        /\ \A h \in 1..Len(generations) : h # g => generations'[h] = generations[h]
    BY <1>1, <1>4, <1>7, <1>8
  <1>10. Current' = Current BY <1>9, Zenon DEF Current
  <1>11. ASSUME NEW h \in 1..Current
         PROVE  /\ generations'[h].rules = generations[h].rules
                /\ generations'[h].data = generations[h].data
                /\ generations'[h].versions = generations[h].versions
                /\ generations'[h].prepared \in {generations[h].prepared, h}
    <2>1. CASE h = g BY <1>7, <1>9, <2>1, Zenon
    <2>2. CASE h # g
      <3>1. generations'[h] = generations[h] BY <1>9, <2>2, Zenon DEF Current
      <3> QED BY <3>1, Zenon
    <2> QED BY <2>1, <2>2, Zenon
  <1> QED BY <1>3, <1>9, <1>10, <1>11, Zenon

LEMMA PinnedExists ==
    ASSUME Inv, NEW c \in Calls, Pinned(c)
    PROVE  call[c].generation \in 1..Current
  <1>1. Current \in Nat BY DEF Inv, Shape, Current
  <1>2. call[c].generation \in 0..Current /\ call[c].generation # 0
    BY Zenon DEF Inv, CallInv, Progress, Pinned, NoGeneration
  <1> QED BY <1>1, <1>2

LEMMA PrepareKept ==
    ASSUME Inv, Observe, NEW c \in Calls, Prepare(c)
    PROVE  CallInv(c)'
  <1>1. Shape BY Zenon DEF Inv
  <1>2. call[c] \in CallStates BY <1>1, CallShape, Zenon
  <1>3. PICK g : g = call[c].generation BY Zenon
  <1>4. /\ call[c].pc = "prepare" /\ preparedQuery(g) /\ UNCHANGED updates /\ UNCHANGED logged
        /\ Moves(c, [call[c] EXCEPT !.pc = "eval", !.generation = QueryOf(g),
                                    !.data = generations[QueryOf(g)].data])
    BY <1>3, Zenon DEF Prepare
  <1>5. Pinned(c) /\ call[c].path = 1 BY <1>4, Zenon DEF Inv, CallInv, Progress
  <1>6. g \in 1..Current BY <1>3, <1>5, PinnedExists, Zenon
  <1>7. /\ QueryOf(g) = g /\ Current' = Current
        /\ generations'[g].versions = generations[g].versions
    BY <1>4, <1>6, Preparing, Zenon
  <1>8. PICK k : k = [call[c] EXCEPT !.pc = "eval", !.generation = g, !.data = generations[g].data]
    BY Zenon
  <1>9. generations[g].data \in BOOLEAN /\ g \in Nat
    <2>1. generations \in Seq(Generation) BY <1>1, Zenon DEF Shape
    <2>2. generations[g] \in Generation /\ g \in Nat BY <1>6, <2>1 DEF Current
    <2> QED BY <2>2 DEF Generation
  <1>10. /\ k \in CallStates /\ k.pc = "eval" /\ k.generation = g /\ k.path = call[c].path
         /\ k.data = generations[g].data
    <2>1. PICK data \in BOOLEAN : data = generations[g].data BY <1>9, Zenon
    <2>2. k = [call[c] EXCEPT !.pc = "eval", !.generation = g, !.data = data] BY <1>8, <2>1, Zenon
    <2> QED BY <1>2, <1>9, <2>1, <2>2 DEF CallStates, Behind
  <1>11. Moves(c, k) BY <1>4, <1>7, <1>8, Zenon
  <1>12. call'[c] = k BY <1>1, <1>10, <1>11, Moved, Zenon
  <1>13. Progress(c)'
    <2>1. saw[c].generations \subseteq 0..Current BY Zenon DEF Inv, CallInv, Progress
    <2>2. Current \in Nat BY <1>1 DEF Shape, Current
    <2>3. Current' \in Nat /\ Current <= Current' BY <1>7, <2>2
    <2>4. saw'[c].generations \subseteq 0..Current' BY <1>1, <2>1, <2>3, SeenGenerations, Zenon
    <2>5. Pinned(c)' BY <1>1, <1>3, <1>5, <1>10, <1>12, Seen, Zenon DEF Pinned
    <2>6. generations[g].data \in generations[g].versions BY <1>6, Zenon DEF Inv, EngineInv
    <2>7. Reads(c)' BY <1>7, <1>10, <1>12, <2>5, <2>6, Zenon DEF Reads
    <2>8. 1..(call'[c].path - 1) = {} BY <1>5, <1>10, <1>12
    <2> QED BY <1>10, <1>12, <2>4, <2>7, <2>8, Zenon DEF Progress
  <1>14. call[c].pc \in Behind /\ k.pc \in Behind BY <1>4, <1>10, Zenon DEF Behind
  <1> QED BY <1>4, <1>10, <1>11, <1>13, <1>14, BehindKept, Zenon

\* A decision: the gates are behind the call and the outcome is justified.
LEMMA DecisionKept ==
    ASSUME Inv, Observe, NEW c \in Calls, NEW r \in Outcomes, r.kind = "decision",
           call[c].pc \in Behind, Returns(c, r), UNCHANGED engineVars, Justified(c)'
    PROVE  CallInv(c)'
  <1>1. Shape BY Zenon DEF Inv
  <1>2. /\ call'[c].pc = "done" /\ call'[c].result = r
        /\ deployment.controlPlane => logged'[c] = Append(logged[c], Entry(r))
    BY <1>1, Returning, Zenon
  <1>3. deployment' = deployment BY <1>1, Returning, Moved, Zenon
  <1>4. Progress(c)' BY <1>2, HistoryKept, Zenon DEF Progress
  <1>5. Gated(c)'
    <2>1. /\ Required => saw[c].active
          /\ StalenessOn => saw[c].fresh
      BY Zenon DEF Inv, CallInv, Gated, Behind
    <2>2. /\ Required => saw'[c].active
          /\ StalenessOn => saw'[c].fresh
      BY <1>1, <2>1, Seen, Zenon
    <2> QED BY <1>3, <2>2, Zenon DEF Gated, Required, StalenessOn
  <1>6. Recorded(c)'
    <2>1. logged[c] = <<>> BY Zenon DEF Inv, CallInv, Recorded, Behind
    <2>2. r # NotAsked BY ErrorShape, Zenon
    <2>3. Len(Append(<<>>, Entry(r))) = 1 /\ Append(<<>>, Entry(r))[1] = Entry(r)
      BY AppendOne, Zenon
    <2> QED BY <1>2, <1>3, <2>1, <2>2, <2>3, Zenon DEF Recorded
  <1> QED BY <1>4, <1>5, <1>6, Zenon DEF CallInv

\* A rule path that has no opinion is passed.
LEMMA NextPathKept ==
    ASSUME Inv, Observe, NEW c \in Calls, call[c].pc = "eval", UNCHANGED engineVars,
           RuleAt(c).when # "conflict", ~IsDefined(RuleAt(c), call[c].data, checkAccessFn(c)),
           NextPath(c)
    PROVE  CallInv(c)'
  <1>1. Shape BY Zenon DEF Inv
  <1>2. call[c] \in CallStates BY <1>1, CallShape, Zenon
  <1>3. PICK p \in Paths : p = call[c].path BY <1>2 DEF CallStates
  <1>4. PICK k : k = IF p = 4 THEN [call[c] EXCEPT !.pc = "fallback"]
                              ELSE [call[c] EXCEPT !.path = p + 1]
    BY Zenon
  <1>5. Moves(c, k) /\ UNCHANGED logged BY <1>3, <1>4, Zenon DEF NextPath
  <1>6. /\ k \in CallStates /\ k.generation = call[c].generation /\ k.data = call[c].data
        /\ p = 4 => k.pc = "fallback"
        /\ p # 4 => k.pc = "eval" /\ k.path = p + 1
    BY <1>2, <1>3, <1>4 DEF CallStates, Behind, Paths
  <1>7. call'[c] = k BY <1>1, <1>5, <1>6, Moved, Zenon
  <1>8. /\ Reads(c) /\ \A q \in 1..(p - 1) : Passed(c, q)
        /\ saw[c].generations \subseteq 0..Current
    BY <1>3, Zenon DEF Inv, CallInv, Progress
  <1>9. Grown /\ generations' = generations BY <1>1, EngineKept, Zenon
  <1>10. /\ Reads(c)'
         /\ \A q \in Paths : Passed(c, q) => Passed(c, q)'
    BY <1>1, <1>6, <1>7, <1>8, <1>9, PinLasts, Zenon DEF Reads
  <1>11. Passed(c, p)'
    <2>1. PICK rule : rule = generations[call[c].generation].rules[p] BY Zenon
    <2>2. rule = generations'[call'[c].generation].rules[p] BY <1>6, <1>7, <1>9, <2>1, Zenon
    <2>3. rule = RuleAt(c) BY <1>3, <2>1, Zenon DEF RuleAt
    <2>4. checkAccessFn(c) \in saw'[c].answers BY <1>1, Seen, Zenon DEF Running
    <2>5. call'[c].data = call[c].data BY <1>6, <1>7, Zenon
    <2> QED BY <2>2, <2>3, <2>4, <2>5, Zenon DEF Passed
  <1>12. ASSUME NEW q \in 1..p PROVE Passed(c, q)'
    <2>1. q \in Paths /\ (q = p \/ q \in 1..(p - 1)) BY <1>3 DEF Paths
    <2> QED BY <1>8, <1>10, <1>11, <2>1, Zenon
  <1>13. Progress(c)'
    <2>1. saw'[c].generations \subseteq 0..Current' BY HistoryKept, Zenon
    <2>2. CASE p = 4
      <3>1. Paths = 1..p BY <2>2 DEF Paths
      <3> QED BY <1>6, <1>7, <1>10, <1>12, <2>1, <2>2, <3>1, Zenon DEF Progress
    <2>3. CASE p # 4
      <3>1. 1..(call'[c].path - 1) = 1..p BY <1>3, <1>6, <1>7, <2>3 DEF Paths
      <3> QED BY <1>6, <1>7, <1>10, <1>12, <2>1, <2>3, <3>1, Zenon DEF Progress
    <2> QED BY <2>2, <2>3, Zenon
  <1>14. call[c].pc \in Behind /\ k.pc \in Behind BY <1>6, Zenon DEF Behind
  <1> QED BY <1>5, <1>6, <1>13, <1>14, BehindKept, Zenon

\* The first rule path with an opinion decides, by a generation the call has seen.
LEMMA VerdictKept ==
    ASSUME Inv, Observe, NEW c \in Calls, call[c].pc = "eval", UNCHANGED engineVars,
           RuleAt(c).when # "conflict", IsDefined(RuleAt(c), call[c].data, checkAccessFn(c)),
           Returns(c, decodePolicyDecision(call[c].path, RuleAt(c).value))
    PROVE  CallInv(c)'
  <1>1. Shape BY Zenon DEF Inv
  <1>2. call[c] \in CallStates BY <1>1, CallShape, Zenon
  <1>3. PICK p \in Paths : p = call[c].path BY <1>2 DEF CallStates
  <1>4. PICK rule : rule = RuleAt(c) BY Zenon
  <1>5. CASE Breaks(rule.value)
    <2>1. Returns(c, Error) BY <1>4, <1>5, Zenon DEF decodePolicyDecision, Breaks
    <2> QED BY <2>1, ErrorShape, RefusalKept, Zenon
  <1>6. CASE ~Breaks(rule.value)
    <2>1. PICK r : r = Decision(rule.value.allow = "true", p, rule.value.stepUp # "absent")
      BY Zenon
    <2>2. Returns(c, r) BY <1>3, <1>4, <1>6, <2>1, Zenon DEF decodePolicyDecision, Breaks
    <2>3. /\ r \in Outcomes /\ r.kind = "decision" /\ r.rule = p
          /\ r.allow <=> rule.value.allow = "true"
      <3>1. PICK a \in BOOLEAN, s \in BOOLEAN :
               a = (rule.value.allow = "true") /\ s = (rule.value.stepUp # "absent")
        BY Zenon
      <3>2. r = [kind |-> "decision", allow |-> a, rule |-> p, stepUp |-> s]
        BY <2>1, <3>1, Zenon DEF Decision
      <3>3. p \in 0..4 BY DEF Paths
      <3>4. r \in Outcomes /\ r.kind = "decision" /\ r.rule = p /\ r.allow = a
        BY <3>2, <3>3 DEF Outcomes
      <3> QED BY <3>1, <3>4, Zenon
    <2>4. call'[c].pc = "done" /\ call'[c].result = r BY <1>1, <2>2, <2>3, Returning, Zenon
    <2>5. PICK g, data : g = call[c].generation /\ data = call[c].data BY Zenon
    <2>6. PICK rules : rules = generations[g].rules BY Zenon
    <2>7. rule = rules[p] BY <1>3, <1>4, <2>5, <2>6, Zenon DEF RuleAt
    <2>8. /\ g \in saw[c].generations \ {NoGeneration} /\ data \in generations[g].versions
          /\ \A q \in 1..(p - 1) : Passed(c, q)
      BY <1>3, <2>5, Zenon DEF Inv, CallInv, Progress, Reads, Pinned
    <2>9. PICK seen, last : seen = saw'[c].answers /\ last = checkAccessFn(c) BY Zenon
    <2>10. last \in seen /\ saw[c].answers \subseteq seen
      BY <1>1, <2>9, Seen, Zenon DEF Running
    <2>11. SilentBefore(rules, data, seen, p)
      <3>1. ASSUME NEW q \in Paths, q < p
            PROVE  rules[q].when # "conflict" /\ \E a \in seen : ~IsDefined(rules[q], data, a)
        <4>1. q \in 1..(p - 1) BY <3>1 DEF Paths
        <4>2. Passed(c, q) BY <2>8, <4>1, Zenon
        <4> QED BY <2>5, <2>6, <2>10, <4>2, Zenon DEF Passed
      <3> QED BY <3>1, Zenon DEF SilentBefore
    <2>12. Opines(rules[p], data, last)
      <3>1. IsDefined(rule, data, last) BY <1>4, <2>5, <2>9, Zenon
      <3> QED BY <2>7, <3>1, Zenon DEF Opines
    <2>13. PICK answers \in [Paths -> seen] : Decided(rules, data, answers) = Verdict(rules[p])
      BY <2>10, <2>11, <2>12, FirstExplains, Zenon
    <2>14. Verdict(rules[p]) = IF r.allow THEN "allow" ELSE "deny"
      BY <1>4, <1>6, <2>3, <2>7, Zenon DEF Verdict
    <2>15. Explained(c, IF r.allow THEN "allow" ELSE "deny")'
      <3>1. g \in saw'[c].generations \ {NoGeneration} BY <1>1, <2>8, Seen, Zenon
      <3>2. generations' = generations BY <1>1, EngineKept, Zenon
      <3>3. data \in generations'[g].versions BY <2>8, <3>2, Zenon
      <3>4. Decided(generations'[g].rules, data, answers) = IF r.allow THEN "allow" ELSE "deny"
        BY <2>6, <2>13, <2>14, <3>2, Zenon
      <3>5. answers \in [Paths -> saw'[c].answers] BY <2>9, <2>13, Zenon
      <3> QED BY <3>1, <3>3, <3>4, <3>5, Zenon DEF Explained
    <2>16. Justified(c)'
      <3>1. r.rule # 0 BY <2>3 DEF Paths
      <3> QED BY <2>4, <2>15, <3>1, Zenon DEF Justified
    <2> QED BY <2>2, <2>3, <2>16, DecisionKept, Zenon DEF Behind
  <1> QED BY <1>5, <1>6, Zenon

LEMMA EvaluationKept ==
    ASSUME Inv, Observe, NEW c \in Calls, EvaluatePath(c) \/ EvaluationFails(c)
    PROVE  CallInv(c)'
  <1>1. CASE EvaluationFails(c)
    <2>1. call[c].pc # "done" /\ Returns(c, Error) /\ UNCHANGED engineVars
      BY <1>1, Zenon DEF EvaluationFails
    <2> QED BY <2>1, ErrorShape, RefusalKept, Zenon
  <1>2. CASE EvaluatePath(c)
    <2>1. call[c].pc = "eval" /\ UNCHANGED engineVars BY <1>2, Zenon DEF EvaluatePath
    <2>2. CASE RuleAt(c).when = "conflict"
      <3>1. Returns(c, Error) BY <1>2, <2>2, Zenon DEF EvaluatePath
      <3> QED BY <2>1, <3>1, ErrorShape, RefusalKept, Zenon
    <2>3. CASE /\ RuleAt(c).when # "conflict"
               /\ IsDefined(RuleAt(c), call[c].data, checkAccessFn(c))
      <3>1. Returns(c, decodePolicyDecision(call[c].path, RuleAt(c).value))
        BY <1>2, <2>3, Zenon DEF EvaluatePath
      <3> QED BY <2>1, <2>3, <3>1, VerdictKept, Zenon
    <2>4. CASE /\ RuleAt(c).when # "conflict"
               /\ ~IsDefined(RuleAt(c), call[c].data, checkAccessFn(c))
      <3>1. NextPath(c) BY <1>2, <2>4, Zenon DEF EvaluatePath
      <3> QED BY <2>1, <2>4, <3>1, NextPathKept, Zenon
    <2> QED BY <2>2, <2>3, <2>4, Zenon
  <1> QED BY <1>1, <1>2, Zenon

\* The bare check decides where nothing was loaded or no path had an opinion.
LEMMA FallbackKept ==
    ASSUME Inv, Observe, NEW c \in Calls, fallbackCheck(c)
    PROVE  CallInv(c)'
  <1>1. Shape BY Zenon DEF Inv
  <1>2. call[c].pc = "fallback" /\ UNCHANGED engineVars BY Zenon DEF fallbackCheck
  <1>3. CASE CheckFails
    <2>1. Returns(c, Error) BY <1>3, Zenon DEF fallbackCheck
    <2> QED BY <1>2, <2>1, ErrorShape, RefusalKept, Zenon
  <1>4. CASE ~CheckFails
    <2>1. PICK a \in BOOLEAN : a = CheckAnswer(c) BY Zenon DEF CheckAnswer
    <2>2. PICK r : r = Decision(a, 0, FALSE) BY Zenon
    <2>3. Returns(c, r) BY <1>4, <2>1, <2>2, Zenon DEF fallbackCheck
    <2>4. r \in Outcomes /\ r.kind = "decision" /\ r.rule = 0 /\ r.allow = a
      BY <2>2 DEF Decision, Outcomes
    <2>5. call'[c].result = r BY <1>1, <2>3, <2>4, Returning, Zenon
    <2>6. a \in saw'[c].answers
      <3>1. checkAccessFn(c) = a
        <4>1. checkAccessFn(c) <=> CheckAnswer(c) BY <1>4, Zenon DEF checkAccessFn
        <4>2. checkAccessFn(c) \in BOOLEAN BY Zenon DEF checkAccessFn
        <4> QED BY <2>1, <4>1, <4>2
      <3> QED BY <1>1, <1>2, <3>1, Seen, Zenon DEF Running
    <2>7. NoGeneration \in saw'[c].generations \/ Explained(c, "no opinion")'
      <3>1. CASE NoGeneration \in saw[c].generations BY <1>1, <3>1, Seen, Zenon
      <3>2. CASE Reads(c) /\ \A p \in Paths : Passed(c, p)
        <4>1. PICK g, data, rules : /\ g = call[c].generation /\ data = call[c].data
                                    /\ rules = generations[g].rules
          BY Zenon
        <4>2. PICK seen : seen = saw[c].answers BY Zenon
        <4>3. SilentBefore(rules, data, seen, 5)
          BY <3>2, <4>1, <4>2, Zenon DEF SilentBefore, Passed
        <4>4. PICK answers \in [Paths -> seen] : Decided(rules, data, answers) = "no opinion"
          BY <4>3, SilenceExplains, Zenon
        <4>5. g \in saw[c].generations \ {NoGeneration} /\ data \in generations[g].versions
          BY <3>2, <4>1, Zenon DEF Reads, Pinned
        <4>6. Explained(c, "no opinion") BY <4>1, <4>2, <4>4, <4>5, Zenon DEF Explained
        <4>7. saw[c].generations \subseteq 0..Current /\ Grown
          BY <1>1, <1>2, EngineKept, Zenon DEF Inv, CallInv, Progress
        <4> QED BY <1>1, <4>6, <4>7, ExplanationLasts, Zenon
      <3> QED BY <1>2, <3>1, <3>2, Zenon DEF Inv, CallInv, Progress
    <2>8. Justified(c)' BY <2>4, <2>5, <2>6, <2>7, Zenon DEF Justified
    <2> QED BY <1>2, <2>3, <2>4, <2>8, DecisionKept, Zenon DEF Behind
  <1> QED BY <1>3, <1>4, Zenon

(***************************************************************************)
(* The engine                                                              *)
(***************************************************************************)

LEMMA LoadKept ==
    ASSUME Inv, NEW b \in deployment.bundles, LoadBundle(b)
    PROVE  /\ generations' \in Seq(Generation) /\ updates' \subseteq 1..Current'
           /\ EngineInv' /\ Grown /\ Current <= Current'
  <1>1. generations \in Seq(Generation) /\ updates \subseteq 1..Current BY Zenon DEF Inv, Shape
  <1>2. PICK new : new = [rules |-> b.rules, data |-> b.data, versions |-> {b.data}, prepared |-> 0]
    BY Zenon
  <1>3. generations' = Append(generations, new) /\ updates' = updates
    BY <1>2, Zenon DEF LoadBundle
  <1>4. b.rules \in Rules /\ b.data \in BOOLEAN
    BY DeploymentAssumption, Zenon DEF Inv, Shape
  <1>5. new \in Generation /\ new.data \in new.versions /\ new.prepared = 0
    BY <1>2, <1>4 DEF Generation
  <1>6. PICK n \in Nat : n = Len(generations) BY <1>1
  <1>7. /\ generations' \in Seq(Generation) /\ Len(generations') = n + 1
        /\ \A i \in 1..n : generations'[i] = generations[i]
        /\ generations'[n + 1] = new
    <2>1. /\ Append(generations, new) \in Seq(Generation)
          /\ Len(Append(generations, new)) = Len(generations) + 1
          /\ \A i \in 1..Len(generations) : Append(generations, new)[i] = generations[i]
          /\ Append(generations, new)[Len(generations) + 1] = new
      BY <1>1, <1>5, AppendGeneration, Zenon
    <2> QED BY <1>3, <1>6, <2>1, Zenon
  <1>8. Current = n /\ Current' = n + 1 BY <1>6, <1>7, Zenon DEF Current
  <1>9. 1..n \subseteq 1..(n + 1) /\ n <= n + 1 /\ \A g \in 1..(n + 1) : g \in 1..n \/ g = n + 1
    OBVIOUS
  <1>10. Grown BY <1>7, <1>8, <1>9, Zenon DEF Grown
  <1>11. EngineInv'
    <2> SUFFICES ASSUME NEW g \in 1..(n + 1)
                 PROVE  /\ generations'[g].data \in generations'[g].versions
                        /\ generations'[g].prepared \in {0, g}
      BY <1>8, Zenon DEF EngineInv
    <2>1. CASE g \in 1..n
      <3>1. generations'[g] = generations[g] BY <1>7, <2>1, Zenon
      <3> QED BY <1>8, <2>1, <3>1, Zenon DEF Inv, EngineInv
    <2>2. CASE g = n + 1 BY <1>5, <1>7, <2>2, Zenon
    <2> QED BY <1>9, <2>1, <2>2, Zenon
  <1> QED BY <1>1, <1>3, <1>7, <1>8, <1>9, <1>10, <1>11, Zenon

LEMMA WriteKept ==
    ASSUME Inv, NEW g \in updates, NEW value \in BOOLEAN, WriteData(g, value)
    PROVE  /\ generations' \in Seq(Generation) /\ updates' \subseteq 1..Current'
           /\ EngineInv' /\ Grown /\ Current' = Current
  <1>1. generations \in Seq(Generation) /\ updates \subseteq 1..Current BY Zenon DEF Inv, Shape
  <1>2. g \in 1..Current /\ g \in 1..Len(generations) BY <1>1, Zenon DEF Current
  <1>3. generations[g] \in Generation BY <1>1, <1>2
  <1>4. PICK new : new = [generations[g] EXCEPT !.data = value,
                                                !.versions = generations[g].versions \cup {value}]
    BY Zenon
  <1>5. /\ new \in Generation /\ new.rules = generations[g].rules
        /\ new.data \in new.versions /\ generations[g].versions \subseteq new.versions
        /\ new.prepared = generations[g].prepared
    BY <1>3, <1>4 DEF Generation
  <1>6. generations' = [generations EXCEPT ![g] = new] /\ updates' = updates \ {g}
    BY <1>1, <1>2, <1>4 DEF WriteData
  <1>7. /\ generations' \in Seq(Generation) /\ Len(generations') = Len(generations)
        /\ generations'[g] = new
        /\ \A h \in 1..Len(generations) : h # g => generations'[h] = generations[h]
    BY <1>1, <1>2, <1>5, <1>6
  <1>8. Current' = Current BY <1>7, Zenon DEF Current
  <1>9. ASSUME NEW h \in 1..Current
        PROVE  /\ generations'[h].rules = generations[h].rules
               /\ generations[h].versions \subseteq generations'[h].versions
               /\ generations'[h].data \in generations'[h].versions
               /\ generations'[h].prepared \in {0, h}
    <2>1. generations[h].data \in generations[h].versions /\ generations[h].prepared \in {0, h}
      BY Zenon DEF Inv, EngineInv
    <2>2. CASE h = g BY <1>5, <1>7, <2>1, <2>2, Zenon
    <2>3. CASE h # g
      <3>1. generations'[h] = generations[h] BY <1>7, <2>3, Zenon DEF Current
      <3> QED BY <2>1, <3>1, Zenon
    <2> QED BY <2>2, <2>3, Zenon
  <1>10. Grown BY <1>8, <1>9, Zenon DEF Grown
  <1>11. EngineInv' BY <1>8, <1>9, Zenon DEF EngineInv
  <1> QED BY <1>1, <1>6, <1>7, <1>8, <1>10, <1>11, Zenon

EngineGrows ==
    /\ generations' \in Seq(Generation) /\ updates' \subseteq 1..Current'
    /\ EngineInv' /\ Grown /\ Current <= Current'

LEMMA EngineStays ==
    ASSUME Inv, UNCHANGED engineVars
    PROVE  EngineGrows
  <1>1. Shape /\ EngineInv BY Zenon DEF Inv
  <1>2. /\ Grown /\ Current \in Nat /\ Current' = Current
        /\ generations' = generations /\ updates' = updates
    BY <1>1, EngineKept, Zenon
  <1>3. Current <= Current' BY <1>2
  <1>4. EngineInv' BY <1>1, <1>2, Zenon DEF EngineInv
  <1> QED BY <1>1, <1>2, <1>3, <1>4, Zenon DEF EngineGrows, Shape

LEMMA PrepareGrows ==
    ASSUME Inv, NEW c \in Calls, Prepare(c)
    PROVE  EngineGrows
  <1>1. PICK g : g = call[c].generation BY Zenon
  <1>2. call[c].pc = "prepare" /\ preparedQuery(g) /\ UNCHANGED updates
    BY <1>1, Zenon DEF Prepare
  <1>3. Pinned(c) BY <1>2, Zenon DEF Inv, CallInv, Progress
  <1>4. g \in 1..Current BY <1>1, <1>3, PinnedExists, Zenon
  <1>5. /\ generations' \in Seq(Generation) /\ Current' = Current
        /\ \A h \in 1..Current : /\ generations'[h].rules = generations[h].rules
                                 /\ generations'[h].data = generations[h].data
                                 /\ generations'[h].versions = generations[h].versions
                                 /\ generations'[h].prepared \in {generations[h].prepared, h}
    BY <1>2, <1>4, Preparing, Zenon
  <1>6. EngineInv'
    <2> SUFFICES ASSUME NEW h \in 1..Current
                 PROVE  /\ generations'[h].data \in generations'[h].versions
                        /\ generations'[h].prepared \in {0, h}
      BY <1>5, Zenon DEF EngineInv
    <2>1. generations[h].data \in generations[h].versions /\ generations[h].prepared \in {0, h}
      BY Zenon DEF Inv, EngineInv
    <2> QED BY <1>5, <2>1, Zenon
  <1>7. Grown BY <1>5, Zenon DEF Grown
  <1>8. Current \in Nat /\ updates \subseteq 1..Current BY DEF Inv, Shape, Current
  <1>9. Current <= Current' BY <1>5, <1>8
  <1> QED BY <1>2, <1>5, <1>6, <1>7, <1>8, <1>9, Zenon DEF EngineGrows

LEMMA ChangeGrows ==
    ASSUME Inv, ChangeEngine
    PROVE  EngineGrows
  <1>1. CASE \E b \in deployment.bundles : LoadBundle(b)
    BY <1>1, LoadKept, Zenon DEF EngineGrows
  <1>2. CASE PinForUpdate
    <2>1. Current # 0 /\ updates' = updates \cup {Current} /\ generations' = generations
      BY <1>2, Zenon DEF PinForUpdate, NoGeneration
    <2>2. /\ Current \in Nat /\ updates \subseteq 1..Current /\ generations \in Seq(Generation)
      BY DEF Inv, Shape, Current
    <2>3. Current' = Current BY <2>1, Zenon DEF Current
    <2>4. updates' \subseteq 1..Current' /\ Current <= Current' BY <2>1, <2>2, <2>3
    <2>5. EngineInv' /\ Grown BY <2>1, <2>3, Zenon DEF Inv, EngineInv, Grown
    <2> QED BY <2>1, <2>2, <2>4, <2>5, Zenon DEF EngineGrows
  <1>3. CASE \E g \in updates, value \in BOOLEAN : WriteData(g, value)
    <2>1. PICK g \in updates, value \in BOOLEAN : WriteData(g, value) BY <1>3, Zenon
    <2>2. /\ generations' \in Seq(Generation) /\ updates' \subseteq 1..Current'
          /\ EngineInv' /\ Grown /\ Current' = Current
      BY <2>1, WriteKept, Zenon
    <2>3. Current \in Nat BY DEF Inv, Shape, Current
    <2>4. Current <= Current' BY <2>2, <2>3
    <2> QED BY <2>2, <2>4, Zenon DEF EngineGrows
  <1> QED BY <1>1, <1>2, <1>3, Zenon DEF ChangeEngine

(***************************************************************************)
(* The invariant                                                           *)
(***************************************************************************)

Asks(c) ==
    \/ \E context \in BOOLEAN : Begin(c, context)
    \/ AuthorizeNoPrincipal(c)
    \/ CheckNoPrincipal(c)
    \/ CallStep(c)

LEMMA AskingGrows ==
    ASSUME Inv, NEW c \in Calls, Asks(c)
    PROVE  EngineGrows
  <1>1. Prepare(c) \/ UNCHANGED engineVars
    BY Zenon DEF Asks, CallStep, Begin, AuthorizeNoPrincipal, CheckNoPrincipal, RequireServing,
                 StaleGate, EvaluateGate, Snapshot, EvaluatePath, EvaluationFails, fallbackCheck,
                 engineVars
  <1> QED BY <1>1, PrepareGrows, EngineStays, Zenon

LEMMA AskingKept ==
    ASSUME Inv, Observe, NEW c \in Calls, Asks(c)
    PROVE  CallInv(c)'
  BY BeginKept, NoPrincipalKept, GatesKept, SnapshotKept, PrepareKept, EvaluationKept,
     FallbackKept, Zenon DEF Asks, CallStep

\* A call's step changes its own state and its own entries only.
MovesAlone(c) ==
    /\ \E k \in CallStates : Moves(c, k)
    /\ DOMAIN logged' = Calls
    /\ \A d \in Calls \ {c} : logged'[d] = logged[d]

LEMMA ReturnsAlone ==
    ASSUME Shape, NEW c \in Calls, NEW r \in Outcomes, Returns(c, r)
    PROVE  MovesAlone(c)
  BY Returning, Zenon DEF MovesAlone

LEMMA StepsAlone ==
    ASSUME Shape, NEW c \in Calls, NEW k \in CallStates, Moves(c, k), UNCHANGED logged
    PROVE  MovesAlone(c)
  BY Zenon DEF MovesAlone, Shape

LEMMA AskingAlone ==
    ASSUME Inv, NEW c \in Calls, Asks(c)
    PROVE  MovesAlone(c)
  <1>1. Shape BY Zenon DEF Inv
  <1>2. call[c] \in CallStates BY <1>1, CallShape, Zenon
  <1>3. ASSUME NEW pc \in {"stale", "gate", "pin", "fallback"}
        PROVE  [call[c] EXCEPT !.pc = pc] \in CallStates
    BY <1>2 DEF CallStates, Behind
  <1>4. CASE \E context \in BOOLEAN : Begin(c, context)
    <2>1. PICK context \in BOOLEAN : Begin(c, context) BY <1>4, Zenon
    <2>2. [NoCall EXCEPT !.pc = "serving", !.context = context] \in CallStates
      BY NoCallShape DEF CallStates
    <2> QED BY <1>1, <2>1, <2>2, StepsAlone, Zenon DEF Begin
  <1>5. CASE AuthorizeNoPrincipal(c)
    BY <1>1, <1>5, ErrorShape, ReturnsAlone, Zenon DEF AuthorizeNoPrincipal
  <1>6. CASE CheckNoPrincipal(c)
    <2>1. NotAsked \in Outcomes BY ErrorShape, Zenon
    <2>2. [NoCall EXCEPT !.pc = "done", !.result = NotAsked] \in CallStates
      BY <2>1, NoCallShape DEF CallStates
    <2> QED BY <1>1, <1>6, <2>2, StepsAlone, Zenon DEF CheckNoPrincipal
  <1>7. CASE RequireServing(c) \/ StaleGate(c) \/ EvaluateGate(c)
    BY <1>1, <1>3, <1>7, ErrorShape, ReturnsAlone, StepsAlone, Zenon
       DEF RequireServing, StaleGate, EvaluateGate
  <1>8. CASE Snapshot(c)
    <2>1. Current \in Nat BY <1>1 DEF Shape, Current
    <2>2. PICK pc \in {"fallback", "prepare"} :
             pc = IF Current = NoGeneration THEN "fallback" ELSE "prepare"
      BY Zenon
    <2>3. [call[c] EXCEPT !.pc = pc, !.generation = Current] \in CallStates
      BY <1>2, <2>1 DEF CallStates, Behind
    <2>4. Moves(c, [call[c] EXCEPT !.pc = pc, !.generation = Current]) /\ UNCHANGED logged
      BY <1>8, <2>2, Zenon DEF Snapshot
    <2> QED BY <1>1, <2>3, <2>4, StepsAlone, Zenon
  <1>9. CASE Prepare(c)
    <2>1. PICK g : g = call[c].generation BY Zenon
    <2>2. /\ call[c].pc = "prepare" /\ preparedQuery(g) /\ UNCHANGED updates /\ UNCHANGED logged
          /\ Moves(c, [call[c] EXCEPT !.pc = "eval", !.generation = QueryOf(g),
                                      !.data = generations[QueryOf(g)].data])
      BY <1>9, <2>1, Zenon DEF Prepare
    <2>3. Pinned(c) BY <2>2, Zenon DEF Inv, CallInv, Progress
    <2>4. g \in 1..Current BY <2>1, <2>3, PinnedExists, Zenon
    <2>5. QueryOf(g) = g BY <2>2, <2>4, Preparing, Zenon
    <2>6. g \in Nat /\ generations[g].data \in BOOLEAN
      <3>1. generations \in Seq(Generation) BY <1>1, Zenon DEF Shape
      <3>2. generations[g] \in Generation /\ g \in Nat BY <2>4, <3>1 DEF Current
      <3> QED BY <3>2 DEF Generation
    <2>7. PICK data \in BOOLEAN : data = generations[g].data BY <2>6, Zenon
    <2>8. [call[c] EXCEPT !.pc = "eval", !.generation = g, !.data = data] \in CallStates
      BY <1>2, <2>6 DEF CallStates, Behind
    <2>9. Moves(c, [call[c] EXCEPT !.pc = "eval", !.generation = g, !.data = data])
      BY <2>2, <2>5, <2>7, Zenon
    <2> QED BY <1>1, <2>2, <2>8, <2>9, StepsAlone, Zenon
  <1>10. CASE EvaluatePath(c)
    <2>1. call[c].path \in Paths BY <1>2 DEF CallStates
    <2>2. CASE NextPath(c)
      <3>1. call[c].path # 4 => [call[c] EXCEPT !.path = @ + 1] \in CallStates
        BY <1>2, <2>1 DEF CallStates, Paths
      <3> QED BY <1>1, <1>3, <2>2, <3>1, StepsAlone, Zenon DEF NextPath
    <2>3. CASE Returns(c, Error) BY <1>1, <2>3, ErrorShape, ReturnsAlone, Zenon
    <2>4. CASE Returns(c, decodePolicyDecision(call[c].path, RuleAt(c).value))
      <3>1. PICK value : value = RuleAt(c).value BY Zenon
      <3>2. PICK a \in BOOLEAN, s \in BOOLEAN :
               a = (value.allow = "true") /\ s = (value.stepUp # "absent")
        BY Zenon
      <3>3. Decision(a, call[c].path, s) \in Outcomes BY <2>1 DEF Decision, Outcomes, Paths
      <3>4. decodePolicyDecision(call[c].path, value) \in {Error, Decision(a, call[c].path, s)}
        BY <3>2, Zenon DEF decodePolicyDecision
      <3>5. decodePolicyDecision(call[c].path, value) \in Outcomes
        BY <3>3, <3>4, ErrorShape, Zenon
      <3> QED BY <1>1, <2>4, <3>1, <3>5, ReturnsAlone, Zenon
    <2> QED BY <1>10, <2>2, <2>3, <2>4, Zenon DEF EvaluatePath
  <1>11. CASE EvaluationFails(c)
    BY <1>1, <1>11, ErrorShape, ReturnsAlone, Zenon DEF EvaluationFails
  <1>12. CASE fallbackCheck(c)
    <2>1. PICK a \in BOOLEAN : a = CheckAnswer(c) BY Zenon DEF CheckAnswer
    <2>2. Decision(a, 0, FALSE) \in Outcomes BY DEF Decision, Outcomes
    <2> QED BY <1>1, <1>12, <2>1, <2>2, ErrorShape, ReturnsAlone, Zenon DEF fallbackCheck
  <1> QED BY <1>4, <1>5, <1>6, <1>7, <1>8, <1>9, <1>10, <1>11, <1>12, Zenon DEF Asks, CallStep

\* What every step keeps, given what it does to the engine, the clocks and the calls.
LEMMA StepKept ==
    ASSUME Inv, Observe, EngineGrows, deployment' = deployment, ClockInv',
           now' \in Nat, reached' \in Int, lastActivity' \in Int,
           call' \in [Calls -> CallStates], DOMAIN logged' = Calls,
           \A c \in Calls : CallInv(c)' \/ (call'[c] = call[c] /\ logged'[c] = logged[c])
    PROVE  Inv'
  <1>1. Shape BY Zenon DEF Inv
  <1>2. saw' \in [Calls -> Histories]
    <2>1. CASE Calls = {}
      <3>1. saw' = [c \in Calls |-> IF Running(c) THEN Sees(c) ELSE saw[c]] BY Zenon DEF Observe
      <3> QED BY <2>1, <3>1
    <2>2. CASE Calls # {} BY <1>1, <2>2, Seen, Zenon
    <2> QED BY <2>1, <2>2, Zenon
  <1>3. Shape' BY <1>1, <1>2, Zenon DEF Shape, EngineGrows
  <1>4. Current' \in Nat BY DEF EngineGrows, Current
  <1>5. ASSUME NEW c \in Calls PROVE CallInv(c)'
    <2>1. CASE call'[c] = call[c] /\ logged'[c] = logged[c]
      <3>1. CallInv(c) BY Zenon DEF Inv
      <3>2. Grown /\ Current <= Current' BY Zenon DEF EngineGrows
      <3> QED BY <1>1, <1>4, <2>1, <3>1, <3>2, CallKept, Zenon
    <2> QED BY <2>1, Zenon
  <1> QED BY <1>3, <1>5, Zenon DEF Inv, EngineGrows

LEMMA AskingInv ==
    ASSUME Inv, Observe, NEW c \in Calls, Asks(c)
    PROVE  Inv'
  <1>1. Shape /\ ClockInv BY Zenon DEF Inv
  <1>2. PICK k \in CallStates : Moves(c, k) BY AskingAlone, Zenon DEF MovesAlone
  <1>3. /\ DOMAIN logged' = Calls
        /\ \A d \in Calls \ {c} : logged'[d] = logged[d]
    BY AskingAlone, Zenon DEF MovesAlone
  <1>4. /\ call' \in [Calls -> CallStates]
        /\ \A d \in Calls \ {c} : call'[d] = call[d]
        /\ deployment' = deployment /\ now' = now /\ link' = link
        /\ reached' = reached /\ lastActivity' = lastActivity
    BY <1>1, <1>2, Moved, Zenon
  <1>5. ClockInv' BY <1>1, <1>4, Zenon DEF ClockInv
  <1>6. now' \in Nat /\ reached' \in Int /\ lastActivity' \in Int BY <1>1, <1>4, Zenon DEF Shape
  <1>7. EngineGrows BY AskingGrows, Zenon
  <1>8. ASSUME NEW d \in Calls
        PROVE  CallInv(d)' \/ (call'[d] = call[d] /\ logged'[d] = logged[d])
    <2>1. CASE d = c BY <2>1, AskingKept, Zenon
    <2>2. CASE d # c BY <1>3, <1>4, <2>2, Zenon
    <2> QED BY <2>1, <2>2, Zenon
  <1> QED BY <1>3, <1>4, <1>5, <1>6, <1>7, <1>8, StepKept, Zenon

\* The clock of the last activity is one at which the connection was alive.
LEMMA StreamClocks ==
    ASSUME Inv, StreamStep \/ Tick
    PROVE  ClockInv' /\ now' \in Nat /\ reached' \in Int /\ lastActivity' \in Int
  <1>1. /\ now \in Nat /\ reached \in Int /\ lastActivity \in Int
        /\ Never <= lastActivity /\ lastActivity <= reached /\ reached <= now
        /\ link => reached = now
    BY Zenon DEF Inv, Shape, ClockInv
  <1>2. CASE Tick
    <2>1. now' = now + 1 /\ lastActivity' = lastActivity /\ link' = link
          /\ reached' = IF link THEN now' ELSE reached
      BY <1>2, Zenon DEF Tick, client
    <2>2. CASE link BY <1>1, <2>1, <2>2 DEF ClockInv, Never
    <2>3. CASE ~link BY <1>1, <2>1, <2>3 DEF ClockInv, Never
    <2> QED BY <2>2, <2>3, Zenon
  <1>3. CASE StreamStep
    <2>1. now' = now BY <1>3, Zenon DEF StreamStep
    <2>2. CASE /\ lastActivity' = lastActivity /\ reached' = reached
               /\ link' => link
      BY <1>1, <2>1, <2>2, Zenon DEF ClockInv
    <2>3. CASE lastActivity' = now /\ reached' = now
      BY <1>1, <2>1, <2>3 DEF ClockInv, Never
    <2>4. CASE markActivity
      <3>1. link /\ lastActivity' = now /\ reached' = reached BY <2>4, Zenon DEF markActivity
      <3>2. reached' = now BY <1>1, <3>1, Zenon
      <3> QED BY <2>3, <3>1, <3>2, Zenon
    <2>5. CASE markStreamOpen BY <2>3, <2>5, Zenon DEF markStreamOpen
    <2>6. CASE MarkBootstrapped \/ BuildClient \/ PublishClient \/ LinkBreaks \/ markStreamClosed
      BY <2>2, <2>6, Zenon DEF MarkBootstrapped, BuildClient, PublishClient, LinkBreaks,
                               markStreamClosed, client
    <2> QED BY <1>3, <2>4, <2>5, <2>6, Zenon DEF StreamStep
  <1> QED BY <1>2, <1>3, Zenon

LEMMA EnvironmentInv ==
    ASSUME Inv, Observe,
           \/ StreamStep \/ Tick \/ ChangeEngine
           \/ \E r \in {"held", "not held"} : ChangeRelation(r)
    PROVE  Inv'
  <1>1. deployment' = deployment /\ call' = call /\ logged' = logged
    BY Zenon DEF StreamStep, Tick, ChangeEngine, ChangeRelation
  <1>2. EngineGrows
    <2>1. UNCHANGED engineVars \/ ChangeEngine
      BY Zenon DEF StreamStep, Tick, ChangeRelation, engineVars
    <2> QED BY <2>1, EngineStays, ChangeGrows, Zenon
  <1>3. ClockInv' /\ now' \in Nat /\ reached' \in Int /\ lastActivity' \in Int
    <2>1. CASE StreamStep \/ Tick BY <2>1, StreamClocks, Zenon
    <2>2. CASE ChangeEngine \/ \E r \in {"held", "not held"} : ChangeRelation(r)
      <3>1. now' = now /\ reached' = reached /\ lastActivity' = lastActivity /\ link' = link
        BY <2>2, Zenon DEF ChangeEngine, ChangeRelation, client, network
      <3> QED BY <3>1, Zenon DEF Inv, Shape, ClockInv
    <2> QED BY <2>1, <2>2, Zenon
  <1>4. call' \in [Calls -> CallStates] /\ DOMAIN logged' = Calls BY <1>1, Zenon DEF Inv, Shape
  <1> QED BY <1>1, <1>2, <1>3, <1>4, StepKept, Zenon

LEMMA InitInv == Init => Inv
  <1> SUFFICES ASSUME Init PROVE Inv OBVIOUS
  <1>1. /\ deployment \in Deployments /\ generations = <<>> /\ updates = {}
        /\ lastActivity = Never /\ reached = Never /\ now = 0 /\ link = FALSE
        /\ call = [c \in Calls |-> NoCall] /\ logged = [c \in Calls |-> <<>>]
        /\ saw = [c \in Calls |-> NothingSeen]
    BY Zenon DEF Init, EngineInit
  <1>2. generations \in Seq(Generation) /\ Current = 0 BY <1>1, Empty, Zenon DEF Current
  <1>3. now \in Nat /\ reached \in Int /\ lastActivity \in Int /\ ClockInv
    BY <1>1 DEF Never, ClockInv
  <1>4. NothingSeen \in Histories /\ NothingSeen.generations = {}
    BY DEF NothingSeen, Histories
  <1>5. Shape
    <2>1. call \in [Calls -> CallStates] /\ saw \in [Calls -> Histories] /\ DOMAIN logged = Calls
      BY <1>1, <1>4, NoCallShape, Zenon
    <2> QED BY <1>1, <1>2, <1>3, <2>1, Zenon DEF Shape
  <1>6. EngineInv
    <2>1. 1..Current = {} BY <1>2
    <2> QED BY <2>1, Zenon DEF EngineInv
  <1>7. ASSUME NEW c \in Calls PROVE CallInv(c)
    <2>1. call[c] = NoCall /\ logged[c] = <<>> /\ saw[c] = NothingSeen BY <1>1, Zenon
    <2>2. call[c].pc = "idle" /\ call[c].path = 1 BY <2>1, NoCallShape, Zenon
    <2>3. ~Served(c) /\ ~Returned(c) BY <2>2, Zenon DEF Served, Returned
    <2> QED BY <1>4, <2>1, <2>2, <2>3, Zenon
            DEF CallInv, Progress, Gated, Justified, Recorded, Behind
  <1> QED BY <1>3, <1>5, <1>6, <1>7, Zenon DEF Inv

LEMMA NextInv == Inv /\ [Next]_vars => Inv'
  <1> SUFFICES ASSUME Inv, [Next]_vars PROVE Inv' BY Zenon
  <1>1. CASE Next
    <2>1. Observe BY <1>1, Zenon DEF Next
    <2>2. CASE \E c \in Calls : Asks(c) BY <2>1, <2>2, AskingInv, Zenon
    <2>3. CASE \/ StreamStep \/ Tick \/ ChangeEngine
               \/ \E r \in {"held", "not held"} : ChangeRelation(r)
      BY <2>1, <2>3, EnvironmentInv, Zenon
    <2> QED BY <1>1, <2>2, <2>3, Zenon DEF Next, Asks
  <1>2. CASE UNCHANGED vars
    <2>1. /\ generations' = generations /\ updates' = updates /\ deployment' = deployment
          /\ lastActivity' = lastActivity /\ reached' = reached /\ now' = now /\ link' = link
          /\ call' = call /\ logged' = logged /\ saw' = saw
      BY <1>2, Zenon DEF vars, engineVars, client, network
    <2>2. Shape' BY <2>1, Zenon DEF Inv, Shape, Current
    <2>3. EngineInv' /\ ClockInv' BY <2>1, Zenon DEF Inv, EngineInv, ClockInv, Current
    <2>4. ASSUME NEW c \in Calls PROVE CallInv(c)'
      <3>1. CallInv(c) BY Zenon DEF Inv
      <3>2. Progress(c)' BY <2>1, <3>1, Zenon DEF CallInv, Progress, Pinned, Reads, Passed, Current
      <3>3. Gated(c)'
        BY <2>1, <3>1, Zenon DEF CallInv, Gated, Required, StalenessOn, Served, Returned
      <3>4. Justified(c)' BY <2>1, <3>1, Zenon DEF CallInv, Justified, Served, Returned, Explained
      <3>5. Recorded(c)' BY <2>1, <3>1, Zenon DEF CallInv, Recorded, Returned
      <3> QED BY <3>2, <3>3, <3>4, <3>5, Zenon DEF CallInv
    <2> QED BY <2>2, <2>3, <2>4, Zenon DEF Inv
  <1> QED BY <1>1, <1>2, Zenon

LEMMA SpecInv == Spec => []Inv
  BY InitInv, NextInv, PTL DEF Spec

(***************************************************************************)
(* Types                                                                   *)
(***************************************************************************)

\* What TypeOK says beyond the invariant.
Ranges ==
    /\ relation \in {"no model", "held", "not held"}
    /\ boot \in {"new", "bootstrapped", "built", "live"}
    /\ connected \in BOOLEAN /\ link \in BOOLEAN
    /\ leaseExpiresAt \in 0..(now + deployment.lease)
    /\ \A c \in Calls : call[c].generation \in 0..Current /\ Len(logged[c]) <= 1

LEMMA RangesGiveTypes == Inv /\ Ranges => TypeOK
  <1> SUFFICES ASSUME Inv, Ranges PROVE TypeOK OBVIOUS
  <1>1. ASSUME NEW g \in 1..Current
        PROVE  /\ generations[g].rules \in Rules
               /\ generations[g].data \in generations[g].versions
               /\ generations[g].prepared \in 0..Current
    <2>1. generations \in Seq(Generation) /\ EngineInv BY Zenon DEF Inv, Shape
    <2>2. generations[g] \in Generation BY <2>1 DEF Current
    <2>3. generations[g].rules \in Rules BY <2>2 DEF Generation
    <2>4. /\ generations[g].data \in generations[g].versions
          /\ generations[g].prepared \in {0, g}
      BY <2>1, Zenon DEF EngineInv
    <2>5. Current \in Nat BY <2>1 DEF Current
    <2> QED BY <2>3, <2>4, <2>5
  <1>2. lastActivity \in {Never} \cup 0..now /\ reached \in {Never} \cup 0..now
    <2>1. /\ now \in Nat /\ reached \in Int /\ lastActivity \in Int
          /\ Never <= lastActivity /\ lastActivity <= reached /\ reached <= now
      BY Zenon DEF Inv, Shape, ClockInv
    <2> QED BY <2>1 DEF Never
  <1>3. ASSUME NEW c \in Calls PROVE call[c].path \in Paths
    BY CallShape DEF Inv, CallStates
  <1> QED BY <1>1, <1>2, <1>3, Zenon DEF TypeOK, Ranges, Inv, Shape

\* A step of a call pins the current generation, if any, and writes an entry, if any.
Advances(c) ==
    /\ call[c].pc # "done"
    /\ call'[c].generation \in {call[c].generation, NoGeneration, Current}
    /\ logged'[c] = logged[c] \/ \E e : logged'[c] = Append(logged[c], e)

LEMMA MovedTo ==
    ASSUME Shape, NEW c \in Calls, NEW k, Moves(c, k)
    PROVE  call'[c] = k
  BY Zenon DEF Shape, Moves

LEMMA ReturnAdvances ==
    ASSUME Shape, NEW c \in Calls, NEW r, Returns(c, r), call[c].pc # "done"
    PROVE  Advances(c)
  <1>1. PICK k : k = [call[c] EXCEPT !.pc = "done", !.result = r] BY Zenon
  <1>2. call[c] \in CallStates BY CallShape, Zenon
  <1>3. k.generation = call[c].generation BY <1>1, <1>2 DEF CallStates
  <1>4. call'[c] = k BY <1>1, MovedTo, Zenon DEF Returns
  <1>5. logged'[c] = logged[c] \/ logged'[c] = Append(logged[c], Entry(r))
    BY Zenon DEF Returns, Shape
  <1> QED BY <1>3, <1>4, <1>5, Zenon DEF Advances

LEMMA MoveAdvances ==
    ASSUME Shape, NEW c \in Calls, NEW k, Moves(c, k), UNCHANGED logged, call[c].pc # "done",
           k.generation \in {call[c].generation, NoGeneration, Current}
    PROVE  Advances(c)
  BY MovedTo, Zenon DEF Advances

LEMMA AskingAdvances ==
    ASSUME Inv, NEW c \in Calls, Asks(c)
    PROVE  Advances(c)
  <1>1. Shape BY Zenon DEF Inv
  <1>2. call[c] \in CallStates BY <1>1, CallShape, Zenon
  <1>3. \A pc : [call[c] EXCEPT !.pc = pc].generation = call[c].generation
    BY <1>2 DEF CallStates
  <1>4. CASE \E context \in BOOLEAN : Begin(c, context)
    <2>1. PICK context \in BOOLEAN : Begin(c, context) BY <1>4, Zenon
    <2>2. [NoCall EXCEPT !.pc = "serving", !.context = context].generation = NoGeneration
      BY DEF NoCall
    <2> QED BY <1>1, <2>1, <2>2, MoveAdvances, Zenon DEF Begin, MayBegin
  <1>5. CASE CheckNoPrincipal(c)
    <2>1. \A r : [NoCall EXCEPT !.pc = "done", !.result = r].generation = NoGeneration
      BY DEF NoCall
    <2> QED BY <1>1, <1>5, <2>1, MoveAdvances, Zenon DEF CheckNoPrincipal, MayBegin
  <1>6. CASE AuthorizeNoPrincipal(c) \/ EvaluationFails(c) \/ fallbackCheck(c)
    BY <1>1, <1>6, ReturnAdvances, Zenon
       DEF AuthorizeNoPrincipal, MayBegin, EvaluationFails, fallbackCheck
  <1>7. CASE RequireServing(c) \/ StaleGate(c) \/ EvaluateGate(c)
    BY <1>1, <1>3, <1>7, ReturnAdvances, MoveAdvances, Zenon
       DEF RequireServing, StaleGate, EvaluateGate
  <1>8. CASE Snapshot(c)
    <2>1. \A pc, g : [call[c] EXCEPT !.pc = pc, !.generation = g].generation = g
      BY <1>2 DEF CallStates
    <2> QED BY <1>1, <1>8, <2>1, MoveAdvances, Zenon DEF Snapshot
  <1>9. CASE Prepare(c)
    <2>1. PICK g : g = call[c].generation BY Zenon
    <2>2. PICK data : data = generations[QueryOf(g)].data BY Zenon
    <2>3. /\ call[c].pc = "prepare" /\ preparedQuery(g) /\ UNCHANGED updates /\ UNCHANGED logged
          /\ Moves(c, [call[c] EXCEPT !.pc = "eval", !.generation = QueryOf(g), !.data = data])
      BY <1>9, <2>1, <2>2, Zenon DEF Prepare
    <2>4. Pinned(c) BY <2>3, Zenon DEF Inv, CallInv, Progress
    <2>5. QueryOf(g) = g BY <2>1, <2>3, <2>4, PinnedExists, Preparing, Zenon
    <2>6. [call[c] EXCEPT !.pc = "eval", !.generation = QueryOf(g), !.data = data].generation = g
      BY <1>2, <2>5 DEF CallStates
    <2> QED BY <1>1, <2>1, <2>3, <2>6, MoveAdvances, Zenon
  <1>10. CASE EvaluatePath(c)
    <2>1. \A p : [call[c] EXCEPT !.path = p].generation = call[c].generation
      BY <1>2 DEF CallStates
    <2>2. NextPath(c) /\ call[c].pc # "done" => Advances(c)
      BY <1>1, <1>3, <2>1, MoveAdvances, Zenon DEF NextPath
    <2> QED BY <1>1, <1>10, <2>2, ReturnAdvances, Zenon DEF EvaluatePath
  <1> QED BY <1>4, <1>5, <1>6, <1>7, <1>8, <1>9, <1>10, Zenon DEF Asks, CallStep

\* The bound of the lease grows with the clock.
LEMMA LeaseRange ==
    ASSUME Inv, Ranges, deployment' = deployment, now' \in {now, now + 1},
           leaseExpiresAt' \in {leaseExpiresAt, now + deployment.lease}
    PROVE  (leaseExpiresAt \in 0..(now + deployment.lease))'
  <1>1. PICK lease : lease = deployment.lease BY Zenon
  <1>2. lease \in Nat BY <1>1, DeploymentAssumption, Zenon DEF Inv, Shape
  <1>3. now \in Nat BY Zenon DEF Inv, Shape
  <1>4. leaseExpiresAt \in 0..(now + lease) BY <1>1, Zenon DEF Ranges
  <1>5. leaseExpiresAt' \in {leaseExpiresAt, now + lease} BY <1>1, Zenon
  <1>6. ASSUME NEW m \in {leaseExpiresAt, now + lease}, NEW n \in {now, now + 1}
        PROVE  m \in 0..(n + lease)
    BY <1>2, <1>3, <1>4
  <1>7. leaseExpiresAt' \in 0..(now' + lease) BY <1>5, <1>6, Zenon
  <1> QED BY <1>1, <1>7, Zenon

\* What a step does beside the calls.
LEMMA StepRanges ==
    ASSUME Inv, Ranges, Next
    PROVE  /\ relation' \in {"no model", "held", "not held"}
           /\ boot' \in {"new", "bootstrapped", "built", "live"}
           /\ connected' \in BOOLEAN /\ link' \in BOOLEAN
           /\ deployment' = deployment /\ now' \in {now, now + 1}
           /\ leaseExpiresAt' \in {leaseExpiresAt, now + deployment.lease}
  <1>1. /\ relation \in {"no model", "held", "not held"}
        /\ boot \in {"new", "bootstrapped", "built", "live"}
        /\ connected \in BOOLEAN /\ link \in BOOLEAN
    BY Zenon DEF Ranges
  <1>2. CASE \E c \in Calls : Asks(c)
    <2>1. PICK c \in Calls, k \in CallStates : Moves(c, k)
      BY <1>2, AskingAlone, Zenon DEF MovesAlone
    <2> QED BY <1>1, <2>1, Zenon DEF Moves, client, network
  <1>3. CASE StreamStep
    <2>1. relation' = relation /\ deployment' = deployment /\ now' = now
      BY <1>3, Zenon DEF StreamStep
    <2>2. /\ boot' = boot \/ boot' \in {"bootstrapped", "built", "live"}
          /\ connected' = connected \/ connected' \in BOOLEAN
          /\ link' = link \/ link' \in BOOLEAN
          /\ leaseExpiresAt' \in {leaseExpiresAt, now + deployment.lease}
      BY <1>3, Zenon DEF StreamStep, MarkBootstrapped, BuildClient, PublishClient, markStreamOpen,
                         markActivity, LinkBreaks, markStreamClosed, client
    <2> QED BY <1>1, <2>1, <2>2, Zenon
  <1>4. CASE Tick BY <1>1, <1>4, Zenon DEF Tick, client
  <1>5. CASE \E r \in {"held", "not held"} : ChangeRelation(r)
    BY <1>1, <1>5, Zenon DEF ChangeRelation, client, network
  <1>6. CASE ChangeEngine BY <1>1, <1>6, Zenon DEF ChangeEngine, client, network
  <1> QED BY <1>2, <1>3, <1>4, <1>5, <1>6, Zenon DEF Next, Asks

LEMMA CallRanges ==
    ASSUME Inv, Ranges, Next, NEW c \in Calls
    PROVE  (call[c].generation \in 0..Current /\ Len(logged[c]) <= 1)'
  <1>1. Current \in Nat BY DEF Inv, Shape, Current
  <1>2. call[c].generation \in 0..Current /\ Len(logged[c]) <= 1 BY Zenon DEF Ranges
  <1>3. EngineGrows
    <2>1. CASE \E d \in Calls : Asks(d) BY <2>1, AskingGrows, Zenon
    <2>2. CASE ~\E d \in Calls : Asks(d)
      <3>1. UNCHANGED engineVars \/ ChangeEngine
        BY <2>2, Zenon DEF Next, Asks, StreamStep, Tick, ChangeRelation, engineVars
      <3> QED BY <3>1, EngineStays, ChangeGrows, Zenon
    <2> QED BY <2>1, <2>2, Zenon
  <1>4. Current' \in Nat /\ Current <= Current' BY <1>3 DEF EngineGrows, Current
  <1>5. CASE call'[c] = call[c] /\ logged'[c] = logged[c]
    BY <1>1, <1>2, <1>4, <1>5
  <1>6. CASE Asks(c)
    <2>1. Advances(c) BY <1>6, AskingAdvances, Zenon
    <2>2. call'[c].generation \in 0..Current'
      <3>1. call'[c].generation \in {call[c].generation, 0, Current}
        BY <2>1, Zenon DEF Advances, NoGeneration
      <3> QED BY <1>1, <1>2, <1>4, <3>1
    <2>3. Len(logged'[c]) <= 1
      <3>1. logged[c] = <<>> BY <2>1, Zenon DEF Advances, Inv, CallInv, Recorded
      <3>2. CASE logged'[c] = logged[c] BY <1>2, <3>2, Zenon
      <3>3. ASSUME NEW e, logged'[c] = Append(logged[c], e) PROVE Len(logged'[c]) <= 1
        <4>1. Len(logged'[c]) = 1 BY <3>1, <3>3, AppendOne, Zenon
        <4> QED BY <4>1
      <3> QED BY <2>1, <3>2, <3>3, Zenon DEF Advances
    <2> QED BY <2>2, <2>3, Zenon
  <1>7. CASE \E d \in Calls \ {c} : Asks(d)
    <2>1. PICK d \in Calls \ {c} : Asks(d) BY <1>7, Zenon
    <2>2. PICK k \in CallStates : Moves(d, k) BY <2>1, AskingAlone, Zenon DEF MovesAlone
    <2>3. call'[c] = call[c] BY <2>1, <2>2, Moved, Zenon DEF Inv
    <2>4. logged'[c] = logged[c] BY <2>1, AskingAlone, Zenon DEF MovesAlone
    <2> QED BY <1>5, <2>3, <2>4, Zenon
  <1>8. CASE ~\E d \in Calls : Asks(d)
    <2>1. call' = call /\ logged' = logged
      BY <1>8, Zenon DEF Next, Asks, StreamStep, Tick, ChangeRelation, ChangeEngine
    <2> QED BY <1>5, <2>1, Zenon
  <1> QED BY <1>6, <1>7, <1>8, Zenon

LEMMA SpecRanges == Spec => []Ranges
  <1>1. Init => Ranges
    <2> SUFFICES ASSUME Init PROVE Ranges OBVIOUS
    <2>1. /\ relation \in {"no model", "not held"} /\ boot = "new" /\ connected = FALSE
          /\ link = FALSE /\ leaseExpiresAt = 0 /\ now = 0 /\ deployment \in Deployments
          /\ generations = <<>>
          /\ call = [c \in Calls |-> NoCall] /\ logged = [c \in Calls |-> <<>>]
      BY Zenon DEF Init, EngineInit
    <2>2. deployment.lease \in Nat BY <2>1, DeploymentAssumption, Zenon
    <2>3. leaseExpiresAt \in 0..(now + deployment.lease)
      <3>1. \A n \in Nat : 0 \in 0..(0 + n) OBVIOUS
      <3> QED BY <2>1, <2>2, <3>1, Zenon
    <2>4. Current = 0 /\ Len(<<>>) <= 1
      <3>1. Len(<<>>) = 0 BY Empty, Zenon
      <3>2. Len(<<>>) <= 1 BY <3>1
      <3> QED BY <2>1, <3>1, <3>2, Zenon DEF Current
    <2>5. NoCall.generation \in 0..Current BY <2>4 DEF NoCall, NoGeneration
    <2> QED BY <2>1, <2>3, <2>4, <2>5, Zenon DEF Ranges
  <1>2. Inv /\ Ranges /\ [Next]_vars => Ranges'
    <2> SUFFICES ASSUME Inv, Ranges, [Next]_vars PROVE Ranges' OBVIOUS
    <2>1. CASE Next BY <2>1, StepRanges, LeaseRange, CallRanges, Zenon DEF Ranges
    <2>2. CASE UNCHANGED vars
      BY <2>2, Zenon DEF vars, engineVars, client, network, Ranges, Current
    <2> QED BY <2>1, <2>2, Zenon
  <1> QED BY <1>1, <1>2, SpecInv, PTL DEF Spec

(***************************************************************************)
(* The theorems                                                            *)
(***************************************************************************)

\* Every variable has its shape; in particular the lease ends no later than one lease
\* from now, and no call has two entries.
THEOREM DecisionTypes == Spec => []TypeOK
  BY RangesGiveTypes, SpecRanges, SpecInv, PTL

\* A policy decision comes from the rules and the data of a single generation that
\* was the engine's during the call (engine.go:94-98, 164-170).
THEOREM DecidedByOneGeneration == Spec => []OneGeneration
  <1>1. Inv => OneGeneration BY Zenon DEF Inv, CallInv, Justified, OneGeneration
  <1> QED BY <1>1, SpecInv, PTL

\* The bare check never decides after an evaluation error (engine.go:200-206).
THEOREM ErrorsNeverFallBack == Spec => []NoFallbackOnError
  <1>1. Inv => NoFallbackOnError BY Zenon DEF Inv, CallInv, Justified, NoFallbackOnError
  <1> QED BY <1>1, SpecInv, PTL

\* With a serving gate no decision is returned without the lease (staleness.go:81).
THEOREM LeaseCoversDecisions == Spec => []ServedUnderLease
  <1>1. Inv => ServedUnderLease BY Zenon DEF Inv, CallInv, Gated, ServedUnderLease
  <1> QED BY <1>1, SpecInv, PTL

\* With the staleness gate on, no decision comes from data that was too old all
\* through the call (staleness.go:100-128).
THEOREM DecisionsAreFresh == Spec => []ServedFresh
  <1>1. Inv => ServedFresh BY Zenon DEF Inv, CallInv, Gated, ServedFresh, StalenessOn
  <1> QED BY <1>1, SpecInv, PTL

\* A call that returned has one entry, and the entry tells its outcome
\* (atol.go:422-478).
THEOREM LogIsFaithful == Spec => []LogTellsOutcome
  <1>1. Inv => LogTellsOutcome
    <2> SUFFICES ASSUME Inv, NEW c \in Calls, Returned(c), deployment.controlPlane,
                        call[c].result # NotAsked
                 PROVE  /\ Len(logged[c]) = 1
                        /\ logged[c][1].allowed = call[c].result.allow
                        /\ logged[c][1].rule \in {"policy", "zanzibar.check"} <=> Served(c)
      BY Zenon DEF LogTellsOutcome, Inv, CallInv, Recorded
    <2>1. PICK r : r = call[c].result BY Zenon
    <2>2. Len(logged[c]) = 1 /\ logged[c][1] = Entry(r)
      BY <2>1, Zenon DEF Inv, CallInv, Recorded
    <2>3. r \in Outcomes BY <2>1, CallShape DEF Inv, CallStates
    <2>4. Entry(r).allowed = r.allow BY Zenon DEF Entry
    <2>5. Entry(r).rule \in {"policy", "zanzibar.check"} <=> r.kind = "decision"
      <3>1. Entry(r).rule = IF r.kind = "decision"
                              THEN IF r.rule = 0 THEN "zanzibar.check" ELSE "policy"
                              ELSE r.kind
        BY Zenon DEF Entry
      <3>2. r.kind # "policy" /\ r.kind # "zanzibar.check" BY <2>3 DEF Outcomes
      <3> QED BY <3>1, <3>2, Zenon
    <2> QED BY <2>1, <2>2, <2>4, <2>5, Zenon DEF Served
  <1> QED BY <1>1, SpecInv, PTL

=============================================================================
