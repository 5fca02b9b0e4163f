------------------------------- MODULE Checker -------------------------------
(***************************************************************************)
(* Check, CheckWithContextTuples, ListObjects and ListUsers                *)
(* (zanzibar/check/checker.go, zanzibar/check/list.go): a depth-first      *)
(* search of the relationship graph that reads the store step by step      *)
(* while other goroutines change it.                                       *)
(*                                                                         *)
(* A node is <<object, relation>>: "has the user this relation on this     *)
(* object?".  The user is fixed during a check, so the visited key is the  *)
(* node.  A frame is one activation of check: its node, the rewrite it is  *)
(* at and the nodes that rewrite has still to check.  A check that finds a *)
(* tuple returns true through all its frames.                              *)
(***************************************************************************)
EXTENDS AuthModel, FiniteSets

CONSTANTS
    Objects,         \* objects, users among them
    TypeOf,          \* per object: its type
    Relations,
    Tuples,          \* [object, relation, user, userRelation], "" for no relation
    RawModels,       \* model sources
    Questions,       \* the <<user, node>> an operation may be about
    Contexts,        \* sets of context tuples a check may be given
    MaxChanges,      \* bound on tuple changes during an operation
    MaxListReads,    \* bound on the recursive calls of ListUsers
    MaxDepth         \* bound on the active calls of check, out of a check's reach

Nodes == Objects \X Relations
Frames == [node : Nodes, next : Nat \ {0}, targets : SUBSET Nodes]

\* The rewrites of compiled relations.
Rewrites ==
    [kind : {"direct"}, relation : {""}, lookup : {""}]
        \cup [kind : {"computed"}, relation : Relations, lookup : {""}]
        \cup [kind : {"from"}, relation : Relations, lookup : Relations]

ASSUME CheckerAssumption ==
    /\ "" \notin Relations
    /\ Tuples \subseteq [object : Objects, relation : Relations, user : Objects,
                         userRelation : Relations \cup {""}]
    /\ Questions \subseteq Objects \X Nodes
    /\ Questions # {}
    /\ Contexts \subseteq SUBSET Tuples
    /\ MaxChanges \in Nat
    /\ MaxListReads \in Nat
    /\ MaxDepth \in Nat

\* The sources name relations of the instance.
ASSUME ModelAssumption ==
    \A raw \in RawModels : \A ty \in DOMAIN raw : \A r \in DOMAIN raw[ty] :
       Compile(raw) => rewritesOf(raw[ty][r]) \in Seq(Rewrites)

VARIABLES
    model,    \* the compiled model, which does not change during an operation
    tuples,   \* the store
    op,       \* the operation and how far it is
    user,     \* whom it is about
    context   \* its context tuples

\* The check in progress.
VARIABLES
    root,        \* the node asked for
    answer,      \* "none", "running", "allow", "deny" or "error"
    visited,
    stack,       \* the frames of the active calls of check, innermost last
    directRead   \* the direct rewrite at the top has read and not found the user

\* ListObjects and ListUsers.
VARIABLES
    candidates,  \* objects still to check
    relations,   \* calls of ListUsers still to come, by relation; "" for a rewrite without one
    listReads,   \* calls of ListUsers so far
    listed       \* the result so far: objects, or user keys

\* History: tuples the operation could see all the time, and at some time.
VARIABLES always, ever, changes

search == <<root, answer, visited, stack, directRead>>
listing == <<candidates, relations, listReads, listed>>
vars == <<model, tuples, op, user, context, search, listing, always, ever, changes>>

(***************************************************************************)
(* What the store returns                                                  *)
(***************************************************************************)

\* ContextTupleStore over the tuple store.
View == tuples \cup context

Rules(n) ==
    IF HasRelation(model, TypeOf[n[1]], n[2]) THEN model[TypeOf[n[1]]][n[2]].rewrites ELSE <<>>

On(n, S) == {t \in S : t.object = n[1] /\ t.relation = n[2]}

\* The filter has no user relation, and an empty field matches any.
Holders(n, S) == {t \in On(n, S) : t.user = user}

\* Fault: a userset is taken for a plain user.
TargetsNoUsersets(n, rw, S) ==
    CASE rw.kind = "direct" -> {}
      [] rw.kind = "computed" -> {<<n[1], rw.relation>>}
      [] rw.kind = "from" -> {<<t.user, rw.lookup>> : t \in On(<<n[1], rw.relation>>, S)}

\* The nodes a rewrite leads to: ReadUsersets, the computed relation, or the
\* lookup on every object the 'from' relation leads to.
Targets(n, rw, S) ==
    CASE rw.kind = "direct" ->
           {<<t.user, t.userRelation>> : t \in {x \in On(n, S) : x.userRelation # ""}}
      [] rw.kind = "computed" -> {<<n[1], rw.relation>>}
      [] rw.kind = "from" -> {<<t.user, rw.lookup>> : t \in On(<<n[1], rw.relation>>, S)}

(***************************************************************************)
(* check                                                                   *)
(***************************************************************************)

StartCheck(n) ==
    /\ root' = n
    /\ answer' = "running"
    /\ visited' = {}
    /\ stack' = <<>>
    /\ directRead' = FALSE

Running == answer = "running"
Top == stack[Len(stack)]

\* A call of check that has not looked at any rewrite.
Frame(n) == [node |-> n, next |-> 1, targets |-> {}]

\* The check is about to be called on a node: the root, or a target of the top.
Calls(n) == IF stack = <<>> THEN visited = {} /\ n = root ELSE n \in Top.targets

\* The caller's loop has passed the node.
Called(n) ==
    IF stack = <<>> THEN stack ELSE [stack EXCEPT ![Len(stack)].targets = @ \ {n}]

\* Fault: a visited node is checked again.
EnterRevisits(n) ==
    /\ Running
    /\ Calls(n)
    /\ Len(stack) < MaxDepth
    /\ visited' = visited \cup {n}
    /\ stack' = Append(Called(n), Frame(n))
    /\ UNCHANGED <<model, tuples, op, user, context, root, answer, directRead, listing,
                   always, ever, changes>>

\* A visited node is not checked again; a new one gets a frame.  A check that
\* reached the bound would stay there.
Enter(n) ==
    /\ Running
    /\ Calls(n)
    /\ Len(stack) < MaxDepth
    /\ visited' = visited \cup {n}
    /\ stack' = IF n \in visited THEN Called(n) ELSE Append(Called(n), Frame(n))
    /\ UNCHANGED <<model, tuples, op, user, context, root, answer, directRead, listing,
                   always, ever, changes>>

\* The context is done when check looks at it.
Cancelled ==
    /\ Running
    /\ \E n \in Nodes : Calls(n)
    /\ answer' = "error"
    /\ UNCHANGED <<model, tuples, op, user, context, root, visited, stack, directRead,
                   listing, always, ever, changes>>

\* The rewrite the innermost call is at.
Rewrite == Rules(Top.node)[Top.next]

At(kind) ==
    /\ Running
    /\ stack # <<>>
    /\ Top.targets = {}
    /\ Top.next <= Len(Rules(Top.node))
    /\ Rewrite.kind = kind

\* Fault: any tuple of the object and relation will do.
directCheckAnyUser ==
    /\ At("direct")
    /\ ~directRead
    /\ IF On(Top.node, View) # {} THEN answer' = "allow" /\ UNCHANGED directRead
                                  ELSE directRead' = TRUE /\ UNCHANGED answer
    /\ UNCHANGED <<model, tuples, op, user, context, root, visited, stack, listing, always, ever,
                   changes>>

directCheck ==
    /\ At("direct")
    /\ ~directRead
    /\ IF Holders(Top.node, View) # {} THEN answer' = "allow" /\ UNCHANGED directRead
                                       ELSE directRead' = TRUE /\ UNCHANGED answer
    /\ UNCHANGED <<model, tuples, op, user, context, root, visited, stack, listing, always, ever,
                   changes>>

\* Takes the targets of the current rewrite and moves past it.
Expand ==
    /\ stack' = [stack EXCEPT ![Len(stack)] =
                    [node |-> Top.node, next |-> Top.next + 1,
                     targets |-> Targets(Top.node, Rewrite, View)]]
    /\ directRead' = FALSE
    /\ UNCHANGED <<model, tuples, op, user, context, root, answer, visited, listing, always, ever,
                   changes>>

usersetExpansion == At("direct") /\ directRead /\ Expand
computedUserset == At("computed") /\ Expand
tupleToUserset == At("from") /\ Expand

\* A read returns an error.
ReadFails ==
    /\ At("direct") \/ At("from")
    /\ answer' = "error"
    /\ UNCHANGED <<model, tuples, op, user, context, root, visited, stack, directRead,
                   listing, always, ever, changes>>

\* No rewrite is left: false, to the caller of check or to the call below.
ReturnFalse ==
    /\ Running
    /\ stack # <<>>
    /\ Top.targets = {}
    /\ Top.next > Len(Rules(Top.node))
    /\ stack' = SubSeq(stack, 1, Len(stack) - 1)
    /\ answer' = IF Len(stack) = 1 THEN "deny" ELSE "running"
    /\ UNCHANGED <<model, tuples, op, user, context, root, visited, directRead, listing,
                   always, ever, changes>>

(***************************************************************************)
(* The operations                                                          *)
(***************************************************************************)

Begin(name, u, ctx) ==
    /\ op = "idle"
    /\ op' = name
    /\ user' = u
    /\ context' = ctx
    /\ always' = tuples \cup ctx
    /\ ever' = tuples \cup ctx

\* Check, and CheckWithContextTuples with context tuples.
Check(u, n, ctx) ==
    /\ Begin("check", u, ctx)
    /\ StartCheck(n)
    /\ UNCHANGED <<model, tuples, listing, changes>>

\* ListObjects of the root's type and relation.
ListObjects(u, n) ==
    /\ Begin("scan", u, {})
    /\ root' = n
    /\ UNCHANGED <<model, tuples, answer, visited, stack, directRead, listing,
                   changes>>

OfType(o) == {p \in Objects : TypeOf[p] = TypeOf[o]}

\* Fault: only objects with a tuple of the relation itself are candidates.
ScanRelation ==
    /\ op = "scan"
    /\ candidates' = {o \in OfType(root[1]) : \E t \in tuples : t.object = o /\ t.relation = root[2]}
    /\ op' = "objects"
    /\ UNCHANGED <<model, tuples, user, context, search, relations, listReads, listed, always, ever,
                   changes>>

\* The objects of the type that have any tuple.
Scan ==
    /\ op = "scan"
    /\ candidates' = {o \in OfType(root[1]) : \E t \in tuples : t.object = o}
    /\ op' = "objects"
    /\ UNCHANGED <<model, tuples, user, context, search, relations, listReads, listed, always, ever,
                   changes>>

CheckCandidate(o) ==
    /\ op = "objects"
    /\ answer = "none"
    /\ o \in candidates
    /\ candidates' = candidates \ {o}
    /\ StartCheck(<<o, root[2]>>)
    /\ UNCHANGED <<model, tuples, op, user, context, relations, listReads, listed, always, ever,
                   changes>>

Collect ==
    /\ op = "objects"
    /\ answer \in {"allow", "deny"}
    /\ listed' = IF answer = "allow" THEN listed \cup {root[1]} ELSE listed
    /\ answer' = "none"
    /\ UNCHANGED <<model, tuples, op, user, context, root, visited, stack, directRead,
                   candidates, relations, listReads, always, ever, changes>>

ListedObjects ==
    /\ op = "objects"
    /\ answer = "none"
    /\ candidates = {}
    /\ op' = "objects done"
    /\ UNCHANGED <<model, tuples, user, context, search, listing, always, ever, changes>>

\* ListUsers of the root.
ListUsers(u, n) ==
    /\ Begin("users", u, {})
    /\ root' = n
    /\ relations' = <<n[2]>>
    /\ UNCHANGED <<model, tuples, answer, visited, stack, directRead, candidates,
                   listReads, listed, changes>>

UserKeys(n, S) == {<<t.user, t.userRelation>> : t \in On(n, S)}

\* The loop over the rewrites of the object's relation r: the relations it is
\* computed from, "" for a rewrite of another kind.
ComputedFrom(r) ==
    LET rules == Rules(<<root[1], r>>)
    IN  [i \in 1..Len(rules) |-> IF rules[i].kind = "computed" THEN rules[i].relation ELSE ""]

\* Fault: only the relation itself is read.
ReadUsersDirect ==
    /\ op = "users"
    /\ relations # <<>> /\ Head(relations) # ""
    /\ listReads < MaxListReads
    /\ listed' = listed \cup UserKeys(<<root[1], Head(relations)>>, tuples)
    /\ relations' = Tail(relations)
    /\ listReads' = listReads + 1
    /\ UNCHANGED <<model, tuples, op, user, context, search, candidates, always, ever, changes>>

\* One call: reads its relation, and calls itself for the computed ones.  There is
\* no visited set: a relation computed from itself is read until the bound.
ReadUsers ==
    /\ op = "users"
    /\ relations # <<>> /\ Head(relations) # ""
    /\ listReads < MaxListReads
    /\ listed' = listed \cup UserKeys(<<root[1], Head(relations)>>, tuples)
    /\ relations' = ComputedFrom(Head(relations)) \o Tail(relations)
    /\ listReads' = listReads + 1
    /\ UNCHANGED <<model, tuples, op, user, context, search, candidates, always, ever, changes>>

SkipRewrite ==
    /\ op = "users"
    /\ relations # <<>> /\ Head(relations) = ""
    /\ relations' = Tail(relations)
    /\ UNCHANGED <<model, tuples, op, user, context, search, candidates, listReads, listed, always,
                   ever, changes>>

ListedUsers ==
    /\ op = "users"
    /\ relations = <<>>
    /\ op' = "users done"
    /\ UNCHANGED <<model, tuples, user, context, search, listing, always, ever, changes>>

\* The scan or a check fails, or the context is done between two checks.
ListFails ==
    /\ op \in {"scan", "objects", "users"}
    /\ op = "objects" => answer \in {"error", "none"}
    /\ op' = "failed"
    /\ UNCHANGED <<model, tuples, user, context, search, listing, always, ever, changes>>

(***************************************************************************)
(* Another goroutine changes the store between two reads                   *)
(***************************************************************************)

InProgress == Running \/ op \in {"scan", "objects", "users"}

\* Validated writes and raw ones; changes before the operation begins are other
\* initial states.
ChangeTuples(new) ==
    /\ InProgress
    /\ changes < MaxChanges
    /\ changes' = changes + 1
    /\ tuples' = new
    /\ always' = always \cap (new \cup context)
    /\ ever' = ever \cup new
    /\ UNCHANGED <<model, op, user, context, search, listing>>

(***************************************************************************)
(* Specification                                                           *)
(***************************************************************************)

Init ==
    /\ model \in {Compiled(raw) : raw \in {r \in RawModels : Compile(r)}}
    /\ tuples \in SUBSET Tuples
    /\ op = "idle"
    /\ \E q \in {CHOOSE q \in Questions : TRUE} : user = q[1] /\ root = q[2]
    /\ context = {}
    /\ answer = "none"
    /\ visited = {}
    /\ stack = <<>>
    /\ directRead = FALSE
    /\ candidates = {}
    /\ relations = <<>>
    /\ listReads = 0
    /\ listed = {}
    /\ always = tuples
    /\ ever = tuples
    /\ changes = 0

CheckProgress ==
    \/ \E n \in Nodes : Enter(n)
    \/ directCheck
    \/ usersetExpansion
    \/ computedUserset
    \/ tupleToUserset
    \/ ReturnFalse

CheckStep == CheckProgress \/ Cancelled \/ ReadFails

ListStep ==
    \/ Scan
    \/ \E o \in Objects : CheckCandidate(o)
    \/ Collect
    \/ ListedObjects
    \/ ReadUsers
    \/ SkipRewrite
    \/ ListedUsers
    \/ ListFails

Next ==
    \/ \E q \in Questions :
          \/ \E ctx \in Contexts : Check(q[1], q[2], ctx)
          \/ ListObjects(q[1], q[2])
          \/ ListUsers(q[1], q[2])
    \/ CheckStep
    \/ ListStep
    \/ \E t \in Tuples : \/ t \notin tuples /\ ChangeTuples(tuples \cup {t})
                         \/ t \in tuples /\ ChangeTuples(tuples \ {t})

Spec == Init /\ [][Next]_vars

\* The goroutine of the operation runs, and the store answers.  Nothing makes the
\* context end or a read fail.
FairSpec == Spec /\ WF_vars(CheckProgress) /\ WF_vars(ListStep)

(***************************************************************************)
(* The reference: the least set of nodes closed under the rewrites         *)
(***************************************************************************)

Defined == {n \in Nodes : Rules(n) # <<>>}

\* By the tuples T a rewrite grants the node: the user holds it, or a node of S is
\* one that a userset, a computed relation or a lookup refers to.
Granted(n, S, T) ==
    \E i \in 1..Len(Rules(n)) :
       LET rw == Rules(n)[i] IN
       \/ /\ rw.kind = "direct"
          /\ \E t \in T : /\ t.object = n[1] /\ t.relation = n[2]
                          /\ t.user = user \/ <<t.user, t.userRelation>> \in S
       \/ /\ rw.kind = "computed"
          /\ <<n[1], rw.relation>> \in S
       \/ /\ rw.kind = "from"
          /\ \E t \in T : /\ t.object = n[1] /\ t.relation = rw.relation
                          /\ <<t.user, rw.lookup>> \in S

Closed(S, T) == \A n \in Defined \ S : ~Granted(n, S, T)

\* The user has the relation on the object by the tuples T.
Derivable(n, T) == \A S \in SUBSET Defined : n \notin S => ~Closed(S, T)

(***************************************************************************)
(* Properties                                                              *)
(***************************************************************************)

\* Every variable has its shape.
TypeOK ==
    /\ tuples \in SUBSET Tuples
    /\ op \in {"idle", "check", "scan", "objects", "objects done", "users", "users done", "failed"}
    /\ user \in Objects
    /\ context \in SUBSET Tuples
    /\ root \in Nodes
    /\ answer \in {"none", "running", "allow", "deny", "error"}
    /\ visited \in SUBSET Nodes
    /\ stack \in Seq(Frames)
    /\ directRead \in BOOLEAN
    /\ candidates \in SUBSET Objects
    /\ relations \in Seq(Relations \cup {""})
    /\ listReads \in Nat
    /\ always \in SUBSET Tuples
    /\ ever \in SUBSET Tuples
    /\ changes \in Nat

\* An allow can be derived from tuples that were there at some time during the
\* check, however the store changed under it (checker.go:41-111).
CheckIsSound == answer = "allow" => Derivable(root, ever)

\* A deny is right about every tuple that was there all the time: neither the
\* visited set, which answers false for a node that is still being checked, nor a
\* concurrent change hides a path (checker.go:47-50).
CheckIsComplete == answer = "deny" => ~Derivable(root, always)

\* No cycle of tuples or rewrites makes the recursion deeper than there are nodes
\* (checker.go:46-50).
DepthBounded == \A i, j \in 1..Len(stack) : stack[i].node = stack[j].node => i = j

\* ListObjects returns every object that could be derived all the time and none
\* that never could, although it considers only objects that have a tuple of
\* their own (list.go:11-51).
ListObjectsExact ==
    op = "objects done" =>
       \A o \in OfType(root[1]) :
          /\ o \in listed => Derivable(<<o, root[2]>>, ever)
          /\ Derivable(<<o, root[2]>>, always) => o \in listed

\* The relations that root's relation is computed from, itself included.
ComputedClosure ==
    {r \in Relations :
       \A S \in SUBSET Relations :
          /\ root[2] \in S
          /\ \A s \in S : \A i \in 1..Len(ComputedFrom(s)) : ComputedFrom(s)[i] \in S \cup {""}
          => r \in S}

\* Where ListUsers returns, it has the holders of the relation and of every
\* relation it is computed from (list.go:53-103).
ListUsersComplete ==
    op = "users done" =>
       /\ \A r \in ComputedClosure : UserKeys(<<root[1], r>>, always) \subseteq listed
       /\ listed \subseteq UNION {UserKeys(<<root[1], r>>, ever) : r \in ComputedClosure}

\* Every check ends, whatever cycles the tuples and the model have: a call for a
\* node that was visited returns at once (checker.go:46-51).
CheckEnds == (answer = "running") ~> (answer # "running")
=============================================================================
