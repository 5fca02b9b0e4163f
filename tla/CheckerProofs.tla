---------------------------- MODULE CheckerProofs ----------------------------
(***************************************************************************)
(* Proofs about Checker, for every model, every set of tuples and every    *)
(* interleaving with writers.                                              *)
(*                                                                         *)
(* The search explores the graph as it changes.  Soundness follows a       *)
(* granted node back to the root through edges that were there at some     *)
(* time; completeness shows that the nodes a finished search did not visit *)
(* are closed under the rewrites and the tuples that stayed.               *)
(***************************************************************************)
EXTENDS Checker, TLAPS

\* The nodes of the active calls.
StackNodes == {stack[j].node : j \in 1..Len(stack)}

\* By the tuples T the i-th rewrite of a node grants nothing but what V covers.
RuleDone(n, i, T, V) ==
    /\ Rules(n)[i].kind = "direct" => Holders(n, T) = {}
    /\ Targets(n, Rules(n)[i], T) \subseteq V

\* The rewrites behind an active call's position are done, and a node whose call
\* has returned has none in front of it: they lead to nodes that were visited or
\* are to be.
Explored ==
    /\ \A j \in 1..Len(stack) :
          /\ stack[j].next <= Len(Rules(stack[j].node)) + 1
          /\ \A i \in 1..(stack[j].next - 1) :
                RuleDone(stack[j].node, i, always, visited \cup stack[j].targets)
    /\ \A n \in visited \ StackNodes : \A i \in 1..Len(Rules(n)) : RuleDone(n, i, always, visited)
    /\ visited # {} => root \in visited

\* The direct rewrite at the top has missed the user in what stayed.
DirectMissed ==
    directRead =>
       /\ stack # <<>>
       /\ Top.targets = {}
       /\ Top.next <= Len(Rules(Top.node))
       /\ Rules(Top.node)[Top.next].kind = "direct"
       /\ Holders(Top.node, always) = {}

\* In a set that is closed under all that was ever there, a visited node leads to
\* the root and a target to its caller's node.
LeadsToRoot ==
    \A S \in SUBSET Defined : Closed(S, ever) =>
       /\ \A n \in visited : n \in S => root \in S
       /\ \A j \in 1..Len(stack) : \A m \in stack[j].targets : m \in S => stack[j].node \in S

Search == Running => Explored /\ DirectMissed /\ LeadsToRoot

\* The part of TypeOK the search needs.
SearchTypes ==
    /\ tuples \in SUBSET Tuples
    /\ user \in Objects
    /\ context \in SUBSET Tuples
    /\ root \in Nodes
    /\ answer \in {"none", "running", "allow", "deny", "error"}
    /\ visited \in SUBSET Nodes
    /\ stack \in Seq(Frames)
    /\ \A j \in 1..Len(stack) : stack[j].node \in visited
    /\ directRead \in BOOLEAN
    /\ candidates \in SUBSET Objects

ModelOK == \A n \in Nodes : Rules(n) \in Seq(Rewrites)

Seen == always \subseteq View /\ View \subseteq ever

Quiet == op \in {"idle", "scan", "users"} => answer = "none"

IInv ==
    /\ SearchTypes
    /\ ModelOK
    /\ Seen
    /\ Quiet
    /\ DepthBounded
    /\ Search
    /\ CheckIsSound
    /\ CheckIsComplete

(***************************************************************************)
(* The reference is monotone                                               *)
(***************************************************************************)

LEMMA GrantedMonotone ==
    ASSUME NEW n, NEW S, NEW T, NEW U, T \subseteq U, Granted(n, S, T)
    PROVE  Granted(n, S, U)
BY Zenon DEF Granted

LEMMA ClosedAntitone ==
    ASSUME NEW S, NEW T, NEW U, T \subseteq U, Closed(S, U)
    PROVE  Closed(S, T)
BY GrantedMonotone, Zenon DEF Closed

LEMMA DerivableMonotone ==
    ASSUME NEW n, NEW T, NEW U, T \subseteq U, Derivable(n, T)
    PROVE  Derivable(n, U)
BY ClosedAntitone, Zenon DEF Derivable

\* While the model and the user stay, so does the reference.
LEMMA ReferenceKept ==
    ASSUME model' = model, user' = user
    PROVE  /\ \A n : Rules(n)' = Rules(n)
           /\ Defined' = Defined
           /\ \A n, S, T : Granted(n, S, T)' <=> Granted(n, S, T)
           /\ \A S, T : Closed(S, T)' <=> Closed(S, T)
           /\ \A n, T : Derivable(n, T)' <=> Derivable(n, T)
           /\ \A n, i, T, V : RuleDone(n, i, T, V)' <=> RuleDone(n, i, T, V)
<1>1. \A n : Rules(n)' = Rules(n)
  BY Zenon DEF Rules, HasRelation
<1>2. Defined' = Defined
  BY <1>1, Zenon DEF Defined
<1>3. ASSUME NEW n, NEW S, NEW T
      PROVE  Granted(n, S, T)' <=> Granted(n, S, T)
  <2>1. Rules(n)' = Rules(n) BY <1>1, Zenon
  <2> QED BY <2>1, Zenon DEF Granted
<1>4. \A S, T : Closed(S, T)' <=> Closed(S, T)
  BY <1>2, <1>3, Zenon DEF Closed
<1>5. \A n, T : Derivable(n, T)' <=> Derivable(n, T)
  BY <1>2, <1>4, Zenon DEF Derivable
<1>6. ASSUME NEW n, NEW i, NEW T, NEW V
      PROVE  RuleDone(n, i, T, V)' <=> RuleDone(n, i, T, V)
  <2>1. Rules(n)' = Rules(n) /\ Holders(n, T)' = Holders(n, T)
    BY <1>1, Zenon DEF Holders, On
  <2>2. Targets(n, Rules(n)[i], T)' = Targets(n, Rules(n)[i], T)
    BY <2>1, Zenon DEF Targets, On
  <2> QED BY <2>1, <2>2, Zenon DEF RuleDone
<1> QED BY <1>1, <1>2, <1>3, <1>4, <1>5, <1>6, Zenon

(***************************************************************************)
(* One action after another                                                *)
(***************************************************************************)

LEMMA TopVisited ==
    ASSUME SearchTypes, stack # <<>>
    PROVE  /\ Len(stack) \in Nat \ {0} /\ Len(stack) \in 1..Len(stack)
           /\ Top \in Frames /\ Top = stack[Len(stack)]
           /\ Top.node \in visited /\ Top.node \in Nodes /\ Top.node \in StackNodes
           /\ Top.next \in Nat \ {0} /\ Top.targets \in SUBSET Nodes
<1>1. stack \in Seq(Frames) BY Zenon DEF SearchTypes
<1>2. Len(stack) \in Nat \ {0} /\ Len(stack) \in 1..Len(stack) /\ Top \in Frames
  BY <1>1 DEF Top
<1>3. Top.node \in Nodes /\ Top.next \in Nat \ {0} /\ Top.targets \in SUBSET Nodes
  BY <1>2, Zenon DEF Frames
<1>4. Top.node \in visited /\ Top.node \in StackNodes
  BY <1>2, Zenon DEF SearchTypes, Top, StackNodes
<1> QED BY <1>2, <1>3, <1>4, Zenon DEF Top

\* Every frame has a node, a position and targets.
LEMMA FrameTypes ==
    ASSUME SearchTypes, NEW j \in 1..Len(stack)
    PROVE  /\ stack[j].node \in visited /\ stack[j].node \in Nodes
           /\ stack[j].next \in Nat \ {0} /\ stack[j].targets \in SUBSET Nodes
<1>1. stack[j] \in Frames
  BY DEF SearchTypes
<1> QED BY <1>1, Zenon DEF SearchTypes, Frames

\* A changed innermost frame leaves the others alone.
LEMMA ReplaceTop ==
    ASSUME NEW s \in Seq(Frames), s # <<>>, NEW f \in Frames
    PROVE  /\ [s EXCEPT ![Len(s)] = f] \in Seq(Frames)
           /\ Len([s EXCEPT ![Len(s)] = f]) = Len(s)
           /\ [s EXCEPT ![Len(s)] = f][Len(s)] = f
           /\ \A j \in 1..Len(s) : j # Len(s) => [s EXCEPT ![Len(s)] = f][j] = s[j]
OBVIOUS

LEMMA TargetsAreNodes ==
    ASSUME ModelOK, NEW n \in Nodes, NEW i \in 1..Len(Rules(n)), NEW S \in SUBSET Tuples
    PROVE  Targets(n, Rules(n)[i], S) \in SUBSET Nodes
<1>1. Rules(n)[i] \in Rewrites
  BY DEF ModelOK
<1> DEFINE rw == Rules(n)[i]
<1>2. \A t \in Tuples : t.user \in Objects /\ (t.userRelation # "" => t.userRelation \in Relations)
  BY CheckerAssumption, Zenon
<1>3. n[1] \in Objects
  BY Zenon DEF Nodes
<1>4. CASE rw.kind = "direct"
  <2>1. Targets(n, rw, S) = {<<t.user, t.userRelation>> : t \in {x \in On(n, S) : x.userRelation # ""}}
    BY <1>4, Zenon DEF Targets
  <2>2. \A t \in {x \in On(n, S) : x.userRelation # ""} : <<t.user, t.userRelation>> \in Nodes
    BY <1>2, Zenon DEF On, Nodes
  <2> HIDE DEF rw
  <2>3. Targets(n, rw, S) \in SUBSET Nodes
    BY <2>1, <2>2, Zenon
  <2> QED BY <2>3, Zenon DEF rw
<1>5. CASE rw.kind = "computed"
  <2>1. Targets(n, rw, S) = {<<n[1], rw.relation>>}
    BY <1>5, Zenon DEF Targets
  <2>2. rw.relation \in Relations
    BY <1>1, <1>5, Zenon DEF Rewrites
  <2> HIDE DEF rw
  <2>3. Targets(n, rw, S) \in SUBSET Nodes
    BY <2>1, <2>2, <1>3 DEF Nodes
  <2> QED BY <2>3, Zenon DEF rw
<1>6. CASE rw.kind = "from"
  <2>1. Targets(n, rw, S) = {<<t.user, rw.lookup>> : t \in On(<<n[1], rw.relation>>, S)}
    BY <1>6, Zenon DEF Targets
  <2>2. rw.lookup \in Relations
    BY <1>1, <1>6, Zenon DEF Rewrites
  <2> HIDE DEF rw
  <2>3. \A t \in On(<<n[1], rw.relation>>, S) : <<t.user, rw.lookup>> \in Nodes
    BY <1>2, <2>2, Zenon DEF On, Nodes
  <2>4. Targets(n, rw, S) \in SUBSET Nodes
    BY <2>1, <2>3, Zenon
  <2> QED BY <2>4, Zenon DEF rw
<1> QED BY <1>1, <1>4, <1>5, <1>6, Zenon DEF Rewrites

\* What a rewrite leads to grants it.
LEMMA TargetGrants ==
    ASSUME ModelOK, NEW n \in Nodes, NEW i \in 1..Len(Rules(n)), NEW T, NEW S,
           NEW m \in Targets(n, Rules(n)[i], T), m \in S
    PROVE  Granted(n, S, T)
<1>1. Rules(n)[i] \in Rewrites
  BY DEF ModelOK
<1> DEFINE rw == Rules(n)[i]
<1>2. CASE rw.kind = "direct"
  <2>1. m \in {<<t.user, t.userRelation>> : t \in {x \in On(n, T) : x.userRelation # ""}}
    BY <1>2, Zenon DEF Targets
  <2>2. \E t \in T : t.object = n[1] /\ t.relation = n[2] /\ m = <<t.user, t.userRelation>>
    BY <2>1, Zenon DEF On
  <2> QED BY <1>2, <2>2, Zenon DEF Granted
<1>3. CASE rw.kind = "computed"
  <2>1. m = <<n[1], rw.relation>>
    BY <1>3, Zenon DEF Targets
  <2> QED BY <1>3, <2>1, Zenon DEF Granted
<1>4. CASE rw.kind = "from"
  <2>1. m \in {<<t.user, rw.lookup>> : t \in On(<<n[1], rw.relation>>, T)}
    BY <1>4, Zenon DEF Targets
  <2>2. \E t \in T : t.object = n[1] /\ t.relation = rw.relation /\ m = <<t.user, rw.lookup>>
    BY <2>1, Zenon DEF On
  <2> QED BY <1>4, <2>2, Zenon DEF Granted
<1> QED BY <1>1, <1>2, <1>3, <1>4, Zenon DEF Rewrites

LEMMA HolderGrants ==
    ASSUME NEW n, NEW i \in 1..Len(Rules(n)), NEW T, NEW S, Rules(n)[i].kind = "direct",
           Holders(n, T) # {}
    PROVE  Granted(n, S, T)
BY Zenon DEF Granted, Holders, On

\* Fewer tuples, fewer holders and targets.
LEMMA ReadsMonotone ==
    ASSUME NEW n, NEW rw \in Rewrites, NEW T, NEW U, T \subseteq U
    PROVE  Holders(n, T) \subseteq Holders(n, U) /\ Targets(n, rw, T) \subseteq Targets(n, rw, U)
<1>1. \A m : On(m, T) \subseteq On(m, U)
  BY Zenon DEF On
<1>2. Holders(n, T) \subseteq Holders(n, U)
  BY <1>1, Zenon DEF Holders
<1>3. CASE rw.kind = "direct"
  <2>1. /\ Targets(n, rw, T) =
                {<<t.user, t.userRelation>> : t \in {x \in On(n, T) : x.userRelation # ""}}
        /\ Targets(n, rw, U) =
                {<<t.user, t.userRelation>> : t \in {x \in On(n, U) : x.userRelation # ""}}
    BY <1>3, Zenon DEF Targets
  <2>2. SUFFICES ASSUME NEW m \in Targets(n, rw, T)
                 PROVE  m \in Targets(n, rw, U)
    BY <1>2, Zenon
  <2>3. PICK t \in On(n, T) : t.userRelation # "" /\ m = <<t.user, t.userRelation>>
    BY <2>1, Zenon
  <2>4. t \in On(n, U)
    BY <1>1, Zenon
  <2> QED BY <2>1, <2>3, <2>4, Zenon
<1>4. CASE rw.kind = "computed"
  <2>1. \A V : Targets(n, rw, V) = {<<n[1], rw.relation>>}
    BY <1>4, Zenon DEF Targets
  <2> QED BY <1>2, <2>1, Zenon
<1>5. CASE rw.kind = "from"
  <2>1. \A V : Targets(n, rw, V) = {<<t.user, rw.lookup>> : t \in On(<<n[1], rw.relation>>, V)}
    BY <1>5, Zenon DEF Targets
  <2>2. Targets(n, rw, T) \subseteq Targets(n, rw, U)
    BY <1>1, <2>1
  <2> QED BY <1>2, <2>2, Zenon
<1> QED BY <1>3, <1>4, <1>5, Zenon DEF Rewrites

LEMMA RuleStaysDone ==
    ASSUME ModelOK, NEW n \in Nodes, NEW i \in 1..Len(Rules(n)), NEW T, NEW U, T \subseteq U,
           NEW V, NEW W, V \subseteq W, RuleDone(n, i, U, V)
    PROVE  RuleDone(n, i, T, W)
<1>1. Rules(n)[i] \in Rewrites
  BY DEF ModelOK
<1>2. /\ Holders(n, T) \subseteq Holders(n, U)
      /\ Targets(n, Rules(n)[i], T) \subseteq Targets(n, Rules(n)[i], U)
  BY <1>1, ReadsMonotone, Zenon
<1> QED BY <1>2, Zenon DEF RuleDone

\* The rewrites behind an active call's position exist.
LEMMA BehindExists ==
    ASSUME SearchTypes, ModelOK, Explored, NEW j \in 1..Len(stack), NEW i \in 1..(stack[j].next - 1)
    PROVE  /\ stack[j].node \in Nodes /\ i \in 1..Len(Rules(stack[j].node))
           /\ RuleDone(stack[j].node, i, always, visited \cup stack[j].targets)
<1>1. stack[j].node \in Nodes /\ stack[j].next \in Nat \ {0}
  BY FrameTypes, Zenon
<1>2. /\ stack[j].next <= Len(Rules(stack[j].node)) + 1
      /\ RuleDone(stack[j].node, i, always, visited \cup stack[j].targets)
  BY Zenon DEF Explored
<1>3. Rules(stack[j].node) \in Seq(Rewrites)
  BY <1>1, Zenon DEF ModelOK
<1>4. i \in 1..Len(Rules(stack[j].node))
  BY <1>1, <1>2, <1>3
<1> QED BY <1>1, <1>2, <1>4, Zenon

\* Where every visited node is done, the others are a closed set: the root cannot
\* be derived from what stayed.
LEMMA NotDerivable ==
    ASSUME root \in visited,
           \A n \in visited : \A i \in 1..Len(Rules(n)) : RuleDone(n, i, always, visited)
    PROVE  ~Derivable(root, always)
<1> DEFINE S == Defined \ visited
<1>1. root \notin S
  BY Zenon
<1>2. ASSUME NEW n \in Defined \ S, Granted(n, S, always)
      PROVE  FALSE
  <2>1. n \in visited /\ n \in Nodes
    BY <1>2, Zenon DEF Defined
  <2>3. \A i \in 1..Len(Rules(n)) : RuleDone(n, i, always, visited)
    BY <2>1, Zenon
  <2>4. \A i \in 1..Len(Rules(n)) : Targets(n, Rules(n)[i], always) \cap S = {}
    BY <2>3, Zenon DEF RuleDone
  <2>5. S \subseteq Nodes
    BY Zenon DEF Defined
  <2>6. PICK i \in 1..Len(Rules(n)) :
          LET rw == Rules(n)[i] IN
          \/ /\ rw.kind = "direct"
             /\ \E t \in always : /\ t.object = n[1] /\ t.relation = n[2]
                                  /\ t.user = user \/ <<t.user, t.userRelation>> \in S
          \/ /\ rw.kind = "computed"
             /\ <<n[1], rw.relation>> \in S
          \/ /\ rw.kind = "from"
             /\ \E t \in always : /\ t.object = n[1] /\ t.relation = rw.relation
                                  /\ <<t.user, rw.lookup>> \in S
    BY <1>2, Zenon DEF Granted
  <2> DEFINE rw == Rules(n)[i]
  <2> HIDE DEF S
  <2>7. CASE rw.kind = "direct"
    <3>1. PICK t \in always : /\ t.object = n[1] /\ t.relation = n[2]
                              /\ t.user = user \/ <<t.user, t.userRelation>> \in S
      BY <2>6, <2>7, Zenon
    <3>2. t.user # user
      BY <2>3, <2>7, <3>1, Zenon DEF RuleDone, Holders, On
    <3>3. <<t.user, t.userRelation>> \in S /\ t.userRelation # ""
      BY <2>5, <3>1, <3>2, CheckerAssumption, Zenon DEF Nodes
    <3>4. <<t.user, t.userRelation>> \in Targets(n, rw, always)
      BY <2>7, <3>1, <3>3, Zenon DEF Targets, On
    <3> QED BY <2>4, <3>3, <3>4, Zenon
  <2>8. CASE rw.kind = "computed"
    BY <2>4, <2>6, <2>8, Zenon DEF Targets
  <2>9. CASE rw.kind = "from"
    <3>1. PICK t \in always : /\ t.object = n[1] /\ t.relation = rw.relation
                              /\ <<t.user, rw.lookup>> \in S
      BY <2>6, <2>9, Zenon
    <3>2. <<t.user, rw.lookup>> \in Targets(n, rw, always)
      BY <2>9, <3>1, Zenon DEF Targets, On
    <3> QED BY <2>4, <3>1, <3>2, Zenon
  <2> QED BY <2>6, <2>7, <2>8, <2>9, Zenon
<1>3. Closed(S, always)
  BY <1>2, Zenon DEF Closed
<1> QED BY <1>1, <1>3, Zenon DEF Derivable
\* Steps that leave the search alone and forget at most tuples that stayed.
LEMMA SearchKept ==
    ASSUME IInv, UNCHANGED <<model, user, context, search>>, candidates' \in SUBSET Objects,
           tuples' \in SUBSET Tuples, always' \subseteq always, ever \subseteq ever',
           Seen', Quiet'
    PROVE  IInv'
<1>1. SearchTypes'
  BY Zenon DEF IInv, SearchTypes, search
<1>2. ModelOK' /\ DepthBounded'
  BY ReferenceKept, Zenon DEF IInv, ModelOK, DepthBounded, search
<1>3. CheckIsSound'
  <2> SUFFICES ASSUME answer' = "allow" PROVE Derivable(root, ever)'
    BY Zenon DEF CheckIsSound
  <2>1. Derivable(root, ever)
    BY Zenon DEF IInv, CheckIsSound, search
  <2>2. Derivable(root, ever')
    BY <2>1, DerivableMonotone, Zenon
  <2> QED BY <2>2, ReferenceKept, Zenon DEF search
<1>4. CheckIsComplete'
  <2> SUFFICES ASSUME answer' = "deny", Derivable(root, always)' PROVE FALSE
    BY Zenon DEF CheckIsComplete
  <2>1. Derivable(root, always')
    BY ReferenceKept, Zenon DEF search
  <2>2. Derivable(root, always)
    BY <2>1, DerivableMonotone, Zenon
  <2> QED BY <2>2, Zenon DEF IInv, CheckIsComplete, search
<1>5. Search'
  <2> SUFFICES ASSUME Running PROVE Explored' /\ DirectMissed' /\ LeadsToRoot'
    BY Zenon DEF Search, Running, search
  <2> USE DEF search
  <2>1. Explored /\ DirectMissed /\ LeadsToRoot
    BY Zenon DEF IInv, Search
  <2>2. SearchTypes /\ ModelOK
    BY Zenon DEF IInv
  <2>3. Explored'
    <3>1. ASSUME NEW j \in 1..Len(stack), NEW i \in 1..(stack[j].next - 1)
          PROVE  RuleDone(stack[j].node, i, always', visited \cup stack[j].targets)
      <4>1. /\ stack[j].node \in Nodes /\ i \in 1..Len(Rules(stack[j].node))
            /\ RuleDone(stack[j].node, i, always, visited \cup stack[j].targets)
        BY <2>1, <2>2, BehindExists, Zenon
      <4> DEFINE m == stack[j].node
                 V == visited \cup stack[j].targets
      <4>2. V \subseteq V
        BY Zenon
      <4>3. m \in Nodes /\ i \in 1..Len(Rules(m)) /\ RuleDone(m, i, always, V)
        BY <4>1, Zenon
      <4> HIDE DEF m, V
      <4>4. RuleDone(m, i, always', V)
        BY <2>2, <4>2, <4>3, RuleStaysDone, Zenon
      <4> QED BY <4>4, Zenon DEF m, V
    <3>2. ASSUME NEW n \in visited \ StackNodes, NEW i \in 1..Len(Rules(n))
          PROVE  RuleDone(n, i, always', visited)
      <4>1. n \in Nodes /\ RuleDone(n, i, always, visited)
        BY <2>1, <2>2, Zenon DEF SearchTypes, Explored
      <4> QED BY <2>2, <4>1, RuleStaysDone, Zenon
    <3>3. \A j \in 1..Len(stack) : stack[j].next <= Len(Rules(stack[j].node)) + 1
      BY <2>1, Zenon DEF Explored
    <3> QED BY <2>1, <3>1, <3>2, <3>3, ReferenceKept, Zenon DEF Explored, StackNodes
  <2>4. DirectMissed'
    <3> SUFFICES ASSUME directRead PROVE DirectMissed'
      BY Zenon DEF DirectMissed
    <3>1. Holders(Top.node, always') = {}
      <4>1. Holders(Top.node, always') \subseteq Holders(Top.node, always)
        BY Zenon DEF Holders, On
      <4> QED BY <2>1, <4>1, Zenon DEF DirectMissed
    <3>2. Holders(Top.node, always)' = {}
      BY <3>1, Zenon DEF Holders, On, Top
    <3> QED BY <2>1, <3>2, ReferenceKept, Zenon DEF DirectMissed, Top
  <2>5. LeadsToRoot'
    <3> SUFFICES ASSUME NEW S \in SUBSET Defined, Closed(S, ever')
                 PROVE  /\ \A n \in visited : n \in S => root \in S
                        /\ \A j \in 1..Len(stack) : \A m \in stack[j].targets :
                              m \in S => stack[j].node \in S
      BY ReferenceKept, Zenon DEF LeadsToRoot
    <3>1. Closed(S, ever)
      BY ClosedAntitone, Zenon
    <3> QED BY <2>1, <3>1, Zenon DEF LeadsToRoot
  <2> QED BY <2>3, <2>4, <2>5, Zenon
<1> QED BY <1>1, <1>2, <1>3, <1>4, <1>5, Zenon DEF IInv

LEMMA ListSteps ==
    ASSUME IInv, Scan \/ ListedObjects \/ ReadUsers \/ SkipRewrite \/ ListedUsers \/ ListFails
    PROVE  IInv'
<1>1. /\ UNCHANGED <<model, user, context, search>>
      /\ candidates' \in SUBSET Objects
      /\ tuples' = tuples /\ always' = always /\ ever' = ever
  BY Zenon DEF IInv, SearchTypes, Scan, ListedObjects, ReadUsers, SkipRewrite, ListedUsers, ListFails, OfType, listing
<1>2. Seen'
  BY <1>1, Zenon DEF IInv, Seen, View
<1>3. Quiet'
  <2>1. op' \in {"idle", "scan", "users"} => op' = op
    BY Zenon DEF Scan, ListedObjects, ReadUsers, SkipRewrite, ListedUsers, ListFails
  <2> QED BY <1>1, <2>1, Zenon DEF IInv, Quiet, search
<1>4. tuples' \in SUBSET Tuples
  BY <1>1, Zenon DEF IInv, SearchTypes
<1> QED BY <1>1, <1>2, <1>3, <1>4, SearchKept, Zenon

LEMMA WriterStep ==
    ASSUME IInv, NEW new \in SUBSET Tuples, ChangeTuples(new)
    PROVE  IInv'
<1>1. /\ UNCHANGED <<model, op, user, context, search, candidates>>
      /\ tuples' = new
      /\ always' = always \cap (new \cup context) /\ ever' = ever \cup new
  BY Zenon DEF ChangeTuples, listing
<1>2. Seen'
  BY <1>1, Zenon DEF IInv, Seen, View
<1>3. Quiet' /\ candidates' \in SUBSET Objects
  BY <1>1, Zenon DEF IInv, Quiet, SearchTypes, search
<1> QED BY <1>1, <1>2, <1>3, SearchKept, Zenon

\* A new search has looked at nothing.
LEMMA SearchStarts ==
    ASSUME IInv, NEW n \in Nodes, StartCheck(n), model' = model, user' \in Objects,
           tuples' \in SUBSET Tuples, context' \in SUBSET Tuples, candidates' \in SUBSET Objects,
           Seen', op' \in {"check", "objects"}
    PROVE  IInv'
<1>1. SearchTypes'
  <2>1. stack' \in Seq(Frames) /\ \A j \in 1..Len(stack') : stack'[j].node \in visited'
    BY DEF StartCheck
  <2>2. root' \in Nodes /\ answer' = "running" /\ visited' \in SUBSET Nodes /\ directRead' \in BOOLEAN
    BY Zenon DEF StartCheck
  <2> QED BY <2>1, <2>2, Zenon DEF SearchTypes
<1>2. Rules(n)' = Rules(n) /\ \A m : Rules(m)' = Rules(m)
  BY Zenon DEF Rules, HasRelation
<1>3. ModelOK'
  BY <1>2, Zenon DEF IInv, ModelOK
<1>4. Quiet' /\ DepthBounded' /\ CheckIsSound' /\ CheckIsComplete'
  BY DEF Quiet, DepthBounded, CheckIsSound, CheckIsComplete, StartCheck
<1>5. Explored' /\ LeadsToRoot'
  BY DEF Explored, LeadsToRoot, StartCheck
<1>6. DirectMissed'
  BY Zenon DEF DirectMissed, StartCheck
<1> QED BY <1>1, <1>3, <1>4, <1>5, <1>6, Zenon DEF IInv, Search

LEMMA CheckSteps ==
    ASSUME IInv, NEW q \in Questions, NEW ctx \in Contexts, Check(q[1], q[2], ctx)
    PROVE  IInv'
<1>1. q[1] \in Objects /\ q[2] \in Nodes /\ ctx \in SUBSET Tuples
  BY CheckerAssumption, Zenon
<1>2. /\ StartCheck(q[2]) /\ model' = model /\ user' = q[1] /\ tuples' = tuples
      /\ context' = ctx /\ candidates' = candidates /\ op' = "check"
      /\ always' = tuples \cup ctx /\ ever' = tuples \cup ctx
  BY Zenon DEF Check, Begin, listing
<1>3. Seen'
  BY <1>2, Zenon DEF Seen, View
<1>4. tuples \in SUBSET Tuples /\ candidates \in SUBSET Objects
  BY Zenon DEF IInv, SearchTypes
<1> QED BY <1>1, <1>2, <1>3, <1>4, SearchStarts, Zenon

LEMMA CandidateSteps ==
    ASSUME IInv, NEW o \in Objects, CheckCandidate(o)
    PROVE  IInv'
<1>1. <<o, root[2]>> \in Nodes
  BY Zenon DEF IInv, SearchTypes, Nodes
<1>2. /\ StartCheck(<<o, root[2]>>) /\ candidates' \subseteq candidates /\ op' = "objects"
      /\ UNCHANGED <<model, tuples, user, context, always, ever>>
  BY Zenon DEF CheckCandidate
<1>3. Seen'
  BY <1>2, Zenon DEF IInv, Seen, View
<1>4. /\ user' \in Objects /\ tuples' \in SUBSET Tuples /\ context' \in SUBSET Tuples
      /\ candidates' \in SUBSET Objects
  BY <1>2, Zenon DEF IInv, SearchTypes
<1> QED BY <1>1, <1>2, <1>3, <1>4, SearchStarts, Zenon

\* Steps after which no check has a result.
LEMMA NoAnswer ==
    ASSUME IInv, answer' \in {"none", "error"}, model' = model, Seen', SearchTypes', Quiet',
           stack' = stack
    PROVE  IInv'
<1>1. ModelOK'
  BY Zenon DEF IInv, ModelOK, Rules, HasRelation
<1>2. DepthBounded' /\ Search' /\ CheckIsSound' /\ CheckIsComplete'
  BY Zenon DEF IInv, DepthBounded, Search, Running, CheckIsSound, CheckIsComplete
<1> QED BY <1>1, <1>2, Zenon DEF IInv

LEMMA ListBegins ==
    ASSUME IInv, NEW q \in Questions, ListObjects(q[1], q[2]) \/ ListUsers(q[1], q[2])
    PROVE  IInv'
<1>1. q[1] \in Objects /\ q[2] \in Nodes
  BY CheckerAssumption, Zenon
<1>2. /\ user' = q[1] /\ root' = q[2] /\ context' = {}
      /\ always' = tuples \cup {} /\ ever' = tuples \cup {}
      /\ UNCHANGED <<model, tuples, answer, visited, stack, directRead, candidates>>
  BY Zenon DEF ListObjects, ListUsers, Begin, listing
<1>3. answer' = "none"
  BY <1>2, Zenon DEF IInv, Quiet, ListObjects, ListUsers, Begin
<1>4. Seen' /\ Quiet'
  BY <1>2, <1>3, Zenon DEF Seen, View, Quiet
<1>5. SearchTypes'
  <2>1. SearchTypes BY Zenon DEF IInv
  <2>2. user' \in Objects /\ root' \in Nodes /\ context' \in SUBSET Tuples
    BY <1>1, <1>2, Zenon
  <2>3. UNCHANGED <<tuples, answer, visited, stack, directRead, candidates>>
    BY <1>2, Zenon
  <2> QED BY <2>1, <2>2, <2>3, Zenon DEF SearchTypes
<1> QED BY <1>2, <1>3, <1>4, <1>5, NoAnswer, Zenon

LEMMA Ends ==
    ASSUME IInv, Cancelled \/ ReadFails \/ Collect
    PROVE  IInv'
<1>1. /\ UNCHANGED <<model, tuples, op, user, context, root, visited, stack,
                     directRead, candidates, always, ever>>
      /\ answer' \in {"none", "error"}
  BY Zenon DEF Cancelled, ReadFails, Collect, listing
<1>2. Seen'
  BY <1>1, Zenon DEF IInv, Seen, View
<1>3. Quiet'
  <2>1. CASE answer' = "none"
    BY <2>1, Zenon DEF Quiet
  <2>2. CASE Running
    BY <1>1, <2>2, Zenon DEF IInv, Quiet, Running
  <2> QED BY <2>1, <2>2, Zenon DEF Cancelled, ReadFails, Collect, At
<1>4. SearchTypes'
  BY <1>1, Zenon DEF IInv, SearchTypes
<1> QED BY <1>1, <1>2, <1>3, <1>4, NoAnswer, Zenon
\* The caller's frame forgets the node it calls, and nothing else.
LEMMA CalledFrames ==
    ASSUME SearchTypes, NEW n, Calls(n)
    PROVE  /\ Called(n) \in Seq(Frames) /\ Len(Called(n)) = Len(stack)
           /\ \A j \in 1..Len(stack) :
                 /\ Called(n)[j].node = stack[j].node /\ Called(n)[j].next = stack[j].next
                 /\ Called(n)[j].targets \subseteq stack[j].targets
                 /\ stack[j].targets \subseteq Called(n)[j].targets \cup {n}
<1>1. CASE stack = <<>>
  BY <1>1 DEF Called, SearchTypes
<1>2. CASE stack # <<>>
  <2> DEFINE f == [Top EXCEPT !.targets = @ \ {n}]
  <2>1. /\ Top \in Frames /\ Top = stack[Len(stack)] /\ stack \in Seq(Frames)
        /\ Len(stack) \in 1..Len(stack)
    BY <1>2, TopVisited, Zenon DEF SearchTypes
  <2>2. /\ f \in Frames /\ f.node = Top.node /\ f.next = Top.next
        /\ f.targets = Top.targets \ {n}
    BY <2>1 DEF Frames
  <2>3. Called(n) = [stack EXCEPT ![Len(stack)] = f]
    BY <1>2, <2>1, Zenon DEF Called
  <2> HIDE DEF f
  <2>4. /\ Called(n) \in Seq(Frames) /\ Len(Called(n)) = Len(stack)
        /\ Called(n)[Len(stack)] = f
        /\ \A j \in 1..Len(stack) : j # Len(stack) => Called(n)[j] = stack[j]
    <3> DEFINE t == [stack EXCEPT ![Len(stack)] = f]
    <3>1. /\ t \in Seq(Frames) /\ Len(t) = Len(stack) /\ t[Len(stack)] = f
          /\ \A j \in 1..Len(stack) : j # Len(stack) => t[j] = stack[j]
      BY <1>2, <2>1, <2>2, ReplaceTop, Zenon
    <3> HIDE DEF t
    <3>2. Called(n) = t
      BY <2>3, Zenon DEF t
    <3> QED BY <3>1, <3>2, Zenon
  <2>5. ASSUME NEW j \in 1..Len(stack)
        PROVE  /\ Called(n)[j].node = stack[j].node /\ Called(n)[j].next = stack[j].next
               /\ Called(n)[j].targets \subseteq stack[j].targets
               /\ stack[j].targets \subseteq Called(n)[j].targets \cup {n}
    <3>1. CASE j = Len(stack)
      BY <2>1, <2>2, <2>4, <3>1, Zenon
    <3>2. CASE j # Len(stack)
      BY <2>4, <3>2, Zenon
    <3> QED BY <3>1, <3>2, Zenon
  <2> QED BY <2>4, <2>5, Zenon
<1> QED BY <1>1, <1>2, Zenon

\* After a call the frames are the old ones without the node, and its own if it is new.
LEMMA EnterFrames ==
    ASSUME SearchTypes, NEW n \in Nodes, Enter(n)
    PROVE  /\ stack' \in Seq(Frames)
           /\ Len(stack) \in Nat
           /\ Len(stack') = IF n \in visited THEN Len(stack) ELSE Len(stack) + 1
           /\ n \notin visited => stack'[Len(stack) + 1] = Frame(n)
           /\ \A j \in 1..Len(stack) :
                 /\ stack'[j].node = stack[j].node /\ stack'[j].next = stack[j].next
                 /\ stack'[j].targets \subseteq stack[j].targets
                 /\ stack[j].targets \subseteq stack'[j].targets \cup {n}
<1> DEFINE c == Called(n)
<1>1. /\ c \in Seq(Frames) /\ Len(c) = Len(stack)
      /\ \A j \in 1..Len(stack) :
            /\ c[j].node = stack[j].node /\ c[j].next = stack[j].next
            /\ c[j].targets \subseteq stack[j].targets
            /\ stack[j].targets \subseteq c[j].targets \cup {n}
  BY CalledFrames, Zenon DEF Enter
<1>2. stack' = IF n \in visited THEN c ELSE Append(c, Frame(n))
  BY Zenon DEF Enter
<1>3. Frame(n) \in Frames
  BY DEF Frame, Frames
<1>4. Len(stack) \in Nat
  BY <1>1
<1> HIDE DEF c
<1>5. /\ Append(c, Frame(n)) \in Seq(Frames)
      /\ Len(Append(c, Frame(n))) = Len(stack) + 1
      /\ Append(c, Frame(n))[Len(stack) + 1] = Frame(n)
      /\ \A j \in 1..Len(stack) : Append(c, Frame(n))[j] = c[j]
  BY <1>1, <1>3
<1>6. CASE n \in visited
  BY <1>1, <1>2, <1>4, <1>6, Zenon
<1>7. CASE n \notin visited
  BY <1>1, <1>2, <1>4, <1>5, <1>7, Zenon
<1> QED BY <1>6, <1>7, Zenon

LEMMA EnterStep ==
    ASSUME IInv, NEW n \in Nodes, Enter(n)
    PROVE  IInv'
<1>1. /\ UNCHANGED <<model, tuples, op, user, context, root, answer, directRead, candidates,
                     always, ever>>
      /\ visited' = visited \cup {n}
      /\ Running /\ Calls(n)
  BY Zenon DEF Enter, listing
<1>2. Explored /\ DirectMissed /\ LeadsToRoot /\ SearchTypes /\ ModelOK /\ DepthBounded
  BY <1>1, Zenon DEF IInv, Search
<1>3. /\ stack' \in Seq(Frames) /\ Len(stack) \in Nat
      /\ Len(stack') = IF n \in visited THEN Len(stack) ELSE Len(stack) + 1
      /\ n \notin visited => stack'[Len(stack) + 1] = Frame(n)
  BY <1>2, EnterFrames, Zenon
<1>4. \A j \in 1..Len(stack) :
         /\ stack'[j].node = stack[j].node /\ stack'[j].next = stack[j].next
         /\ stack'[j].targets \subseteq stack[j].targets
         /\ stack[j].targets \subseteq stack'[j].targets \cup {n}
  BY <1>2, EnterFrames, Zenon
<1>5. \A j \in 1..Len(stack') :
         \/ j \in 1..Len(stack)
         \/ n \notin visited /\ j = Len(stack) + 1 /\ j \notin 1..Len(stack) /\ stack'[j] = Frame(n)
  BY <1>3
<1>6. \A j \in 1..Len(stack) : j \in 1..Len(stack')
  BY <1>3
<1>7. Frame(n).node = n /\ Frame(n).next = 1 /\ Frame(n).targets = {}
  BY DEF Frame
<1>8. \A j \in 1..Len(stack) : stack[j].node \in visited
  BY <1>2, Zenon DEF SearchTypes
<1>9. SearchTypes'
  <2>1. \A j \in 1..Len(stack') : stack'[j].node \in visited'
    BY <1>1, <1>4, <1>5, <1>7, <1>8, Zenon
  <2> QED BY <1>1, <1>2, <1>3, <2>1, Zenon DEF SearchTypes
<1>10. DepthBounded'
  <2> SUFFICES ASSUME NEW i \in 1..Len(stack'), NEW j \in 1..Len(stack'),
                      stack'[i].node = stack'[j].node
               PROVE  i = j
    BY Zenon DEF DepthBounded
  <2>1. CASE i \in 1..Len(stack) /\ j \in 1..Len(stack)
    BY <1>2, <1>4, <2>1, Zenon DEF DepthBounded
  <2>2. CASE i \in 1..Len(stack) /\ j \notin 1..Len(stack)
    BY <1>4, <1>5, <1>7, <1>8, <2>2, Zenon
  <2>3. CASE i \notin 1..Len(stack) /\ j \in 1..Len(stack)
    BY <1>4, <1>5, <1>7, <1>8, <2>3, Zenon
  <2>4. CASE i \notin 1..Len(stack) /\ j \notin 1..Len(stack)
    BY <1>5, <2>4, Zenon
  <2> QED BY <2>1, <2>2, <2>3, <2>4, Zenon
<1>11. ModelOK' /\ Seen' /\ Quiet' /\ CheckIsSound' /\ CheckIsComplete'
  BY <1>1, <1>2, ReferenceKept, Zenon
     DEF IInv, ModelOK, Seen, View, Quiet, CheckIsSound, CheckIsComplete, Running
<1>12. Explored'
  <2>1. ASSUME NEW j \in 1..Len(stack')
        PROVE  /\ stack'[j].next <= Len(Rules(stack'[j].node)) + 1
               /\ \A i \in 1..(stack'[j].next - 1) :
                     RuleDone(stack'[j].node, i, always, visited' \cup stack'[j].targets)
    <3>1. CASE j \in 1..Len(stack)
      <4>1. /\ stack'[j].node = stack[j].node /\ stack'[j].next = stack[j].next
            /\ stack[j].targets \subseteq stack'[j].targets \cup {n}
        BY <1>4, <3>1, Zenon
      <4>2. visited \cup stack[j].targets \subseteq visited' \cup stack'[j].targets
        BY <1>1, <4>1, Zenon
      <4>3. stack[j].next <= Len(Rules(stack[j].node)) + 1
        BY <1>2, <3>1, Zenon DEF Explored
      <4>4. ASSUME NEW i \in 1..(stack[j].next - 1)
            PROVE  RuleDone(stack[j].node, i, always, visited' \cup stack'[j].targets)
        <5>1. /\ stack[j].node \in Nodes /\ i \in 1..Len(Rules(stack[j].node))
              /\ RuleDone(stack[j].node, i, always, visited \cup stack[j].targets)
          BY <1>2, <3>1, BehindExists, Zenon
        <5> DEFINE m == stack[j].node
                   V == visited \cup stack[j].targets
                   W == visited' \cup stack'[j].targets
        <5>2. /\ m \in Nodes /\ i \in 1..Len(Rules(m)) /\ RuleDone(m, i, always, V)
              /\ V \subseteq W /\ always \subseteq always
          BY <4>2, <5>1, Zenon
        <5> HIDE DEF m, V, W
        <5>3. RuleDone(m, i, always, W)
          BY <1>2, <5>2, RuleStaysDone, Zenon
        <5> QED BY <5>3, Zenon DEF m, W
      <4> QED BY <4>1, <4>3, <4>4, Zenon
    <3>2. CASE stack'[j] = Frame(n)
      <4>1. Rules(n) \in Seq(Rewrites)
        BY <1>2, Zenon DEF ModelOK
      <4>2. 1 <= Len(Rules(n)) + 1 /\ 1..(1 - 1) = {}
        BY <4>1
      <4>3. stack'[j].next = 1 /\ stack'[j].node = n
        BY <1>7, <3>2, Zenon
      <4> QED BY <4>2, <4>3, Zenon
    <3> QED BY <1>5, <3>1, <3>2, Zenon
  <2>2. ASSUME NEW m \in visited' \ StackNodes', NEW i \in 1..Len(Rules(m))
        PROVE  RuleDone(m, i, always, visited')
    <3>1. m \notin StackNodes
      BY <1>4, <1>6, Zenon DEF StackNodes
    <3>2. m \in visited
      <4>1. n \notin visited => Len(stack) + 1 \in 1..Len(stack')
        BY <1>3
      <4>2. n \notin visited => n \in StackNodes'
        BY <1>3, <1>7, <4>1, Zenon DEF StackNodes
      <4> QED BY <1>1, <4>2, Zenon
    <3>3. m \in Nodes /\ RuleDone(m, i, always, visited)
      BY <1>2, <3>1, <3>2, Zenon DEF Explored, SearchTypes
    <3> QED BY <1>1, <1>2, <3>3, RuleStaysDone, Zenon
  <2>3. root' \in visited'
    <3>1. stack # <<>> => visited # {}
      BY <1>2, TopVisited, Zenon
    <3> QED BY <1>1, <1>2, <3>1, Zenon DEF Explored, Calls
  <2> QED BY <1>1, <2>1, <2>2, <2>3, ReferenceKept, Zenon DEF Explored
<1>13. DirectMissed'
  <2>1. ~directRead
    BY <1>1, <1>2, Zenon DEF DirectMissed, Calls
  <2> QED BY <1>1, <2>1, Zenon DEF DirectMissed
<1>14. LeadsToRoot'
  <2> SUFFICES ASSUME NEW S \in SUBSET Defined, Closed(S, ever)
               PROVE  /\ \A m \in visited' : m \in S => root \in S
                      /\ \A j \in 1..Len(stack') : \A k \in stack'[j].targets :
                            k \in S => stack'[j].node \in S
    BY <1>1, ReferenceKept, Zenon DEF LeadsToRoot
  <2>1. /\ \A m \in visited : m \in S => root \in S
        /\ \A j \in 1..Len(stack) : \A k \in stack[j].targets : k \in S => stack[j].node \in S
    BY <1>2, Zenon DEF LeadsToRoot
  <2>2. n \in S => root \in S
    <3>1. CASE stack = <<>>
      BY <1>1, <3>1, Zenon DEF Calls
    <3>2. CASE stack # <<>>
      <4>1. n \in stack[Len(stack)].targets /\ Len(stack) \in 1..Len(stack)
        BY <1>1, <1>2, <3>2, TopVisited, Zenon DEF Calls
      <4> QED BY <1>8, <2>1, <4>1, Zenon
    <3> QED BY <3>1, <3>2, Zenon
  <2> QED BY <1>1, <1>4, <1>5, <1>7, <2>1, <2>2, Zenon
<1> QED BY <1>9, <1>10, <1>11, <1>12, <1>13, <1>14, Zenon DEF IInv, Search

\* Steps of the innermost call on its own rewrites, which keep what was visited.
LEMMA AtTop ==
    ASSUME IInv, NEW kind, At(kind)
    PROVE  /\ Explored /\ DirectMissed /\ LeadsToRoot /\ SearchTypes /\ ModelOK
           /\ Top.node \in visited /\ Top.node \in Nodes /\ Top.node \in Defined
           /\ Top.next \in 1..Len(Rules(Top.node))
           /\ Rewrite \in Rewrites
           /\ Rules(Top.node) \in Seq(Rewrites)
           /\ op \notin {"idle", "scan", "users"}
<1>1. Explored /\ DirectMissed /\ LeadsToRoot /\ SearchTypes /\ ModelOK /\ stack # <<>>
  BY Zenon DEF IInv, Search, At
<1>2. Top.node \in visited /\ Top.node \in Nodes /\ Top.next \in Nat \ {0}
  BY <1>1, TopVisited, Zenon
<1>3. Rules(Top.node) \in Seq(Rewrites) /\ Top.next <= Len(Rules(Top.node))
  BY <1>1, <1>2, Zenon DEF ModelOK, At
<1>4. Top.next \in 1..Len(Rules(Top.node)) /\ Rewrite \in Rewrites
  BY <1>2, <1>3 DEF Rewrite
<1>5. Top.node \in Defined
  BY <1>2, <1>3, <1>4 DEF Defined
<1>6. op \notin {"idle", "scan", "users"}
  BY Zenon DEF IInv, Quiet, At, Running
<1> QED BY <1>1, <1>2, <1>3, <1>4, <1>5, <1>6, Zenon

LEMMA DirectStep ==
    ASSUME IInv, directCheck
    PROVE  IInv'
<1>1. /\ UNCHANGED <<model, tuples, op, user, context, root, visited, stack, candidates,
                     always, ever>>
      /\ At("direct")
  BY Zenon DEF directCheck, listing
<1>2. /\ Explored /\ DirectMissed /\ LeadsToRoot /\ SearchTypes /\ ModelOK
      /\ Top.node \in visited /\ Top.node \in Nodes /\ Top.node \in Defined
      /\ Top.next \in 1..Len(Rules(Top.node))
      /\ op \notin {"idle", "scan", "users"}
  BY <1>1, AtTop, Zenon
<1>3. ModelOK' /\ Seen' /\ Quiet' /\ DepthBounded'
  BY <1>1, <1>2, ReferenceKept, Zenon DEF IInv, ModelOK, Seen, View, Quiet, DepthBounded
<1>4. CASE Holders(Top.node, View) # {}
  <2>1. answer' = "allow" /\ directRead' = directRead
    BY <1>4, Zenon DEF directCheck
  <2>2. SearchTypes'
    BY <1>1, <1>2, <2>1, Zenon DEF SearchTypes
  <2>3. ASSUME NEW S \in SUBSET Defined, Closed(S, ever)
        PROVE  root \in S
    <3>1. Holders(Top.node, ever) # {}
      BY <1>4, Zenon DEF IInv, Seen, Holders, On
    <3>2. Granted(Top.node, S, ever)
      BY <1>1, <1>2, <3>1, HolderGrants, Zenon DEF At, Rewrite
    <3>3. Top.node \in S
      BY <1>2, <2>3, <3>2, Zenon DEF Closed
    <3> QED BY <1>2, <2>3, <3>3, Zenon DEF LeadsToRoot
  <2>4. Derivable(root, ever)
    BY <2>3, Zenon DEF Derivable
  <2>5. CheckIsSound'
    BY <1>1, <2>4, ReferenceKept, Zenon DEF CheckIsSound
  <2>6. CheckIsComplete' /\ Search'
    BY <2>1, Zenon DEF CheckIsComplete, Search, Running
  <2> QED BY <1>3, <2>2, <2>5, <2>6, Zenon DEF IInv
<1>5. CASE Holders(Top.node, View) = {}
  <2>1. answer' = answer /\ directRead' = TRUE /\ answer = "running"
    BY <1>1, <1>5, Zenon DEF directCheck, At, Running
  <2>2. SearchTypes'
    BY <1>1, <1>2, <2>1, Zenon DEF SearchTypes
  <2>3. CheckIsSound' /\ CheckIsComplete'
    BY <2>1, Zenon DEF CheckIsSound, CheckIsComplete
  <2>4. Holders(Top.node, always) = {}
    BY <1>5, Zenon DEF IInv, Seen, Holders, On
  <2>5. DirectMissed'
    <3>1. Top' = Top /\ Rules(Top.node)' = Rules(Top.node)
      BY <1>1, ReferenceKept, Zenon DEF Top
    <3>2. Holders(Top.node, always)' = {}
      BY <1>1, <2>4, <3>1, Zenon DEF Holders, On
    <3> QED BY <1>1, <3>1, <3>2, Zenon DEF DirectMissed, At, Rewrite
  <2>6. Explored'
    BY <1>1, <1>2, ReferenceKept, Zenon DEF Explored, StackNodes
  <2>7. LeadsToRoot'
    BY <1>1, <1>2, ReferenceKept, Zenon DEF LeadsToRoot
  <2> QED BY <1>3, <2>2, <2>3, <2>5, <2>6, <2>7, Zenon DEF IInv, Search
<1> QED BY <1>4, <1>5, Zenon

LEMMA ExpandStep ==
    ASSUME IInv, NEW kind, At(kind), kind = "direct" => directRead, Expand
    PROVE  IInv'
<1> DEFINE new == Targets(Top.node, Rewrite, View)
           f == [node |-> Top.node, next |-> Top.next + 1, targets |-> new]
<1>1. /\ UNCHANGED <<model, tuples, op, user, context, root, answer, visited, candidates,
                     always, ever>>
      /\ stack' = [stack EXCEPT ![Len(stack)] = f]
      /\ directRead' = FALSE
  BY Zenon DEF Expand, listing
<1>2. /\ Explored /\ DirectMissed /\ LeadsToRoot /\ SearchTypes /\ ModelOK
      /\ Top.node \in visited /\ Top.node \in Nodes /\ Top.node \in Defined
      /\ Top.next \in 1..Len(Rules(Top.node)) /\ Rewrite \in Rewrites
      /\ Rules(Top.node) \in Seq(Rewrites)
  BY AtTop, Zenon
<1>3. View \in SUBSET Tuples
  BY <1>2, Zenon DEF View, SearchTypes
<1>4. new \in SUBSET Nodes
  BY <1>2, <1>3, TargetsAreNodes, Zenon DEF Rewrite
<1>5. Top.targets = {} /\ answer = "running" /\ Rewrite.kind = kind /\ stack # <<>>
  BY Zenon DEF At, Running
<1>6. /\ Top \in Frames /\ Top = stack[Len(stack)] /\ stack \in Seq(Frames)
      /\ Len(stack) \in 1..Len(stack) /\ Top.next \in Nat \ {0}
  BY <1>2, <1>5, TopVisited, Zenon DEF SearchTypes
<1> HIDE DEF new
<1>7. f \in Frames /\ f.node = Top.node /\ f.next = Top.next + 1 /\ f.targets = new
  BY <1>2, <1>4, <1>6 DEF Frames
<1> HIDE DEF f
<1>8. /\ stack' \in Seq(Frames) /\ Len(stack') = Len(stack) /\ stack'[Len(stack)] = f
      /\ \A j \in 1..Len(stack) : j # Len(stack) => stack'[j] = stack[j]
  <2> DEFINE t == [stack EXCEPT ![Len(stack)] = f]
  <2>1. /\ t \in Seq(Frames) /\ Len(t) = Len(stack) /\ t[Len(stack)] = f
        /\ \A j \in 1..Len(stack) : j # Len(stack) => t[j] = stack[j]
    BY <1>5, <1>6, <1>7, ReplaceTop, Zenon
  <2> HIDE DEF t
  <2>2. stack' = t
    BY <1>1, Zenon DEF t
  <2> QED BY <2>1, <2>2, Zenon
<1>9. \A j \in 1..Len(stack) : stack'[j].node = stack[j].node
  BY <1>6, <1>7, <1>8, Zenon
<1>10. SearchTypes'
  <2>1. \A j \in 1..Len(stack') : stack'[j].node \in visited
    BY <1>2, <1>8, <1>9, Zenon DEF SearchTypes
  <2> QED BY <1>1, <1>2, <1>8, <2>1, Zenon DEF SearchTypes
<1>11. ModelOK' /\ Seen' /\ Quiet' /\ DepthBounded'
  <2>1. ModelOK /\ Seen /\ Quiet /\ DepthBounded
    BY Zenon DEF IInv
  <2>2. ModelOK'
    BY <1>1, <2>1, ReferenceKept, Zenon DEF ModelOK
  <2>3. Seen' /\ Quiet'
    BY <1>1, <2>1, Zenon DEF Seen, View, Quiet
  <2>4. DepthBounded'
    BY <1>8, <1>9, <2>1, Zenon DEF DepthBounded
  <2> QED BY <2>2, <2>3, <2>4, Zenon
<1>12. CheckIsSound' /\ CheckIsComplete' /\ DirectMissed'
  BY <1>1, <1>5, Zenon DEF CheckIsSound, CheckIsComplete, DirectMissed
<1>13. LeadsToRoot'
  <2> SUFFICES ASSUME NEW S \in SUBSET Defined, Closed(S, ever)
               PROVE  /\ \A n \in visited : n \in S => root \in S
                      /\ \A j \in 1..Len(stack) : \A m \in stack'[j].targets :
                            m \in S => stack'[j].node \in S
    BY <1>1, <1>8, ReferenceKept, Zenon DEF LeadsToRoot
  <2>1. /\ \A n \in visited : n \in S => root \in S
        /\ \A j \in 1..Len(stack) : \A m \in stack[j].targets : m \in S => stack[j].node \in S
    BY <1>2, Zenon DEF LeadsToRoot
  <2>2. ASSUME NEW m \in new, m \in S
        PROVE  Top.node \in S
    <3>1. Granted(Top.node, S, View)
      BY <1>2, <2>2, TargetGrants, Zenon DEF new, Rewrite
    <3>2. Granted(Top.node, S, ever)
      BY <3>1, GrantedMonotone, Zenon DEF IInv, Seen
    <3> QED BY <1>2, <3>2, Zenon DEF Closed
  <2> QED BY <1>7, <1>8, <2>1, <2>2, Zenon
<1>14. Explored'
  <2>1. ASSUME NEW j \in 1..Len(stack), j # Len(stack)
        PROVE  /\ stack'[j].next <= Len(Rules(stack'[j].node)) + 1
               /\ \A i \in 1..(stack'[j].next - 1) :
                     RuleDone(stack'[j].node, i, always, visited \cup stack'[j].targets)
    <3>1. stack'[j] = stack[j]
      BY <1>8, <2>1, Zenon
    <3> QED BY <1>2, <3>1, Zenon DEF Explored
  <2>2. ASSUME NEW i \in 1..(f.next - 1)
        PROVE  RuleDone(Top.node, i, always, visited \cup new)
    <3>1. CASE i = Top.next
      <4>1. Rewrite.kind = "direct" => Holders(Top.node, always) = {}
        BY <1>2, <1>5, Zenon DEF DirectMissed
      <4>2. Targets(Top.node, Rewrite, always) \subseteq new
        BY <1>2, ReadsMonotone, Zenon DEF IInv, Seen, new
      <4> QED BY <3>1, <4>1, <4>2, Zenon DEF RuleDone, Rewrite
    <3>2. CASE i # Top.next
      <4>1. i \in 1..(stack[Len(stack)].next - 1)
        BY <1>6, <1>7, <3>2
      <4>2. /\ i \in 1..Len(Rules(Top.node))
            /\ RuleDone(Top.node, i, always, visited \cup Top.targets)
        BY <1>2, <1>6, <4>1, BehindExists, Zenon
      <4>3. visited \cup Top.targets \subseteq visited \cup new
        BY <1>5, Zenon
      <4> QED BY <1>2, <4>2, <4>3, RuleStaysDone, Zenon
    <3> QED BY <3>1, <3>2, Zenon
  <2>3. f.next <= Len(Rules(Top.node)) + 1
    BY <1>2, <1>7
  <2>4. ASSUME NEW j \in 1..Len(stack)
        PROVE  /\ stack'[j].next <= Len(Rules(stack'[j].node)) + 1
               /\ \A i \in 1..(stack'[j].next - 1) :
                     RuleDone(stack'[j].node, i, always, visited \cup stack'[j].targets)
    BY <1>7, <1>8, <2>1, <2>2, <2>3, Zenon
  <2>5. StackNodes' = StackNodes
    BY <1>8, <1>9, Zenon DEF StackNodes
  <2>6. \A n \in visited \ StackNodes : \A i \in 1..Len(Rules(n)) : RuleDone(n, i, always, visited)
    BY <1>2, Zenon DEF Explored
  <2>7. visited # {} => root \in visited
    BY <1>2, Zenon DEF Explored
  <2>8. \A j \in 1..Len(stack') :
           /\ stack'[j].next <= Len(Rules(stack[j].node)') + 1
           /\ \A i \in 1..(stack'[j].next - 1) :
                 RuleDone(stack[j].node, i, always, visited \cup stack[j].targets)'
    <3>1. /\ \A n : Rules(n)' = Rules(n)
          /\ \A n, i, T, V : RuleDone(n, i, T, V)' <=> RuleDone(n, i, T, V)
      BY <1>1, ReferenceKept, Zenon
    <3>2. Len(stack') = Len(stack) /\ always' = always /\ visited' = visited
      BY <1>1, <1>8, Zenon
    <3> SUFFICES ASSUME NEW j \in 1..Len(stack)
                 PROVE  /\ stack'[j].next <= Len(Rules(stack[j].node)') + 1
                        /\ \A i \in 1..(stack'[j].next - 1) :
                              RuleDone(stack[j].node, i, always, visited \cup stack[j].targets)'
      BY <3>2, Zenon
    <3>3. /\ Rules(stack[j].node)' = Rules(stack'[j].node)
          /\ \A i : RuleDone(stack[j].node, i, always, visited \cup stack[j].targets)'
                     <=> RuleDone(stack'[j].node, i, always, visited \cup stack'[j].targets)
      BY <3>1, <3>2, Zenon
    <3> QED BY <2>4, <3>3, Zenon
  <2>9. \A n \in visited \ StackNodes : \A i \in 1..Len(Rules(n)') : RuleDone(n, i, always, visited)'
    BY <1>1, <2>6, ReferenceKept, Zenon
  <2> QED BY <1>1, <2>5, <2>7, <2>8, <2>9, Zenon DEF Explored
<1> QED BY <1>10, <1>11, <1>12, <1>13, <1>14, Zenon DEF IInv, Search

\* The innermost call has looked at all its rewrites; the last one to return has
\* explored what it visited.
LEMMA ReturnStep ==
    ASSUME IInv, ReturnFalse
    PROVE  IInv'
<1>1. /\ UNCHANGED <<model, tuples, op, user, context, root, visited, directRead, candidates,
                     always, ever>>
      /\ stack' = SubSeq(stack, 1, Len(stack) - 1)
      /\ answer' = IF Len(stack) = 1 THEN "deny" ELSE "running"
      /\ answer = "running" /\ stack # <<>> /\ Top.targets = {}
      /\ Top.next > Len(Rules(Top.node))
  BY Zenon DEF ReturnFalse, Running, listing
<1>2. Explored /\ DirectMissed /\ LeadsToRoot /\ SearchTypes /\ ModelOK /\ DepthBounded
  BY <1>1, Zenon DEF IInv, Search, Running
<1>3. /\ Top.node \in visited /\ Top.node \in Nodes /\ Len(stack) \in Nat \ {0}
      /\ Len(stack) \in 1..Len(stack) /\ Top = stack[Len(stack)] /\ Top.next \in Nat
  BY <1>1, <1>2, TopVisited, Zenon
<1>4. /\ stack' \in Seq(Frames)
      /\ Len(stack') = Len(stack) - 1
      /\ \A j \in 1..(Len(stack) - 1) : stack'[j] = stack[j]
  <2>1. stack \in Seq(Frames) /\ Len(stack) - 1 \in 0..Len(stack)
    BY <1>2, <1>3 DEF SearchTypes
  <2>2. ASSUME NEW s \in Seq(Frames), NEW k \in 0..Len(s)
        PROVE  /\ SubSeq(s, 1, k) \in Seq(Frames)
               /\ Len(SubSeq(s, 1, k)) = k
               /\ \A j \in 1..k : SubSeq(s, 1, k)[j] = s[j]
    OBVIOUS
  <2> QED BY <1>1, <1>3, <2>1, <2>2, Zenon
<1>5. \A j \in 1..Len(stack') : j \in 1..Len(stack) /\ j # Len(stack) /\ stack'[j] = stack[j]
  BY <1>3, <1>4
<1>6. SearchTypes'
  BY <1>1, <1>2, <1>4, <1>5, Zenon DEF SearchTypes
<1>7. ModelOK' /\ Seen' /\ Quiet'
  BY <1>1, ReferenceKept, Zenon DEF IInv, ModelOK, Seen, View, Quiet
<1>8. DepthBounded'
  BY <1>2, <1>5, Zenon DEF DepthBounded
<1>9. DirectMissed'
  <2>1. Rules(Top.node) \in Seq(Rewrites)
    BY <1>2, <1>3, Zenon DEF ModelOK
  <2>2. ~(Top.next <= Len(Rules(Top.node)))
    BY <1>1, <1>3, <2>1
  <2>3. ~directRead
    BY <1>2, <2>2, Zenon DEF DirectMissed
  <2> QED BY <1>1, <2>3, Zenon DEF DirectMissed
<1>10. LeadsToRoot'
  BY <1>1, <1>2, <1>5, ReferenceKept, Zenon DEF LeadsToRoot
<1>11. /\ \A n \in visited \ StackNodes' : \A i \in 1..Len(Rules(n)) : RuleDone(n, i, always, visited)
       /\ Explored'
  <2>1. \A n \in StackNodes : n = Top.node \/ n \in StackNodes'
    <3> SUFFICES ASSUME NEW j \in 1..Len(stack), j # Len(stack)
                 PROVE  stack[j].node \in StackNodes'
      BY <1>3, Zenon DEF StackNodes
    <3>1. j \in 1..Len(stack') /\ stack'[j] = stack[j]
      BY <1>3, <1>4
    <3> QED BY <3>1, Zenon DEF StackNodes
  <2>2. ASSUME NEW i \in 1..Len(Rules(Top.node))
        PROVE  RuleDone(Top.node, i, always, visited)
    <3>1. Rules(Top.node) \in Seq(Rewrites)
      BY <1>2, <1>3, Zenon DEF ModelOK
    <3>2. i \in 1..(stack[Len(stack)].next - 1)
      BY <1>1, <1>3, <3>1
    <3>3. RuleDone(Top.node, i, always, visited \cup Top.targets)
      BY <1>2, <1>3, <3>2, BehindExists, Zenon
    <3>4. visited \cup Top.targets \subseteq visited
      BY <1>1, Zenon
    <3> QED BY <1>2, <1>3, <3>3, <3>4, RuleStaysDone, Zenon
  <2>3. \A n \in visited \ StackNodes : \A i \in 1..Len(Rules(n)) : RuleDone(n, i, always, visited)
    BY <1>2, Zenon DEF Explored
  <2>4. \A n \in visited \ StackNodes' : \A i \in 1..Len(Rules(n)) : RuleDone(n, i, always, visited)
    BY <2>1, <2>2, <2>3, Zenon
  <2>5. \A j \in 1..Len(stack') :
           /\ stack'[j].next <= Len(Rules(stack'[j].node)) + 1
           /\ \A i \in 1..(stack'[j].next - 1) :
                 RuleDone(stack'[j].node, i, always, visited \cup stack'[j].targets)
    BY <1>2, <1>5, Zenon DEF Explored
  <2>6. visited # {} => root \in visited
    BY <1>2, Zenon DEF Explored
  <2> QED BY <1>1, <2>4, <2>5, <2>6, ReferenceKept, Zenon DEF Explored
<1>12. CheckIsSound'
  BY <1>1, Zenon DEF CheckIsSound
<1>13. CheckIsComplete'
  <2> SUFFICES ASSUME answer' = "deny" PROVE ~Derivable(root, always)'
    BY Zenon DEF CheckIsComplete
  <2>1. Len(stack) = 1
    BY <1>1, Zenon
  <2>2. StackNodes' = {}
    BY <1>4, <2>1 DEF StackNodes
  <2>3. ~Derivable(root, always)
    BY <1>2, <1>3, <1>11, <2>2, NotDerivable, Zenon DEF Explored
  <2> QED BY <1>1, <2>3, ReferenceKept, Zenon
<1> QED BY <1>6, <1>7, <1>8, <1>9, <1>10, <1>11, <1>12, <1>13, Zenon DEF IInv, Search

(***************************************************************************)
(* The invariant                                                           *)
(***************************************************************************)

LEMMA InitInv == Init => IInv
<1> SUFFICES ASSUME Init PROVE IInv
  BY Zenon
<1>1. PICK q \in Questions : user = q[1] /\ root = q[2]
  BY CheckerAssumption, Zenon DEF Init
<1>2. user \in Objects /\ root \in Nodes
  BY <1>1, CheckerAssumption, Zenon
<1>3. SearchTypes
  <2>1. stack \in Seq(Frames) /\ \A j \in 1..Len(stack) : stack[j].node \in visited
    BY DEF Init
  <2> QED BY <1>2, <2>1, Zenon DEF Init, SearchTypes
<1>4. ModelOK
  <2> SUFFICES ASSUME NEW n \in Nodes PROVE Rules(n) \in Seq(Rewrites)
    BY Zenon DEF ModelOK
  <2>1. PICK raw \in RawModels : Compile(raw) /\ model = Compiled(raw)
    BY Zenon DEF Init
  <2> DEFINE ty == TypeOf[n[1]]
             r == n[2]
  <2>2. CASE HasRelation(model, ty, r)
    <3>1. ty \in DOMAIN raw /\ r \in DOMAIN raw[ty]
      BY <2>1, <2>2, Zenon DEF HasRelation, Compiled
    <3>2. model[ty][r] = compileRelation(raw[ty][r])
      BY <2>1, <3>1, Zenon DEF Compiled
    <3>3. model[ty][r].rewrites = rewritesOf(raw[ty][r])
      BY <3>2 DEF compileRelation
    <3>4. rewritesOf(raw[ty][r]) \in Seq(Rewrites)
      BY <2>1, <3>1, ModelAssumption, Zenon
    <3> QED BY <2>2, <3>3, <3>4, Zenon DEF Rules
  <2>3. CASE ~HasRelation(model, ty, r)
    BY <2>3 DEF Rules
  <2> QED BY <2>2, <2>3, Zenon
<1>5. Seen /\ Quiet /\ DepthBounded
  BY DEF Init, Seen, View, Quiet, DepthBounded
<1>6. Search /\ CheckIsSound /\ CheckIsComplete
  BY Zenon DEF Init, Search, Running, CheckIsSound, CheckIsComplete
<1> QED BY <1>3, <1>4, <1>5, <1>6, Zenon DEF IInv

LEMMA NextInv == IInv /\ [Next]_vars => IInv'
<1> SUFFICES ASSUME IInv, [Next]_vars PROVE IInv'
  BY Zenon
<1>1. ASSUME NEW q \in Questions, NEW ctx \in Contexts, Check(q[1], q[2], ctx) PROVE IInv'
  BY <1>1, CheckSteps, Zenon
<1>2. ASSUME NEW q \in Questions, ListObjects(q[1], q[2]) \/ ListUsers(q[1], q[2]) PROVE IInv'
  BY <1>2, ListBegins, Zenon
<1>3. CASE CheckStep
  <2>1. ASSUME NEW n \in Nodes, Enter(n) PROVE IInv'
    BY <2>1, EnterStep, Zenon
  <2>2. CASE Cancelled \/ ReadFails
    BY <2>2, Ends, Zenon
  <2>3. CASE directCheck
    BY <2>3, DirectStep, Zenon
  <2>4. CASE usersetExpansion
    BY <2>4, ExpandStep, Zenon DEF usersetExpansion
  <2>5. CASE computedUserset
    BY <2>5, ExpandStep, Zenon DEF computedUserset
  <2>6. CASE tupleToUserset
    BY <2>6, ExpandStep, Zenon DEF tupleToUserset
  <2>7. CASE ReturnFalse
    BY <2>7, ReturnStep, Zenon
  <2> QED BY <1>3, <2>1, <2>2, <2>3, <2>4, <2>5, <2>6, <2>7, Zenon DEF CheckStep, CheckProgress
<1>4. CASE ListStep
  <2>1. ASSUME NEW o \in Objects, CheckCandidate(o) PROVE IInv'
    BY <2>1, CandidateSteps, Zenon
  <2>2. CASE Collect
    BY <2>2, Ends, Zenon
  <2> QED BY <1>4, <2>1, <2>2, ListSteps, Zenon DEF ListStep
<1>5. ASSUME NEW t \in Tuples, ChangeTuples(tuples \cup {t}) \/ ChangeTuples(tuples \ {t})
      PROVE  IInv'
  <2>1. tuples \cup {t} \in SUBSET Tuples /\ tuples \ {t} \in SUBSET Tuples
    BY Zenon DEF IInv, SearchTypes
  <2> QED BY <1>5, <2>1, WriterStep, Zenon
<1>6. CASE UNCHANGED vars
  <2>1. UNCHANGED <<model, user, context, search, candidates, tuples, always, ever, op>>
    BY <1>6, Zenon DEF vars, listing
  <2>2. Seen' /\ Quiet'
    BY <2>1, Zenon DEF IInv, Seen, View, Quiet, search
  <2>3. candidates' \in SUBSET Objects /\ tuples' \in SUBSET Tuples
    BY <2>1, Zenon DEF IInv, SearchTypes
  <2> QED BY <2>1, <2>2, <2>3, SearchKept, Zenon
<1> QED BY <1>1, <1>2, <1>3, <1>4, <1>5, <1>6, Zenon DEF Next

(***************************************************************************)
(* ListObjects                                                             *)
(*                                                                         *)
(* The candidates are the objects with a tuple of their own, so the first  *)
(* lemma says that no other object can be derived.  A later check may see  *)
(* fewer of the tuples that stay, and more of those that were ever there.  *)
(***************************************************************************)

LEMMA OnlyWithTuples ==
    ASSUME NEW o, NEW r, NEW T, Derivable(<<o, r>>, T)
    PROVE  \E t \in T : t.object = o
<1> DEFINE S == {n \in Defined : \E t \in T : t.object = n[1]}
<1>1. ASSUME NEW n \in Defined \ S
      PROVE  ~Granted(n, S, T)
  <2>1. \A t \in T : t.object # n[1]
    BY Zenon
  <2>2. \A m : <<n[1], m>> \notin S
    BY <2>1, Zenon
  <2> HIDE DEF S
  <2> QED
    BY <2>1, <2>2, Zenon DEF Granted
<1>2. Closed(S, T)
  BY <1>1, Zenon DEF Closed
<1>3. <<o, r>> \in S
  BY <1>2, Zenon DEF Derivable
<1> QED
  BY <1>3, Zenon

ObjectsInv ==
    /\ op \in {"idle", "scan"} => listed = {}
    /\ op \in {"scan", "objects", "objects done"} => context = {}
    /\ op = "objects" => candidates \subseteq OfType(root[1])
    /\ op \in {"objects", "objects done"} =>
          \A o \in OfType(root[1]) :
             /\ o \in listed => Derivable(<<o, root[2]>>, ever)
             /\ Derivable(<<o, root[2]>>, always) =>
                   o \in listed \cup candidates \/ (answer # "none" /\ o = root[1])
    /\ op = "objects done" => candidates = {} /\ answer = "none"

\* The steps of a check, and of a writer.
LEMMA ObjectsKept ==
    ASSUME ObjectsInv, UNCHANGED <<model, op, user, context, root, candidates, listed>>,
           ever \subseteq ever', always' \subseteq always,
           answer' = answer \/ (answer = "running" /\ answer' # "none")
    PROVE  ObjectsInv'
<1>1. OfType(root[1])' = OfType(root[1])
  BY Zenon DEF OfType
<1>2. CASE op \in {"objects", "objects done"}
  <2>1. ASSUME NEW o \in OfType(root[1])
        PROVE  /\ o \in listed => Derivable(<<o, root[2]>>, ever)'
               /\ Derivable(<<o, root[2]>>, always)' => Derivable(<<o, root[2]>>, always)
    <3>1. /\ Derivable(<<o, root[2]>>, ever)' <=> Derivable(<<o, root[2]>>, ever')
          /\ Derivable(<<o, root[2]>>, always)' <=> Derivable(<<o, root[2]>>, always')
      BY ReferenceKept, Zenon
    <3>2. o \in listed => Derivable(<<o, root[2]>>, ever')
      BY <1>2, DerivableMonotone, Zenon DEF ObjectsInv
    <3>3. Derivable(<<o, root[2]>>, always') => Derivable(<<o, root[2]>>, always)
      BY DerivableMonotone, Zenon
    <3> QED
      BY <3>1, <3>2, <3>3, Zenon
  <2> QED
    BY <1>1, <1>2, <2>1, Zenon DEF ObjectsInv
<1>3. CASE op \notin {"objects", "objects done"}
  BY <1>3, Zenon DEF ObjectsInv
<1> QED
  BY <1>2, <1>3, Zenon

\* What a step of a check leaves alone.
LEMMA CheckStepFrame ==
    ASSUME CheckStep
    PROVE  /\ UNCHANGED <<model, tuples, op, user, context, root, listing, always, ever>>
           /\ answer = "running" /\ answer' # "none"
<1> USE DEF Running
<1>1. ASSUME NEW n \in Nodes, Enter(n)
      PROVE  /\ UNCHANGED <<model, tuples, op, user, context, root, listing, always, ever>>
             /\ answer = "running" /\ answer' # "none"
  BY <1>1, Zenon DEF Enter
<1>2. CASE Cancelled \/ ReadFails
  BY <1>2, Zenon DEF Cancelled, ReadFails, At
<1>3. CASE directCheck
  BY <1>3, Zenon DEF directCheck, At
<1>4. CASE usersetExpansion \/ computedUserset \/ tupleToUserset
  BY <1>4, Zenon DEF usersetExpansion, computedUserset, tupleToUserset, At, Expand
<1>5. CASE ReturnFalse
  BY <1>5, Zenon DEF ReturnFalse
<1> QED
  BY <1>1, <1>2, <1>3, <1>4, <1>5, Zenon DEF CheckStep, CheckProgress

LEMMA ScanKeepsObjects ==
    ASSUME IInv, ObjectsInv, Scan
    PROVE  ObjectsInv'
<1>1. /\ op = "scan" /\ op' = "objects" /\ listed = {} /\ context = {}
      /\ UNCHANGED <<model, user, context, root, listed, always>>
      /\ candidates' = {o \in OfType(root[1]) : \E t \in tuples : t.object = o}
  BY Zenon DEF Scan, ObjectsInv, search
<1>2. always \subseteq tuples
  BY <1>1, Zenon DEF IInv, Seen, View
<1>3. OfType(root[1])' = OfType(root[1])
  BY <1>1, Zenon DEF OfType
<1>4. ASSUME NEW o \in OfType(root[1]), Derivable(<<o, root[2]>>, always)'
      PROVE  o \in candidates'
  <2>1. Derivable(<<o, root[2]>>, always)
    BY <1>1, <1>4, ReferenceKept, Zenon
  <2>2. \E t \in always : t.object = o
    BY <2>1, OnlyWithTuples, Zenon
  <2> QED
    BY <1>1, <1>2, <2>2, Zenon
<1>5. candidates' \subseteq OfType(root[1])'
  BY <1>1, <1>3, Zenon
<1> QED
  BY <1>1, <1>3, <1>4, <1>5, Zenon DEF ObjectsInv

LEMMA CandidateKeepsObjects ==
    ASSUME IInv, ObjectsInv, NEW o \in Objects, CheckCandidate(o)
    PROVE  ObjectsInv'
<1>1. /\ op = "objects" /\ op' = "objects" /\ answer = "none" /\ answer' = "running"
      /\ o \in candidates /\ candidates' = candidates \ {o}
      /\ root' = <<o, root[2]>>
      /\ UNCHANGED <<model, user, context, listed, always, ever>>
  BY Zenon DEF CheckCandidate, StartCheck
<1>2. candidates \subseteq OfType(root[1]) /\ context = {}
  BY <1>1, Zenon DEF ObjectsInv
<1>3. OfType(root[1])' = OfType(root[1]) /\ root'[1] = o /\ root'[2] = root[2]
  BY <1>1, <1>2, Zenon DEF OfType
<1>4. ASSUME NEW p \in OfType(root[1])
      PROVE  /\ p \in listed' => Derivable(<<p, root[2]>>, ever)'
             /\ Derivable(<<p, root[2]>>, always)' =>
                   p \in listed' \cup candidates' \/ p = o
  <2>1. /\ Derivable(<<p, root'[2]>>, ever') <=> Derivable(<<p, root[2]>>, ever)
        /\ Derivable(<<p, root'[2]>>, always') <=> Derivable(<<p, root[2]>>, always)
    BY <1>1, <1>3, Zenon
  <2>2. /\ p \in listed => Derivable(<<p, root[2]>>, ever)
        /\ Derivable(<<p, root[2]>>, always) => p \in listed \cup candidates
    BY <1>1, Zenon DEF ObjectsInv
  <2>3. /\ Derivable(<<p, root[2]>>, ever)' <=> Derivable(<<p, root'[2]>>, ever')
        /\ Derivable(<<p, root[2]>>, always)' <=> Derivable(<<p, root'[2]>>, always')
    BY <1>1, ReferenceKept, Zenon
  <2> QED
    BY <1>1, <2>1, <2>2, <2>3, Zenon
<1> QED
  BY <1>1, <1>2, <1>3, <1>4, Zenon DEF ObjectsInv

LEMMA CollectKeepsObjects ==
    ASSUME IInv, ObjectsInv, Collect
    PROVE  ObjectsInv'
<1>1. /\ op = "objects" /\ op' = "objects" /\ answer \in {"allow", "deny"} /\ answer' = "none"
      /\ listed' = IF answer = "allow" THEN listed \cup {root[1]} ELSE listed
      /\ UNCHANGED <<model, user, context, root, candidates, always, ever>>
  BY Zenon DEF Collect
<1>2. root = <<root[1], root[2]>>
  BY DEF IInv, SearchTypes, Nodes
<1>3. /\ answer = "allow" => Derivable(<<root[1], root[2]>>, ever)
      /\ answer = "deny" => ~Derivable(<<root[1], root[2]>>, always)
  BY <1>2, Zenon DEF IInv, CheckIsSound, CheckIsComplete
<1>4. OfType(root[1])' = OfType(root[1])
  BY <1>1, Zenon DEF OfType
<1>5. ASSUME NEW o \in OfType(root[1])
      PROVE  /\ o \in listed' => Derivable(<<o, root[2]>>, ever)'
             /\ Derivable(<<o, root[2]>>, always)' => o \in listed' \cup candidates'
  <2>1. /\ Derivable(<<o, root[2]>>, ever)' <=> Derivable(<<o, root[2]>>, ever)
        /\ Derivable(<<o, root[2]>>, always)' <=> Derivable(<<o, root[2]>>, always)
    BY <1>1, ReferenceKept, Zenon
  <2>2. /\ o \in listed => Derivable(<<o, root[2]>>, ever)
        /\ Derivable(<<o, root[2]>>, always) => o \in listed \cup candidates \/ o = root[1]
    BY <1>1, Zenon DEF ObjectsInv
  <2> QED
    BY <1>1, <1>3, <2>1, <2>2, Zenon
<1> QED
  BY <1>1, <1>4, <1>5, Zenon DEF ObjectsInv

LEMMA ListedKeepsObjects ==
    ASSUME IInv, ObjectsInv, ListedObjects
    PROVE  ObjectsInv'
<1>1. /\ op = "objects" /\ op' = "objects done" /\ answer = "none" /\ candidates = {}
      /\ UNCHANGED <<model, user, context, root, answer, candidates, listed, always, ever>>
  BY Zenon DEF ListedObjects, search, listing
<1>2. OfType(root[1])' = OfType(root[1])
  BY <1>1, Zenon DEF OfType
<1>3. ASSUME NEW o \in OfType(root[1])
      PROVE  /\ Derivable(<<o, root[2]>>, ever)' <=> Derivable(<<o, root[2]>>, ever)
             /\ Derivable(<<o, root[2]>>, always)' <=> Derivable(<<o, root[2]>>, always)
  BY <1>1, ReferenceKept, Zenon
<1> QED
  BY <1>1, <1>2, <1>3, Zenon DEF ObjectsInv

LEMMA ObjectsNextInv ==
    ASSUME IInv, ObjectsInv, [Next]_vars
    PROVE  ObjectsInv'
<1>1. ASSUME NEW q \in Questions,
             \/ \E ctx \in Contexts : Check(q[1], q[2], ctx)
             \/ ListObjects(q[1], q[2])
             \/ ListUsers(q[1], q[2])
      PROVE  ObjectsInv'
  BY <1>1, Zenon DEF Check, ListObjects, ListUsers, Begin, listing, ObjectsInv
<1>2. CASE CheckStep
  BY <1>2, CheckStepFrame, ObjectsKept, Zenon DEF listing
<1>3. CASE ListStep
  <2>1. CASE ReadUsers \/ SkipRewrite \/ ListedUsers \/ ListFails
    <3>1. op' \in {"users", "users done", "failed"}
      BY <2>1, Zenon DEF ReadUsers, SkipRewrite, ListedUsers, ListFails
    <3> QED
      BY <3>1, Zenon DEF ObjectsInv
  <2> QED
    BY <1>3, <2>1, ScanKeepsObjects, CandidateKeepsObjects, CollectKeepsObjects, ListedKeepsObjects, Zenon
    DEF ListStep
<1>4. ASSUME NEW new, ChangeTuples(new)
      PROVE  ObjectsInv'
  <2>1. /\ UNCHANGED <<model, op, user, context, root, answer, candidates, listed>>
        /\ ever \subseteq ever' /\ always' \subseteq always
    BY <1>4, Zenon DEF ChangeTuples, search, listing
  <2> QED
    BY <2>1, ObjectsKept, Zenon
<1>5. CASE UNCHANGED vars
  <2>1. /\ UNCHANGED <<model, op, user, context, root, answer, candidates, listed>>
        /\ ever \subseteq ever' /\ always' \subseteq always
    BY <1>5, Zenon DEF vars, search, listing
  <2> QED
    BY <2>1, ObjectsKept, Zenon
<1> QED
  BY <1>1, <1>2, <1>3, <1>4, <1>5, Zenon DEF Next

(***************************************************************************)
(* ListUsers                                                               *)
(*                                                                         *)
(* The calls that have returned or are under way are not recorded, so the  *)
(* invariant says that there is a set of relations read so far that leads  *)
(* out of itself only to calls still to come.                              *)
(***************************************************************************)

Elements(s) == {s[i] : i \in 1..Len(s)}

Pending == Elements(relations)

Covered(read) ==
    /\ \A r \in read : UserKeys(<<root[1], r>>, always) \subseteq listed
    /\ \A r \in read : \A i \in 1..Len(ComputedFrom(r)) :
          ComputedFrom(r)[i] \in read \cup Pending \cup {""}
    /\ root[2] \in read \cup Pending

UsersInv ==
    /\ op \in {"users", "users done"} =>
          /\ context = {}
          /\ relations \in Seq(ComputedClosure \cup {""})
          /\ listed \subseteq UNION {UserKeys(<<root[1], r>>, ever) : r \in ComputedClosure}
          /\ \E read \in SUBSET Relations : Covered(read)
    /\ op = "users done" => relations = <<>>

\* Sequences, and the sets of their elements.
LEMMA FunctionIsSeq ==
    ASSUME NEW A, NEW n \in Nat, NEW f \in [1..n -> A]
    PROVE  f \in Seq(A) /\ Len(f) = n
  OBVIOUS

LEMMA HeadAndTail ==
    ASSUME NEW A, NEW s \in Seq(A), s # <<>>
    PROVE  /\ Head(s) \in A /\ Tail(s) \in Seq(A)
           /\ Elements(s) = {Head(s)} \cup Elements(Tail(s))
<1>1. /\ Head(s) \in A /\ Tail(s) \in Seq(A) /\ Len(s) \in Nat \ {0}
      /\ Head(s) = s[1] /\ Len(Tail(s)) = Len(s) - 1
      /\ \A i \in 1..(Len(s) - 1) : Tail(s)[i] = s[i + 1]
  OBVIOUS
<1>2. \A i \in 1..Len(s) : i = 1 \/ (i - 1 \in 1..(Len(s) - 1) /\ Tail(s)[i - 1] = s[i])
  BY <1>1
<1>3. \A i \in 1..(Len(s) - 1) : i + 1 \in 1..Len(s)
  BY <1>1
<1>4. 1 \in 1..Len(s)
  BY <1>1
<1>5. \A x : (\E i \in 1..Len(s) : x = s[i])
             <=> x = Head(s) \/ \E i \in 1..Len(Tail(s)) : x = Tail(s)[i]
  BY <1>1, <1>2, <1>3, <1>4, Zenon
<1>6. Elements(s) = {Head(s)} \cup Elements(Tail(s))
  BY <1>5, Zenon DEF Elements
<1> QED
  BY <1>1, <1>6, Zenon

LEMMA ConcatElements ==
    ASSUME NEW A, NEW s \in Seq(A), NEW t \in Seq(A)
    PROVE  s \o t \in Seq(A) /\ Elements(s \o t) = Elements(s) \cup Elements(t)
<1>1. /\ s \o t \in Seq(A) /\ Len(s \o t) = Len(s) + Len(t)
      /\ Len(s) \in Nat /\ Len(t) \in Nat
      /\ \A i \in 1..Len(s) : (s \o t)[i] = s[i]
      /\ \A i \in 1..Len(t) : (s \o t)[i + Len(s)] = t[i]
  OBVIOUS
<1>2. \A i \in 1..(Len(s) + Len(t)) :
         i \in 1..Len(s) \/ (i - Len(s) \in 1..Len(t) /\ (s \o t)[i] = t[i - Len(s)])
  BY <1>1
<1>3. /\ \A i \in 1..Len(t) : i + Len(s) \in 1..(Len(s) + Len(t))
      /\ \A i \in 1..Len(s) : i \in 1..(Len(s) + Len(t))
  BY <1>1
<1>4. \A x : (\E i \in 1..Len(s \o t) : x = (s \o t)[i])
             <=> (\E i \in 1..Len(s) : x = s[i]) \/ \E i \in 1..Len(t) : x = t[i]
  BY <1>1, <1>2, <1>3, Zenon
<1>5. Elements(s \o t) = Elements(s) \cup Elements(t)
  BY <1>4, Zenon DEF Elements
<1> QED
  BY <1>1, <1>5, Zenon

LEMMA EmptyAndSingle ==
    /\ Elements(<<>>) = {}
    /\ \A A : \A x \in A : <<x>> \in Seq(A) /\ Elements(<<x>>) = {x}
<1>1. Elements(<<>>) = {}
  BY DEF Elements
<1>2. ASSUME NEW A, NEW x \in A
      PROVE  <<x>> \in Seq(A) /\ Elements(<<x>>) = {x}
  <2>1. <<x>> \in Seq(A) /\ Len(<<x>>) = 1 /\ <<x>>[1] = x
    OBVIOUS
  <2> QED
    BY <2>1 DEF Elements
<1> QED
  BY <1>1, <1>2, Zenon

LEMMA ComputedFromRelations ==
    ASSUME IInv, NEW r \in Relations
    PROVE  /\ Len(ComputedFrom(r)) \in Nat
           /\ ComputedFrom(r) \in [1..Len(ComputedFrom(r)) -> Relations \cup {""}]
<1> DEFINE rules == Rules(<<root[1], r>>)
<1>1. <<root[1], r>> \in Nodes
  BY Zenon DEF IInv, SearchTypes, Nodes
<1>2. rules \in Seq(Rewrites)
  BY <1>1, Zenon DEF IInv, ModelOK
<1>3. \A i \in 1..Len(rules) : rules[i].kind = "computed" => rules[i].relation \in Relations
  <2>1. ASSUME NEW rw \in Rewrites, rw.kind = "computed"
        PROVE  rw.relation \in Relations
    BY <2>1, Zenon DEF Rewrites
  <2>2. \A i \in 1..Len(rules) : rules[i] \in Rewrites
    BY <1>2
  <2> QED
    BY <2>1, <2>2, Zenon
<1> HIDE DEF rules
<1>4. ComputedFrom(r) =
        [i \in 1..Len(rules) |-> IF rules[i].kind = "computed" THEN rules[i].relation ELSE ""]
  BY Zenon DEF ComputedFrom, rules
<1>5. Len(rules) \in Nat
  BY <1>2
<1>6. ComputedFrom(r) \in [1..Len(rules) -> Relations \cup {""}]
  BY <1>3, <1>4, Zenon
<1> HIDE DEF ComputedFrom
<1>7. Len(ComputedFrom(r)) = Len(rules)
  BY <1>5, <1>6, FunctionIsSeq, Zenon
<1> QED
  BY <1>5, <1>6, <1>7, Zenon

\* The closure is one: it has the root's relation, and what its relations are
\* computed from.
LEMMA ClosureCloses ==
    ASSUME IInv
    PROVE  /\ root[2] \in ComputedClosure
           /\ \A r \in ComputedClosure : ComputedFrom(r) \in Seq(ComputedClosure \cup {""})
<1>1. root[2] \in Relations
  BY Zenon DEF IInv, SearchTypes, Nodes
<1>2. root[2] \in ComputedClosure
  BY <1>1, Zenon DEF ComputedClosure
<1>3. ASSUME NEW r \in ComputedClosure, NEW i \in 1..Len(ComputedFrom(r))
      PROVE  ComputedFrom(r)[i] \in ComputedClosure \cup {""}
  <2> DEFINE c == ComputedFrom(r)[i]
  <2> SUFFICES ASSUME c # "" PROVE c \in ComputedClosure
    BY Zenon
  <2>1. r \in Relations
    BY Zenon DEF ComputedClosure
  <2>2. c \in Relations
    BY <2>1, ComputedFromRelations, Zenon
  <2>3. ASSUME NEW S \in SUBSET Relations, root[2] \in S,
               \A s \in S : \A j \in 1..Len(ComputedFrom(s)) : ComputedFrom(s)[j] \in S \cup {""}
        PROVE  c \in S
    <3>1. r \in S
      BY <2>3, Zenon DEF ComputedClosure
    <3> QED
      BY <2>3, <3>1, Zenon
  <2> HIDE DEF c
  <2> QED
    BY <2>2, <2>3, Zenon DEF ComputedClosure
<1>4. ASSUME NEW r \in ComputedClosure
      PROVE  ComputedFrom(r) \in Seq(ComputedClosure \cup {""})
  <2>1. r \in Relations
    BY Zenon DEF ComputedClosure
  <2>2. /\ Len(ComputedFrom(r)) \in Nat
        /\ ComputedFrom(r) \in [1..Len(ComputedFrom(r)) -> Relations \cup {""}]
    BY <2>1, ComputedFromRelations, Zenon
  <2>3. ComputedFrom(r) \in [1..Len(ComputedFrom(r)) -> ComputedClosure \cup {""}]
    BY <1>3, <2>2, Zenon
  <2> QED
    BY <2>2, <2>3, FunctionIsSeq, Zenon
<1> QED
  BY <1>2, <1>4, Zenon

\* Where the root and the model stay, so does the closure.
LEMMA ClosureKept ==
    ASSUME UNCHANGED <<model, root>>
    PROVE  /\ \A r : ComputedFrom(r)' = ComputedFrom(r)
           /\ ComputedClosure' = ComputedClosure
<1>1. ASSUME NEW r
      PROVE  ComputedFrom(r)' = ComputedFrom(r)
  <2>1. Rules(<<root[1], r>>)' = Rules(<<root[1], r>>)
    BY Zenon DEF Rules, HasRelation
  <2> QED
    BY <2>1, Zenon DEF ComputedFrom
<1> QED
  BY <1>1, Zenon DEF ComputedClosure

\* The call that reads a relation.
LEMMA ReadKeepsUsers ==
    ASSUME IInv, UsersInv, ReadUsers
    PROVE  UsersInv'
<1> DEFINE h == Head(relations)
           all == ComputedClosure \cup {""}
           new == ComputedFrom(h)
           rest == Tail(relations)
           keys == UserKeys(<<root[1], h>>, tuples)
<1>1. /\ op = "users" /\ op' = "users" /\ relations # <<>> /\ h # ""
      /\ listed' = listed \cup keys /\ relations' = new \o rest
      /\ UNCHANGED <<model, root, context, always, ever>>
  BY Zenon DEF ReadUsers, search
<1>2. /\ relations \in Seq(all) /\ context = {}
      /\ listed \subseteq UNION {UserKeys(<<root[1], r>>, ever) : r \in ComputedClosure}
  BY <1>1, Zenon DEF UsersInv
<1>3. h \in ComputedClosure /\ rest \in Seq(all) /\ Pending = {h} \cup Elements(rest)
  <2>1. h \in all /\ rest \in Seq(all) /\ Elements(relations) = {h} \cup Elements(rest)
    BY <1>1, <1>2, HeadAndTail, Zenon
  <2> QED
    BY <1>1, <2>1, Zenon DEF Pending
<1>4. new \in Seq(all)
  BY <1>3, ClosureCloses, Zenon
<1>5. always \subseteq tuples /\ tuples \subseteq ever
  BY <1>2, Zenon DEF IInv, Seen, View
<1>6. UserKeys(<<root[1], h>>, always) \subseteq keys /\ keys \subseteq UserKeys(<<root[1], h>>, ever)
  BY <1>5, Zenon DEF UserKeys, On
<1>7. PICK read \in SUBSET Relations : Covered(read)
  BY <1>1, Zenon DEF UsersInv
<1>8. PICK after \in SUBSET Relations : after = read \cup {h}
  BY <1>3, Zenon DEF ComputedClosure
<1> HIDE DEF h, new, rest, all
<1>9. relations' \in Seq(all) /\ Pending' = Elements(new) \cup Elements(rest)
  <2>1. new \o rest \in Seq(all) /\ Elements(new \o rest) = Elements(new) \cup Elements(rest)
    BY <1>3, <1>4, ConcatElements
  <2> QED
    BY <1>1, <2>1, Zenon DEF Pending
<1>10. ComputedClosure' = ComputedClosure /\ \A r : ComputedFrom(r)' = ComputedFrom(r)
  BY <1>1, ClosureKept, Zenon
<1>11. Covered(after)'
  <2>0. ASSUME NEW r
        PROVE  UserKeys(<<root[1], r>>, always)' = UserKeys(<<root[1], r>>, always)
    BY <1>1, Zenon DEF UserKeys, On
  <2>1. ASSUME NEW r \in after
        PROVE  UserKeys(<<root[1], r>>, always)' \subseteq listed'
    BY <1>1, <1>6, <1>7, <1>8, <2>0, Zenon DEF Covered
  <2>2. Pending \subseteq after \cup Pending'
    BY <1>3, <1>8, <1>9, Zenon
  <2>3. ASSUME NEW r \in after, NEW i \in 1..Len(ComputedFrom(r))
        PROVE  ComputedFrom(r)[i] \in after \cup Pending' \cup {""}
    <3>1. CASE r \in read
      BY <1>7, <1>8, <2>2, <3>1, Zenon DEF Covered
    <3>2. CASE r = h
      BY <1>9, <3>2, Zenon DEF new, Elements
    <3> QED
      BY <1>8, <3>1, <3>2, Zenon
  <2>4. root[2] \in after \cup Pending'
    BY <1>7, <1>8, <2>2, Zenon DEF Covered
  <2> QED
    BY <1>1, <1>10, <2>1, <2>3, <2>4, Zenon DEF Covered
<1>12. listed' \subseteq UNION {UserKeys(<<root[1], r>>, ever) : r \in ComputedClosure}
  BY <1>1, <1>2, <1>3, <1>6, Zenon
<1>13. (UNION {UserKeys(<<root[1], r>>, ever) : r \in ComputedClosure})'
        = UNION {UserKeys(<<root[1], r>>, ever) : r \in ComputedClosure}
  <2>1. ASSUME NEW r
        PROVE  UserKeys(<<root[1], r>>, ever)' = UserKeys(<<root[1], r>>, ever)
    BY <1>1, Zenon DEF UserKeys, On
  <2> QED
    BY <1>10, <2>1, Zenon
<1> QED
  BY <1>1, <1>2, <1>8, <1>9, <1>10, <1>11, <1>12, <1>13, Zenon DEF UsersInv, all

\* A rewrite of another kind calls nothing.
LEMMA SkipKeepsUsers ==
    ASSUME IInv, UsersInv, SkipRewrite
    PROVE  UsersInv'
<1> DEFINE all == ComputedClosure \cup {""}
           rest == Tail(relations)
<1>1. /\ op = "users" /\ op' = "users" /\ relations # <<>> /\ Head(relations) = ""
      /\ relations' = rest
      /\ UNCHANGED <<model, root, context, listed, always, ever>>
  BY Zenon DEF SkipRewrite, search
<1>2. relations \in Seq(all) /\ context = {}
  BY <1>1, Zenon DEF UsersInv
<1>3. rest \in Seq(all) /\ Pending = {""} \cup Elements(rest)
  BY <1>1, <1>2, HeadAndTail, Zenon DEF Pending
<1> HIDE DEF rest, all
<1>4. Pending \subseteq Pending' \cup {""}
  BY <1>1, <1>3, Zenon DEF Pending
<1>5. ComputedClosure' = ComputedClosure /\ \A r : ComputedFrom(r)' = ComputedFrom(r)
  BY <1>1, ClosureKept, Zenon
<1>6. \A r : /\ UserKeys(<<root[1], r>>, always)' = UserKeys(<<root[1], r>>, always)
             /\ UserKeys(<<root[1], r>>, ever)' = UserKeys(<<root[1], r>>, ever)
  BY <1>1, Zenon DEF UserKeys, On
<1>7. PICK read \in SUBSET Relations : Covered(read)
  BY <1>1, Zenon DEF UsersInv
<1>8. root[2] # ""
  BY CheckerAssumption, Zenon DEF IInv, SearchTypes, Nodes
<1>9. Covered(read)'
  BY <1>1, <1>4, <1>5, <1>6, <1>7, <1>8, Zenon DEF Covered
<1>10. (listed \subseteq UNION {UserKeys(<<root[1], r>>, ever) : r \in ComputedClosure})'
  BY <1>1, <1>5, <1>6, Zenon DEF UsersInv
<1> QED
  BY <1>1, <1>2, <1>3, <1>5, <1>9, <1>10, Zenon DEF UsersInv, all

\* A writer leaves less that stayed, and more that was there.
LEMMA WriterKeepsUsers ==
    ASSUME UsersInv, UNCHANGED <<model, op, root, context, relations, listed>>,
           ever \subseteq ever', always' \subseteq always
    PROVE  UsersInv'
<1>1. CASE op \in {"users", "users done"}
  <2>1. ComputedClosure' = ComputedClosure /\ \A r : ComputedFrom(r)' = ComputedFrom(r)
    BY ClosureKept, Zenon
  <2>2. \A r : /\ UserKeys(<<root[1], r>>, always)' \subseteq UserKeys(<<root[1], r>>, always)
               /\ UserKeys(<<root[1], r>>, ever) \subseteq UserKeys(<<root[1], r>>, ever)'
    BY Zenon DEF UserKeys, On
  <2>3. PICK read \in SUBSET Relations : Covered(read)
    BY <1>1, Zenon DEF UsersInv
  <2>4. Pending' = Pending
    BY Zenon DEF Pending
  <2>5. Covered(read)'
    BY <2>1, <2>2, <2>3, <2>4, Zenon DEF Covered
  <2>6. (listed \subseteq UNION {UserKeys(<<root[1], r>>, ever) : r \in ComputedClosure})'
    <3>1. listed \subseteq UNION {UserKeys(<<root[1], r>>, ever) : r \in ComputedClosure}
      BY <1>1, Zenon DEF UsersInv
    <3> QED
      BY <2>1, <2>2, <3>1
  <2> QED
    BY <1>1, <2>1, <2>5, <2>6, Zenon DEF UsersInv
<1>2. CASE op \notin {"users", "users done"}
  BY <1>2, Zenon DEF UsersInv
<1> QED
  BY <1>1, <1>2, Zenon

LEMMA BeginKeepsUsers ==
    ASSUME ObjectsInv, NEW q \in Questions, ListUsers(q[1], q[2])
    PROVE  UsersInv'
<1>1. /\ op = "idle" /\ op' = "users" /\ context' = {} /\ root' = q[2] /\ relations' = <<q[2][2]>>
      /\ listed' = listed
  BY Zenon DEF ListUsers, Begin
<1>2. listed' = {}
  BY <1>1, Zenon DEF ObjectsInv
<1>3. q[2][2] \in Relations
  BY CheckerAssumption, Zenon DEF Nodes
<1>4. q[2][2] \in ComputedClosure'
  BY <1>1, <1>3, Zenon DEF ComputedClosure
<1>5. relations' \in Seq(ComputedClosure \cup {""})'
  BY <1>1, <1>4, EmptyAndSingle, Zenon
<1>6. Pending' = {q[2][2]}
  BY <1>1, EmptyAndSingle, Zenon DEF Pending
<1>7. Covered({})'
  BY <1>1, <1>6, Zenon DEF Covered
<1> QED
  BY <1>1, <1>2, <1>5, <1>7, Zenon DEF UsersInv

LEMMA UsersNextInv ==
    ASSUME IInv, ObjectsInv, UsersInv, [Next]_vars
    PROVE  UsersInv'
<1>1. ASSUME NEW q \in Questions,
             (\E ctx \in Contexts : Check(q[1], q[2], ctx)) \/ ListObjects(q[1], q[2])
      PROVE  UsersInv'
  <2>1. op' \in {"check", "scan"}
    BY <1>1, Zenon DEF Check, ListObjects, Begin
  <2> QED
    BY <2>1, Zenon DEF UsersInv
<1>2. CASE CheckStep
  BY <1>2, CheckStepFrame, WriterKeepsUsers, Zenon DEF listing
<1>3. CASE ListStep
  <2>1. ASSUME NEW o \in Objects, CheckCandidate(o)
        PROVE  UsersInv'
    <3>1. op' = "objects"
      BY <2>1, Zenon DEF CheckCandidate
    <3> QED
      BY <3>1, Zenon DEF UsersInv
  <2>2. CASE Scan \/ Collect \/ ListedObjects \/ ListFails
    <3>1. op' \in {"objects", "objects done", "failed"}
      BY <2>2, Zenon DEF Scan, Collect, ListedObjects, ListFails
    <3> QED
      BY <3>1, Zenon DEF UsersInv
  <2>3. CASE ListedUsers
    <3>1. /\ op = "users" /\ op' = "users done" /\ relations = <<>>
          /\ UNCHANGED <<model, root, context, relations, listed, always, ever>>
      BY <2>3, Zenon DEF ListedUsers, search, listing
    <3>2. ComputedClosure' = ComputedClosure /\ \A r : ComputedFrom(r)' = ComputedFrom(r)
      BY <3>1, ClosureKept, Zenon
    <3>3. \A r : /\ UserKeys(<<root[1], r>>, always)' = UserKeys(<<root[1], r>>, always)
                 /\ UserKeys(<<root[1], r>>, ever)' = UserKeys(<<root[1], r>>, ever)
      BY <3>1, Zenon DEF UserKeys, On
    <3>4. PICK read \in SUBSET Relations : Covered(read)
      BY <3>1, Zenon DEF UsersInv
    <3>5. Pending' = Pending
      BY <3>1, Zenon DEF Pending
    <3>6. Covered(read)'
      BY <3>1, <3>2, <3>3, <3>4, <3>5, Zenon DEF Covered
    <3>7. (listed \subseteq UNION {UserKeys(<<root[1], r>>, ever) : r \in ComputedClosure})'
      BY <3>1, <3>2, <3>3, Zenon DEF UsersInv
    <3> QED
      BY <3>1, <3>2, <3>6, <3>7, Zenon DEF UsersInv
  <2> QED
    BY <1>3, <2>1, <2>2, <2>3, ReadKeepsUsers, SkipKeepsUsers, Zenon DEF ListStep
<1>4. ASSUME NEW new, ChangeTuples(new)
      PROVE  UsersInv'
  <2>1. /\ UNCHANGED <<model, op, root, context, relations, listed>>
        /\ ever \subseteq ever' /\ always' \subseteq always
    BY <1>4, Zenon DEF ChangeTuples, search, listing
  <2> QED
    BY <2>1, WriterKeepsUsers, Zenon
<1>5. CASE UNCHANGED vars
  <2>1. /\ UNCHANGED <<model, op, root, context, relations, listed>>
        /\ ever \subseteq ever' /\ always' \subseteq always
    BY <1>5, Zenon DEF vars, search, listing
  <2> QED
    BY <2>1, WriterKeepsUsers, Zenon
<1> QED
  BY <1>1, <1>2, <1>3, <1>4, <1>5, BeginKeepsUsers, Zenon DEF Next

(***************************************************************************)
(* Types                                                                   *)
(***************************************************************************)

\* The part of TypeOK the search does not need.
OtherTypes ==
    /\ op \in {"idle", "check", "scan", "objects", "objects done", "users", "users done", "failed"}
    /\ relations \in Seq(Relations \cup {""})
    /\ listReads \in Nat
    /\ always \in SUBSET Tuples
    /\ ever \in SUBSET Tuples
    /\ changes \in Nat

LEMMA CountsOn ==
    ASSUME NEW n \in Nat
    PROVE  n + 1 \in Nat
  OBVIOUS

LEMMA SeqWidens ==
    ASSUME NEW A, NEW B, A \subseteq B, NEW s \in Seq(A)
    PROVE  s \in Seq(B)
  OBVIOUS

\* Only a listing of users has calls to come, and it keeps to relations of the
\* model.
LEMMA RelationsTyped ==
    ASSUME OtherTypes, UsersInv',
           UNCHANGED relations \/ op' = "users"
    PROVE  relations' \in Seq(Relations \cup {""})
<1>1. CASE UNCHANGED relations
  BY <1>1, Zenon DEF OtherTypes
<1>2. CASE op' = "users"
  <2>1. relations' \in Seq(ComputedClosure' \cup {""})
    BY <1>2, Zenon DEF UsersInv
  <2>2. ComputedClosure' \cup {""} \subseteq Relations \cup {""}
    BY Zenon DEF ComputedClosure
  <2> HIDE DEF UsersInv
  <2> QED BY <2>1, <2>2, SeqWidens, Zenon
<1> QED BY <1>1, <1>2, Zenon

LEMMA OtherNextTypes ==
    ASSUME IInv, OtherTypes, UsersInv', [Next]_vars
    PROVE  OtherTypes'
<1> DEFINE Ops == {"idle", "check", "scan", "objects", "objects done", "users", "users done", "failed"}
<1>1. ASSUME NEW q \in Questions, NEW ctx \in Contexts, Check(q[1], q[2], ctx)
      PROVE  OtherTypes'
  <2>1. /\ op' \in Ops
        /\ always' \in SUBSET Tuples /\ ever' \in SUBSET Tuples
        /\ UNCHANGED <<relations, listReads, changes>>
    BY <1>1, CheckerAssumption, Zenon DEF Check, Begin, listing, IInv, SearchTypes
  <2> QED BY <2>1, Zenon DEF OtherTypes
<1>2. ASSUME NEW q \in Questions, ListObjects(q[1], q[2]) \/ ListUsers(q[1], q[2])
      PROVE  OtherTypes'
  <2>1. /\ op' \in Ops
        /\ always' \in SUBSET Tuples /\ ever' \in SUBSET Tuples
        /\ UNCHANGED <<listReads, changes>>
        /\ UNCHANGED relations \/ op' = "users"
    BY <1>2, Zenon DEF ListObjects, ListUsers, Begin, listing, IInv, SearchTypes
  <2> QED BY <2>1, RelationsTyped, Zenon DEF OtherTypes
<1>3. CASE CheckStep
  <2>1. UNCHANGED <<op, relations, listReads, always, ever, changes>>
    BY <1>3, Zenon DEF CheckStep, CheckProgress, Enter, Cancelled, directCheck, usersetExpansion,
       computedUserset, tupleToUserset, Expand, ReadFails, ReturnFalse, listing
  <2> QED BY <2>1, Zenon DEF OtherTypes
<1>4. CASE ListStep
  <2>1. CASE ReadUsers
    <3>1. /\ op = "users"
          /\ listReads' = listReads + 1
          /\ UNCHANGED <<op, always, ever, changes>>
      BY <2>1, Zenon DEF ReadUsers
    <3>2. listReads' \in Nat
      BY <3>1, CountsOn, Zenon DEF OtherTypes
    <3> QED BY <3>1, <3>2, RelationsTyped, Zenon DEF OtherTypes
  <2>2. CASE SkipRewrite
    <3>1. /\ op = "users"
          /\ UNCHANGED <<op, listReads, always, ever, changes>>
      BY <2>2, Zenon DEF SkipRewrite
    <3> QED BY <3>1, RelationsTyped, Zenon DEF OtherTypes
  <2>3. CASE Scan \/ (\E o \in Objects : CheckCandidate(o)) \/ Collect \/ ListedObjects
                \/ ListedUsers \/ ListFails
    <3>1. /\ op' = op \/ op' \in {"objects", "objects done", "users done", "failed"}
          /\ UNCHANGED <<relations, listReads, always, ever, changes>>
      BY <2>3, Zenon DEF Scan, CheckCandidate, Collect, ListedObjects, ListedUsers, ListFails, listing
    <3> QED BY <3>1, Zenon DEF OtherTypes
  <2> QED BY <1>4, <2>1, <2>2, <2>3, Zenon DEF ListStep
<1>5. ASSUME NEW new \in SUBSET Tuples, ChangeTuples(new)
      PROVE  OtherTypes'
  <2>1. /\ always' \in SUBSET Tuples /\ ever' \in SUBSET Tuples
        /\ changes' = changes + 1
        /\ UNCHANGED <<op, relations, listReads>>
    BY <1>5, Zenon DEF ChangeTuples, listing, OtherTypes
  <2>2. changes' \in Nat
    BY <2>1, CountsOn, Zenon DEF OtherTypes
  <2> QED BY <2>1, <2>2, Zenon DEF OtherTypes
<1>6. CASE UNCHANGED vars
  <2>1. UNCHANGED <<op, relations, listReads, always, ever, changes>>
    BY <1>6, Zenon DEF vars, listing
  <2> QED BY <2>1, Zenon DEF OtherTypes
<1>7. \A t \in Tuples : tuples \cup {t} \in SUBSET Tuples /\ tuples \ {t} \in SUBSET Tuples
  BY Zenon DEF IInv, SearchTypes
<1> QED
  BY <1>1, <1>2, <1>3, <1>4, <1>5, <1>6, <1>7, Zenon DEF Next

(***************************************************************************)
(* The theorems                                                            *)
(***************************************************************************)

ListInv == ObjectsInv /\ UsersInv

LEMMA Safety == Spec => [](IInv /\ ListInv)
<1>1. Init => ListInv
  BY Zenon DEF Init, ListInv, ObjectsInv, UsersInv
<1>2. IInv /\ ListInv /\ [Next]_vars => ListInv'
  BY ObjectsNextInv, UsersNextInv, Zenon DEF ListInv
<1> QED
  BY <1>1, <1>2, InitInv, NextInv, PTL DEF Spec

\* Every variable of the check and of the listings keeps its shape, the tuples an
\* operation has seen and the calls of ListUsers still to come included.
THEOREM CheckerIsTyped == Spec => []TypeOK
<1>1. Init => OtherTypes
  <2>1. ASSUME Init PROVE relations \in Seq(Relations \cup {""}) /\ listReads \in Nat /\ changes \in Nat
    BY <2>1 DEF Init
  <2> QED BY <2>1, Zenon DEF Init, OtherTypes
<1>2. IInv /\ OtherTypes /\ ListInv' /\ [Next]_vars => OtherTypes'
  BY OtherNextTypes, Zenon DEF ListInv
<1>3. IInv /\ OtherTypes => TypeOK
  BY Zenon DEF IInv, SearchTypes, OtherTypes, TypeOK
<1> QED BY <1>1, <1>2, <1>3, Safety, PTL DEF Spec

\* An allow can be derived from tuples that were there at some time during the
\* check, for every model and every interleaving with writers.
THEOREM CheckSound == Spec => []CheckIsSound
<1>1. IInv => CheckIsSound
  BY Zenon DEF IInv
<1> QED BY <1>1, InitInv, NextInv, PTL DEF Spec

\* A deny hides no path of tuples that were there during the whole check, although
\* a node that is being checked, or was, counts as false when it is met again.
THEOREM CheckComplete == Spec => []CheckIsComplete
<1>1. IInv => CheckIsComplete
  BY Zenon DEF IInv
<1> QED BY <1>1, InitInv, NextInv, PTL DEF Spec

\* No node has two active calls: the depth of the recursion is at most the number
\* of nodes.
THEOREM NoRepeatedNode == Spec => []DepthBounded
<1>1. IInv => DepthBounded
  BY Zenon DEF IInv
<1> QED BY <1>1, InitInv, NextInv, PTL DEF Spec

\* ListObjects, where it returns, has every object that could be derived all the
\* time and none that never could: it misses nothing by looking only at objects
\* with a tuple of their own.
THEOREM ObjectsListedExactly == Spec => []ListObjectsExact
<1>1. ListInv => ListObjectsExact
  BY Zenon DEF ListInv, ObjectsInv, ListObjectsExact
<1> QED BY <1>1, Safety, PTL

\* ListUsers, where it returns, has the holders of the relation and of every
\* relation it is computed from, and no others.
THEOREM UsersListedCompletely == Spec => []ListUsersComplete
<1>1. ASSUME IInv, ListInv, op = "users done"
      PROVE  \A r \in ComputedClosure : UserKeys(<<root[1], r>>, always) \subseteq listed
  <2>1. PICK read \in SUBSET Relations : Covered(read)
    BY <1>1, Zenon DEF ListInv, UsersInv
  <2>2. Pending = {}
    BY <1>1, EmptyAndSingle, Zenon DEF ListInv, UsersInv, Pending
  <2>3. ComputedClosure \subseteq read
    BY <2>1, <2>2, Zenon DEF Covered, ComputedClosure
  <2> QED
    BY <2>1, <2>3, Zenon DEF Covered
<1>2. IInv /\ ListInv => ListUsersComplete
  BY <1>1, Zenon DEF ListInv, UsersInv, ListUsersComplete
<1> QED BY <1>2, Safety, PTL
=============================================================================
