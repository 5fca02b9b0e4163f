---------------------------- MODULE MCTupleStore -----------------------------
(* One organisation with owners, of whom one is required, and viewers: two
   callers of the engine; two runs of two materializers; and a scan of
   everything, or of what alice holds and then of all other owners, while one
   caller and one materializer change the store. *)
EXTENDS BoundedPage, TLC

CONSTANTS aliceOwner, bobOwner, teamOwner, aliceViewer, owner, viewer, alice, bob, team, m1, m2

AllTuples == {aliceOwner, bobOwner, teamOwner, aliceViewer}
AllKeys == {owner, viewer}
AllUsers == {alice, bob, team}
DirectTuples == Tuples \ {teamOwner}
KeyOfTuple == [t \in Tuples |-> IF t = aliceViewer THEN viewer ELSE owner]
UserOfTuple ==
    [t \in Tuples |-> CASE t = bobOwner -> bob [] t = teamOwner -> team [] OTHER -> alice]
Required == [k \in AllKeys |-> IF k = owner THEN 1 ELSE 0]
Admissible == AllTuples \ {teamOwner}
Swap == {<<{bobOwner, aliceViewer}, {aliceOwner, aliceViewer}>>, <<{}, {}>>}
Removal == {<<{}, {aliceOwner}>>}
AllNames == {m1, m2}
Results == {{bobOwner}, {}, {bobOwner, aliceOwner}, {aliceViewer}, {teamOwner}}
CallbackOf ==
    [x \in AllNames \X (1..MaxRegistrations) \X (0..MaxChanges) |->
        CASE x[1] = m2 /\ x[3] = 0 -> {teamOwner}
          [] x[1] = m2 -> {}
          [] x[2] = 1 /\ x[3] = 0 -> {bobOwner}
          [] x[2] = 1 -> {}
          [] x[3] = 0 -> {bobOwner, aliceOwner}
          [] OTHER -> {aliceViewer}]
Order ==
    [t \in Tuples |-> CASE t = aliceOwner -> 1 [] t = bobOwner -> 2 [] t = teamOwner -> 3 [] OTHER -> 4]
Longest == {teamOwner}
Everything == <<[filter |-> AllTuples, exclude |-> Nobody]>>
AliceThenOwners ==
    <<[filter |-> {aliceOwner, aliceViewer}, exclude |-> Nobody],
      [filter |-> {aliceOwner, bobOwner, teamOwner}, exclude |-> alice]>>
Setting(calls, ops, runs, registrations, changes, scans) ==
    [calls |-> calls, ops |-> ops, runs |-> runs, scans |-> scans,
     registrations |-> [n \in AllNames |-> IF n = m1 THEN registrations[1] ELSE registrations[2]],
     changes |-> [n \in AllNames |-> IF n = m1 THEN changes ELSE 0]]
AllUnions == {Everything, AliceThenOwners}
MCSettings ==
    {Setting(2, {"write", "delete", "raw", "guarded", "tx"}, 0, <<0, 0>>, 0, {}),
     Setting(2, {"delete", "raw", "guarded", "tx", "replace"}, 0, <<0, 0>>, 0, {}),
     Setting(0, {}, 2, <<2, 0>>, 1, {}),
     Setting(0, {}, 2, <<1, 1>>, 1, {}),
     Setting(1, {"write", "raw"}, 0, <<0, 0>>, 0, AllUnions),
     Setting(1, {"tx"}, 1, <<1, 0>>, 1, {AliceThenOwners}),
     Setting(1, {"write", "guarded"}, 1, <<1, 0>>, 1, {})}
OneCaller == {Setting(1, {"write", "delete", "guarded", "tx"}, 0, <<0, 0>>, 0, {})}
StoreSymmetry == Permutations(Callers) \cup Permutations(Runners)
=============================================================================
