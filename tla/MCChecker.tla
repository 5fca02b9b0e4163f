------------------------------ MODULE MCChecker ------------------------------
(* Two documents that may be each other's parent, and a team; models with   *)
(* and without cycles, and some that do not compile.                       *)
EXTENDS Checker, TLC

CONSTANTS alice, team1, doc1, doc2

AllObjects == {alice, team1, doc1, doc2}
TypeOfObject == [o \in AllObjects |-> CASE o = alice -> "user" [] o = team1 -> "team" [] OTHER -> "doc"]
AllRelations == {"member", "viewer", "editor", "parent"}

Tuple(o, r, u, ur) == [object |-> o, relation |-> r, user |-> u, userRelation |-> ur]
AliceInTeam == Tuple(team1, "member", alice, "")
TeamViews == Tuple(doc1, "viewer", team1, "member")
AliceEdits == Tuple(doc1, "editor", alice, "")
Parent(d, p) == Tuple(d, "parent", p, "")
\* No relation of a team.
Stray == Tuple(doc2, "editor", team1, "viewer")
AllTuples == {AliceInTeam, TeamViews, AliceEdits, Parent(doc2, doc1), Parent(doc1, doc2), Stray}

\* YAML fields of a relation.
Named(r) == [relation |-> r, from |-> "", lookup |-> ""]
Via(f, l) == [relation |-> "", from |-> f, lookup |-> l]
Raw(types, union, required) == [types |-> types, union |-> union, required |-> required]

Users == {<<"user", "">>}
Anyone == {<<"user", "">>, <<"team", "member">>}
Teams == [member |-> Raw(Anyone, <<>>, FALSE)]
Docs(viewer, editor) ==
    [viewer |-> viewer, editor |-> editor, parent |-> Raw({<<"doc", "">>}, <<>>, FALSE)]

Viewers == {Raw(Anyone, <<Named("editor"), Via("parent", "viewer")>>, FALSE),
            Raw(Anyone, <<Via("parent", "editor"), Named("")>>, FALSE),
            Raw({}, <<Named("member")>>, FALSE)}
Editors == {Raw(Users, <<>>, TRUE),
            Raw({}, <<Named("viewer")>>, FALSE),
            Raw(Users, <<Named("viewer")>>, TRUE)}

AllModels ==
    {("user" :> <<>>) @@ ("team" :> Teams) @@ ("doc" :> Docs(v, e)) : v \in Viewers, e \in Editors}

AllQuestions == {<<alice, <<doc2, "viewer">>>>, <<team1, <<doc1, "viewer">>>>, <<alice, <<doc1, "member">>>>}
AllContexts == {{}, {AliceInTeam, Stray}}
=============================================================================
