--------------------------- MODULE MCTeamExportor ---------------------------
(***************************************************************************)
(* The first commit moves a subcomponent from t1 to t2; t3 is ignored by   *)
(* the override, whose changes give t3 a component and ignore t1 instead.  *)
(* The override gives t2 no list in one version and a nil one in the next. *)
(***************************************************************************)
EXTENDS TeamExportor, TLC

CONSTANTS c1, s1, t1, t2, t3

\* A team without empty lists, which has no map unless it has lists.
Info(components, subcomponents, memberCount) ==
    [ components    |-> components,
      subcomponents |-> subcomponents,
      nilLists      |-> {},
      nilMap        |-> DOMAIN subcomponents = {},
      memberCount   |-> memberCount ]

NoMap == [c \in {} |-> {}]

\* The list for c1 is there and empty, or nil.
EmptyList == Info({}, c1 :> {}, 0)
NilList == [EmptyList EXCEPT !.nilLists = {c1}]

Shiftzilla == t1 :> Info({c1}, NoMap, 2) @@ t3 :> Info({c1}, NoMap, 0)
Split == t1 :> Info({c1}, c1 :> {DefaultTag}, 0) @@ t2 :> Info({c1}, c1 :> {s1}, 0)
NoTeams == [t \in {} |-> NoMap]

Ignored == t3 :> Info({IgnoreTag}, NoMap, 0) @@ t2 :> EmptyList
Moved == t3 :> Info({c1}, NoMap, 0) @@ t1 :> Info({IgnoreTag}, NoMap, 0) @@ t2 :> NilList

MCHistory ==
    [ shiftzilla    |-> <<Shiftzilla, Shiftzilla, t1 :> Info({c1}, NoMap, 3)>>,
      subcomponents |-> <<NoTeams, Split, Split>>,
      test          |-> <<Shiftzilla, Split, Moved>>,
      override      |-> <<Ignored, Moved, Ignored>>,
      sheet         |-> <<t1 :> 4, t1 :> 0 @@ t2 :> 1, NoTeams>> ]

MCFlagSets == {{"override"}, {"test"}}
=============================================================================
