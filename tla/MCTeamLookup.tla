---------------------------- MODULE MCTeamLookup ----------------------------
(***************************************************************************)
(* Three teams; each is absent, owns all of the component, owns one of its *)
(* two subcomponents, or is its default team.  Every combination of them   *)
(* is an organisation the service can hand out.                            *)
(***************************************************************************)
EXTENDS TeamLookup

CONSTANTS c1, s1, s2   \* the component and its subcomponents

Info(subs) == [components |-> {c1}, subcomponents |-> subs]

Shapes ==
    { Info([c \in {} |-> {}]), Info([c \in {c1} |-> {s1}]),
      Info([c \in {c1} |-> {DefaultTag}]) }

MCOrgs == UNION { [T -> Shapes] : T \in SUBSET Team }
=============================================================================
