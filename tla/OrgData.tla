------------------------------ MODULE OrgData ------------------------------
(***************************************************************************)
(* The organisation data of pkg/teams: which team answers for which        *)
(* component and subcomponent of a bug.  The module is pure: a value of    *)
(* OrgDataSet is what the field OrgData.Teams can hold.                    *)
(*                                                                         *)
(* Abstractions: the lists Components and Subcomponents[c] are sets, as    *)
(* the code only tests membership and the length-one default list; the     *)
(* contact, Jira and Slack fields of a team are left out.                  *)
(***************************************************************************)
EXTENDS FiniteSets

CONSTANTS
    Team,            \* the names a team can have
    Component,       \* Bugzilla components
    Subcomponent,    \* Bugzilla subcomponents
    DefaultTag,      \* "!!DEFAULT!!", the tag of a team that takes the leftovers
    NoSubcomponent,  \* "", the subcomponent of a bug that has none
    Unknown          \* "unknown", the team of a bug that nobody claims

ASSUME NameAssumption == Unknown \notin Team

\* A subcomponent as GetTeamName derives it from a bug.
SubcomponentOrNone == Subcomponent \cup {NoSubcomponent}

\* TeamInfo.Components and TeamInfo.Subcomponents, a map that may lack a component.
TeamInfo ==
    [ components    : SUBSET Component,
      subcomponents : UNION { [D -> SUBSET (Subcomponent \cup {DefaultTag})] :
                              D \in SUBSET Component } ]

\* OrgData.Teams: a map from the names of the teams there are to their TeamInfo.
OrgDataSet == UNION { [T -> TeamInfo] : T \in SUBSET Team }

\* isForTeam's first result: the team claims the pair by name.
IsTeam(team, c, s) ==
    /\ c \in team.components
    /\ c \in DOMAIN team.subcomponents => s \in team.subcomponents[c]

\* isForTeam's second result: the team takes what is left of the component.
IsDefault(team, c) ==
    /\ c \in team.components
    /\ c \in DOMAIN team.subcomponents
    /\ team.subcomponents[c] = {DefaultTag}

Owners(org, c, s) == { t \in DOMAIN org : IsTeam(org[t], c, s) }

Defaults(org, c) == { t \in DOMAIN org : IsDefault(org[t], c) }

(***************************************************************************)
(* What a lookup promises: an owner if there is one, else a default team   *)
(* if there is one, else nobody.  Which of several owners (or defaults) is *)
(* found depends on the order of Go's map iteration, hence a set.          *)
(***************************************************************************)
Answers(org, c, s) ==
    IF Owners(org, c, s) # {} THEN Owners(org, c, s)
    ELSE IF Defaults(org, c) # {} THEN Defaults(org, c)
    ELSE {Unknown}

\* Nobody shares a claim: the lookup cannot depend on the iteration order.
Unambiguous(org) ==
    \A c \in Component, s \in SubcomponentOrNone, t, u \in DOMAIN org :
        /\ IsTeam(org[t], c, s) /\ IsTeam(org[u], c, s) => t = u
        /\ IsDefault(org[t], c) /\ IsDefault(org[u], c) => t = u
=============================================================================
