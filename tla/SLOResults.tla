----------------------------- MODULE SLOResults -----------------------------
(***************************************************************************)
(* pkg/slo: how a team scores against the service level objectives of the  *)
(* organisation and its own.  The module is pure.                          *)
(*                                                                         *)
(* Abstractions: a bug holds what the counters look at; a team map is a    *)
(* relation between teams and bugs, as a team without a list and a team    *)
(* with an empty one score the same; the count of an objective, a float32, *)
(* is a natural number of halves; the name, members and perMember fields   *)
(* of a result only repeat the input.                                      *)
(***************************************************************************)
EXTENDS OrgData, Naturals, FiniteSetsExt

CONSTANTS
    ID,         \* bug ids
    Unparsable  \* a PM score that is not a number

BugMapNames == {"total", "urgents", "blockers"}

OrderedSLOs == BugMapNames \cup {"pmscore", "ci-fail-rate"}

OpenBug ==
    [ id        : ID,
      component : Component,
      urgent    : BOOLEAN,               \* Severity = "urgent"
      blocker   : BOOLEAN,               \* the flag "blocker+"
      pmScore   : Nat \cup {Unparsable} ]

\* sloAPI.Data, and what a Go map yields for an objective that it lacks.
Data == [halves : Nat, perMember : BOOLEAN]
NoData == [halves |-> 0, perMember |-> FALSE]

IsSLOMap(slo) ==
    DOMAIN slo \subseteq OrderedSLOs /\ \A which \in DOMAIN slo : slo[which] \in Data

DataOf(slo, which) == IF which \in DOMAIN slo THEN slo[which] ELSE NoData

\* The list each of the team maps of GetBugMaps is made from.
Filter(which, bugs) ==
    { b \in bugs : /\ which = "urgents" => b.urgent
                   /\ which = "blockers" => b.blocker }

TeamsBugs(map, team) == { p[2] : p \in { q \in map : q[1] = team } }

PMScore(bugs) ==
    MapThenSumSet(LAMBDA b : IF b.pmScore = Unparsable THEN 1 ELSE b.pmScore, bugs)

\* No component has a CI pass rate: GetCiComponentMap returns an empty map.
Current(which, bugMaps, team) ==
    IF which \in BugMapNames THEN Cardinality(TeamsBugs(bugMaps[which], team))
    ELSE IF which = "pmscore" THEN PMScore(TeamsBugs(bugMaps["total"], team))
    ELSE 0

\* Mutant of Obligation: a team without members has no obligation.
ObligationOfMembers(which, data, members) ==
    IF data.perMember /\ which # "ci-fail-rate"
    THEN (data.halves * members) \div 2
    ELSE data.halves \div 2

\* int() cuts off the fraction, after the product with the members.
Obligation(which, data, members) ==
    IF data.perMember /\ which # "ci-fail-rate" /\ members # 0
    THEN (data.halves * members) \div 2
    ELSE data.halves \div 2

\* The objectives of the organisation, overridden with those of the team.
TeamSLO(orgSLO, teamSLO) ==
    [which \in DOMAIN teamSLO \cup DOMAIN orgSLO |->
        IF which \in DOMAIN teamSLO THEN teamSLO[which] ELSE orgSLO[which]]

GetTeamResult(bugMaps, orgSLO, team, teamInfo) ==
    LET slo == TeamSLO(orgSLO, teamInfo.slo)
        results == [which \in OrderedSLOs |->
                      [ current    |-> Current(which, bugMaps, team),
                        obligation |-> Obligation(which, DataOf(slo, which),
                                                  teamInfo.memberCount) ]]
    IN  [ results |-> results,
          failing |-> \E which \in OrderedSLOs :
                         results[which].current > results[which].obligation ]
=============================================================================
