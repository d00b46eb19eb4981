----------------------------- MODULE MCTeamSLO -----------------------------
(***************************************************************************)
(* Two teams, of which one claims everything, the organisation's or its    *)
(* own objectives, and a state of the data with no release and no team.    *)
(***************************************************************************)
EXTENDS TeamSLO, TLC

CONSTANTS t1, t2, c1, c2, b1, b2, r1

MCInfo(cs, n, slo) ==
    [ components |-> cs, subcomponents |-> [c \in {} |-> {}],
      memberCount |-> n, slo |-> slo ]

MCPair(halves, perMember) == [halves |-> halves, perMember |-> perMember]

MCOrgSLO == [w \in OrderedSLOs |-> IF w = "total" THEN MCPair(1, TRUE)
                                   ELSE IF w = "pmscore" THEN MCPair(5, FALSE)
                                   ELSE MCPair(2, FALSE)]

\* The team of three halves of a bug allows one; the team without members too.
MCTwoTeams ==
    [ teams |-> (t1 :> MCInfo({c1}, 3, [w \in {} |-> NoData]))
             @@ (t2 :> MCInfo({c2}, 0, "urgents" :> NoData @@ "total" :> MCPair(2, TRUE))),
      releases |-> {r1}, slo |-> MCOrgSLO ]
MCOneTeam ==
    [ teams |-> (t2 :> MCInfo({c1, c2}, 1, "pmscore" :> MCPair(5, FALSE))),
      releases |-> {r1}, slo |-> [w \in {"total"} |-> MCPair(4, FALSE)] ]
MCNoTeam == [teams |-> NoResults, releases |-> {r1}, slo |-> MCOrgSLO]
MCNoRelease == [MCOneTeam EXCEPT !.releases = {}]

MCOrgs == {MCTwoTeams, MCOneTeam, MCNoTeam, MCNoRelease}

MCBug(i, c, u, k, s) ==
    [id |-> i, component |-> c, urgent |-> u, blocker |-> k, pmScore |-> s]
MCEditedBugs == { MCBug(b1, c1, TRUE, FALSE, Unparsable), MCBug(b1, c2, FALSE, TRUE, 2),
                  MCBug(b2, c2, TRUE, FALSE, 3) }
MCInitialBugs ==
    { {}, { MCBug(b1, c1, TRUE, FALSE, Unparsable), MCBug(b2, c2, TRUE, FALSE, 3) } }
=============================================================================
