---------------------------- MODULE MCFeatureSLO ----------------------------
(***************************************************************************)
(* Two repositories, of which one has a component that two teams claim;    *)
(* results that blame either of them, both, or mention neither.            *)
(***************************************************************************)
EXTENDS FeatureSLO, TLC

CONSTANTS c1, c2, c3, t1, t2

MCPull(repo, component, validBug) ==
    [ repo |-> repo, component |-> component, subcomponent |-> NoSubcomponent,
      validBug |-> validBug ]

MCPulls == { MCPull("shared", c1, FALSE), MCPull("shared", c1, TRUE),
             MCPull("own", c2, FALSE), MCPull("none", c3, FALSE) }

Claims(components) == [components |-> components, subcomponents |-> [c \in {} |-> {}]]

MCOrgs == { t1 :> Claims({c1}) @@ t2 :> Claims({c1, c2}),
            t1 :> Claims({c1, c2}) }

MCResults == UNION { [T -> BOOLEAN] : T \in {{}, {t1}, {t1, t2}} }
=============================================================================
