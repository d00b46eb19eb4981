--------------------------- MODULE MCSlackReport ---------------------------
(***************************************************************************)
(* Three people, one of them muted, and three teams: one that has a        *)
(* channel, one that has none, and one that has one but is not always      *)
(* there.  The lengths of the lines of a report add up to values below,    *)
(* exactly at and above the limit of joinMessages.                         *)
(***************************************************************************)
EXTENDS TeamReports, TLC

CONSTANTS p1, p2, p3, t1, t2, t3

MCOrgs == { t1 :> TRUE @@ t2 :> FALSE @@ t3 :> TRUE, t1 :> TRUE @@ t2 :> FALSE }

\* The values of Message and Texts.
MCMessage == JoinedMessage
MCTexts == JoinedReports

MCBug(p, t, blocker, triaged) ==
    [assignee |-> p, team |-> t, blocker |-> blocker, triaged |-> triaged]

MCBugSets ==
    { { MCBug(p1, t1, "+", TRUE), MCBug(p2, t1, "none", FALSE), MCBug(p2, t3, "?", TRUE) },
      { MCBug(p1, t2, "+", TRUE), MCBug(p1, t3, "none", TRUE),
        MCBug(p3, t1, "+", FALSE), MCBug(p2, t3, "none", FALSE) } }
=============================================================================
