------------------------------ MODULE BugRules ------------------------------
(***************************************************************************)
(* The actions of cmd/bug-automation: the queries and updates that         *)
(* generate/main.go writes to operations/*.yaml.  The module is pure.      *)
(*                                                                         *)
(* A bug is abstracted to what the queries tell apart:                     *)
(*   status     "engineering" (NEW, ASSIGNED, POST, ON_DEV), "qa"          *)
(*              (MODIFIED, ON_QA) or "closed"                              *)
(*   component  "excluded" (Documentation, Migration Tooling, odo),        *)
(*              "exempt" (Release, Logging) or "ordinary"                  *)
(*   target     "---", "oldZero" (4.1.0 to 4.6.0), "z" (4.x.z),            *)
(*              "premerge" or "current" (any other)                        *)
(*   severity, priority   "unspecified", "low" or "high" (high or urgent)  *)
(*   blocker    the status of the flag, "none" when it is not set          *)
(*   legacy     the version is 2.x or 3.x                                  *)
(*   security, upcoming   the keywords Security and UpcomingSprint         *)
(*   reviewed   the flag reviewed-in-sprint is "+"                         *)
(*   dependsOn  the bug depends on another one                             *)
(***************************************************************************)
EXTENDS Naturals, Sequences

Bug ==
    [ status : {"engineering", "qa", "closed"},
      component : {"ordinary", "exempt", "excluded"},
      target : {"---", "oldZero", "z", "premerge", "current"},
      severity : {"unspecified", "low", "high"},
      priority : {"unspecified", "low", "high"},
      blocker : {"none", "?", "+", "-"},
      legacy : BOOLEAN, security : BOOLEAN, upcoming : BOOLEAN,
      reviewed : BOOLEAN, dependsOn : BOOLEAN ]

-----------------------------------------------------------------------------
(* The queries: the bugs Bugzilla returns for them. *)

InProduct(b) == b.component # "excluded"

DefaultQuery(b) == InProduct(b) /\ b.status = "engineering"

BlockerPlusWithoutTargetReleaseQuery(b) ==
    DefaultQuery(b) /\ b.blocker = "+" /\ b.target = "---"

NeedsBlockerFlagQuery(b) ==
    /\ DefaultQuery(b)
    /\ b.blocker = "none"
    /\ b.target \notin {"z", "premerge"}
    /\ ~b.legacy

BugsNeedBlockerFlagPriorityQuery(b) ==
    NeedsBlockerFlagQuery(b) /\ b.priority = "high"

BugsNeedBlockerFlagSeverityQuery(b) ==
    NeedsBlockerFlagQuery(b) /\ b.severity = "high"

BugsTargetOldZeroQuery(b) == DefaultQuery(b) /\ b.target = "oldZero"

BugsWithReviewedInSprintFlagQuery(b) ==
    DefaultQuery(b) /\ b.reviewed /\ b.target # "premerge"

BugsWithUpcomingSprintQuery(b) ==
    InProduct(b) /\ b.status \in {"engineering", "qa"} /\ b.upcoming

TargetReleaseWithoutSeverityQuery(b) ==
    DefaultQuery(b) /\ b.severity = "unspecified" /\ b.target # "---"

\* A blocker+ keeps its target release.
BugsWithoutZQuery(b) ==
    /\ DefaultQuery(b)
    /\ ~b.security
    /\ ~b.dependsOn
    /\ b.target = "z"
    /\ b.component # "exempt"
    /\ b.blocker # "+"

\* The bugs the query of the action named a returns.
Matches(a, b) ==
    \/ a = "blockerPlusWithoutTargetRelease" /\ BlockerPlusWithoutTargetReleaseQuery(b)
    \/ a = "bugsNeedBlockerFlagPriority" /\ BugsNeedBlockerFlagPriorityQuery(b)
    \/ a = "bugsNeedBlockerFlagSeverity" /\ BugsNeedBlockerFlagSeverityQuery(b)
    \/ a = "bugsTargetOldZero" /\ BugsTargetOldZeroQuery(b)
    \/ a = "removeReviewedInSprint" /\ BugsWithReviewedInSprintFlagQuery(b)
    \/ a = "removeUpcomingSprint" /\ BugsWithUpcomingSprintQuery(b)
    \/ a = "targetReleaseWithoutSeverity" /\ TargetReleaseWithoutSeverityQuery(b)
    \/ a = "zNoDepends" /\ BugsWithoutZQuery(b)

-----------------------------------------------------------------------------
(* The updates. *)

UnsetsTarget == {"bugsTargetOldZero", "targetReleaseWithoutSeverity", "zNoDepends"}

RequestsBlocker ==
    {"blockerPlusWithoutTargetRelease", "bugsNeedBlockerFlagPriority",
     "bugsNeedBlockerFlagSeverity"}

\* The actions whose update adds a comment (and so notifies people).
Comments == UnsetsTarget \cup {"blockerPlusWithoutTargetRelease"}

\* The bug after the update of the action named a, whatever it was before.
Updated(a, b) ==
    [b EXCEPT !.target   = IF a \in UnsetsTarget THEN "---" ELSE @,
              !.blocker  = IF a \in RequestsBlocker THEN "?" ELSE @,
              !.reviewed = IF a = "removeReviewedInSprint" THEN FALSE ELSE @,
              !.upcoming = IF a = "removeUpcomingSprint" THEN FALSE ELSE @]

-----------------------------------------------------------------------------
(* The files of operations/, in the lexical order of filepath.Walk.        *)

PotentialActions ==
    << "blockerPlusWithoutTargetRelease", "bugsNeedBlockerFlagPriority",
       "bugsNeedBlockerFlagSeverity", "bugsTargetOldZero",
       "removeReviewedInSprint", "removeUpcomingSprint",
       "targetReleaseWithoutSeverity", "zNoDepends" >>

\* The actions with "default: true".
DefaultActions ==
    {"blockerPlusWithoutTargetRelease", "bugsNeedBlockerFlagPriority",
     "bugsNeedBlockerFlagSeverity", "bugsTargetOldZero",
     "targetReleaseWithoutSeverity", "zNoDepends"}

\* doBug's selection: the default actions when the flag --actions is not set.
\* The slice of the selected actions is the set of their positions above, as
\* it keeps their order.
SelectActions(selected) ==
    { i \in DOMAIN PotentialActions :
        PotentialActions[i] \in (IF selected = {} THEN DefaultActions ELSE selected) }

-----------------------------------------------------------------------------
\* A bug after the action named a has run on it.
RunOn(a, b) == IF Matches(a, b) THEN Updated(a, b) ELSE b

\* A bug after a run of all the actions, in their order, that nothing disturbs.
UndisturbedRun(b) ==
    LET b1 == RunOn("blockerPlusWithoutTargetRelease", b)
        b2 == RunOn("bugsNeedBlockerFlagPriority", b1)
        b3 == RunOn("bugsNeedBlockerFlagSeverity", b2)
        b4 == RunOn("bugsTargetOldZero", b3)
        b5 == RunOn("removeReviewedInSprint", b4)
        b6 == RunOn("removeUpcomingSprint", b5)
        b7 == RunOn("targetReleaseWithoutSeverity", b6)
    IN  RunOn("zNoDepends", b7)

(***************************************************************************)
(* The rules have no cycle: whatever a bug is, two runs of all the actions *)
(* leave nothing for any of them to do.  (One does not: an action that     *)
(* unsets the target release makes a blocker+ one without a target, which  *)
(* an earlier action looks for.)                                           *)
(***************************************************************************)
RulesSettle ==
    \A b \in Bug : LET after == UndisturbedRun(UndisturbedRun(b))
                  IN  \A i \in DOMAIN PotentialActions :
                          ~Matches(PotentialActions[i], after)
=============================================================================
