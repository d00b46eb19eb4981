-------------------------- MODULE MCBugAutomation --------------------------
EXTENDS BugAutomation, TLC

Plain == [status |-> "engineering", component |-> "ordinary", target |-> "current",
          severity |-> "low", priority |-> "low", blocker |-> "none",
          legacy |-> FALSE, security |-> FALSE, upcoming |-> FALSE,
          reviewed |-> FALSE, dependsOn |-> FALSE]

\* Bugs on which several actions work, one after the other.
MCFewBugs ==
    { [Plain EXCEPT !.target = "z", !.blocker = "+", !.severity = "unspecified"],
      [Plain EXCEPT !.target = "oldZero", !.severity = "high"],
      [Plain EXCEPT !.target = "z", !.severity = "high"] }
=============================================================================
