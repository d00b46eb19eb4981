-------------------------- MODULE GitBuildWatcher --------------------------
(***************************************************************************)
(* cmd/git-build-watcher: a cron job (every five minutes, concurrency      *)
(* forbidden) that polls the git repository of a build config and starts a *)
(* build when there is a commit that the latest build did not build.       *)
(*                                                                         *)
(* External: the git repository, OpenShift's builds (run one at a time,    *)
(* each learns its revision when it fetches the source) and the people who *)
(* start builds.  Commits are numbered; the builds are a sequence in the   *)
(* order of their creation.                                                *)
(***************************************************************************)
EXTENDS Naturals, SequencesExt

CONSTANTS
    MaxCommits,   \* bound: commits pushed
    MaxFailures,  \* bound: builds that fail and calls that fail
    MaxManual     \* bound: builds that people start

ASSUME BoundAssumption ==
    MaxCommits \in Nat \ {0} /\ MaxFailures \in Nat /\ MaxManual \in Nat

NoCommit == 0
Commit == 1..MaxCommits

VARIABLES
    head,       \* the commit of the branch the build config names
    builds,     \* the builds of the build config
    watcher,    \* its place: "off", "list" or "instantiate"
    commitish,  \* the commit the watcher saw
    failures, manual

watchVars == <<head, builds, watcher, commitish, failures, manual>>

\* New, Pending and Running are the phase "active".
Build == [revision : Commit \cup {NoCommit}, phase : {"active", "complete", "failed"}]

NewBuild == [revision |-> NoCommit, phase |-> "active"]

WatchTypeOK ==
    /\ head \in Commit
    /\ builds \in Seq(Build)
    /\ watcher \in {"off", "list", "instantiate"}
    /\ commitish \in Commit
    /\ failures \in 0..MaxFailures
    /\ manual \in 0..MaxManual

WatchInit ==
    /\ head = 1
    /\ builds = <<>>
    /\ watcher = "off"
    /\ commitish = 1
    /\ failures = 0
    /\ manual = 0

-----------------------------------------------------------------------------
(* External. *)

Push ==
    /\ head < MaxCommits
    /\ head' = head + 1
    /\ UNCHANGED <<builds, watcher, commitish, failures, manual>>

StartManually ==
    /\ manual < MaxManual
    /\ manual' = manual + 1
    /\ builds' = Append(builds, NewBuild)
    /\ UNCHANGED <<head, watcher, commitish, failures>>

Fail ==
    /\ failures < MaxFailures
    /\ failures' = failures + 1

\* The build whose turn it is.
Running(i) ==
    /\ builds[i].phase = "active"
    /\ \A k \in 1..(i - 1) : builds[k].phase # "active"

FetchSource(i) ==
    /\ Running(i)
    /\ builds[i].revision = NoCommit
    /\ builds' = [builds EXCEPT ![i].revision = head]
    /\ UNCHANGED <<head, watcher, commitish, failures, manual>>

Complete(i) ==
    /\ Running(i)
    /\ builds[i].revision # NoCommit
    /\ builds' = [builds EXCEPT ![i].phase = "complete"]
    /\ UNCHANGED <<head, watcher, commitish, failures, manual>>

FailBuild(i) ==
    /\ Running(i)
    /\ Fail
    /\ builds' = [builds EXCEPT ![i].phase = "failed"]
    /\ UNCHANGED <<head, watcher, commitish, manual>>

BuildStep == \E i \in DOMAIN builds : FetchSource(i) \/ Complete(i)

-----------------------------------------------------------------------------
(* The watcher. *)

\* git ls-remote; any output but one line is an error.
GetCommitish ==
    /\ watcher = "off"
    /\ commitish' = head
    /\ watcher' = "list"
    /\ UNCHANGED <<head, builds, failures, manual>>

\* Mutant of NeedsBuild: a build under way without a revision is ignored.
NeedsBuildAnyPhase == builds # <<>> => Last(builds).revision # commitish

\* Mutant of NeedsBuild: any build that is not complete is started again.
NeedsBuildUnlessComplete ==
    builds # <<>> =>
        LET latest == Last(builds)
        IN  /\ ~(latest.revision = NoCommit /\ latest.phase = "active")
            /\ latest # [revision |-> commitish, phase |-> "complete"]

\* Mutant of NeedsBuild: a build that failed without a revision is waited for.
NeedsBuildRevisionOnly ==
    builds # <<>> => Last(builds).revision \notin {NoCommit, commitish}

\* Whether the latest of the builds listed calls for another one.
NeedsBuild ==
    builds # <<>> =>
        LET latest == Last(builds)
        IN  /\ ~(latest.revision = NoCommit /\ latest.phase = "active")
            /\ latest.revision # commitish

ListBuilds ==
    /\ watcher = "list"
    /\ watcher' = IF NeedsBuild THEN "instantiate" ELSE "off"
    /\ UNCHANGED <<head, builds, commitish, failures, manual>>

Instantiate ==
    /\ watcher = "instantiate"
    /\ builds' = Append(builds, NewBuild)
    /\ watcher' = "off"
    /\ UNCHANGED <<head, commitish, failures, manual>>

\* klog.Exit on any error.
CallFails ==
    /\ Fail
    /\ watcher' = "off"
    /\ UNCHANGED <<head, builds, commitish, manual>>

-----------------------------------------------------------------------------
WatchNext ==
    \/ Push \/ StartManually
    \/ \E i \in DOMAIN builds : FetchSource(i) \/ Complete(i) \/ FailBuild(i)
    \/ GetCommitish \/ ListBuilds \/ Instantiate \/ CallFails

\* The cron job runs again and again, and so do the builds.
Fairness ==
    /\ WF_watchVars(GetCommitish) /\ WF_watchVars(ListBuilds) /\ WF_watchVars(Instantiate)
    /\ WF_watchVars(BuildStep)

WatchSpec == WatchInit /\ [][WatchNext]_watchVars
FairWatchSpec == WatchSpec /\ Fairness

-----------------------------------------------------------------------------
\* The builds that have not got to the source yet.
Waiting == { i \in DOMAIN builds :
               builds[i].phase = "active" /\ builds[i].revision = NoCommit }

(***************************************************************************)
(* Polling does not pile up builds: however often the watcher polls while  *)
(* a build is slow, it has at most one build waiting for the source,       *)
(* besides those that people started.                                      *)
(***************************************************************************)
OneWaiting == Cardinality(Waiting) <= 1 + manual

(***************************************************************************)
(* Builds do not come from nothing: the watcher starts at most one for     *)
(* each commit and one for each failure, however often it polls and        *)
(* whatever people start meanwhile.                                        *)
(***************************************************************************)
NoNeedlessBuilds == Len(builds) <= head + failures + manual

(***************************************************************************)
(* No commit is overlooked: when pushes stop, the latest build comes to be *)
(* one of the head, although builds and calls fail and other builds are    *)
(* started between the watcher's steps.                                    *)
(***************************************************************************)
HeadIsTried == <>[](builds # <<>> /\ Last(builds).revision = head)

-----------------------------------------------------------------------------
\* What builds may be due to besides commits.
Incidents == failures + manual

\* Builds get to the source in the order of their creation.
QueueInv ==
    /\ \A i \in DOMAIN builds : builds[i].revision <= head
    /\ \A i \in DOMAIN builds \ Waiting :
         \A k \in 1..(i - 1) : builds[k].phase # "active"

(***************************************************************************)
(* The latest build pays for the others: if it has a revision, there are   *)
(* no more builds than commits up to it and incidents; if it failed before *)
(* that, one more may come for its failure.                                *)
(***************************************************************************)
LatestInv ==
    builds # <<>> =>
        LET latest == Last(builds)
        IN  /\ latest.revision # NoCommit =>
                 Len(builds) <= latest.revision + Incidents
            /\ latest.revision = NoCommit /\ latest.phase # "active" =>
                 Len(builds) < head + Incidents

\* What the watcher knows when it has decided on a build, and before.
PollInv ==
    /\ watcher # "off" => commitish <= head /\ Len(builds) <= commitish + Incidents
    /\ watcher = "instantiate" => /\ Len(builds) < head + Incidents
                             /\ Cardinality(Waiting) <= manual

\* The inductive invariant the proofs of StandaloneProofs use.
WatchInv ==
    /\ WatchTypeOK /\ QueueInv /\ LatestInv /\ PollInv
    /\ OneWaiting /\ NoNeedlessBuilds
=============================================================================
