------------------------------ MODULE TeamSLO ------------------------------
(***************************************************************************)
(* The team-slo-results service (cmd/team-slo-results): the reconcilers of *)
(* pkg/teams and pkg/bugs refresh the shared data while a goroutine scores *)
(* every team against it and replaces the results that /teams serves.      *)
(*                                                                         *)
(* "*orgData = *newOrgData" copies a struct without a lock, so its fields  *)
(* are copied one by one, in any order.  Search and BugData.set are one    *)
(* step here, as no other goroutine sees what lies between them; module    *)
(* BugExportor has them apart.                                             *)
(***************************************************************************)
EXTENDS SLOResults

CONSTANTS
    Orgs,           \* the data the organisation service can hand out
    NilOrg,         \* the nil *OrgData
    InitialBugs,    \* what may be open in Bugzilla at first
    EditedBugs,     \* the bugs an edit can leave behind
    MaxChanges,     \* bound: changes of Bugzilla and of the organisation data
    MaxFaults       \* bound: failed calls and signals

ErrsCap == 1   \* errs := make(chan error, 1)

Fields == {"teams", "releases", "slo"}

\* The names of the releases that have a target other than x.y.z stand for
\* OrgData.Releases: CurrentVersion fails when there is none.
SLOOrg(o) ==
    /\ DOMAIN o.teams \subseteq Team
    /\ \A t \in DOMAIN o.teams :
         /\ o.teams[t].components \subseteq Component
         /\ IsSLOMap(o.teams[t].slo)
         /\ o.teams[t].memberCount \in Nat
    /\ IsSLOMap(o.slo)

\* What fields copied one by one make of the data: each of some version.
Mixtures == [ teams    : { o.teams : o \in Orgs },
              releases : { o.releases : o \in Orgs },
              slo      : { o.slo : o \in Orgs } ]

\* A bug appears once in the answer to a query, which is a list.
Snapshot(B) == IsFiniteSet(B) /\ \A a, b \in B : a.id = b.id => a = b

ASSUME OrgsAssumption ==
    /\ \A o \in Orgs : SLOOrg(o)
    /\ Orgs \subseteq Mixtures /\ NilOrg \notin Mixtures
ASSUME BugsAssumption ==
    /\ EditedBugs \subseteq OpenBug
    /\ \A B \in InitialBugs : B \subseteq OpenBug /\ Snapshot(B)
ASSUME BoundAssumption == MaxChanges \in Nat /\ MaxFaults \in Nat

VARIABLES
    bz, service,        \* external: the open bugs, the organisation data
    changes, faults,    \* how much of MaxChanges and MaxFaults is used
    phase,              \* doMain: "down", "org", "bugs" or "running"
    org,                \* *orgInfo, shared by all goroutines
    newOrg, copying,    \* OrgData.Reconcile: the answer, the fields left to copy
    bugs,               \* BugData.bugs
    bugRec, http,       \* the goroutines that send to errs beside the scoring one
    errs,               \* how many errors the channel holds
    calc,               \* the place of the scoring goroutine
    unplaced, bugMaps,  \* the team map under construction, all of them
    ranged, results,    \* the map of teams ranged over, the results so far
    served,             \* *serveResults
    orgsSeen, bugsSeen  \* history: the values of org and bugs during the pass

envVars == <<bz, service, changes>>
orgVars == <<org, newOrg, copying>>
recVars == <<bugs, bugRec, http, errs>>
calcVars == <<calc, unplaced, bugMaps, ranged, results, orgsSeen, bugsSeen>>
vars == <<envVars, faults, phase, orgVars, recVars, calcVars, served>>

NoResults == [t \in {} |-> {}]
NoMaps == [w \in BugMapNames |-> {}]

TypeOK ==
    /\ bz \subseteq OpenBug /\ Snapshot(bz) /\ service \in Orgs
    /\ changes \in 0..MaxChanges /\ faults \in 0..MaxFaults
    /\ phase \in {"down", "org", "bugs", "running"}
    /\ org \in Mixtures \cup {NilOrg}
    /\ newOrg \in Orgs \cup {NilOrg} /\ copying \subseteq Fields
    /\ bugs \subseteq OpenBug /\ Snapshot(bugs)
    /\ bugRec \in {"off", "running", "sending", "dead"}
    /\ http \in {"off", "serving", "sending", "dead"}
    /\ errs \in 0..ErrsCap
    /\ calc \in {"off", "sleep", "version", "range", "score", "sending", "dead"}
                \cup BugMapNames
    /\ unplaced \subseteq bugs \cup UNION bugsSeen
    /\ bugMaps \in [BugMapNames -> SUBSET ((Team \cup {Unknown}) \X UNION bugsSeen)]
    /\ DOMAIN results \subseteq DOMAIN ranged
    /\ DOMAIN served \subseteq Team

Init ==
    /\ bz \in InitialBugs /\ service \in Orgs
    /\ changes = 0 /\ faults = 0
    /\ phase = "down"
    /\ org = NilOrg /\ newOrg = NilOrg /\ copying = {}
    /\ bugs = {} /\ bugRec = "off" /\ http = "off" /\ errs = 0
    /\ calc = "off" /\ unplaced = {} /\ bugMaps = NoMaps
    /\ ranged = NoResults /\ results = NoResults /\ served = NoResults
    /\ orgsSeen = {} /\ bugsSeen = {}

-----------------------------------------------------------------------------
(* The environment. *)

\* A bug is opened, edited or moved, or closed.
ChangeBug(i) ==
    LET others == { b \in bz : b.id # i }
    IN  /\ changes < MaxChanges
        /\ changes' = changes + 1
        /\ \/ \E b \in EditedBugs : b.id = i /\ bz' = others \cup {b}
           \/ bz' = others
        /\ UNCHANGED <<service, faults, phase, orgVars, recVars, calcVars, served>>

ChangeOrg(o) ==
    /\ changes < MaxChanges
    /\ changes' = changes + 1
    /\ service' = o
    /\ UNCHANGED <<bz, faults, phase, orgVars, recVars, calcVars, served>>

\* A call fails, or a signal arrives.
Fault ==
    /\ faults < MaxFaults
    /\ faults' = faults + 1

-----------------------------------------------------------------------------
(* doMain *)

Start ==
    /\ phase = "down"
    /\ phase' = "org"
    /\ UNCHANGED <<envVars, faults, orgVars, recVars, calcVars, served>>

GetOrgData ==
    /\ phase = "org"
    /\ phase' = "bugs"
    /\ org' = service
    /\ UNCHANGED <<envVars, faults, newOrg, copying, recVars, calcVars, served>>

\* A body that cannot be read or parsed: "return nil, err" with a nil err.
GetOrgDataGarbled ==
    /\ phase = "org"
    /\ Fault
    /\ phase' = "bugs"
    /\ UNCHANGED <<envVars, orgVars, recVars, calcVars, served>>

\* GetBugData, its first Reconcile included; then all the goroutines.
GetBugData ==
    /\ phase = "bugs"
    /\ phase' = "running"
    /\ bugs' = bz
    /\ bugRec' = "running" /\ http' = "serving" /\ calc' = "sleep"
    /\ UNCHANGED <<envVars, faults, orgVars, errs, unplaced, bugMaps, ranged,
                   results, orgsSeen, bugsSeen, served>>

\* The process ends, and with it everything it holds.
Down ==
    /\ phase' = "down"
    /\ org' = NilOrg /\ newOrg' = NilOrg /\ copying' = {}
    /\ bugs' = {} /\ bugRec' = "off" /\ http' = "off" /\ errs' = 0
    /\ calc' = "off" /\ unplaced' = {} /\ bugMaps' = NoMaps
    /\ ranged' = NoResults /\ results' = NoResults /\ served' = NoResults
    /\ orgsSeen' = {} /\ bugsSeen' = {}
    /\ UNCHANGED envVars

\* A constructor fails, or a signal ends the select.
FailOrStop ==
    /\ phase # "down"
    /\ Fault
    /\ Down

\* An error ends the select.
ReceiveError ==
    /\ phase = "running"
    /\ errs > 0
    /\ Down
    /\ UNCHANGED faults

-----------------------------------------------------------------------------
(* The reconcilers and the HTTP server. *)

OrgReconcilerRuns == phase \in {"bugs", "running"}

\* getOrgData returns.  Copying a field onto an equal one is no step.
OrgReconcile ==
    /\ OrgReconcilerRuns
    /\ org # NilOrg
    /\ copying = {}
    /\ copying' = { f \in Fields : org[f] # service[f] }
    /\ newOrg' = IF copying' = {} THEN NilOrg ELSE service
    /\ UNCHANGED <<envVars, faults, phase, org, recVars, calcVars, served>>

\* One field of "*orgData = *newOrgData".
CopyField(f) ==
    /\ f \in copying
    /\ org' = [org EXCEPT ![f] = newOrg[f]]
    /\ copying' = copying \ {f}
    /\ newOrg' = IF copying' = {} THEN NilOrg ELSE newOrg
    /\ orgsSeen' = IF orgsSeen = {} THEN {} ELSE orgsSeen \cup {org'}
    /\ UNCHANGED <<envVars, faults, phase, recVars, calc, unplaced, bugMaps,
                   ranged, results, bugsSeen, served>>

\* log.Fatalln on an error, a panic on a nil newOrgData.
OrgReconcileFails ==
    /\ OrgReconcilerRuns
    /\ org # NilOrg /\ copying = {}
    /\ Fault
    /\ Down

\* orgData.cmd of a nil orgData: a panic.
NilOrgPanic ==
    /\ OrgReconcilerRuns
    /\ org = NilOrg
    /\ Down
    /\ UNCHANGED faults

BugsReconcile ==
    /\ bugRec = "running"
    /\ bugs' = bz
    /\ bugsSeen' = IF bugsSeen = {} THEN {} ELSE bugsSeen \cup {bz}
    /\ UNCHANGED <<envVars, faults, phase, orgVars, bugRec, http, errs, calc,
                   unplaced, bugMaps, ranged, results, orgsSeen, served>>

BugsReconcileFails ==
    /\ bugRec = "running"
    /\ Fault
    /\ bugRec' = "sending"
    /\ UNCHANGED <<envVars, phase, orgVars, bugs, http, errs, calcVars, served>>

ServeFails ==
    /\ http = "serving"
    /\ Fault
    /\ http' = "sending"
    /\ UNCHANGED <<envVars, phase, orgVars, bugs, bugRec, errs, calcVars, served>>

\* Mutant of SendError: the channel takes any number of errors.
SendErrorUnbounded ==
    /\ errs' = errs + 1
    /\ \/ bugRec = "sending" /\ bugRec' = "dead" /\ UNCHANGED http
       \/ http = "sending" /\ http' = "dead" /\ UNCHANGED bugRec
    /\ UNCHANGED <<envVars, faults, phase, orgVars, bugs, calcVars, served>>

\* errs <- err, by the goroutine of the bug data or of the server, which ends.
SendError ==
    /\ errs < ErrsCap
    /\ errs' = errs + 1
    /\ \/ bugRec = "sending" /\ bugRec' = "dead" /\ UNCHANGED http
       \/ http = "sending" /\ http' = "dead" /\ UNCHANGED bugRec
    /\ UNCHANGED <<envVars, faults, phase, orgVars, bugs, calcVars, served>>

-----------------------------------------------------------------------------
(* The scoring goroutine: getTeamSLOResults. *)

\* bugData.GetTeamMap(), or that of a filtered clone: the list is taken now.
StartMap(which) ==
    /\ calc' = which
    /\ unplaced' = Filter(which, bugs)
    /\ UNCHANGED bugs

StartPass ==
    /\ calc = "sleep"
    /\ org # NilOrg
    /\ StartMap("total")
    /\ bugMaps' = NoMaps
    /\ orgsSeen' = {org} /\ bugsSeen' = {bugs}
    /\ UNCHANGED <<envVars, faults, phase, orgVars, bugRec, http, errs, ranged,
                   results, served>>

\* Mutant of PlaceBug: every list of bugs goes to the map of all bugs as well.
PlaceBugTwice(b) ==
    /\ calc \in BugMapNames
    /\ b \in unplaced
    /\ \E t \in Answers(org.teams, b.component, NoSubcomponent) :
         bugMaps' = [w \in BugMapNames |-> bugMaps[w] \cup {<<t, b>>}]
    /\ unplaced' = unplaced \ {b}
    /\ UNCHANGED <<envVars, faults, phase, orgVars, recVars, calc, ranged,
                   results, orgsSeen, bugsSeen, served>>

\* buildTeamMap looks the team of a bug up in the organisation data of now.
PlaceBug(b) ==
    /\ calc \in BugMapNames
    /\ b \in unplaced
    /\ \E t \in Answers(org.teams, b.component, NoSubcomponent) :
         bugMaps' = [bugMaps EXCEPT ![calc] = @ \cup {<<t, b>>}]
    /\ unplaced' = unplaced \ {b}
    /\ UNCHANGED <<envVars, faults, phase, orgVars, recVars, calc, ranged,
                   results, orgsSeen, bugsSeen, served>>

\* GetBugMaps makes its three maps one after the other.
EndMap ==
    /\ calc \in BugMapNames
    /\ unplaced = {}
    /\ \/ calc = "total" /\ StartMap("urgents")
       \/ calc = "urgents" /\ StartMap("blockers")
       \/ calc = "blockers" /\ calc' = "version" /\ UNCHANGED <<bugs, unplaced>>
    /\ UNCHANGED <<envVars, faults, phase, orgVars, bugRec, http, errs, bugMaps,
                   ranged, results, orgsSeen, bugsSeen, served>>

\* Mutant of CurrentVersion: an organisation without a release ends the goroutine.
CurrentVersionSilent ==
    /\ calc = "version"
    /\ calc' = IF org.releases = {} THEN "dead" ELSE "range"
    /\ UNCHANGED <<envVars, faults, phase, orgVars, recVars, unplaced, bugMaps,
                   ranged, results, orgsSeen, bugsSeen, served>>

CurrentVersion ==
    /\ calc = "version"
    /\ calc' = IF org.releases = {} THEN "sending" ELSE "range"
    /\ UNCHANGED <<envVars, faults, phase, orgVars, recVars, unplaced, bugMaps,
                   ranged, results, orgsSeen, bugsSeen, served>>

\* The error goes to the channel too, and the goroutine returns.
SendVersionError ==
    /\ calc = "sending"
    /\ errs < ErrsCap
    /\ errs' = errs + 1
    /\ calc' = "dead"
    /\ UNCHANGED <<envVars, faults, phase, orgVars, bugs, bugRec, http, unplaced,
                   bugMaps, ranged, results, orgsSeen, bugsSeen, served>>

\* "range orgInfo.Teams" keeps to the map that is there when it starts.
RangeTeams ==
    /\ calc = "range"
    /\ calc' = "score"
    /\ ranged' = org.teams
    /\ results' = NoResults
    /\ UNCHANGED <<envVars, faults, phase, orgVars, recVars, unplaced, bugMaps,
                   orgsSeen, bugsSeen, served>>

Score(t) ==
    /\ calc = "score"
    /\ t \in DOMAIN ranged \ DOMAIN results
    /\ results' = [u \in DOMAIN results \cup {t} |->
                     IF u = t THEN GetTeamResult(bugMaps, org.slo, t, ranged[t])
                     ELSE results[u]]
    /\ UNCHANGED <<envVars, faults, phase, orgVars, recVars, calc, unplaced,
                   bugMaps, ranged, orgsSeen, bugsSeen, served>>

\* Back to sleep, with what the pass needed out of reach.
EndPass ==
    /\ calc = "score"
    /\ DOMAIN results = DOMAIN ranged
    /\ calc' = "sleep"
    /\ bugMaps' = NoMaps /\ ranged' = NoResults /\ results' = NoResults
    /\ orgsSeen' = {} /\ bugsSeen' = {}
    /\ UNCHANGED <<envVars, faults, phase, orgVars, recVars, unplaced>>

\* Mutant of Publish: no results are results.
PublishAnything == EndPass /\ served' = results

\* *serveResults = teamsResults, unless there are none.
Publish ==
    /\ EndPass
    /\ served' = IF results = NoResults THEN served ELSE results

-----------------------------------------------------------------------------
Environment ==
    \/ \E i \in ID : ChangeBug(i)
    \/ \E o \in Orgs : ChangeOrg(o)

Main ==
    \/ Start \/ GetOrgData \/ GetOrgDataGarbled \/ GetBugData
    \/ FailOrStop \/ ReceiveError

Reconcilers ==
    \/ OrgReconcile \/ OrgReconcileFails \/ NilOrgPanic
    \/ \E f \in Fields : CopyField(f)
    \/ BugsReconcile \/ BugsReconcileFails
    \/ ServeFails \/ SendError

Scoring ==
    \/ StartPass \/ EndMap \/ CurrentVersion \/ SendVersionError
    \/ RangeTeams \/ Publish
    \/ \E b \in unplaced : PlaceBug(b)
    \/ \E t \in Team : Score(t)

Next == Environment \/ Main \/ Reconcilers \/ Scoring

Spec == Init /\ [][Next]_vars

\* The deployment restarts the process; no goroutine is forgotten for ever.
Fairness ==
    /\ WF_vars(Start) /\ WF_vars(GetOrgData) /\ WF_vars(GetBugData)
    /\ WF_vars(ReceiveError) /\ WF_vars(SendError)
    /\ WF_vars(OrgReconcile \/ NilOrgPanic \/ \E f \in Fields : CopyField(f))
    /\ WF_vars(BugsReconcile)
    /\ WF_vars(Scoring)

FairSpec == Spec /\ Fairness

-----------------------------------------------------------------------------
\* The bugs that organisation data o gives to team t.
Claimed(o, B, t) == { b \in B : t \in Answers(o.teams, b.component, NoSubcomponent) }

\* What an objective allows team t: its own figure before the organisation's.
Allowed(o, t, which) ==
    LET own == o.teams[t].slo
        data == IF which \in DOMAIN own THEN own[which]
                ELSE IF which \in DOMAIN o.slo THEN o.slo[which] ELSE NoData
        heads == IF data.perMember /\ o.teams[t].memberCount > 0
                 THEN o.teams[t].memberCount ELSE 1
    IN  (data.halves * heads) \div 2

\* Team t is over one of its limits.  (No objective can be missed by CI.)
OverLimit(o, B, t) ==
    LET mine == Claimed(o, B, t)
    IN  \/ Cardinality(mine) > Allowed(o, t, "total")
        \/ Cardinality({ b \in mine : b.urgent }) > Allowed(o, t, "urgents")
        \/ Cardinality({ b \in mine : b.blocker }) > Allowed(o, t, "blockers")
        \/ PMScore(mine) > Allowed(o, t, "pmscore")

\* The verdict of results r is the one that o and B call for.
Verdict(r, o, B) ==
    /\ DOMAIN r = DOMAIN o.teams
    /\ \A t \in DOMAIN r : r[t].failing <=> OverLimit(o, B, t)

(***************************************************************************)
(* A pass that saw one version of the bugs and one of the organisation     *)
(* data publishes who misses an objective and who does not, for exactly    *)
(* the teams there are; a team's own objective overrides the               *)
(* organisation's, and one per member is scaled by the members, if any.    *)
(* (When teams claim the same bugs, there is no one verdict.)              *)
(***************************************************************************)
ExactWhenUndisturbed ==
    [][ \A o \in orgsSeen, B \in bugsSeen :
            /\ Publish /\ results # NoResults
            /\ orgsSeen = {o} /\ bugsSeen = {B} /\ Unambiguous(o.teams)
          => Verdict(served', o, B) ]_vars

(***************************************************************************)
(* Whatever changes during a pass, and in whatever order: each count it    *)
(* publishes lies between the bugs that every version seen gives the team  *)
(* and no other, and those that some version may give it.                  *)
(***************************************************************************)
CountsBounded ==
    \A t \in DOMAIN results, which \in BugMapNames :
        LET sure == { b \in UNION bugsSeen : \A o \in orgsSeen, B \in bugsSeen :
                        /\ b \in Filter(which, B)
                        /\ Answers(o.teams, b.component, NoSubcomponent) = {t} }
            possible == { b \in UNION bugsSeen : \E o \in orgsSeen, B \in bugsSeen :
                                     b \in Claimed(o, Filter(which, B), t) }
            current == results[t].results[which].current
        IN  Cardinality(sure) <= current /\ current <= Cardinality(possible)

(***************************************************************************)
(* Once there are results, /teams answers with results for as long as the  *)
(* process lives, though the organisation data may lose all of its teams:  *)
(* a consumer takes a team without results for one that fails nothing.     *)
(***************************************************************************)
KeepsAnswering ==
    [][served # NoResults => served' # NoResults \/ phase' = "down"]_vars

\* There is a release to score for, and a team to score.
Scorable(o) == o.releases # {} /\ o.teams # NoResults

(***************************************************************************)
(* When changes and failures cease, the service comes to serve the verdict *)
(* on the current bugs and organisation data, through whatever restarts an *)
(* error of any of the goroutines or missing releases have cost.           *)
(***************************************************************************)
ResultsConverge ==
    <>[]Scorable(service) => <>[](served # NoResults /\ Verdict(served, service, bz))

-----------------------------------------------------------------------------
\* The places of the scoring goroutine in the course of a pass, from map w on.
From(w) ==
    {"version", "range", "score", "sending", "dead"}
      \cup (CASE w = "total" -> BugMapNames
              [] w = "urgents" -> {"urgents", "blockers"}
              [] w = "blockers" -> {"blockers"})

\* What a pass has seen, and that there is nothing of it outside one.
PassInv ==
    /\ phase # "running" => calc = "off" /\ bugRec = "off" /\ http = "off"
    /\ copying # {} => newOrg \in Orgs /\ org # NilOrg
    /\ orgsSeen \subseteq Mixtures
    /\ IsFiniteSet(bugsSeen)
    /\ \A B \in bugsSeen : B \subseteq OpenBug /\ IsFiniteSet(B)
    /\ IF calc \in From("total") THEN org \in orgsSeen /\ bugs \in bugsSeen
                                 ELSE orgsSeen = {} /\ bugsSeen = {}

(***************************************************************************)
(* Each map has the bugs of one list seen, but for those still to place,   *)
(* and each with a team that some organisation data seen gave it to.       *)
(***************************************************************************)
MapInv ==
    /\ calc \notin BugMapNames => unplaced = {}
    /\ \A w \in BugMapNames :
         IF calc \in From(w)
         THEN /\ \E B \in bugsSeen :
                   Filter(w, B) = { p[2] : p \in bugMaps[w] }
                                    \cup { b \in unplaced : calc = w }
              /\ \A p \in bugMaps[w] : \E o \in orgsSeen :
                   p[1] \in Answers(o.teams, p[2].component, NoSubcomponent)
         ELSE bugMaps[w] = {}

\* The results are those of the maps, for the teams and objectives seen.
ResultInv ==
    IF calc = "score"
    THEN /\ \E o \in orgsSeen : ranged = o.teams
         /\ \A t \in DOMAIN results : \E o \in orgsSeen :
              results[t] = GetTeamResult(bugMaps, o.slo, t, ranged[t])
    ELSE ranged = NoResults /\ results = NoResults

\* The inductive invariant the proofs of TeamSLOProofs use.
IInv == TypeOK /\ PassInv /\ MapInv /\ ResultInv
=============================================================================
