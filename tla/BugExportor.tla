---------------------------- MODULE BugExportor ----------------------------
(***************************************************************************)
(* The bug-exportor service (cmd/bug-exportor) with the packages it runs:  *)
(* pkg/teams and pkg/bugs hold the shared data, each refreshed by a        *)
(* goroutine of its own; pkg/metrics publishes the gauge; HTTP handlers    *)
(* answer /api.  The gauge is module BugGauge, the team lookup operator    *)
(* OrgData!Answers, which module TeamLookup implements.                    *)
(*                                                                         *)
(* Bugzilla and the organisation data service are external; so is the      *)
(* Kubernetes deployment that restarts the process when it ends.           *)
(***************************************************************************)
EXTENDS OrgData, Naturals, Functions

CONSTANTS
    ID, Detail, NoLabels,   \* as in BugGauge
    Orgs,           \* the data the organisation service can hand out
    NilOrg,         \* the nil *OrgData
    InitialBugs,    \* what may be open in Bugzilla at first
    Metrics,        \* the goroutine of metrics.Setup
    Handlers,       \* the /api requests that can be served at a time
    MaxChanges,     \* bound: changes of Bugzilla and of the organisation data
    MaxFaults       \* bound: failed calls and signals

ASSUME OrgsAssumption == Orgs \subseteq OrgDataSet /\ NilOrg \notin Orgs
ASSUME ReaderAssumption == Metrics \notin Handlers
ASSUME BoundAssumption == MaxChanges \in Nat /\ MaxFaults \in Nat

ErrsCap == 1   \* errs := make(chan error, 1)

Readers == Handlers \cup {Metrics}

\* What the query returns of an open bug: its first component, that component's
\* first subcomponent, and the labels that do not depend on the team.
Bug == [component : Component, subcomponent : SubcomponentOrNone, detail : Detail]

\* The answer to the query for all open bugs: from the ids to the bugs.
Snapshots == UNION { [B -> Bug] : B \in SUBSET ID }

\* A TeamMap: from the names of teams to their bugs.
TeamMaps == UNION { [T -> SUBSET ID] : T \in SUBSET (Team \cup {Unknown}) }

NoBugs == [b \in {} |-> {}]
NoTeams == [t \in {} |-> {}]

ASSUME InitialAssumption == InitialBugs \subseteq Snapshots

VARIABLES
    bz, service,                \* external: the open bugs, the organisation data
    changes, faults,            \* how much of MaxChanges and MaxFaults is used
    phase,                      \* doMain: "down", "org", "bugs" or "running"
    org,                        \* *orgData, shared by all goroutines
    bugs,                       \* BugData.bugs, guarded by its RWMutex
    bugRec, fetched,            \* bugData.Reconciler: its place, Search's answer
    http,                       \* the goroutine of serveHTTP
    errs,                       \* how many errors the channel holds
    reading, snap,              \* GetTeamMap of each reader: is it running, on what
    teamMap, unplaced,          \* the map under construction, the bugs left
    orgsSeen,                   \* history: the values of org during the call
    responded,                  \* history: Bugzilla has answered this process
    series, lit, lastGauges, nextGauges, cur, todo, pass, target, published

Gauge == INSTANCE BugGauge WITH Names <- Team \cup {Unknown}

ASSUME GaugeAssumption == NoLabels \notin Gauge!Labels

envVars == <<bz, service, changes>>
procVars == <<phase, org>>
recVars == <<bugs, bugRec, fetched, http, errs, responded>>
readVars == <<reading, snap, teamMap, unplaced, orgsSeen>>
gaugeVars ==
    <<series, lit, lastGauges, nextGauges, cur, todo, pass, target, published>>
vars == <<envVars, faults, procVars, recVars, readVars, gaugeVars>>

TypeOK ==
    /\ bz \in Snapshots /\ service \in Orgs
    /\ changes \in 0..MaxChanges /\ faults \in 0..MaxFaults
    /\ phase \in {"down", "org", "bugs", "running"}
    /\ org \in Orgs \cup {NilOrg}
    /\ bugs \in Snapshots /\ fetched \in Snapshots
    /\ bugRec \in {"off", "search", "set", "sending", "dead"}
    /\ http \in {"off", "serving", "sending", "dead"}
    /\ errs \in 0..ErrsCap
    /\ reading \in [Readers -> BOOLEAN]
    /\ snap \in [Readers -> Snapshots]
    /\ teamMap \in [Readers -> TeamMaps]
    /\ unplaced \in [Readers -> SUBSET ID]
    /\ orgsSeen \in [Readers -> SUBSET Orgs]
    /\ \A r \in Readers :
         /\ \A t \in DOMAIN teamMap[r] : teamMap[r][t] \subseteq DOMAIN snap[r]
         /\ unplaced[r] \subseteq DOMAIN snap[r]
    /\ responded \in BOOLEAN

Init ==
    /\ bz \in InitialBugs
    /\ service \in Orgs
    /\ changes = 0
    /\ faults = 0
    /\ phase = "down" /\ org = NilOrg
    /\ bugs = NoBugs /\ fetched = NoBugs
    /\ bugRec = "off" /\ http = "off" /\ errs = 0
    /\ reading = [r \in Readers |-> FALSE]
    /\ snap = [r \in Readers |-> NoBugs]
    /\ teamMap = [r \in Readers |-> NoTeams]
    /\ unplaced = [r \in Readers |-> {}]
    /\ orgsSeen = [r \in Readers |-> {}]
    /\ responded = FALSE
    /\ Gauge!Init

-----------------------------------------------------------------------------
(* The environment. *)

\* A bug is opened, edited or moved to another component, or closed.
ChangeBug(b) ==
    /\ changes < MaxChanges
    /\ changes' = changes + 1
    /\ \/ \E r \in Bug : bz' = [i \in DOMAIN bz \cup {b} |-> IF i = b THEN r ELSE bz[i]]
       \/ bz' = Restrict(bz, DOMAIN bz \ {b})
    /\ UNCHANGED <<service, faults, procVars, recVars, readVars, gaugeVars>>

\* The organisation is rearranged.
ChangeOrg(o) ==
    /\ changes < MaxChanges
    /\ changes' = changes + 1
    /\ service' = o
    /\ UNCHANGED <<bz, faults, procVars, recVars, readVars, gaugeVars>>

\* A call fails, or a signal arrives.
Fault ==
    /\ faults < MaxFaults
    /\ faults' = faults + 1

-----------------------------------------------------------------------------
(* The process: doMain. *)

\* The deployment starts the process.
Start ==
    /\ phase = "down"
    /\ phase' = "org"
    /\ UNCHANGED <<envVars, faults, org, recVars, readVars, gaugeVars>>

\* teams.GetOrgData; orgData.Reconciler() starts the goroutine.
GetOrgData ==
    /\ phase = "org"
    /\ phase' = "bugs"
    /\ org' = service
    /\ UNCHANGED <<envVars, faults, recVars, readVars, gaugeVars>>

\* A body that cannot be read or parsed: "return nil, err" with a nil err.
GetOrgDataGarbled ==
    /\ phase = "org"
    /\ Fault
    /\ phase' = "bugs"
    /\ org' = NilOrg
    /\ UNCHANGED <<envVars, recVars, readVars, gaugeVars>>

\* Mutant of GetBugData: the first Reconcile is left to the goroutine.
GetBugDataLater ==
    /\ phase = "bugs"
    /\ phase' = "running"
    /\ bugRec' = "search"
    /\ http' = "serving"
    /\ UNCHANGED <<envVars, faults, org, bugs, fetched, errs, responded, readVars,
                   gaugeVars>>

\* bugs.GetBugData and its first Reconcile, then all the goroutines.
GetBugData ==
    /\ phase = "bugs"
    /\ phase' = "running"
    /\ bugs' = bz
    /\ responded' = TRUE
    /\ bugRec' = "search"
    /\ http' = "serving"
    /\ UNCHANGED <<envVars, faults, org, fetched, errs, readVars, gaugeVars>>

\* The process ends, and with it everything it holds.
Down ==
    /\ phase' = "down" /\ org' = NilOrg
    /\ bugs' = NoBugs /\ fetched' = NoBugs
    /\ bugRec' = "off" /\ http' = "off" /\ errs' = 0
    /\ reading' = [r \in Readers |-> FALSE]
    /\ snap' = [r \in Readers |-> NoBugs]
    /\ teamMap' = [r \in Readers |-> NoTeams]
    /\ unplaced' = [r \in Readers |-> {}]
    /\ orgsSeen' = [r \in Readers |-> {}]
    /\ responded' = FALSE
    /\ Gauge!Reset
    /\ UNCHANGED envVars

\* Either constructor returns an error, and so does doMain.
StartupFails ==
    /\ phase \in {"org", "bugs"}
    /\ Fault
    /\ Down

\* A signal ends the select of doMain.
Stop ==
    /\ phase = "running"
    /\ Fault
    /\ Down

\* An error ends the select of doMain.
ReceiveError ==
    /\ phase = "running"
    /\ errs > 0
    /\ Down
    /\ UNCHANGED faults

-----------------------------------------------------------------------------
(* orgData.Reconciler, and what every goroutine does with a nil *OrgData.  *)

OrgReconcilerRuns == phase \in {"bugs", "running"}

\* *orgData = *newOrgData, without a lock.  The service is seen by this step
\* only, so fetching and overwriting are one step.
OrgReconcile ==
    /\ OrgReconcilerRuns
    /\ org # NilOrg
    /\ org' = service
    /\ orgsSeen' = [r \in Readers |-> IF reading[r] THEN orgsSeen[r] \cup {service}
                                                   ELSE orgsSeen[r]]
    /\ UNCHANGED <<envVars, faults, phase, recVars, reading, snap, teamMap,
                   unplaced, gaugeVars>>

\* log.Fatalln on an error; a nil newOrgData is dereferenced: a panic.
OrgReconcileFails ==
    /\ OrgReconcilerRuns
    /\ org # NilOrg
    /\ Fault
    /\ Down

\* orgData.cmd of a nil orgData, in Reconcile: a panic.
NilOrgPanic ==
    /\ OrgReconcilerRuns
    /\ org = NilOrg
    /\ Down
    /\ UNCHANGED faults

-----------------------------------------------------------------------------
(* bugData.Reconciler and serveHTTP: the two senders of the channel.       *)

\* bd.client.Search answers ...
Search ==
    /\ bugRec = "search"
    /\ fetched' = bz
    /\ bugRec' = "set"
    /\ UNCHANGED <<envVars, faults, procVars, bugs, http, errs, responded,
                   readVars, gaugeVars>>

\* ... and bd.set stores the answer; the goroutine sleeps for 5 minutes.
SetBugs ==
    /\ bugRec = "set"
    /\ bugs' = fetched
    /\ bugRec' = "search"
    /\ fetched' = NoBugs
    /\ UNCHANGED <<envVars, faults, procVars, http, errs, responded, readVars,
                   gaugeVars>>

\* Mutant of SearchFails: the goroutine returns without a word.
SearchFailsSilently ==
    /\ bugRec = "search"
    /\ Fault
    /\ bugRec' = "dead"
    /\ UNCHANGED <<envVars, procVars, bugs, fetched, http, errs, responded,
                   readVars, gaugeVars>>

SearchFails ==
    /\ bugRec = "search"
    /\ Fault
    /\ bugRec' = "sending"
    /\ UNCHANGED <<envVars, procVars, bugs, fetched, http, errs, responded,
                   readVars, gaugeVars>>

\* errs <- err, then return: the data is never refreshed again.
SendSearchError ==
    /\ bugRec = "sending"
    /\ errs < ErrsCap
    /\ errs' = errs + 1
    /\ bugRec' = "dead"
    /\ UNCHANGED <<envVars, faults, procVars, bugs, fetched, http, responded,
                   readVars, gaugeVars>>

\* srv.ListenAndServe returns.
ServeFails ==
    /\ http = "serving"
    /\ Fault
    /\ http' = "sending"
    /\ UNCHANGED <<envVars, procVars, bugs, bugRec, fetched, errs, responded,
                   readVars, gaugeVars>>

SendServeError ==
    /\ http = "sending"
    /\ errs < ErrsCap
    /\ errs' = errs + 1
    /\ http' = "dead"
    /\ UNCHANGED <<envVars, faults, procVars, bugs, bugRec, fetched, responded,
                   readVars, gaugeVars>>

-----------------------------------------------------------------------------
(* GetTeamMap, by an /api handler or by the metrics goroutine.             *)

MayRead(r) ==
    /\ phase = "running"
    /\ org # NilOrg
    /\ IF r = Metrics THEN pass = "idle" ELSE http = "serving"

\* GetBugs, then a key for every team there is and one for "unknown".
GetTeamMap(r) ==
    /\ MayRead(r)
    /\ ~reading[r]
    /\ reading' = [reading EXCEPT ![r] = TRUE]
    /\ snap' = [snap EXCEPT ![r] = bugs]
    /\ teamMap' = [teamMap EXCEPT ![r] = [t \in DOMAIN org \cup {Unknown} |-> {}]]
    /\ unplaced' = [unplaced EXCEPT ![r] = DOMAIN bugs]
    /\ orgsSeen' = [orgsSeen EXCEPT ![r] = {org}]
    /\ UNCHANGED <<envVars, faults, procVars, recVars, gaugeVars>>

TeamsFor(o, bug) == Answers(o, bug.component, bug.subcomponent)

\* Mutant of AddToTeam: the list of the team is replaced, not appended to.
AddToTeamOverwriting(map, team, b) ==
    [t \in DOMAIN map \cup {team} |-> IF t = team THEN {b} ELSE map[t]]

\* out[team] = append(out[team], bug), on a map of team names to bugs.
AddToTeam(map, team, b) ==
    [t \in DOMAIN map \cup {team} |->
        (IF t \in DOMAIN map THEN map[t] ELSE {}) \cup (IF t = team THEN {b} ELSE {})]

\* Mutant of PlaceBug: the bug is also listed under "unknown".
PlaceBugTwice(r, b) ==
    /\ reading[r]
    /\ b \in unplaced[r]
    /\ unplaced' = [unplaced EXCEPT ![r] = @ \ {b}]
    /\ \E team \in TeamsFor(org, snap[r][b]) :
           teamMap' = [teamMap EXCEPT ![r] = AddToTeam(AddToTeam(@, team, b), Unknown, b)]
    /\ UNCHANGED <<envVars, faults, procVars, recVars, reading, snap, orgsSeen,
                   gaugeVars>>

\* One iteration of buildTeamMap: the lookup runs on the shared data of now.
PlaceBug(r, b) ==
    /\ reading[r]
    /\ b \in unplaced[r]
    /\ unplaced' = [unplaced EXCEPT ![r] = @ \ {b}]
    /\ \E team \in TeamsFor(org, snap[r][b]) :
           teamMap' = [teamMap EXCEPT ![r] = AddToTeam(@, team, b)]
    /\ UNCHANGED <<envVars, faults, procVars, recVars, reading, snap, orgsSeen,
                   gaugeVars>>

Built(r) == reading[r] /\ unplaced[r] = {}

\* Mutant of Forget: the list of the bugs goes, the map of them stays.
ForgetBugsOnly(r) ==
    /\ reading' = [reading EXCEPT ![r] = FALSE]
    /\ snap' = [snap EXCEPT ![r] = NoBugs]
    /\ orgsSeen' = [orgsSeen EXCEPT ![r] = {}]
    /\ UNCHANGED <<teamMap, unplaced>>

\* The reader is done with its team map.
Forget(r) ==
    /\ reading' = [reading EXCEPT ![r] = FALSE]
    /\ snap' = [snap EXCEPT ![r] = NoBugs]
    /\ teamMap' = [teamMap EXCEPT ![r] = NoTeams]
    /\ orgsSeen' = [orgsSeen EXCEPT ![r] = {}]
    /\ UNCHANGED unplaced

\* The handler encodes the map into its response.
Reply(r) ==
    /\ Built(r)
    /\ Forget(r)
    /\ UNCHANGED <<envVars, faults, procVars, recVars, gaugeVars>>

\* labelsFromBug of every bug of the map.
LabelsOf(r) ==
    UNION { { [id |-> b, team |-> t, detail |-> snap[r][b].detail] : b \in teamMap[r][t] } :
            t \in DOMAIN teamMap[r] }

\* The metrics goroutine enters updateGauge, unless the map has no team at all ...
Publish ==
    /\ Built(Metrics)
    /\ teamMap[Metrics] # NoTeams
    /\ Gauge!StartPass(LabelsOf(Metrics))
    /\ Forget(Metrics)
    /\ UNCHANGED <<envVars, faults, procVars, recVars>>

\* ... and goes through its loops.
UpdateGauge ==
    /\ Gauge!Update
    /\ UNCHANGED <<envVars, faults, procVars, recVars, readVars>>

-----------------------------------------------------------------------------
Environment ==
    \/ \E b \in ID : ChangeBug(b)
    \/ \E o \in Orgs : ChangeOrg(o)

Main ==
    \/ Start \/ GetOrgData \/ GetOrgDataGarbled \/ GetBugData
    \/ StartupFails \/ Stop \/ ReceiveError

Reconcilers ==
    \/ OrgReconcile \/ OrgReconcileFails \/ NilOrgPanic
    \/ Search \/ SetBugs \/ SearchFails \/ SendSearchError
    \/ ServeFails \/ SendServeError

Reading ==
    \/ \E r \in Readers : GetTeamMap(r) \/ \E b \in ID : PlaceBug(r, b)
    \/ \E r \in Handlers : Reply(r)

Next == Environment \/ Main \/ Reconcilers \/ Reading \/ Publish \/ UpdateGauge

\* What the goroutine of metrics.Setup does.
Metering ==
    \/ GetTeamMap(Metrics) \/ Publish \/ UpdateGauge
    \/ \E b \in ID : PlaceBug(Metrics, b)

(***************************************************************************)
(* A goroutine that can go on does go on, sleeps end, and the deployment   *)
(* restarts the process.  Nothing forces a change, a fault or a request.   *)
(***************************************************************************)
Fairness ==
    /\ WF_vars(Start \/ GetOrgData \/ GetBugData \/ ReceiveError)
    /\ WF_vars(OrgReconcile \/ NilOrgPanic)
    /\ WF_vars(Search \/ SetBugs \/ SendSearchError)
    /\ WF_vars(SendServeError)
    /\ WF_vars(Metering)

Spec == Init /\ [][Next]_vars
FairSpec == Spec /\ Fairness

-----------------------------------------------------------------------------
(***************************************************************************)
(* A finished team map partitions the bugs of one answer of Bugzilla, each *)
(* bug in a team that some organisation data in force during the call      *)
(* gives it to; whatever the two reconcilers replace meanwhile.            *)
(***************************************************************************)
TeamMapFaithful ==
    \A r \in Readers : Built(r) =>
        /\ UNION { teamMap[r][t] : t \in DOMAIN teamMap[r] } = DOMAIN snap[r]
        /\ \A t, u \in DOMAIN teamMap[r] :
               t # u => teamMap[r][t] \cap teamMap[r][u] = {}
        /\ \A t \in DOMAIN teamMap[r] : \A b \in teamMap[r][t] :
               \E o \in orgsSeen[r] : t \in TeamsFor(o, snap[r][b])

(***************************************************************************)
(* "Don't publish data until we actually get a response from BZ"           *)
(* (pkg/metrics/metrics.go): no team map is served and no pass over the    *)
(* gauge begun before Bugzilla has answered this process.  And an          *)
(* organisation answer that cannot be parsed ends the process before       *)
(* anything is computed from it: no map is under way and no series is      *)
(* shown while the shared organisation data is nil.                        *)
(***************************************************************************)
PublishOnlyAnswers ==
    /\ ((\E r \in Readers : Built(r)) \/ pass # "idle") => responded
    /\ org = NilOrg => series = {} /\ \A r \in Readers : ~reading[r]

(***************************************************************************)
(* The process drives the gauge as BugGauge demands: each pass is over a   *)
(* map that has every bug once, and nothing else touches the gauge.        *)
(***************************************************************************)
RefinesGauge == Gauge!Spec

\* A series that tells of an open bug, as it is and in a team it belongs to.
Current(l) ==
    /\ l.id \in DOMAIN bz
    /\ l.detail = bz[l.id].detail
    /\ l.team \in TeamsFor(service, bz[l.id])

\* Neither the reconciler of the bugs nor the server has given up.
Healthy == phase = "running" /\ bugRec \in {"search", "set"} /\ http = "serving"

(***************************************************************************)
(* Once Bugzilla and the organisation stop changing and the faults stop,   *)
(* the process serves for good: a goroutine that gives up has taken the    *)
(* process with it, for the deployment to replace, and does not leave it   *)
(* with data that is never refreshed again.  No scrape sees stale series   *)
(* any more, and again and again one sees all of the bugs.                 *)
(***************************************************************************)
GaugeConverges ==
    /\ <>[](Healthy /\ \A l \in series : Current(l))
    /\ []<>(Gauge!IdsOf(lit) = DOMAIN bz)

-----------------------------------------------------------------------------
Placed(r) == UNION { teamMap[r][t] : t \in DOMAIN teamMap[r] }

(***************************************************************************)
(* The team map under construction, at any iteration: the placed bugs and  *)
(* the others are those of the snapshot, no team has a bug of another, and *)
(* the data of now are among those that answered for the placed ones.      *)
(***************************************************************************)
MapInv ==
    \A r \in Readers :
        /\ reading[r] =>
             /\ org \in orgsSeen[r]
             /\ Placed(r) \cap unplaced[r] = {}
             /\ Placed(r) \cup unplaced[r] = DOMAIN snap[r]
             /\ \A t, u \in DOMAIN teamMap[r] :
                    t # u => teamMap[r][t] \cap teamMap[r][u] = {}
             /\ \A t \in DOMAIN teamMap[r] : \A b \in teamMap[r][t] :
                    \E o \in orgsSeen[r] : t \in TeamsFor(o, snap[r][b])
        /\ ~reading[r] =>
             snap[r] = NoBugs /\ teamMap[r] = NoTeams /\ unplaced[r] = {}

(***************************************************************************)
(* doMain has the first answer of Bugzilla before any goroutine reads, and *)
(* none of them gets anywhere without organisation data.                   *)
(***************************************************************************)
StartInv ==
    /\ phase = "running" => responded
    /\ phase # "running" \/ org = NilOrg =>
         pass = "idle" /\ series = {} /\ \A r \in Readers : ~reading[r]

\* The inductive invariant the proofs of BugExportorProofs use.
IInv == TypeOK /\ MapInv /\ StartInv
=============================================================================
