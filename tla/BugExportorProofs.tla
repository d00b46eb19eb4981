------------------------- MODULE BugExportorProofs -------------------------
(***************************************************************************)
(* Team maps are faithful and drive the gauge as BugGauge demands, for any *)
(* bugs, teams, organisation data, handlers, changes and failures.         *)
(***************************************************************************)
EXTENDS BugExportor, TLAPS

(***************************************************************************)
(* The lookup knows no team but those of its data, and "unknown".          *)
(***************************************************************************)
LEMMA AnswersType ==
  ASSUME NEW o \in Orgs, NEW c, NEW s
  PROVE  Answers(o, c, s) \subseteq Team \cup {Unknown}
  <1>1. DOMAIN o \subseteq Team
    BY OrgsAssumption DEF OrgDataSet
  <1> QED BY <1>1 DEF Answers, Owners, Defaults

(***************************************************************************)
(* Nothing is an answer of Bugzilla too, and a map of no teams.            *)
(***************************************************************************)
LEMMA NothingType ==
  /\ NoBugs \in Snapshots /\ DOMAIN NoBugs = {}
  /\ NoTeams \in TeamMaps /\ DOMAIN NoTeams = {}
  <1>1. NoBugs \in [{} -> Bug] /\ {} \in SUBSET ID
    BY DEF NoBugs
  <1>2. NoTeams \in [{} -> SUBSET ID] /\ {} \in SUBSET (Team \cup {Unknown})
    BY DEF NoTeams
  <1> QED BY <1>1, <1>2 DEF Snapshots, TeamMaps, NoBugs, NoTeams

(***************************************************************************)
(* What an answer of Bugzilla is, without the union over its domains.      *)
(***************************************************************************)
LEMMA SnapshotType ==
  ASSUME NEW f \in Snapshots
  PROVE  DOMAIN f \subseteq ID /\ f \in [DOMAIN f -> Bug]
  BY DEF Snapshots

\* Any function from ids to bugs is one.
LEMMA SnapshotIntro ==
  ASSUME NEW B \in SUBSET ID, NEW f \in [B -> Bug]
  PROVE  f \in Snapshots
  BY DEF Snapshots

\* The same of the maps from teams to bugs.
LEMMA TeamMapType ==
  ASSUME NEW f \in TeamMaps
  PROVE  /\ DOMAIN f \subseteq Team \cup {Unknown}
         /\ \A t \in DOMAIN f : f[t] \subseteq ID
  BY DEF TeamMaps

\* Any function from names of teams to sets of ids is one.
LEMMA TeamMapIntro ==
  ASSUME NEW T \in SUBSET (Team \cup {Unknown}), NEW f \in [T -> SUBSET ID]
  PROVE  f \in TeamMaps
  BY DEF TeamMaps

(***************************************************************************)
(* The process is down and nobody reads at first.                          *)
(***************************************************************************)
LEMMA InitIInv == Init => IInv
  <1> SUFFICES ASSUME Init PROVE IInv
    OBVIOUS
  <1>1. TypeOK
    <2>1. bz \in Snapshots
      BY InitialAssumption DEF Init
    <2>2. changes \in 0..MaxChanges /\ faults \in 0..MaxFaults /\ errs \in 0..ErrsCap
      BY BoundAssumption DEF Init, ErrsCap
    <2> QED BY <2>1, <2>2, NothingType DEF Init, TypeOK
  <1>2. MapInv
    BY DEF Init, MapInv
  <1>3. StartInv
    BY DEF Init, StartInv, Gauge!Init
  <1> QED BY <1>1, <1>2, <1>3 DEF IInv

(***************************************************************************)
(* A step that touches neither a team map, nor the gauge, nor what they    *)
(* are computed from.                                                      *)
(***************************************************************************)
LEMMA Undisturbed ==
  ASSUME IInv, UNCHANGED <<readVars, gaugeVars, procVars, responded>>
  PROVE  MapInv' /\ StartInv'
  <1> USE DEF readVars, gaugeVars, procVars
  <1>1. MapInv'
    BY DEF IInv, MapInv, Placed
  <1>2. StartInv'
    BY DEF IInv, StartInv
  <1> QED BY <1>1, <1>2

(***************************************************************************)
(* Whatever was under way is gone when the process is.                     *)
(***************************************************************************)
LEMMA DownIInv ==
  ASSUME IInv, Down, faults' \in 0..MaxFaults
  PROVE  IInv'
  <1> USE DEF Down
  <1>1. TypeOK'
    <2>1. errs' \in 0..ErrsCap
      BY DEF ErrsCap
    <2>2. bz' \in Snapshots /\ service' \in Orgs /\ changes' \in 0..MaxChanges
      BY DEF envVars, IInv, TypeOK
    <2> QED BY <2>1, <2>2, NothingType DEF TypeOK
  <1>2. MapInv'
    BY DEF MapInv
  <1>3. StartInv'
    BY DEF StartInv, Gauge!Reset
  <1> QED BY <1>1, <1>2, <1>3 DEF IInv

\* The number of faults stays within its bound.
LEMMA FaultType == ASSUME TypeOK, Fault PROVE faults' \in 0..MaxFaults
  BY BoundAssumption DEF TypeOK, Fault

(***************************************************************************)
(* The environment.                                                        *)
(***************************************************************************)
LEMMA EnvironmentIInv == ASSUME IInv, Environment PROVE IInv'
  <1>1. ASSUME NEW b \in ID, ChangeBug(b) PROVE IInv'
    <2> USE <1>1 DEF ChangeBug
    <2>1. bz' \in Snapshots
      <3>1. DOMAIN bz \subseteq ID /\ bz \in [DOMAIN bz -> Bug]
        BY SnapshotType DEF IInv, TypeOK
      <3>2. CASE \E r \in Bug : bz' = [i \in DOMAIN bz \cup {b} |-> IF i = b THEN r ELSE bz[i]]
        <4>1. bz' \in [DOMAIN bz \cup {b} -> Bug]
          BY <3>1, <3>2
        <4> QED BY <3>1, <4>1, SnapshotIntro
      <3>3. CASE bz' = Restrict(bz, DOMAIN bz \ {b})
        <4>1. bz' \in [DOMAIN bz \ {b} -> Bug]
          BY <3>1, <3>3 DEF Restrict
        <4> QED BY <3>1, <4>1, SnapshotIntro
      <3> QED BY <3>2, <3>3
    <2>2. TypeOK'
      BY <2>1, BoundAssumption
      DEF procVars, recVars, readVars, IInv, TypeOK
    <2> QED BY <2>2, Undisturbed DEF recVars, IInv
  <1>2. ASSUME NEW o \in Orgs, ChangeOrg(o) PROVE IInv'
    <2> USE <1>2 DEF ChangeOrg
    <2>1. TypeOK'
      BY BoundAssumption DEF procVars, recVars, readVars, IInv, TypeOK
    <2> QED BY <2>1, Undisturbed DEF recVars, IInv
  <1> QED BY <1>1, <1>2 DEF Environment

(***************************************************************************)
(* doMain up to its select.                                                *)
(***************************************************************************)
LEMMA MainIInv == ASSUME IInv, Main PROVE IInv'
  <1> USE DEF IInv, envVars, recVars, readVars, gaugeVars
  <1>1. ASSUME Start PROVE IInv'
    <2> USE <1>1 DEF Start
    <2>1. TypeOK'
      BY DEF TypeOK
    <2>2. MapInv'
      BY DEF MapInv, Placed
    <2>3. StartInv'
      BY DEF StartInv
    <2> QED BY <2>1, <2>2, <2>3
  <1>2. ASSUME phase = "org", phase' = "bugs", org' \in Orgs \cup {NilOrg},
               faults' \in 0..MaxFaults, UNCHANGED <<envVars, recVars, readVars, gaugeVars>>
        PROVE  IInv'
    <2> USE <1>2
    <2>1. TypeOK'
      BY DEF TypeOK
    <2>2. \A r \in Readers : ~reading[r]
      BY DEF StartInv
    <2>3. MapInv'
      BY <2>2 DEF MapInv
    <2>4. StartInv'
      BY DEF StartInv
    <2> QED BY <2>1, <2>3, <2>4
  <1>3. ASSUME GetOrgData PROVE IInv'
    BY <1>2, <1>3 DEF GetOrgData, TypeOK
  <1>4. ASSUME GetOrgDataGarbled PROVE IInv'
    BY <1>2, <1>4, FaultType DEF GetOrgDataGarbled
  <1>5. ASSUME GetBugData PROVE IInv'
    <2> USE <1>5 DEF GetBugData
    <2>1. TypeOK'
      BY DEF TypeOK
    <2>2. MapInv'
      BY DEF MapInv, Placed
    <2>3. StartInv'
      BY DEF StartInv
    <2> QED BY <2>1, <2>2, <2>3
  <1>6. ASSUME StartupFails \/ Stop \/ ReceiveError PROVE IInv'
    <2>1. Down
      BY <1>6 DEF StartupFails, Stop, ReceiveError
    <2>2. faults' \in 0..MaxFaults
      BY <1>6, FaultType DEF StartupFails, Stop, ReceiveError, TypeOK
    <2> QED BY <2>1, <2>2, DownIInv
  <1> QED BY <1>1, <1>3, <1>4, <1>5, <1>6 DEF Main

(***************************************************************************)
(* The goroutines that refresh the data: overwriting the organisation data *)
(* beside a reader adds to the data its answers may come from.             *)
(***************************************************************************)
LEMMA OrgReconcileIInv == ASSUME IInv, OrgReconcile PROVE IInv'
  <1> USE DEF OrgReconcile, IInv, envVars, recVars, gaugeVars
  <1>1. service \in Orgs /\ NilOrg \notin Orgs
    BY OrgsAssumption DEF TypeOK
  <1>2. /\ orgsSeen' \in [Readers -> SUBSET Orgs]
        /\ \A r \in Readers : orgsSeen[r] \subseteq orgsSeen'[r]
        /\ \A r \in Readers : reading[r] => org' \in orgsSeen'[r]
    BY <1>1 DEF TypeOK
  <1>3. TypeOK'
    BY <1>1, <1>2 DEF TypeOK
  <1>4. MapInv'
    BY <1>2 DEF MapInv, Placed
  <1>5. StartInv'
    BY <1>1 DEF StartInv
  <1> QED BY <1>3, <1>4, <1>5

\* The goroutines that refresh the data, and those that report an error.
LEMMA ReconcilersIInv == ASSUME IInv, Reconcilers PROVE IInv'
  <1>1. ASSUME OrgReconcileFails \/ NilOrgPanic PROVE IInv'
    <2>1. Down
      BY <1>1 DEF OrgReconcileFails, NilOrgPanic
    <2>2. faults' \in 0..MaxFaults
      BY <1>1, FaultType DEF OrgReconcileFails, NilOrgPanic, IInv, TypeOK
    <2> QED BY <2>1, <2>2, DownIInv
  <1>2. ASSUME Search \/ SetBugs \/ SearchFails \/ SendSearchError \/ ServeFails \/ SendServeError
        PROVE  IInv'
    <2> USE <1>2 DEF Search, SetBugs, SearchFails, SendSearchError, ServeFails, SendServeError
    <2>1. faults' \in 0..MaxFaults
      BY FaultType DEF IInv, TypeOK
    <2>2. errs' \in 0..ErrsCap
      BY DEF IInv, TypeOK, ErrsCap
    <2>3. UNCHANGED <<envVars, procVars, readVars, gaugeVars, responded>>
      OBVIOUS
    <2>4. bugs' \in Snapshots /\ fetched' \in Snapshots
      BY NothingType DEF IInv, TypeOK
    <2>5. /\ bugRec' \in {"off", "search", "set", "sending", "dead"}
          /\ http' \in {"off", "serving", "sending", "dead"}
      BY DEF IInv, TypeOK
    <2>6. TypeOK'
      BY <2>1, <2>2, <2>3, <2>4, <2>5 DEF IInv, TypeOK, envVars, procVars, readVars
    <2> QED BY <2>3, <2>6, Undisturbed DEF IInv
  <1> QED BY <1>1, <1>2, OrgReconcileIInv DEF Reconcilers

(***************************************************************************)
(* GetTeamMap: a copy of the bugs, of which none is placed.                *)
(***************************************************************************)
LEMMA GetTeamMapIInv == ASSUME IInv, NEW r \in Readers, GetTeamMap(r) PROVE IInv'
  <1> DEFINE none == [t \in DOMAIN org \cup {Unknown} |-> {}]
  <1>1. /\ TypeOK /\ MapInv /\ StartInv
        /\ phase = "running" /\ org \in Orgs
    BY DEF IInv, TypeOK, GetTeamMap, MayRead
  <1>2. none \in TeamMaps /\ \A t \in DOMAIN none : none[t] = {}
    <2>1. DOMAIN org \in SUBSET Team
      BY <1>1, OrgsAssumption DEF OrgDataSet
    <2> QED BY <2>1, TeamMapIntro
  <1>3. /\ reading' = [reading EXCEPT ![r] = TRUE]
        /\ snap' = [snap EXCEPT ![r] = bugs]
        /\ teamMap' = [teamMap EXCEPT ![r] = none]
        /\ unplaced' = [unplaced EXCEPT ![r] = DOMAIN bugs]
        /\ orgsSeen' = [orgsSeen EXCEPT ![r] = {org}]
        /\ UNCHANGED <<envVars, faults, procVars, recVars, gaugeVars>>
    BY DEF GetTeamMap
  <1> HIDE DEF none
  <1>4. TypeOK'
    <2>1. DOMAIN bugs \subseteq ID
      BY <1>1, SnapshotType DEF TypeOK
    <2>2. reading' \in [Readers -> BOOLEAN] /\ snap' \in [Readers -> Snapshots]
      BY <1>1, <1>3 DEF TypeOK
    <2>3. teamMap' \in [Readers -> TeamMaps]
      BY <1>1, <1>2, <1>3 DEF TypeOK
    <2>4. unplaced' \in [Readers -> SUBSET ID] /\ orgsSeen' \in [Readers -> SUBSET Orgs]
      BY <1>1, <1>3, <2>1 DEF TypeOK
    <2>5. \A q \in Readers :
            /\ \A t \in DOMAIN teamMap'[q] : teamMap'[q][t] \subseteq DOMAIN snap'[q]
            /\ unplaced'[q] \subseteq DOMAIN snap'[q]
      BY <1>1, <1>2, <1>3 DEF TypeOK
    <2> QED BY <1>1, <1>3, <2>2, <2>3, <2>4, <2>5 DEF TypeOK, envVars, procVars, recVars
  <1>5. MapInv'
    <2>1. ASSUME NEW q \in Readers \ {r}
          PROVE  UNCHANGED <<reading[q], snap[q], teamMap[q], unplaced[q], orgsSeen[q]>>
      BY <1>1, <1>3 DEF TypeOK
    <2>2. /\ reading'[r] = TRUE /\ snap'[r] = bugs /\ teamMap'[r] = none
          /\ unplaced'[r] = DOMAIN bugs /\ orgsSeen'[r] = {org} /\ org' = org
      BY <1>1, <1>3 DEF TypeOK, procVars
    <2>3. Placed(r)' = {}
      BY <1>2, <2>2 DEF Placed
    <2>4. \A q \in Readers \ {r} : Placed(q)' = Placed(q)
      BY <2>1 DEF Placed
    <2> QED BY <1>1, <1>2, <2>1, <2>2, <2>3, <2>4 DEF MapInv
  <1>6. StartInv'
    BY <1>1, <1>3, OrgsAssumption DEF StartInv, procVars, recVars, gaugeVars
  <1> QED BY <1>4, <1>5, <1>6 DEF IInv

(***************************************************************************)
(* Appending a bug to the list of a team, which may not have been a key.   *)
(***************************************************************************)
LEMMA AddToTeamType ==
  ASSUME NEW map \in TeamMaps, NEW team \in Team \cup {Unknown}, NEW b \in ID
  PROVE  /\ AddToTeam(map, team, b) \in TeamMaps
         /\ DOMAIN AddToTeam(map, team, b) = DOMAIN map \cup {team}
  <1>1. DOMAIN map \cup {team} \in SUBSET (Team \cup {Unknown})
    BY TeamMapType
  <1>2. AddToTeam(map, team, b) \in [DOMAIN map \cup {team} -> SUBSET ID]
    BY TeamMapType DEF AddToTeam
  <1> QED BY <1>1, <1>2, TeamMapIntro DEF AddToTeam

(***************************************************************************)
(* An iteration moves one bug from those left to the list of one team.     *)
(***************************************************************************)
LEMMA PlaceBugIInv ==
  ASSUME IInv, NEW r \in Readers, NEW b \in ID, PlaceBug(r, b)
  PROVE  IInv'
  <1> USE DEF IInv
  <1>1. /\ reading[r] /\ b \in unplaced[r]
        /\ unplaced' = [unplaced EXCEPT ![r] = unplaced[r] \ {b}]
        /\ UNCHANGED <<envVars, faults, procVars, recVars, reading, snap, orgsSeen, gaugeVars>>
    BY DEF PlaceBug, TypeOK
  <1>2. PICK team \in TeamsFor(org, snap[r][b]) :
             teamMap' = [teamMap EXCEPT ![r] = AddToTeam(teamMap[r], team, b)]
    BY DEF PlaceBug, TypeOK
  <1>3. org \in Orgs
    BY <1>1 DEF StartInv, TypeOK
  <1>4. team \in Team \cup {Unknown}
    BY <1>2, <1>3, AnswersType DEF TeamsFor
  <1> DEFINE map == AddToTeam(teamMap[r], team, b)
             old(t) == IF t \in DOMAIN teamMap[r] THEN teamMap[r][t] ELSE {}
             new(t) == IF t = team THEN {b} ELSE {}
  <1>5. /\ map \in TeamMaps /\ DOMAIN map = DOMAIN teamMap[r] \cup {team}
        /\ \A t \in DOMAIN map : map[t] = old(t) \cup new(t)
    <2>1. teamMap[r] \in TeamMaps
      BY DEF TypeOK
    <2>2. map \in TeamMaps /\ DOMAIN map = DOMAIN teamMap[r] \cup {team}
      BY <1>4, <2>1, AddToTeamType
    <2>3. \A t \in DOMAIN teamMap[r] \cup {team} : map[t] = old(t) \cup new(t)
      BY DEF AddToTeam
    <2> QED BY <2>2, <2>3
  <1> HIDE DEF map
  <1>6. /\ teamMap'[r] = map /\ unplaced'[r] = unplaced[r] \ {b}
        /\ UNCHANGED <<reading, snap, orgsSeen, org>>
        /\ \A q \in Readers \ {r} : UNCHANGED <<teamMap[q], unplaced[q]>>
    BY <1>1, <1>2 DEF TypeOK, map, procVars
  <1>7. teamMap' \in [Readers -> TeamMaps] /\ unplaced' \in [Readers -> SUBSET ID]
    BY <1>1, <1>2, <1>5 DEF TypeOK, map
  <1>8. TypeOK'
    <2>1. /\ \A t \in DOMAIN map : map[t] \subseteq DOMAIN snap[r]
          /\ unplaced[r] \ {b} \subseteq DOMAIN snap[r]
      BY <1>1, <1>5 DEF TypeOK
    <2>2. \A q \in Readers :
            /\ \A t \in DOMAIN teamMap'[q] : teamMap'[q][t] \subseteq DOMAIN snap'[q]
            /\ unplaced'[q] \subseteq DOMAIN snap'[q]
      BY <1>6, <2>1 DEF TypeOK
    <2> QED BY <1>1, <1>7, <2>2 DEF TypeOK, envVars, procVars, recVars
  <1>9. MapInv'
    <2>1. /\ org \in orgsSeen[r]
          /\ Placed(r) \cap unplaced[r] = {} /\ Placed(r) \cup unplaced[r] = DOMAIN snap[r]
          /\ \A t, u \in DOMAIN teamMap[r] :
               t # u => teamMap[r][t] \cap teamMap[r][u] = {}
          /\ \A t \in DOMAIN teamMap[r] : \A c \in teamMap[r][t] :
               \E o \in orgsSeen[r] : t \in TeamsFor(o, snap[r][c])
      BY <1>1 DEF MapInv
    <2>2. \A t \in DOMAIN map : b \notin old(t)
      BY <1>1, <2>1 DEF Placed
    <2>3. Placed(r)' = Placed(r) \cup {b}
      BY <1>5, <1>6 DEF Placed
    <2>4. \A t, u \in DOMAIN map : t # u => map[t] \cap map[u] = {}
      BY <1>5, <2>1, <2>2
    <2>5. \A t \in DOMAIN map : \A c \in map[t] :
            \E o \in orgsSeen[r] : t \in TeamsFor(o, snap[r][c])
      BY <1>2, <1>5, <2>1
    <2>6. \A q \in Readers \ {r} : Placed(q)' = Placed(q)
      BY <1>6 DEF Placed
    <2>7. /\ Placed(r)' \cap unplaced'[r] = {}
          /\ Placed(r)' \cup unplaced'[r] = DOMAIN snap[r]
      BY <1>1, <1>6, <2>1, <2>3
    <2>8. ASSUME NEW q \in Readers \ {r}
          PROVE  /\ reading'[q] =>
                      /\ org' \in orgsSeen'[q]
                      /\ Placed(q)' \cap unplaced'[q] = {}
                      /\ Placed(q)' \cup unplaced'[q] = DOMAIN snap'[q]
                      /\ \A t, u \in DOMAIN teamMap'[q] :
                           t # u => teamMap'[q][t] \cap teamMap'[q][u] = {}
                      /\ \A t \in DOMAIN teamMap'[q] : \A c \in teamMap'[q][t] :
                           \E o \in orgsSeen'[q] : t \in TeamsFor(o, snap'[q][c])
                 /\ ~reading'[q] =>
                      snap'[q] = NoBugs /\ teamMap'[q] = NoTeams /\ unplaced'[q] = {}
      BY <1>6, <2>6 DEF MapInv
    <2> QED BY <1>1, <1>6, <2>1, <2>4, <2>5, <2>7, <2>8 DEF MapInv
  <1>10. StartInv'
    BY <1>1 DEF StartInv, procVars, recVars, gaugeVars
  <1> QED BY <1>8, <1>9, <1>10

(***************************************************************************)
(* A reader that has built its map may drop it.                            *)
(***************************************************************************)
LEMMA ForgetKeeps ==
  ASSUME IInv, NEW r \in Readers, Built(r), Forget(r),
         UNCHANGED <<envVars, faults, procVars, recVars>>
  PROVE  TypeOK' /\ MapInv' /\ \A q \in Readers : reading'[q] => reading[q]
  <1>1. /\ reading' = [reading EXCEPT ![r] = FALSE]
        /\ snap' = [snap EXCEPT ![r] = NoBugs]
        /\ teamMap' = [teamMap EXCEPT ![r] = NoTeams]
        /\ orgsSeen' = [orgsSeen EXCEPT ![r] = {}]
        /\ unplaced' = unplaced /\ unplaced[r] = {} /\ org' = org
    BY DEF Forget, Built, procVars
  <1>2. TypeOK /\ MapInv
    BY DEF IInv
  <1>3. ASSUME NEW q \in Readers \ {r}
        PROVE  UNCHANGED <<reading[q], snap[q], teamMap[q], unplaced[q], orgsSeen[q]>>
    BY <1>1, <1>2 DEF TypeOK
  <1>4. /\ reading'[r] = FALSE /\ snap'[r] = NoBugs /\ teamMap'[r] = NoTeams
        /\ unplaced'[r] = {} /\ orgsSeen'[r] = {}
    BY <1>1, <1>2 DEF TypeOK
  <1>5. TypeOK'
    <2>1. reading' \in [Readers -> BOOLEAN] /\ snap' \in [Readers -> Snapshots]
      BY <1>1, <1>2, NothingType DEF TypeOK
    <2>2. teamMap' \in [Readers -> TeamMaps] /\ orgsSeen' \in [Readers -> SUBSET Orgs]
      BY <1>1, <1>2, NothingType DEF TypeOK
    <2>3. \A q \in Readers :
            /\ \A t \in DOMAIN teamMap'[q] : teamMap'[q][t] \subseteq DOMAIN snap'[q]
            /\ unplaced'[q] \subseteq DOMAIN snap'[q]
      BY <1>2, <1>3, <1>4, NothingType DEF TypeOK
    <2> QED BY <1>1, <1>2, <2>1, <2>2, <2>3 DEF TypeOK, envVars, procVars, recVars
  <1>6. MapInv'
    <2>1. \A q \in Readers \ {r} : Placed(q)' = Placed(q)
      BY <1>3 DEF Placed
    <2> QED BY <1>1, <1>2, <1>3, <1>4, <2>1 DEF MapInv
  <1> QED BY <1>3, <1>4, <1>5, <1>6

\* A step of GetTeamMap, or a handler that has its map.
LEMMA ReadingIInv == ASSUME IInv, Reading PROVE IInv'
  <1>1. ASSUME NEW r \in Handlers, Reply(r) PROVE IInv'
    <2>1. r \in Readers /\ Built(r) /\ Forget(r)
      BY <1>1 DEF Reply, Readers
    <2>2. UNCHANGED <<envVars, faults, procVars, recVars, gaugeVars>>
      BY <1>1 DEF Reply
    <2>3. TypeOK' /\ MapInv' /\ \A q \in Readers : reading'[q] => reading[q]
      BY <2>1, <2>2, ForgetKeeps
    <2>4. StartInv'
      BY <2>2, <2>3 DEF IInv, StartInv, procVars, recVars, gaugeVars
    <2> QED BY <2>3, <2>4 DEF IInv
  <1> QED BY <1>1, GetTeamMapIInv, PlaceBugIInv DEF Reading

(***************************************************************************)
(* The metrics goroutine hands its map over and works on the gauge, which  *)
(* it does only in a running process.                                      *)
(***************************************************************************)
LEMMA PublishIInv == ASSUME IInv, Publish PROVE IInv'
  <1>1. /\ Metrics \in Readers /\ Built(Metrics) /\ Forget(Metrics)
        /\ UNCHANGED <<envVars, faults, procVars, recVars>>
    BY DEF Publish, Readers
  <1>2. TypeOK' /\ MapInv'
    BY <1>1, ForgetKeeps
  <1>3. phase = "running" /\ org # NilOrg
    BY <1>1 DEF IInv, StartInv, Built
  <1>4. StartInv'
    BY <1>1, <1>3 DEF IInv, StartInv, procVars, recVars
  <1> QED BY <1>2, <1>4 DEF IInv

\* A step of updateGauge.
LEMMA UpdateGaugeIInv == ASSUME IInv, UpdateGauge PROVE IInv'
  <1>1. UNCHANGED <<envVars, faults, procVars, recVars, readVars>>
    BY DEF UpdateGauge
  <1>2. pass # "idle"
    BY DEF UpdateGauge, Gauge!Update, Gauge!BeginBug, Gauge!Expire, Gauge!With,
           Gauge!SetOne, Gauge!StartExpire, Gauge!EndPass
  <1>3. TypeOK'
    BY <1>1 DEF IInv, TypeOK, envVars, procVars, recVars, readVars
  <1>4. MapInv'
    BY <1>1 DEF IInv, MapInv, Placed, procVars, readVars
  <1>5. StartInv'
    BY <1>1, <1>2 DEF IInv, StartInv, procVars, recVars
  <1> QED BY <1>3, <1>4, <1>5 DEF IInv

\* The invariant is inductive.
LEMMA NextIInv == IInv /\ [Next]_vars => IInv'
  <1> SUFFICES ASSUME IInv, [Next]_vars PROVE IInv'
    OBVIOUS
  <1>1. CASE UNCHANGED vars
    <2>1. TypeOK'
      BY <1>1 DEF vars, envVars, procVars, recVars, readVars, IInv, TypeOK
    <2> QED BY <1>1, <2>1, Undisturbed DEF vars, recVars, IInv
  <1> QED BY <1>1, EnvironmentIInv, MainIInv, ReconcilersIInv, ReadingIInv, PublishIInv,
             UpdateGaugeIInv DEF Next

(***************************************************************************)
(* At every instant of every GetTeamMap the bugs of its snapshot are       *)
(* either placed, each in one team, or left.                               *)
(***************************************************************************)
THEOREM Invariance == Spec => []IInv
  BY InitIInv, NextIInv, PTL DEF Spec

(***************************************************************************)
(* Types: no team has a bug that is not among the bugs it was made from.   *)
(***************************************************************************)
THEOREM TypeCorrect == Spec => []TypeOK
  <1>1. IInv => TypeOK
    BY DEF IInv
  <1> QED BY <1>1, Invariance, PTL

(***************************************************************************)
(* A finished team map is a partition of one answer of Bugzilla by         *)
(* organisation data in force during the call.                             *)
(***************************************************************************)
THEOREM MapsAreFaithful == Spec => []TeamMapFaithful
  <1>1. IInv => TeamMapFaithful
    BY DEF IInv, MapInv, TeamMapFaithful, Built, Placed
  <1> QED BY <1>1, Invariance, PTL

(***************************************************************************)
(* Nothing is published before Bugzilla has answered, nor without          *)
(* organisation data.                                                      *)
(***************************************************************************)
THEOREM NothingUnanswered == Spec => []PublishOnlyAnswers
  <1>1. IInv => PublishOnlyAnswers
    BY DEF IInv, StartInv, PublishOnlyAnswers, Built
  <1> QED BY <1>1, Invariance, PTL

(***************************************************************************)
(* A finished map has labels for each of its bugs, and for each only once. *)
(***************************************************************************)
LEMMA LabelsOfMap ==
  ASSUME IInv, NEW r \in Readers, Built(r)
  PROVE  LabelsOf(r) \in SUBSET Gauge!Labels /\ Gauge!OnePerBug(LabelsOf(r))
  <1>1. /\ DOMAIN teamMap[r] \subseteq Team \cup {Unknown}
        /\ \A t \in DOMAIN teamMap[r] : teamMap[r][t] \subseteq DOMAIN snap[r]
        /\ snap[r] \in Snapshots
    <2>1. teamMap[r] \in TeamMaps
      BY DEF IInv, TypeOK
    <2> QED BY <2>1, TeamMapType DEF IInv, TypeOK
  <1>2. DOMAIN snap[r] \subseteq ID /\ \A b \in DOMAIN snap[r] : snap[r][b].detail \in Detail
    BY <1>1, SnapshotType DEF Bug
  <1>3. ASSUME NEW l \in LabelsOf(r)
        PROVE  \E t \in DOMAIN teamMap[r] : \E b \in teamMap[r][t] :
                  l = [id |-> b, team |-> t, detail |-> snap[r][b].detail]
    BY <1>3 DEF LabelsOf
  <1>4. LabelsOf(r) \subseteq Gauge!Labels
    BY <1>1, <1>2, <1>3 DEF Gauge!Labels
  <1>5. \A t, u \in DOMAIN teamMap[r] : t # u => teamMap[r][t] \cap teamMap[r][u] = {}
    BY DEF IInv, MapInv, Built
  <1>6. Gauge!OnePerBug(LabelsOf(r))
    BY <1>3, <1>5 DEF Gauge!OnePerBug
  <1> QED BY <1>4, <1>6

(***************************************************************************)
(* Each step of the process is a step of BugGauge, or none.                *)
(***************************************************************************)
LEMMA StepRefines == IInv /\ [Next]_vars => [Gauge!Next]_Gauge!gaugeVars
  <1> SUFFICES ASSUME IInv, [Next]_vars PROVE Gauge!Next \/ UNCHANGED gaugeVars
    BY DEF gaugeVars, Gauge!gaugeVars
  <1>1. ASSUME Down PROVE Gauge!Next
    BY <1>1 DEF Down, Gauge!Next
  <1>2. ASSUME Publish PROVE Gauge!Next
    <2>1. Metrics \in Readers /\ Built(Metrics) /\ Gauge!StartPass(LabelsOf(Metrics))
      BY <1>2 DEF Publish, Readers
    <2> QED BY <2>1, LabelsOfMap DEF Gauge!Next
  <1>3. ASSUME UpdateGauge PROVE Gauge!Next
    BY <1>3 DEF UpdateGauge, Gauge!Next
  <1>4. ASSUME Environment PROVE UNCHANGED gaugeVars
    BY <1>4 DEF Environment, ChangeBug, ChangeOrg
  <1>5. ASSUME Main PROVE Down \/ UNCHANGED gaugeVars
    BY <1>5 DEF Main, Start, GetOrgData, GetOrgDataGarbled, GetBugData, StartupFails,
                Stop, ReceiveError
  <1>6. ASSUME Reconcilers PROVE Down \/ UNCHANGED gaugeVars
    BY <1>6 DEF Reconcilers, OrgReconcile, OrgReconcileFails, NilOrgPanic, Search,
                SetBugs, SearchFails, SendSearchError, ServeFails, SendServeError
  <1>7. ASSUME Reading PROVE UNCHANGED gaugeVars
    BY <1>7 DEF Reading, GetTeamMap, PlaceBug, Reply
  <1>8. CASE UNCHANGED vars
    BY <1>8 DEF vars
  <1> QED BY <1>1, <1>2, <1>3, <1>4, <1>5, <1>6, <1>7, <1>8 DEF Next

(***************************************************************************)
(* The process, with its failures and restarts, implements BugGauge.       *)
(***************************************************************************)
THEOREM Refinement == Spec => RefinesGauge
  <1>1. Init => Gauge!Init
    BY DEF Init
  <1> QED BY <1>1, StepRefines, Invariance, PTL DEF Spec, RefinesGauge, Gauge!Spec
=============================================================================
