--------------------------- MODULE TeamSLOProofs ---------------------------
(***************************************************************************)
(* Proofs about team-slo-results, for any teams, organisation data, bugs,  *)
(* objectives, changes and failures: what its counts and verdicts are      *)
(* worth, although bugs and organisation data are replaced while they are  *)
(* read.                                                                   *)
(***************************************************************************)
EXTENDS TeamSLO, FiniteSetTheorems, TLAPS

(***************************************************************************)
(* What organisation data are, mixed or not.                               *)
(***************************************************************************)
LEMMA MixtureType ==
  ASSUME NEW m \in Mixtures
  PROVE  /\ m # NilOrg /\ SLOOrg(m)
         /\ \A o \in Orgs, f \in Fields : [m EXCEPT ![f] = o[f]] \in Mixtures
  <1>1. m # NilOrg
    BY OrgsAssumption
  <1>2. SLOOrg(m)
    <2>1. PICK o \in Orgs : m.teams = o.teams
      BY DEF Mixtures
    <2>2. PICK q \in Orgs : m.slo = q.slo
      BY DEF Mixtures
    <2> QED BY <2>1, <2>2, OrgsAssumption DEF SLOOrg
  <1>3. ASSUME NEW o \in Orgs, NEW f \in Fields
        PROVE  [m EXCEPT ![f] = o[f]] \in Mixtures
    BY DEF Mixtures, Fields
  <1> QED BY <1>1, <1>2, <1>3

(***************************************************************************)
(* The lookup knows no team but those of its data, and "unknown".          *)
(***************************************************************************)
LEMMA AnswersType ==
  ASSUME NEW o \in Mixtures, NEW c
  PROVE  Answers(o.teams, c, NoSubcomponent) \subseteq Team \cup {Unknown}
  <1>1. DOMAIN o.teams \subseteq Team
    BY MixtureType DEF SLOOrg
  <1> QED BY <1>1 DEF Answers, Owners, Defaults

\* When nobody shares a claim, an answer is the only one.
LEMMA OneAnswer ==
  ASSUME NEW org0, Unambiguous(org0), NEW c \in Component,
         NEW t \in Answers(org0, c, NoSubcomponent)
  PROVE  Answers(org0, c, NoSubcomponent) = {t}
  <1>1. NoSubcomponent \in SubcomponentOrNone
    BY DEF SubcomponentOrNone
  <1>2. \A u, v \in Owners(org0, c, NoSubcomponent) : u = v
    BY <1>1 DEF Owners, Unambiguous
  <1>3. \A u, v \in Defaults(org0, c) : u = v
    BY <1>1 DEF Defaults, Unambiguous
  <1> QED BY <1>2, <1>3 DEF Answers

\* The places of a pass.
LEMMA Places ==
  /\ From("total") = {"version", "range", "score", "sending", "dead",
                      "total", "urgents", "blockers"}
  /\ From("urgents") = {"version", "range", "score", "sending", "dead",
                        "urgents", "blockers"}
  /\ From("blockers") = {"version", "range", "score", "sending", "dead", "blockers"}
  /\ BugMapNames = {"total", "urgents", "blockers"}
  /\ \A w \in BugMapNames : From(w) \subseteq From("total") /\ w \in From(w)
  <1>1. From("total") = {"version", "range", "score", "sending", "dead"} \cup BugMapNames
    BY DEF From
  <1>2. From("urgents") = {"version", "range", "score", "sending", "dead"}
                            \cup {"urgents", "blockers"}
    BY DEF From
  <1>3. From("blockers") = {"version", "range", "score", "sending", "dead"}
                             \cup {"blockers"}
    BY DEF From
  <1> QED BY <1>1, <1>2, <1>3 DEF BugMapNames

\* A list is filtered into some of its own bugs.
LEMMA FilterType == ASSUME NEW w, NEW B PROVE Filter(w, B) \subseteq B
  BY DEF Filter

(***************************************************************************)
(* Nobody has seen anything before the first pass, nor after an end.       *)
(***************************************************************************)
LEMMA AtRest ==
  ASSUME calc = "off", unplaced = {}, bugMaps = NoMaps, ranged = NoResults,
         results = NoResults, orgsSeen = {}, bugsSeen = {}, copying = {},
         phase # "running" => bugRec = "off" /\ http = "off"
  PROVE  PassInv /\ MapInv /\ ResultInv
  <1>1. PassInv
    BY Places, FS_EmptySet DEF PassInv
  <1>2. MapInv
    BY Places DEF MapInv, NoMaps
  <1>3. ResultInv
    BY DEF ResultInv
  <1> QED BY <1>1, <1>2, <1>3

\* Maps without bugs are maps of whatever bugs have been seen.
LEMMA NoMapsType == \A S : NoMaps \in [BugMapNames -> SUBSET S]
  BY DEF NoMaps

\* Without results there is no team.
LEMMA NoResultsType == DOMAIN NoResults = {}
  BY DEF NoResults

\* The invariant holds at first.
LEMMA InitIInv == Init => IInv
  <1> SUFFICES ASSUME Init PROVE IInv
    OBVIOUS
  <1>1. bz \subseteq OpenBug /\ Snapshot(bz) /\ service \in Orgs
    BY BugsAssumption DEF Init
  <1>2. Snapshot({}) /\ UNION {} = {}
    BY FS_EmptySet DEF Snapshot
  <1>3. changes \in 0..MaxChanges /\ faults \in 0..MaxFaults /\ errs \in 0..ErrsCap
    BY BoundAssumption DEF Init, ErrsCap
  <1>4. TypeOK
    BY <1>1, <1>2, <1>3, NoMapsType, NoResultsType DEF Init, TypeOK
  <1>5. PassInv /\ MapInv /\ ResultInv
    BY AtRest DEF Init
  <1> QED BY <1>4, <1>5 DEF IInv

(***************************************************************************)
(* When the process ends, everything it held is gone.                      *)
(***************************************************************************)
LEMMA DownIInv ==
  ASSUME IInv, Down, faults' \in 0..MaxFaults
  PROVE  IInv'
  <1>1. bz' \subseteq OpenBug /\ Snapshot(bz') /\ service' \in Orgs /\ changes' \in 0..MaxChanges
    BY DEF Down, envVars, IInv, TypeOK, Snapshot
  <1>2. Snapshot({}) /\ UNION {} = {}
    BY FS_EmptySet DEF Snapshot
  <1>3. Snapshot(bugs') /\ bugs' = {} /\ errs' \in 0..ErrsCap
    BY <1>2 DEF Down, Snapshot, ErrsCap
  <1>4. TypeOK'
    BY <1>1, <1>2, <1>3, NoMapsType, NoResultsType DEF Down, TypeOK
  <1>5. PassInv'
    BY Places, FS_EmptySet DEF Down, PassInv
  <1>6. MapInv'
    BY Places DEF Down, MapInv, NoMaps
  <1>7. ResultInv'
    BY DEF Down, ResultInv
  <1> QED BY <1>4, <1>5, <1>6, <1>7 DEF IInv

(***************************************************************************)
(* A step that leaves the pass and what it reads alone.                    *)
(***************************************************************************)
LEMMA Undisturbed ==
  ASSUME MapInv, ResultInv, UNCHANGED calcVars
  PROVE  MapInv' /\ ResultInv'
  <1> USE DEF calcVars
  <1>1. MapInv'
    BY DEF MapInv
  <1>2. ResultInv'
    BY DEF ResultInv
  <1> QED BY <1>1, <1>2

\* The number of faults stays within its bound.
LEMMA FaultType == ASSUME TypeOK, Fault PROVE faults' \in 0..MaxFaults
  BY BoundAssumption DEF TypeOK, Fault

(***************************************************************************)
(* The environment.                                                        *)
(***************************************************************************)
LEMMA EnvironmentIInv == ASSUME IInv, Environment PROVE IInv'
  <1>1. TypeOK /\ PassInv /\ MapInv /\ ResultInv
    BY DEF IInv
  <1>2. ASSUME NEW i \in ID, ChangeBug(i) PROVE bz' \subseteq OpenBug /\ Snapshot(bz')
    <2> DEFINE others == { b \in bz : b.id # i }
    <2>1. others \subseteq bz /\ IsFiniteSet(bz) /\ IsFiniteSet(others)
      BY <1>1, FS_Subset DEF TypeOK, Snapshot
    <2>2. CASE bz' = others
      BY <1>1, <2>1, <2>2 DEF TypeOK, Snapshot
    <2>3. ASSUME NEW b \in EditedBugs, b.id = i, bz' = others \cup {b}
          PROVE  bz' \subseteq OpenBug /\ Snapshot(bz')
      <3>1. IsFiniteSet(bz')
        BY <2>1, <2>3, FS_AddElement
      <3>2. b \in OpenBug
        BY BugsAssumption
      <3> QED BY <1>1, <2>3, <3>1, <3>2 DEF TypeOK, Snapshot
    <2> QED BY <1>2, <2>2, <2>3 DEF ChangeBug
  <1>3. /\ bz' \subseteq OpenBug /\ Snapshot(bz') /\ service' \in Orgs
        /\ changes' \in 0..MaxChanges
        /\ UNCHANGED <<faults, phase, orgVars, recVars, calcVars, served>>
    <2>1. ASSUME NEW i \in ID, ChangeBug(i)
          PROVE  /\ service' \in Orgs /\ changes' \in 0..MaxChanges
                 /\ UNCHANGED <<faults, phase, orgVars, recVars, calcVars, served>>
      BY <1>1, <2>1, BoundAssumption DEF ChangeBug, TypeOK
    <2>2. ASSUME NEW o \in Orgs, ChangeOrg(o)
          PROVE  /\ bz' = bz /\ service' \in Orgs /\ changes' \in 0..MaxChanges
                 /\ UNCHANGED <<faults, phase, orgVars, recVars, calcVars, served>>
      BY <1>1, <2>2, BoundAssumption DEF ChangeOrg, TypeOK
    <2>3. Snapshot(bz) /\ (bz' = bz => Snapshot(bz'))
      BY <1>1 DEF TypeOK, Snapshot
    <2> QED BY <1>1, <1>2, <2>1, <2>2, <2>3 DEF Environment, TypeOK
  <1> USE DEF orgVars, recVars, calcVars
  <1>4. TypeOK'
    BY <1>1, <1>3 DEF TypeOK, Snapshot
  <1>5. PassInv'
    BY <1>1, <1>3 DEF PassInv
  <1>6. MapInv' /\ ResultInv'
    BY <1>1, <1>3, Undisturbed
  <1> QED BY <1>4, <1>5, <1>6 DEF IInv

(***************************************************************************)
(* The process starts, fails and ends.                                     *)
(***************************************************************************)
LEMMA MainIInv == ASSUME IInv, Main PROVE IInv'
  <1>1. TypeOK /\ PassInv /\ MapInv /\ ResultInv
    BY DEF IInv
  <1> USE DEF envVars, orgVars, recVars, calcVars
  <1>2. CASE Start
    <2>1. TypeOK'
      BY <1>1, <1>2 DEF TypeOK, Start, Snapshot
    <2>2. PassInv'
      BY <1>1, <1>2 DEF PassInv, Start
    <2>3. MapInv' /\ ResultInv'
      BY <1>1, <1>2, Undisturbed DEF Start
    <2> QED BY <2>1, <2>2, <2>3 DEF IInv
  <1>3. CASE GetOrgData
    <2>1. service \in Mixtures
      BY <1>1, OrgsAssumption DEF TypeOK
    <2>2. TypeOK'
      BY <1>1, <1>3, <2>1 DEF TypeOK, GetOrgData, Snapshot
    <2>3. service # NilOrg /\ calc = "off"
      BY <1>1, <1>3, <2>1, OrgsAssumption DEF GetOrgData, PassInv
    <2>4. PassInv'
      BY <1>1, <1>3, <2>3, Places DEF PassInv, GetOrgData
    <2>5. MapInv' /\ ResultInv'
      BY <1>1, <1>3, Undisturbed DEF GetOrgData
    <2> QED BY <2>2, <2>4, <2>5 DEF IInv
  <1>4. CASE GetOrgDataGarbled
    <2>1. faults' \in 0..MaxFaults
      BY <1>1, <1>4, FaultType DEF GetOrgDataGarbled
    <2>2. TypeOK'
      BY <1>1, <1>4, <2>1 DEF TypeOK, GetOrgDataGarbled, Snapshot
    <2>3. PassInv'
      BY <1>1, <1>4 DEF PassInv, GetOrgDataGarbled
    <2>4. MapInv' /\ ResultInv'
      BY <1>1, <1>4, Undisturbed DEF GetOrgDataGarbled
    <2> QED BY <2>2, <2>3, <2>4 DEF IInv
  <1>5. CASE GetBugData
    <2>1. calc = "off" /\ bugsSeen = {} /\ unplaced = {} /\ orgsSeen = {}
      BY <1>1, <1>5, Places DEF GetBugData, PassInv, MapInv
    <2>2. TypeOK'
      BY <1>1, <1>5, <2>1 DEF TypeOK, GetBugData, Snapshot
    <2>3. PassInv'
      BY <1>1, <1>5, <2>1, Places DEF PassInv, GetBugData
    <2>4. MapInv'
      BY <1>1, <1>5, <2>1, Places DEF MapInv, GetBugData
    <2>5. ResultInv'
      BY <1>1, <1>5, <2>1 DEF ResultInv, GetBugData
    <2> QED BY <2>2, <2>3, <2>4, <2>5 DEF IInv
  <1>6. CASE FailOrStop
    BY <1>1, <1>6, FaultType, DownIInv DEF FailOrStop
  <1>7. CASE ReceiveError
    BY <1>1, <1>7, DownIInv DEF ReceiveError, TypeOK
  <1> QED BY <1>2, <1>3, <1>4, <1>5, <1>6, <1>7 DEF Main

(***************************************************************************)
(* What is seen in addition changes nothing that is known.                 *)
(***************************************************************************)
LEMMA SeenMore ==
  ASSUME MapInv, ResultInv, UNCHANGED <<calc, unplaced, bugMaps, ranged, results>>,
         orgsSeen \subseteq orgsSeen', bugsSeen \subseteq bugsSeen'
  PROVE  MapInv' /\ ResultInv'
  <1>1. MapInv'
    BY DEF MapInv
  <1>2. ResultInv'
    BY DEF ResultInv
  <1> QED BY <1>1, <1>2

(***************************************************************************)
(* The organisation data are overwritten field by field.                   *)
(***************************************************************************)
LEMMA CopyFieldIInv == ASSUME IInv, NEW f \in Fields, CopyField(f) PROVE IInv'
  <1>1. TypeOK /\ PassInv /\ MapInv /\ ResultInv
    BY DEF IInv
  <1>2. /\ newOrg \in Orgs /\ org \in Mixtures
        /\ org' = [org EXCEPT ![f] = newOrg[f]] /\ copying' = copying \ {f}
        /\ newOrg' \in {NilOrg, newOrg} /\ (copying' # {} => newOrg' = newOrg)
        /\ orgsSeen' = IF orgsSeen = {} THEN {} ELSE orgsSeen \cup {org'}
        /\ UNCHANGED <<envVars, faults, phase, recVars, calc, unplaced, bugMaps,
                       ranged, results, bugsSeen, served>>
    BY <1>1 DEF CopyField, PassInv, TypeOK
  <1>3. org' \in Mixtures /\ org' # NilOrg
    BY <1>2, MixtureType
  <1> USE DEF envVars, recVars
  <1>4. TypeOK'
    BY <1>1, <1>2, <1>3 DEF TypeOK, Snapshot
  <1>5. PassInv'
    BY <1>1, <1>2, <1>3 DEF PassInv
  <1>6. MapInv' /\ ResultInv'
    BY <1>1, <1>2, SeenMore
  <1> QED BY <1>4, <1>5, <1>6 DEF IInv

(***************************************************************************)
(* The list of bugs is replaced.                                           *)
(***************************************************************************)
LEMMA BugsReconcileIInv == ASSUME IInv, BugsReconcile PROVE IInv'
  <1>1. TypeOK /\ PassInv /\ MapInv /\ ResultInv
    BY DEF IInv
  <1>2. /\ bugs' = bz /\ bz \subseteq OpenBug /\ Snapshot(bz) /\ bugRec = "running"
        /\ bugsSeen' = IF bugsSeen = {} THEN {} ELSE bugsSeen \cup {bz}
        /\ UNCHANGED <<envVars, faults, phase, orgVars, bugRec, http, errs, calc,
                       unplaced, bugMaps, ranged, results, orgsSeen, served>>
    BY <1>1 DEF BugsReconcile, TypeOK
  <1>3. bugsSeen \subseteq bugsSeen' /\ UNION bugsSeen \subseteq UNION bugsSeen'
    BY <1>2
  <1>4. unplaced \subseteq UNION bugsSeen
    <2>1. CASE calc \notin BugMapNames
      BY <1>1, <2>1 DEF MapInv
    <2>2. CASE calc \in BugMapNames
      <3>1. calc \in From(calc)
        BY <2>2, Places
      <3>2. PICK B \in bugsSeen : Filter(calc, B) = { p[2] : p \in bugMaps[calc] }
                                     \cup { b \in unplaced : calc = calc }
        BY <1>1, <2>2, <3>1 DEF MapInv
      <3> QED BY <3>2, FilterType
    <2> QED BY <2>1, <2>2
  <1> USE DEF envVars, orgVars
  <1>5. TypeOK'
    <2>1. bugMaps' \in [BugMapNames -> SUBSET ((Team \cup {Unknown}) \X UNION bugsSeen')]
      <3>1. \A w \in BugMapNames : bugMaps[w] \subseteq (Team \cup {Unknown}) \X UNION bugsSeen'
        BY <1>1, <1>3 DEF TypeOK
      <3>2. bugMaps' = [w \in BugMapNames |-> bugMaps[w]]
        BY <1>1, <1>2 DEF TypeOK
      <3> QED BY <3>1, <3>2
    <2>2. unplaced' \subseteq bugs' \cup UNION bugsSeen'
      BY <1>2, <1>3, <1>4
    <2>3. Snapshot(bugs')
      BY <1>2 DEF Snapshot
    <2> QED BY <1>1, <1>2, <2>1, <2>2, <2>3 DEF TypeOK, Snapshot
  <1>6. PassInv'
    <2>1. IsFiniteSet(bugsSeen')
      BY <1>1, <1>2, FS_AddElement, FS_EmptySet DEF PassInv
    <2>2. IsFiniteSet(bz)
      BY <1>2 DEF Snapshot
    <2> QED BY <1>1, <1>2, <2>1, <2>2 DEF PassInv
  <1>7. MapInv' /\ ResultInv'
    BY <1>1, <1>2, <1>3, SeenMore
  <1> QED BY <1>5, <1>6, <1>7 DEF IInv

(***************************************************************************)
(* The reconcilers and the server, and their failures.                     *)
(***************************************************************************)
LEMMA ReconcilersIInv == ASSUME IInv, Reconcilers PROVE IInv'
  <1>1. TypeOK /\ PassInv /\ MapInv /\ ResultInv
    BY DEF IInv
  <1>2. CASE OrgReconcile
    <2> USE DEF envVars, recVars, calcVars
    <2>1. /\ copying' \subseteq Fields /\ org # NilOrg
          /\ newOrg' \in Orgs \cup {NilOrg} /\ (copying' # {} => newOrg' \in Orgs)
          /\ UNCHANGED <<envVars, faults, phase, org, recVars, calcVars, served>>
      BY <1>1, <1>2 DEF OrgReconcile, TypeOK
    <2>2. TypeOK'
      BY <1>1, <2>1 DEF TypeOK, Snapshot
    <2>3. PassInv'
      BY <1>1, <2>1 DEF PassInv
    <2>4. MapInv' /\ ResultInv'
      BY <1>1, <2>1, Undisturbed
    <2> QED BY <2>2, <2>3, <2>4 DEF IInv
  <1>3. CASE OrgReconcileFails
    BY <1>1, <1>3, FaultType, DownIInv DEF OrgReconcileFails
  <1>4. CASE NilOrgPanic
    BY <1>1, <1>4, DownIInv DEF NilOrgPanic, TypeOK
  <1>5. ASSUME NEW f \in Fields, CopyField(f) PROVE IInv'
    BY <1>5, CopyFieldIInv
  <1>6. CASE BugsReconcile
    BY <1>6, BugsReconcileIInv
  <1>7. CASE BugsReconcileFails \/ ServeFails \/ SendError
    <2> USE DEF envVars, orgVars, calcVars
    <2>1. /\ bugRec' \in {"off", "running", "sending", "dead"}
          /\ http' \in {"off", "serving", "sending", "dead"}
          /\ bugRec # "off" \/ bugRec' = "off"
          /\ http # "off" \/ http' = "off"
          /\ UNCHANGED <<envVars, phase, orgVars, bugs, calcVars, served>>
      BY <1>1, <1>7 DEF BugsReconcileFails, ServeFails, SendError, TypeOK
    <2>2. faults' \in 0..MaxFaults
      BY <1>1, <1>7, FaultType DEF BugsReconcileFails, ServeFails, SendError, TypeOK
    <2>3. errs' \in 0..ErrsCap
      BY <1>1, <1>7 DEF BugsReconcileFails, ServeFails, SendError, TypeOK, ErrsCap
    <2>4. TypeOK'
      BY <1>1, <2>1, <2>2, <2>3 DEF TypeOK, Snapshot
    <2>5. PassInv'
      BY <1>1, <2>1 DEF PassInv
    <2>6. MapInv' /\ ResultInv'
      BY <1>1, <2>1, Undisturbed
    <2> QED BY <2>4, <2>5, <2>6 DEF IInv
  <1> QED BY <1>2, <1>3, <1>4, <1>5, <1>6, <1>7 DEF Reconcilers

(***************************************************************************)
(* A pass begins, with the list of bugs there is.                          *)
(***************************************************************************)
LEMMA StartPassIInv == ASSUME IInv, StartPass PROVE IInv'
  <1>1. TypeOK /\ PassInv /\ MapInv /\ ResultInv
    BY DEF IInv
  <1>2. /\ calc = "sleep" /\ calc' = "total" /\ org # NilOrg
        /\ unplaced' = Filter("total", bugs) /\ bugMaps' = NoMaps
        /\ orgsSeen' = {org} /\ bugsSeen' = {bugs} /\ bugs' = bugs
        /\ UNCHANGED <<envVars, faults, phase, orgVars, bugRec, http, errs, ranged,
                       results, served>>
    BY <1>1 DEF StartPass, StartMap
  <1> USE DEF envVars, orgVars
  <1>3. unplaced' \subseteq bugs
    BY <1>2, FilterType
  <1>4. TypeOK'
    <2>1. bugMaps' \in [BugMapNames -> SUBSET ((Team \cup {Unknown}) \X UNION bugsSeen')]
      BY <1>2, NoMapsType
    <2>2. Snapshot(bugs')
      BY <1>1, <1>2 DEF TypeOK, Snapshot
    <2>3. unplaced' \subseteq bugs' \cup UNION bugsSeen'
      BY <1>2, <1>3
    <2>4. calc' \in {"off", "sleep", "version", "range", "score", "sending", "dead"}
                      \cup BugMapNames
      BY <1>2, Places
    <2>5. /\ bz' \subseteq OpenBug /\ Snapshot(bz') /\ bugs' \subseteq OpenBug
          /\ org' \in Mixtures \cup {NilOrg}
          /\ DOMAIN results' \subseteq DOMAIN ranged' /\ DOMAIN served' \subseteq Team
      BY <1>1, <1>2 DEF TypeOK, Snapshot
    <2> QED BY <1>1, <1>2, <2>1, <2>2, <2>3, <2>4, <2>5 DEF TypeOK
  <1>5. PassInv'
    <2>1. IsFiniteSet(bugsSeen')
      BY <1>2, FS_Singleton
    <2>2. bugs \subseteq OpenBug /\ IsFiniteSet(bugs) /\ org \in Mixtures
      BY <1>1, <1>2 DEF TypeOK, Snapshot
    <2> QED BY <1>1, <1>2, <2>1, <2>2, Places DEF PassInv
  <1>6. MapInv'
    <2>1. \A w \in BugMapNames : bugMaps'[w] = {}
      BY <1>2 DEF NoMaps
    <2>2. \A w \in BugMapNames : "total" \in From(w) <=> w = "total"
      BY Places
    <2>3. Filter("total", bugs) = { p[2] : p \in bugMaps'["total"] }
                                    \cup { b \in unplaced' : calc' = "total" }
      BY <1>2, <2>1, Places
    <2> QED BY <1>2, <2>1, <2>2, <2>3, Places DEF MapInv
  <1>7. ResultInv'
    BY <1>1, <1>2 DEF ResultInv
  <1> QED BY <1>4, <1>5, <1>6, <1>7 DEF IInv

(***************************************************************************)
(* A bug finds its team, by the organisation data of the moment.           *)
(***************************************************************************)
LEMMA PlaceBugIInv == ASSUME IInv, NEW b \in unplaced, PlaceBug(b) PROVE IInv'
  <1>1. TypeOK /\ PassInv /\ MapInv /\ ResultInv
    BY DEF IInv
  <1>2. PICK t \in Answers(org.teams, b.component, NoSubcomponent) :
          bugMaps' = [bugMaps EXCEPT ![calc] = @ \cup {<<t, b>>}]
    BY DEF PlaceBug
  <1>3. /\ calc \in BugMapNames /\ unplaced' = unplaced \ {b}
        /\ UNCHANGED <<envVars, faults, phase, orgVars, recVars, calc, ranged,
                       results, orgsSeen, bugsSeen, served>>
    BY DEF PlaceBug
  <1>4. calc \in From(calc) /\ calc \in From("total")
    BY <1>3, Places
  <1>5. org \in orgsSeen /\ org \in Mixtures
    BY <1>1, <1>4 DEF PassInv
  <1>6. PICK B \in bugsSeen : Filter(calc, B) = { p[2] : p \in bugMaps[calc] } \cup unplaced
    BY <1>1, <1>3, <1>4 DEF MapInv
  <1>7. t \in Team \cup {Unknown} /\ b \in UNION bugsSeen
    BY <1>5, <1>6, AnswersType, FilterType
  <1>8. /\ bugMaps \in [BugMapNames -> SUBSET ((Team \cup {Unknown}) \X UNION bugsSeen)]
        /\ bugMaps'[calc] = bugMaps[calc] \cup {<<t, b>>}
        /\ \A w \in BugMapNames \ {calc} : bugMaps'[w] = bugMaps[w]
    BY <1>1, <1>2, <1>3 DEF TypeOK
  <1> USE DEF envVars, orgVars, recVars
  <1>9. TypeOK'
    <2>1. bugMaps' \in [BugMapNames -> SUBSET ((Team \cup {Unknown}) \X UNION bugsSeen)]
      <3> DEFINE P == (Team \cup {Unknown}) \X UNION bugsSeen
      <3>1. <<t, b>> \in P
        BY <1>7
      <3>2. bugMaps[calc] \cup {<<t, b>>} \in SUBSET P
        BY <1>3, <1>8, <3>1
      <3> HIDE DEF P
      <3>3. bugMaps' \in [BugMapNames -> SUBSET P]
        BY <1>2, <1>3, <1>8, <3>2 DEF P
      <3> QED BY <3>3 DEF P
    <2> QED BY <1>1, <1>3, <2>1 DEF TypeOK, Snapshot
  <1>10. PassInv'
    BY <1>1, <1>3 DEF PassInv
  <1>11. MapInv'
    <2>1. Filter(calc, B) = { p[2] : p \in bugMaps'[calc] } \cup unplaced'
      <3>1. { p[2] : p \in bugMaps'[calc] } = { p[2] : p \in bugMaps[calc] } \cup {b}
        <4>1. <<t, b>>[2] = b
          OBVIOUS
        <4> DEFINE M == bugMaps[calc]
        <4>2. { p[2] : p \in M \cup {<<t, b>>} } = { p[2] : p \in M } \cup {b}
          <5> HIDE DEF M
          <5> QED BY <4>1
        <4> QED BY <1>8, <4>2
      <3> QED BY <1>3, <1>6, <3>1
    <2>2. \A p \in bugMaps'[calc] : \E o \in orgsSeen :
            p[1] \in Answers(o.teams, p[2].component, NoSubcomponent)
      BY <1>1, <1>3, <1>4, <1>5, <1>8 DEF MapInv
    <2>3. ASSUME NEW w \in BugMapNames \ {calc}
          PROVE  { x \in unplaced' : calc' = w } = { x \in unplaced : calc = w }
      BY <1>3
    <2>4. { x \in unplaced' : calc' = calc } = unplaced'
      BY <1>3
    <2> QED BY <1>1, <1>3, <1>4, <1>8, <2>1, <2>2, <2>3, <2>4 DEF MapInv
  <1>12. ResultInv'
    BY <1>1, <1>3, Places DEF ResultInv
  <1> QED BY <1>9, <1>10, <1>11, <1>12 DEF IInv

(***************************************************************************)
(* A map is complete; the next list is taken.                              *)
(***************************************************************************)
LEMMA EndMapIInv == ASSUME IInv, EndMap PROVE IInv'
  <1>1. TypeOK /\ PassInv /\ MapInv /\ ResultInv
    BY DEF IInv
  <1>2. /\ unplaced = {}
        /\ \/ calc = "total" /\ calc' = "urgents" /\ unplaced' = Filter("urgents", bugs)
           \/ calc = "urgents" /\ calc' = "blockers" /\ unplaced' = Filter("blockers", bugs)
           \/ calc = "blockers" /\ calc' = "version" /\ unplaced' = {}
        /\ UNCHANGED <<envVars, faults, phase, orgVars, recVars, bugMaps, ranged,
                       results, orgsSeen, bugsSeen, served>>
    BY DEF EndMap, StartMap, recVars
  <1> USE DEF envVars, orgVars, recVars
  <1>3. /\ calc \in From("total") /\ calc' \in From("total") /\ calc # calc'
        /\ calc' \in BugMapNames \cup {"version"} /\ calc # "score" /\ calc' # "score"
    BY <1>2, Places
  <1>4. bugs \in bugsSeen /\ unplaced' \subseteq bugs
    BY <1>1, <1>2, <1>3, FilterType DEF PassInv
  <1>5. TypeOK'
    <2>1. calc' \in {"off", "sleep", "version", "range", "score", "sending", "dead"}
                      \cup BugMapNames
      BY <1>3
    <2>2. Snapshot(bugs') /\ Snapshot(bz')
      BY <1>1, <1>2 DEF TypeOK, Snapshot
    <2>3. unplaced' \subseteq bugs' \cup UNION bugsSeen'
      BY <1>2, <1>4
    <2> QED BY <1>1, <1>2, <2>1, <2>2, <2>3 DEF TypeOK
  <1>6. PassInv'
    BY <1>1, <1>2, <1>3 DEF PassInv
  <1>7. MapInv'
    <2>1. calc' \notin BugMapNames => unplaced' = {}
      BY <1>2, Places
    <2>2. ASSUME NEW w \in BugMapNames, calc \in From(w)
          PROVE  /\ calc' \in From(w) /\ w # calc'
                 /\ { b \in unplaced' : calc' = w } = { b \in unplaced : calc = w }
      <3>1. calc' \in From(w) /\ w # calc'
        BY <1>2, <2>2, Places
      <3> QED BY <1>2, <3>1
    <2>3. ASSUME NEW w \in BugMapNames, calc \notin From(w), calc' \in From(w)
          PROVE  w = calc' /\ bugMaps[w] = {} /\ unplaced' = Filter(w, bugs)
      <3>1. w = calc' /\ unplaced' = Filter(w, bugs)
        BY <1>2, <2>3, Places
      <3> QED BY <1>1, <2>3, <3>1 DEF MapInv
    <2>4. ASSUME NEW w \in BugMapNames, calc' \in From(w)
          PROVE  /\ \E B \in bugsSeen' :
                      Filter(w, B) = { p[2] : p \in bugMaps'[w] }
                                       \cup { b \in unplaced' : calc' = w }
                 /\ \A p \in bugMaps'[w] : \E o \in orgsSeen' :
                      p[1] \in Answers(o.teams, p[2].component, NoSubcomponent)
      <3>1. CASE calc \in From(w)
        BY <1>1, <1>2, <2>2, <3>1 DEF MapInv
      <3>2. CASE calc \notin From(w)
        <4>1. /\ { p[2] : p \in bugMaps'[w] } = {}
              /\ { b \in unplaced' : calc' = w } = Filter(w, bugs)
              /\ bugMaps'[w] = {}
          BY <1>2, <2>3, <2>4, <3>2
        <4> QED BY <1>2, <1>4, <4>1
      <3> QED BY <3>1, <3>2
    <2>5. ASSUME NEW w \in BugMapNames, calc' \notin From(w)
          PROVE  bugMaps'[w] = {}
      <3>1. calc \notin From(w)
        BY <2>2, <2>5
      <3> QED BY <1>1, <1>2, <3>1 DEF MapInv
    <2> QED BY <2>1, <2>4, <2>5 DEF MapInv
  <1>8. ResultInv'
    BY <1>1, <1>2, <1>3 DEF ResultInv
  <1> QED BY <1>5, <1>6, <1>7, <1>8 DEF IInv

(***************************************************************************)
(* After the maps, the goroutine moves on without touching them.           *)
(***************************************************************************)
LEMMA MapsStay ==
  ASSUME PassInv, MapInv, calc \in From("blockers"), calc \notin BugMapNames,
         calc' \in From("blockers"), calc' \notin BugMapNames,
         UNCHANGED <<phase, copying, newOrg, bugRec, http, org, bugs, orgsSeen,
                     bugsSeen, unplaced, bugMaps>>
  PROVE  PassInv' /\ MapInv'
  <1>1. \A w \in BugMapNames : calc \in From(w) /\ calc' \in From(w)
    BY Places
  <1>2. PassInv'
    BY <1>1, Places DEF PassInv
  <1>3. MapInv'
    <2>1. \A w \in BugMapNames : { b \in unplaced' : calc' = w } = { b \in unplaced : calc = w }
      BY DEF MapInv
    <2> QED BY <1>1, <2>1 DEF MapInv
  <1> QED BY <1>2, <1>3

(***************************************************************************)
(* The current version, its error, and the range over the teams.           *)
(***************************************************************************)
LEMMA VersionIInv ==
  ASSUME IInv, CurrentVersion \/ SendVersionError \/ RangeTeams
  PROVE  IInv'
  <1>1. TypeOK /\ PassInv /\ MapInv /\ ResultInv
    BY DEF IInv
  <1>2. /\ calc \in {"version", "sending", "range"}
        /\ calc' \in {"sending", "range", "dead", "score"}
        /\ calc' = "score" => ranged' = org.teams
        /\ calc' # "score" => ranged' = ranged
        /\ errs' \in 0..ErrsCap
        /\ UNCHANGED <<envVars, faults, phase, orgVars, bugs, bugRec, http, unplaced,
                       bugMaps, orgsSeen, bugsSeen, served>>
    BY <1>1 DEF CurrentVersion, SendVersionError, RangeTeams, TypeOK, ErrsCap, recVars
  <1>3. results' = NoResults /\ calc # "score" /\ ranged = NoResults
    BY <1>1, <1>2 DEF CurrentVersion, SendVersionError, RangeTeams, ResultInv
  <1> USE DEF envVars, orgVars
  <1>4. org \in orgsSeen
    BY <1>1, <1>2, Places DEF PassInv
  <1>5. TypeOK'
    <2>1. Snapshot(bugs') /\ Snapshot(bz')
      BY <1>1, <1>2 DEF TypeOK, Snapshot
    <2> QED BY <1>1, <1>2, <1>3, <2>1, NoResultsType DEF TypeOK
  <1>6. PassInv' /\ MapInv'
    BY <1>1, <1>2, MapsStay, Places
  <1>7. ResultInv'
    BY <1>1, <1>2, <1>3, <1>4, NoResultsType DEF ResultInv
  <1> QED BY <1>5, <1>6, <1>7 DEF IInv

(***************************************************************************)
(* A team is scored.                                                       *)
(***************************************************************************)
LEMMA ScoreIInv == ASSUME IInv, NEW t \in Team, Score(t) PROVE IInv'
  <1>1. TypeOK /\ PassInv /\ MapInv /\ ResultInv
    BY DEF IInv
  <1>2. /\ calc = "score" /\ calc' = calc /\ t \in DOMAIN ranged /\ t \notin DOMAIN results
        /\ DOMAIN results' = DOMAIN results \cup {t}
        /\ results'[t] = GetTeamResult(bugMaps, org.slo, t, ranged[t])
        /\ \A u \in DOMAIN results : results'[u] = results[u]
        /\ UNCHANGED <<envVars, faults, phase, orgVars, recVars, unplaced, bugMaps,
                       ranged, orgsSeen, bugsSeen, served>>
    BY DEF Score
  <1> USE DEF envVars, orgVars, recVars
  <1>3. org \in orgsSeen
    BY <1>1, <1>2, Places DEF PassInv
  <1>4. TypeOK'
    <2>1. Snapshot(bugs') /\ Snapshot(bz')
      BY <1>1, <1>2 DEF TypeOK, Snapshot
    <2> QED BY <1>1, <1>2, <2>1 DEF TypeOK
  <1>5. PassInv' /\ MapInv'
    BY <1>1, <1>2, MapsStay, Places
  <1>6. ResultInv'
    BY <1>1, <1>2, <1>3 DEF ResultInv
  <1> QED BY <1>4, <1>5, <1>6 DEF IInv

(***************************************************************************)
(* The pass ends, and what it has seen is forgotten.                       *)
(***************************************************************************)
LEMMA PublishIInv == ASSUME IInv, Publish PROVE IInv'
  <1>1. TypeOK /\ PassInv /\ MapInv /\ ResultInv
    BY DEF IInv
  <1>2. /\ calc = "score" /\ calc' = "sleep"
        /\ bugMaps' = NoMaps /\ ranged' = NoResults /\ results' = NoResults
        /\ orgsSeen' = {} /\ bugsSeen' = {}
        /\ served' \in {served, results} /\ DOMAIN results = DOMAIN ranged
        /\ UNCHANGED <<envVars, faults, phase, orgVars, recVars, unplaced>>
    BY DEF Publish, EndPass
  <1> USE DEF envVars, orgVars, recVars
  <1>3. unplaced = {}
    BY <1>1, <1>2, Places DEF MapInv
  <1>4. DOMAIN ranged \subseteq Team
    BY <1>1, <1>2, MixtureType DEF ResultInv, PassInv, SLOOrg
  <1>5. TypeOK'
    <2>1. Snapshot(bugs') /\ Snapshot(bz')
      BY <1>1, <1>2 DEF TypeOK, Snapshot
    <2>2. bugMaps' \in [BugMapNames -> SUBSET ((Team \cup {Unknown}) \X UNION bugsSeen')]
      BY <1>2, NoMapsType
    <2>3. DOMAIN served' \subseteq Team
      BY <1>1, <1>2, <1>4 DEF TypeOK
    <2> QED BY <1>1, <1>2, <1>3, <2>1, <2>2, <2>3, NoResultsType DEF TypeOK
  <1>6. PassInv'
    BY <1>1, <1>2, Places, FS_EmptySet DEF PassInv
  <1>7. MapInv'
    BY <1>2, <1>3, Places DEF MapInv, NoMaps
  <1>8. ResultInv'
    BY <1>2 DEF ResultInv
  <1> QED BY <1>5, <1>6, <1>7, <1>8 DEF IInv

\* Every step preserves the invariant.
LEMMA NextIInv == IInv /\ [Next]_vars => IInv'
  <1> SUFFICES ASSUME IInv, [Next]_vars PROVE IInv'
    OBVIOUS
  <1>1. CASE UNCHANGED vars
    <2> USE <1>1 DEF vars, envVars, orgVars, recVars, calcVars
    <2>1. TypeOK'
      BY DEF IInv, TypeOK, Snapshot
    <2>2. PassInv'
      BY DEF IInv, PassInv
    <2>3. MapInv' /\ ResultInv'
      BY Undisturbed DEF IInv
    <2> QED BY <2>1, <2>2, <2>3 DEF IInv
  <1>2. CASE Scoring
    BY <1>2, StartPassIInv, EndMapIInv, VersionIInv, PublishIInv, PlaceBugIInv, ScoreIInv
       DEF Scoring
  <1> QED BY <1>1, <1>2, EnvironmentIInv, MainIInv, ReconcilersIInv DEF Next

(***************************************************************************)
(* In every run the inductive invariant holds.                             *)
(***************************************************************************)
THEOREM Invariance == Spec => []IInv
  BY InitIInv, NextIInv, PTL DEF Spec

(***************************************************************************)
(* Every reachable state has its types: a mixture of organisation data is  *)
(* never nil, and the error channel never holds more than it can.          *)
(***************************************************************************)
THEOREM TypeCorrect == Spec => []TypeOK
  <1>1. IInv => TypeOK
    BY DEF IInv
  <1> QED BY <1>1, Invariance, PTL

(***************************************************************************)
(* What /teams serves is replaced by results or lost with the process,     *)
(* never taken away by an organisation that has lost its teams.            *)
(***************************************************************************)
THEOREM StillAnswers == Spec => KeepsAnswering
  <1> DEFINE Kept == served # NoResults => served' # NoResults \/ phase' = "down"
  <1>1. [Next]_vars => [Kept]_vars
    <2> SUFFICES ASSUME Next PROVE Kept
      OBVIOUS
    <2>1. CASE Environment
      BY <2>1 DEF Environment, ChangeBug, ChangeOrg
    <2>2. CASE Main
      BY <2>2 DEF Main, Start, GetOrgData, GetOrgDataGarbled, GetBugData, FailOrStop,
                  ReceiveError, Down
    <2>3. CASE Reconcilers
      BY <2>3 DEF Reconcilers, OrgReconcile, OrgReconcileFails, NilOrgPanic, CopyField,
                  BugsReconcile, BugsReconcileFails, ServeFails, SendError, Down
    <2>4. CASE Scoring
      BY <2>4 DEF Scoring, StartPass, EndMap, CurrentVersion, SendVersionError,
                  RangeTeams, Publish, PlaceBug, Score
    <2> QED BY <2>1, <2>2, <2>3, <2>4 DEF Next
  <1> HIDE DEF Kept
  <1>2. Spec => [][Kept]_vars
    BY <1>1, PTL DEF Spec
  <1> QED BY <1>2 DEF Kept, KeepsAnswering

(***************************************************************************)
(* A complete map has the bugs of one list that was seen, each with a team *)
(* that some organisation data seen gave it to.                            *)
(***************************************************************************)
LEMMA ListOfMap ==
  ASSUME IInv, calc = "score", NEW w \in BugMapNames
  PROVE  /\ \E B \in bugsSeen : Filter(w, B) = { p[2] : p \in bugMaps[w] }
         /\ \A p \in bugMaps[w] : \E o \in orgsSeen :
               p[1] \in Answers(o.teams, p[2].component, NoSubcomponent)
  <1>1. calc \in From(w) /\ calc \notin BugMapNames
    BY Places
  <1>2. unplaced = {}
    BY <1>1 DEF IInv, MapInv
  <1> QED BY <1>1, <1>2 DEF IInv, MapInv

\* A bug is in a team's list only if a version seen put it there.
LEMMA NoneWithoutReason ==
  ASSUME IInv, calc = "score", NEW w \in BugMapNames, NEW t,
         NEW b \in TeamsBugs(bugMaps[w], t)
  PROVE  \E o \in orgsSeen, B \in bugsSeen : b \in Claimed(o, Filter(w, B), t)
  <1>1. PICK p \in bugMaps[w] : p[1] = t /\ p[2] = b
    BY DEF TeamsBugs
  <1>2. PICK o \in orgsSeen : t \in Answers(o.teams, b.component, NoSubcomponent)
    BY <1>1, ListOfMap
  <1>3. PICK B \in bugsSeen : Filter(w, B) = { q[2] : q \in bugMaps[w] }
    BY ListOfMap
  <1>4. b \in Claimed(o, Filter(w, B), t)
    BY <1>1, <1>2, <1>3 DEF Claimed
  <1> QED BY <1>4

\* A bug that all versions seen give to one team is in that team's list.
LEMMA NoneForgotten ==
  ASSUME IInv, calc = "score", NEW w \in BugMapNames, NEW t, NEW b,
         \A B \in bugsSeen : b \in Filter(w, B),
         \A o \in orgsSeen : Answers(o.teams, b.component, NoSubcomponent) = {t}
  PROVE  b \in TeamsBugs(bugMaps[w], t)
  <1>1. PICK B \in bugsSeen : Filter(w, B) = { q[2] : q \in bugMaps[w] }
    BY ListOfMap
  <1>2. PICK p \in bugMaps[w] : p[2] = b
    BY <1>1
  <1>3. PICK o \in orgsSeen : p[1] \in Answers(o.teams, p[2].component, NoSubcomponent)
    BY ListOfMap
  <1>4. p[1] = t
    BY <1>2, <1>3
  <1> QED BY <1>2, <1>4 DEF TeamsBugs

(***************************************************************************)
(* Every count that is published counts no bug that no version seen gives  *)
(* the team, and misses none that every version seen gives it alone.       *)
(***************************************************************************)
THEOREM CountsAreBounded == Spec => []CountsBounded
  <1>1. ASSUME IInv PROVE CountsBounded
    <2> SUFFICES ASSUME NEW t \in DOMAIN results, NEW w \in BugMapNames
                 PROVE  LET sure == { b \in UNION bugsSeen :
                                        \A o \in orgsSeen, B \in bugsSeen :
                                          /\ b \in Filter(w, B)
                                          /\ Answers(o.teams, b.component, NoSubcomponent) = {t} }
                            possible == { b \in UNION bugsSeen :
                                            \E o \in orgsSeen, B \in bugsSeen :
                                              b \in Claimed(o, Filter(w, B), t) }
                            current == results[t].results[w].current
                        IN  Cardinality(sure) <= current /\ current <= Cardinality(possible)
      BY DEF CountsBounded
    <2> DEFINE sure == { b \in UNION bugsSeen : \A o \in orgsSeen, B \in bugsSeen :
                           /\ b \in Filter(w, B)
                           /\ Answers(o.teams, b.component, NoSubcomponent) = {t} }
               possible == { b \in UNION bugsSeen : \E o \in orgsSeen, B \in bugsSeen :
                               b \in Claimed(o, Filter(w, B), t) }
               mine == TeamsBugs(bugMaps[w], t)
    <2>1. calc = "score"
      BY <1>1, NoResultsType DEF IInv, ResultInv
    <2>2. results[t].results[w].current = Cardinality(mine)
      <3>1. PICK o \in orgsSeen : results[t] = GetTeamResult(bugMaps, o.slo, t, ranged[t])
        BY <1>1, <2>1 DEF IInv, ResultInv
      <3>2. results[t].results[w].current = Current(w, bugMaps, t)
        BY <3>1 DEF GetTeamResult, OrderedSLOs
      <3> QED BY <3>2 DEF Current
    <2>3. mine \subseteq possible
      <3>1. \A b, B : \A o : b \in Claimed(o, Filter(w, B), t) => b \in B
        BY FilterType DEF Claimed
      <3> QED BY <1>1, <2>1, <3>1, NoneWithoutReason
    <2>4. ASSUME NEW b \in sure PROVE b \in mine
      <3>1. bugsSeen # {} /\ orgsSeen # {}
        BY <1>1, <2>1, Places DEF IInv, PassInv
      <3>2. /\ \A B \in bugsSeen : b \in Filter(w, B)
            /\ \A o \in orgsSeen : Answers(o.teams, b.component, NoSubcomponent) = {t}
        BY <2>4, <3>1
      <3> QED BY <1>1, <2>1, <3>2, NoneForgotten
    <2>5. IsFiniteSet(UNION bugsSeen)
      BY <1>1, FS_UNION DEF IInv, PassInv
    <2>6. IsFiniteSet(possible) /\ IsFiniteSet(mine)
      <3>1. possible \subseteq UNION bugsSeen
        OBVIOUS
      <3> HIDE DEF possible, mine
      <3> QED BY <2>3, <2>5, <3>1, FS_Subset
    <2>7. Cardinality(sure) <= Cardinality(mine) /\ Cardinality(mine) <= Cardinality(possible)
      <3>1. sure \subseteq mine
        BY <2>4
      <3> HIDE DEF possible, mine, sure
      <3> QED BY <2>3, <2>6, <3>1, FS_Subset
    <2> QED BY <2>2, <2>7
  <1> QED BY <1>1, Invariance, PTL

(***************************************************************************)
(* The obligation of the code, of merged objectives, is the allowance.     *)
(***************************************************************************)
LEMMA ObligationIsAllowance ==
  ASSUME NEW o \in Mixtures, NEW t \in DOMAIN o.teams,
         NEW which \in OrderedSLOs \ {"ci-fail-rate"}
  PROVE  Obligation(which, DataOf(TeamSLO(o.slo, o.teams[t].slo), which),
                    o.teams[t].memberCount) = Allowed(o, t, which)
  <1> DEFINE own == o.teams[t].slo
             data == IF which \in DOMAIN own THEN own[which]
                     ELSE IF which \in DOMAIN o.slo THEN o.slo[which] ELSE NoData
  <1>1. IsSLOMap(own) /\ IsSLOMap(o.slo) /\ o.teams[t].memberCount \in Nat
    BY MixtureType DEF SLOOrg
  <1>2. DataOf(TeamSLO(o.slo, own), which) = data
    BY DEF DataOf, TeamSLO
  <1>3. data \in Data
    BY <1>1 DEF IsSLOMap, Data, NoData
  <1>4. data.halves \in Nat /\ data.perMember \in BOOLEAN
    <2> HIDE DEF data
    <2> QED BY <1>3 DEF Data
  <1>5. Allowed(o, t, which) =
          (data.halves * (IF data.perMember /\ o.teams[t].memberCount > 0
                          THEN o.teams[t].memberCount ELSE 1)) \div 2
    BY DEF Allowed
  <1>6. Obligation(which, data, o.teams[t].memberCount) =
          IF data.perMember /\ o.teams[t].memberCount # 0
          THEN (data.halves * o.teams[t].memberCount) \div 2
          ELSE data.halves \div 2
    BY DEF Obligation
  <1> HIDE DEF data
  <1>7. Obligation(which, data, o.teams[t].memberCount) = Allowed(o, t, which)
    BY <1>1, <1>4, <1>5, <1>6
  <1> QED BY <1>2, <1>7

\* No team fails an objective about CI.
LEMMA NobodyFailsCI ==
  ASSUME NEW o \in Mixtures, NEW t \in DOMAIN o.teams
  PROVE  Obligation("ci-fail-rate",
                    DataOf(TeamSLO(o.slo, o.teams[t].slo), "ci-fail-rate"),
                    o.teams[t].memberCount) \in Nat
  <1> DEFINE data == DataOf(TeamSLO(o.slo, o.teams[t].slo), "ci-fail-rate")
  <1>1. IsSLOMap(o.teams[t].slo) /\ IsSLOMap(o.slo)
    BY MixtureType DEF SLOOrg
  <1>2. data \in Data
    BY <1>1 DEF DataOf, TeamSLO, IsSLOMap, Data, NoData
  <1> HIDE DEF data
  <1>3. data.halves \div 2 \in Nat
    BY <1>2 DEF Data
  <1>4. Obligation("ci-fail-rate", data, o.teams[t].memberCount) = data.halves \div 2
    BY DEF Obligation
  <1> QED BY <1>3, <1>4 DEF data

(***************************************************************************)
(* The verdict of a pass that saw one version of everything.               *)
(***************************************************************************)
LEMMA OneVersion ==
  ASSUME IInv, calc = "score", NEW o, NEW B, orgsSeen = {o}, bugsSeen = {B},
         Unambiguous(o.teams), NEW w \in BugMapNames, NEW t
  PROVE  TeamsBugs(bugMaps[w], t) = Claimed(o, Filter(w, B), t)
  <1>1. ASSUME NEW b \in TeamsBugs(bugMaps[w], t)
        PROVE  b \in Claimed(o, Filter(w, B), t)
    BY <1>1, NoneWithoutReason
  <1>2. ASSUME NEW b \in Claimed(o, Filter(w, B), t)
        PROVE  b \in TeamsBugs(bugMaps[w], t)
    <2>1. b \in Filter(w, B) /\ t \in Answers(o.teams, b.component, NoSubcomponent)
      BY <1>2 DEF Claimed
    <2>2. b.component \in Component
      BY <2>1, FilterType DEF IInv, PassInv, OpenBug
    <2>3. Answers(o.teams, b.component, NoSubcomponent) = {t}
      BY <2>1, <2>2, OneAnswer
    <2> QED BY <2>1, <2>3, NoneForgotten
  <1> QED BY <1>1, <1>2

\* A team fails in the results exactly when it is over a limit.
LEMMA VerdictOfTeam ==
  ASSUME IInv, calc = "score", NEW o, NEW B, orgsSeen = {o}, bugsSeen = {B},
         Unambiguous(o.teams), NEW t \in DOMAIN results
  PROVE  results[t].failing <=> OverLimit(o, B, t)
  <1> DEFINE mine == Claimed(o, B, t)
             limit(which) == Obligation(which, DataOf(TeamSLO(o.slo, o.teams[t].slo), which),
                                        o.teams[t].memberCount)
  <1>1. o \in Mixtures /\ t \in DOMAIN o.teams
    BY DEF IInv, PassInv, ResultInv, TypeOK
  <1>2. results[t] = GetTeamResult(bugMaps, o.slo, t, o.teams[t])
    BY DEF IInv, ResultInv
  <1>3. results[t].failing <=>
          \E which \in OrderedSLOs : Current(which, bugMaps, t) > limit(which)
    <2> DEFINE counts == [which \in OrderedSLOs |-> [ current |-> Current(which, bugMaps, t),
                                                      obligation |-> limit(which) ]]
    <2>1. results[t].failing = \E which \in OrderedSLOs :
                                 counts[which].current > counts[which].obligation
      BY <1>2 DEF GetTeamResult
    <2>2. \A which \in OrderedSLOs : /\ counts[which].current = Current(which, bugMaps, t)
                                     /\ counts[which].obligation = limit(which)
      <3> HIDE DEF limit
      <3> QED OBVIOUS
    <2> HIDE DEF counts, limit
    <2> QED BY <2>1, <2>2
  <1>4. /\ Current("total", bugMaps, t) = Cardinality(mine)
        /\ Current("urgents", bugMaps, t) = Cardinality({ b \in mine : b.urgent })
        /\ Current("blockers", bugMaps, t) = Cardinality({ b \in mine : b.blocker })
        /\ Current("pmscore", bugMaps, t) = PMScore(mine)
        /\ Current("ci-fail-rate", bugMaps, t) = 0
    <2>1. /\ Claimed(o, Filter("total", B), t) = mine
          /\ Claimed(o, Filter("urgents", B), t) = { b \in mine : b.urgent }
          /\ Claimed(o, Filter("blockers", B), t) = { b \in mine : b.blocker }
      BY DEF Claimed, Filter
    <2>2. \A w \in BugMapNames :
            TeamsBugs(bugMaps[w], t) = Claimed(o, Filter(w, B), t)
      BY OneVersion
    <2> HIDE DEF mine
    <2> QED BY <2>1, <2>2 DEF Current, BugMapNames
  <1>5. \A which \in OrderedSLOs \ {"ci-fail-rate"} : limit(which) = Allowed(o, t, which)
    BY <1>1, ObligationIsAllowance
  <1>6. ~ (0 > limit("ci-fail-rate"))
    BY <1>1, NobodyFailsCI
  <1>7. OverLimit(o, B, t) <=>
          \/ Cardinality(mine) > Allowed(o, t, "total")
          \/ Cardinality({ b \in mine : b.urgent }) > Allowed(o, t, "urgents")
          \/ Cardinality({ b \in mine : b.blocker }) > Allowed(o, t, "blockers")
          \/ PMScore(mine) > Allowed(o, t, "pmscore")
    BY DEF OverLimit
  <1> HIDE DEF mine, limit
  <1> QED BY <1>3, <1>4, <1>5, <1>6, <1>7 DEF OrderedSLOs, BugMapNames

(***************************************************************************)
(* What a pass publishes that nothing disturbed is who is over a limit,    *)
(* for exactly the teams there are: the merge of objectives, the scaling   *)
(* by members, the three maps and their counts come out at the verdict a   *)
(* reader of the data would give.                                          *)
(***************************************************************************)
THEOREM ExactVerdicts == Spec => ExactWhenUndisturbed
  <1> DEFINE Exact == \A o \in orgsSeen, B \in bugsSeen :
                        /\ Publish /\ results # NoResults
                        /\ orgsSeen = {o} /\ bugsSeen = {B} /\ Unambiguous(o.teams)
                      => Verdict(served', o, B)
  <1>1. IInv /\ [Next]_vars => [Exact]_vars
    <2> SUFFICES ASSUME IInv, NEW o \in orgsSeen, NEW B \in bugsSeen,
                        Publish, results # NoResults,
                        orgsSeen = {o}, bugsSeen = {B}, Unambiguous(o.teams)
                 PROVE  Verdict(served', o, B)
      OBVIOUS
    <2>1. calc = "score" /\ served' = results /\ DOMAIN results = DOMAIN ranged
      BY DEF Publish, EndPass
    <2>2. ranged = o.teams
      BY <2>1 DEF IInv, ResultInv
    <2>3. \A t \in DOMAIN results : results[t].failing <=> OverLimit(o, B, t)
      BY <2>1, VerdictOfTeam
    <2> QED BY <2>1, <2>2, <2>3 DEF Verdict
  <1> HIDE DEF Exact
  <1>2. Spec => [][Exact]_vars
    BY <1>1, Invariance, PTL DEF Spec
  <1> QED BY <1>2 DEF Exact, ExactWhenUndisturbed
=============================================================================
