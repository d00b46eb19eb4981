----------------------------- MODULE TeamLookup -----------------------------
(***************************************************************************)
(* OrgData.GetTeamName / GetTeamByComponent (pkg/teams/teams.go) as it     *)
(* runs in the services: the caller holds a pointer to the shared OrgData, *)
(* which the reconciler goroutine overwrites at any moment; the method has *)
(* a value receiver, so the call works on a copy; the loop ranges over a   *)
(* Go map, which visits the teams in no particular order.                  *)
(***************************************************************************)
EXTENDS OrgData

CONSTANTS
    Orgs,   \* the organisation data the service can hand out
    Nil     \* the nil *TeamInfo

ASSUME OrgsAssumption == Orgs \subseteq OrgDataSet
ASSUME NilAssumption == Nil \notin Team \cup {Unknown}

VARIABLES
    shared,   \* *orgData, as the reconciler last wrote it
    org,      \* the receiver: the copy of *orgData the call runs on
    query,    \* the component and subcomponent asked for
    todo,     \* the teams the range has not visited yet
    defTeam,  \* the default team seen so far
    answer,   \* the name returned, Nil until there is one
    pc        \* "idle", "ranging" or "returned"

vars == <<shared, org, query, todo, defTeam, answer, pc>>

Query == Component \X SubcomponentOrNone

TypeOK ==
    /\ shared \in Orgs
    /\ org \in Orgs
    /\ query \in Query
    /\ todo \subseteq DOMAIN org
    /\ defTeam \in Team \cup {Nil}
    /\ answer \in Team \cup {Unknown, Nil}
    /\ pc \in {"idle", "ranging", "returned"}

Init ==
    /\ shared \in Orgs
    /\ org = shared
    /\ query \in Query
    /\ todo = {}
    /\ defTeam = Nil
    /\ answer = Nil
    /\ pc = "idle"

\* *orgData = *newOrgData, whatever the other goroutines are doing.
Reconcile(new) ==
    /\ shared' = new
    /\ UNCHANGED <<org, query, todo, defTeam, answer, pc>>

\* GetTeamName(bug): the value receiver copies *orgData.
Call(c, s) ==
    /\ pc # "ranging"
    /\ query' = <<c, s>>
    /\ org' = shared
    /\ todo' = DOMAIN shared
    /\ defTeam' = Nil
    /\ answer' = Nil
    /\ pc' = "ranging"
    /\ UNCHANGED shared

\* Mutant of VisitOwner: a default team is returned as soon as it is met.
VisitOwnerOrDefault(t) ==
    /\ pc = "ranging"
    /\ t \in todo
    /\ IsTeam(org[t], query[1], query[2]) \/ IsDefault(org[t], query[1])
    /\ answer' = t
    /\ pc' = "returned"
    /\ UNCHANGED <<shared, org, query, todo, defTeam>>

\* One iteration that finds an owner and returns at once.
VisitOwner(t) ==
    /\ pc = "ranging"
    /\ t \in todo
    /\ IsTeam(org[t], query[1], query[2])
    /\ answer' = t
    /\ pc' = "returned"
    /\ UNCHANGED <<shared, org, query, todo, defTeam>>

\* One iteration that goes on, remembering a default team.
VisitOther(t) ==
    /\ pc = "ranging"
    /\ t \in todo
    /\ ~IsTeam(org[t], query[1], query[2])
    /\ todo' = todo \ {t}
    /\ defTeam' = IF IsDefault(org[t], query[1]) THEN t ELSE defTeam
    /\ UNCHANGED <<shared, org, query, answer, pc>>

\* The loop ends: the default team, and "unknown" for a nil one.
Finish ==
    /\ pc = "ranging"
    /\ todo = {}
    /\ answer' = IF defTeam = Nil THEN Unknown ELSE defTeam
    /\ pc' = "returned"
    /\ UNCHANGED <<shared, org, query, todo, defTeam>>

Next ==
    \/ \E new \in Orgs : Reconcile(new)
    \/ \E c \in Component, s \in SubcomponentOrNone : Call(c, s)
    \/ \E t \in Team : VisitOwner(t) \/ VisitOther(t)
    \/ Finish

Spec == Init /\ [][Next]_vars

-----------------------------------------------------------------------------
(***************************************************************************)
(* GetTeamName returns a team the organisation data of the moment of the   *)
(* call gives the bug to: an owner whatever default team was met before    *)
(* it, a default team only when there is no owner, "unknown" only when     *)
(* there is neither; whatever the iteration order, and although the        *)
(* reconciler replaces the shared data while the loop runs.                *)
(***************************************************************************)
AnswerIsClaimed ==
    pc = "returned" => answer \in Answers(org, query[1], query[2])

(***************************************************************************)
(* Organisation data without overlapping claims gives one answer: two      *)
(* calls about the same bug on the same data cannot place it in two teams. *)
(***************************************************************************)
AnswerIsDetermined ==
    (pc = "returned" /\ Unambiguous(org)) =>
        Answers(org, query[1], query[2]) = {answer}

\* The loop's invariant: what is known of the teams already visited.
LoopInv ==
    pc = "ranging" =>
        LET seen == DOMAIN org \ todo
        IN  /\ Owners(org, query[1], query[2]) \cap seen = {}
            /\ defTeam = Nil => Defaults(org, query[1]) \cap seen = {}
            /\ defTeam # Nil => defTeam \in Defaults(org, query[1]) \cap seen

\* The inductive invariant the proofs of TeamsProofs use.
IInv == TypeOK /\ LoopInv /\ AnswerIsClaimed
=============================================================================
