----------------------------- MODULE FeatureSLO -----------------------------
(***************************************************************************)
(* cmd/feature-slo-automation with slo.GetTeamsResults: a job that asks    *)
(* for the organisation data and the SLO results, searches the pull        *)
(* requests that are ready to merge, page by page, and counts for each     *)
(* repository how many it allows, denies or cannot place.                  *)
(*                                                                         *)
(* A pull request holds what the decision looks at: its repository, its    *)
(* label "bugzilla/valid-bug" and the component and subcomponent that the  *)
(* OWNERS file of the repository names.                                    *)
(***************************************************************************)
EXTENDS OrgData, SearchPages

CONSTANTS
    Pulls,       \* the pull requests there can be
    Orgs,        \* the organisation data the service can hand out
    Results,     \* the SLO results, a map from teams to "failing"
    Nil,         \* a nil pointer
    MaxChanges,  \* bound: pull requests opened and closed
    MaxFaults    \* bound: calls that fail

ASSUME ServicesAssumption ==
    /\ IsFiniteSet(Pulls) /\ Orgs \subseteq OrgDataSet
    /\ \A r \in Results : DOMAIN r \subseteq Team /\ Range(r) \subseteq BOOLEAN
    /\ Nil \notin Orgs \cup Results

Repo == { p.repo : p \in Pulls }

VARIABLES
    open,      \* the pull requests GitHub finds, in its order
    pc,        \* "org", "results", "search", "decide", "printed", "failed" or "panicked"
    org,       \* orgInfo
    results,   \* teamsSLOResults
    page,      \* the page to ask for
    listed,    \* allIssues
    taken,     \* how many of them have been decided
    allowed, denied, unknown,  \* the counts of each repository
    steady,    \* history: the pull requests that have been open all the time
    opened, closed,            \* history: how many were opened and closed
    faults

counts == <<allowed, denied, unknown>>
worldVars == <<open, steady, opened, closed>>
vars == <<worldVars, pc, org, results, page, listed, taken, counts, faults>>

Init ==
    /\ \E members \in SUBSET Pulls : open = SetToSeq(members)
    /\ pc = "org" /\ org = Nil /\ results = Nil
    /\ page = 1 /\ listed = <<>> /\ taken = 0
    /\ allowed = [r \in Repo |-> 0] /\ denied = allowed /\ unknown = allowed
    /\ steady = Range(open) /\ opened = 0 /\ closed = 0
    /\ faults = 0

-----------------------------------------------------------------------------
(* GitHub, as long as it matters. *)

Open(p) ==
    /\ pc = "search" /\ opened + closed < MaxChanges
    /\ p \notin Range(open)
    /\ open' \in Joined(open, p)
    /\ opened' = opened + 1
    /\ UNCHANGED <<steady, closed, pc, org, results, page, listed, taken, counts, faults>>

Close(p) ==
    /\ pc = "search" /\ opened + closed < MaxChanges
    /\ p \in Range(open)
    /\ open' = Left(open, p)
    /\ steady' = steady \ {p}
    /\ closed' = closed + 1
    /\ UNCHANGED <<opened, pc, org, results, page, listed, taken, counts, faults>>

-----------------------------------------------------------------------------
(* The job. *)

\* A body that cannot be read or parsed gives nil without an error.
GetOrgData ==
    /\ pc = "org"
    /\ org' \in Orgs \cup {Nil}
    /\ pc' = "results"
    /\ UNCHANGED <<worldVars, results, page, listed, taken, counts, faults>>

\* As GetOrgData.
GetTeamsResults ==
    /\ pc = "results"
    /\ results' \in Results \cup {Nil}
    /\ pc' = "search"
    /\ UNCHANGED <<worldVars, org, page, listed, taken, counts, faults>>

\* Mutant of GetPage: a page that is not full ends the search, without it.
GetPageUntilPartial ==
    /\ pc = "search"
    /\ LET chunk == Page(open, (page - 1) * PageSize)
       IN  IF Len(chunk) = PageSize
           THEN listed' = listed \o chunk /\ page' = page + 1 /\ UNCHANGED pc
           ELSE pc' = "decide" /\ UNCHANGED <<page, listed>>
    /\ UNCHANGED <<worldVars, org, results, taken, counts, faults>>

\* NextPage is 0 in the answer that reaches the end.
GetPage ==
    /\ pc = "search"
    /\ listed' = listed \o Page(open, (page - 1) * PageSize)
    /\ IF page * PageSize >= Len(open) THEN pc' = "decide" /\ UNCHANGED page
                                       ELSE page' = page + 1 /\ UNCHANGED pc
    /\ UNCHANGED <<worldVars, org, results, taken, counts, faults>>

\* The pull request whose turn it is.
Pull == listed[taken + 1]
Deciding == pc = "decide" /\ taken < Len(listed)

Count(map) == map' = [map EXCEPT ![Pull.repo] = @ + 1]

Decided ==
    /\ taken' = taken + 1
    /\ UNCHANGED <<worldVars, pc, org, results, page, listed, faults>>

AllowValidBug ==
    /\ Deciding /\ Pull.validBug
    /\ Count(allowed) /\ UNCHANGED <<denied, unknown>>
    /\ Decided

\* GetTeamByComponent gives one of these, or nil for Unknown.
Teams == Answers(org, Pull.component, Pull.subcomponent)

ComponentUnknown ==
    /\ Deciding /\ ~Pull.validBug /\ org # Nil
    /\ Unknown \in Teams
    /\ Count(unknown) /\ UNCHANGED <<allowed, denied>>
    /\ Decided

\* The Failing of a team that the results do not mention is false.
Failing(team) == IF team \in DOMAIN results THEN results[team] ELSE FALSE

\* Mutant of Judge: results that are not there excuse every team.
JudgeLeniently(team) ==
    /\ Deciding /\ ~Pull.validBug /\ org # Nil
    /\ team \in Teams
    /\ IF results # Nil /\ Failing(team) THEN Count(denied) /\ UNCHANGED allowed
                                        ELSE Count(allowed) /\ UNCHANGED denied
    /\ UNCHANGED unknown
    /\ Decided

Judge(team) ==
    /\ Deciding /\ ~Pull.validBug /\ org # Nil /\ results # Nil
    /\ team \in Teams
    /\ IF Failing(team) THEN Count(denied) /\ UNCHANGED allowed
                        ELSE Count(allowed) /\ UNCHANGED denied
    /\ UNCHANGED unknown
    /\ Decided

\* A nil pointer is used: of the organisation data, or of the results.
Panic ==
    /\ Deciding /\ ~Pull.validBug
    /\ org = Nil \/ (org # Nil /\ results = Nil /\ Teams # {Unknown})
    /\ pc' = "panicked"
    /\ UNCHANGED <<worldVars, org, results, page, listed, taken, counts, faults>>

PrintCounts ==
    /\ pc = "decide" /\ taken = Len(listed)
    /\ pc' = "printed"
    /\ UNCHANGED <<worldVars, org, results, page, listed, taken, counts, faults>>

\* Any error ends the job before it prints.
CallFails ==
    /\ pc \in {"org", "results", "search"} \/ Deciding
    /\ faults < MaxFaults /\ faults' = faults + 1
    /\ pc' = "failed"
    /\ UNCHANGED <<worldVars, org, results, page, listed, taken, counts>>

Next ==
    \/ \E p \in Pulls : Open(p) \/ Close(p)
    \/ GetOrgData \/ GetTeamsResults \/ GetPage
    \/ AllowValidBug \/ ComponentUnknown \/ Panic \/ PrintCounts \/ CallFails
    \/ \E team \in Team : Judge(team)

Spec == Init /\ [][Next]_vars

-----------------------------------------------------------------------------
\* How many of the pull requests decided so far are of a kind.
Decisions(repo, Kind(_)) ==
    Cardinality({ n \in 1..taken : listed[n].repo = repo /\ Kind(listed[n]) })

\* What the answers of the services say of a pull request, from the outside.
Blamed(p) == { t \in Answers(org, p.component, p.subcomponent) :
                 t # Unknown /\ t \in { u \in DOMAIN results : results[u] } }
Unjudged(p) == p.validBug \/ org = Nil \/ results = Nil

(***************************************************************************)
(* The counts are a verdict on each pull request listed: a repository's    *)
(* sum is right; a pull request without a valid bug is denied if every     *)
(* team it can belong to is failing, and only if one is; and services that *)
(* answered nothing usable have neither denied nor excused anything.       *)
(***************************************************************************)
VerdictsJustified ==
    \A r \in Repo :
        /\ allowed[r] + denied[r] + unknown[r] = Decisions(r, LAMBDA p : TRUE)
        /\ denied[r] >= Decisions(r, LAMBDA p : ~Unjudged(p)
               /\ Answers(org, p.component, p.subcomponent) \subseteq Blamed(p))
        /\ denied[r] <= Decisions(r, LAMBDA p : ~Unjudged(p) /\ Blamed(p) # {})
        /\ Nil \in {org, results} =>
               allowed[r] = Decisions(r, LAMBDA p : p.validBug)

(***************************************************************************)
(* The search misses no more pull requests that are open all the time than *)
(* were closed during it, and lists none twice but for one opened during   *)
(* it: the pages are cut out of a list that moves (doBug).                 *)
(***************************************************************************)
SearchNearlyComplete ==
    pc = "decide" =>
        /\ Cardinality(steady \ Range(listed)) <= closed
        /\ Len(listed) - Cardinality(Range(listed)) <= opened

-----------------------------------------------------------------------------
TypeOK ==
    /\ open \in Seq(Pulls) /\ listed \in Seq(Pulls)
    /\ pc \in {"org", "results", "search", "decide", "printed", "failed", "panicked"}
    /\ org \in Orgs \cup {Nil} /\ results \in Results \cup {Nil}
    /\ page \in Nat \ {0} /\ taken \in Nat
    /\ allowed \in [Repo -> Nat] /\ denied \in [Repo -> Nat] /\ unknown \in [Repo -> Nat]
    /\ steady \subseteq Range(open) /\ opened \in Nat /\ closed \in Nat

(***************************************************************************)
(* Of the pull requests that the pages so far would hold now, the search   *)
(* has passed over no more than were closed; and those listed twice, with  *)
(* those that the next pages will list again, were pushed on by others     *)
(* that were opened.                                                       *)
(***************************************************************************)
SearchInv ==
    pc \in {"org", "results", "search"} =>
        LET start == (page - 1) * PageSize
        IN  /\ taken = 0
            /\ Cardinality((steady \cap Behind(open, start)) \ Range(listed)) <= closed
            /\ Len(listed) + Cardinality(Range(listed) \cap Ahead(open, start))
                 <= opened + Cardinality(Range(listed))

\* The inductive invariant the proofs of PagedSearchProofs use.
IInv ==
    /\ TypeOK /\ IsInjective(open) /\ SearchInv
    /\ VerdictsJustified /\ SearchNearlyComplete
=============================================================================
