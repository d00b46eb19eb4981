---------------------------- MODULE TeamsProofs ----------------------------
(***************************************************************************)
(* Proofs about pkg/teams: GetTeamName, for every organisation data and    *)
(* every number of teams, components and subcomponents, and                *)
(* CurrentVersion, for every set of releases and every order in which Go's *)
(* map iteration can list them.                                            *)
(***************************************************************************)
EXTENDS TeamLookup, Naturals, Sequences, TLAPS

CONSTANT Releases
VARIABLES unvisited, active, order, i, j,  \* those of CurrentVersion
          at                               \* its pc

V == INSTANCE CurrentVersion WITH pc <- at

-----------------------------------------------------------------------------
(* GetTeamName *)

(***************************************************************************)
(* A team met by the range that is no owner leaves the loop invariant      *)
(* true: it joins the visited teams, which still hold no owner.            *)
(***************************************************************************)
LEMMA VisitOtherKeepsLoopInv ==
  ASSUME TypeOK, LoopInv, NEW t \in Team, VisitOther(t)
  PROVE  LoopInv'
<1> USE DEF VisitOther
<1>1. /\ DOMAIN org' \ todo' = (DOMAIN org \ todo) \cup {t}
      /\ t \in DOMAIN org
      /\ t # Nil
  BY NilAssumption DEF TypeOK
<1>2. Owners(org, query[1], query[2]) \cap ((DOMAIN org \ todo) \cup {t}) = {}
  BY DEF LoopInv, Owners
<1>3. CASE IsDefault(org[t], query[1])
  <2>1. defTeam' = t /\ t \in Defaults(org, query[1])
    BY <1>1, <1>3 DEF Defaults
  <2> QED
    BY <1>1, <1>2, <2>1 DEF LoopInv
<1>4. CASE ~IsDefault(org[t], query[1])
  <2>1. defTeam' = defTeam /\ t \notin Defaults(org, query[1])
    BY <1>4 DEF Defaults
  <2> QED
    BY <1>1, <1>2, <2>1 DEF LoopInv
<1> QED
  BY <1>3, <1>4

(***************************************************************************)
(* When the range is exhausted, the loop invariant says the team returned  *)
(* is the promised one.                                                    *)
(***************************************************************************)
LEMMA FinishAnswers ==
  ASSUME TypeOK, LoopInv, Finish
  PROVE  answer' \in Answers(org, query[1], query[2])
<1> USE DEF Finish
<1>1. Owners(org, query[1], query[2]) = {}
  BY DEF LoopInv, Owners
<1>2. CASE defTeam = Nil
  <2>1. Defaults(org, query[1]) = {}
    BY <1>2 DEF LoopInv, Defaults
  <2> QED
    BY <1>1, <1>2, <2>1 DEF Answers
<1>3. CASE defTeam # Nil
  <2>1. defTeam \in Defaults(org, query[1])
    BY <1>3 DEF LoopInv
  <2> QED
    BY <1>1, <1>3, <2>1 DEF Answers
<1> QED
  BY <1>2, <1>3

\* Every reachable state has the types TypeOK states.
THEOREM TypeCorrect == Spec => []TypeOK
<1>1. Init => TypeOK
  BY DEF Init, TypeOK
<1>2. TypeOK /\ [Next]_vars => TypeOK'
  <2> SUFFICES ASSUME TypeOK, [Next]_vars PROVE TypeOK'
    OBVIOUS
  <2> USE DEF TypeOK
  <2>1. ASSUME NEW new \in Orgs, Reconcile(new) PROVE TypeOK'
    BY <2>1 DEF Reconcile
  <2>2. ASSUME NEW c \in Component, NEW s \in SubcomponentOrNone, Call(c, s)
        PROVE  TypeOK'
    BY <2>2 DEF Call, Query
  <2>3. ASSUME NEW t \in Team, VisitOwner(t) PROVE TypeOK'
    BY <2>3 DEF VisitOwner
  <2>4. ASSUME NEW t \in Team, VisitOther(t) PROVE TypeOK'
    BY <2>4 DEF VisitOther
  <2>5. CASE Finish
    BY <2>5 DEF Finish
  <2>6. CASE UNCHANGED vars
    BY <2>6 DEF vars
  <2> QED
    BY <2>1, <2>2, <2>3, <2>4, <2>5, <2>6 DEF Next
<1> QED
  BY <1>1, <1>2, PTL DEF Spec

(***************************************************************************)
(* The strengthening of AnswerIsClaimed is inductive.                      *)
(***************************************************************************)
THEOREM Inductive == Spec => []IInv
<1>1. Init => IInv
  BY DEF Init, IInv, TypeOK, LoopInv, AnswerIsClaimed
<1>2. IInv /\ TypeOK' /\ [Next]_vars => IInv'
  <2> SUFFICES ASSUME IInv, TypeOK', [Next]_vars
               PROVE  LoopInv' /\ AnswerIsClaimed'
    BY DEF IInv
  <2> USE DEF IInv
  <2>1. ASSUME NEW new \in Orgs, Reconcile(new)
        PROVE  LoopInv' /\ AnswerIsClaimed'
    BY <2>1 DEF Reconcile, LoopInv, AnswerIsClaimed
  <2>2. ASSUME NEW c \in Component, NEW s \in SubcomponentOrNone, Call(c, s)
        PROVE  LoopInv' /\ AnswerIsClaimed'
    <3>1. DOMAIN org' \ todo' = {} /\ defTeam' = Nil /\ pc' = "ranging"
      BY <2>2 DEF Call
    <3> QED
      BY <3>1 DEF LoopInv, AnswerIsClaimed
  <2>3. ASSUME NEW t \in Team, VisitOwner(t)
        PROVE  LoopInv' /\ AnswerIsClaimed'
    <3>1. t \in Owners(org, query[1], query[2])
      BY <2>3 DEF VisitOwner, TypeOK, Owners
    <3>2. answer' \in Answers(org, query[1], query[2])
      BY <2>3, <3>1 DEF VisitOwner, Answers
    <3> QED
      BY <2>3, <3>2 DEF VisitOwner, LoopInv, AnswerIsClaimed
  <2>4. ASSUME NEW t \in Team, VisitOther(t)
        PROVE  LoopInv' /\ AnswerIsClaimed'
    <3>1. AnswerIsClaimed'
      BY <2>4 DEF VisitOther, AnswerIsClaimed
    <3> QED
      BY <2>4, <3>1, VisitOtherKeepsLoopInv
  <2>5. CASE Finish
    <3>1. answer' \in Answers(org, query[1], query[2])
      BY <2>5, FinishAnswers
    <3> QED
      BY <2>5, <3>1 DEF Finish, LoopInv, AnswerIsClaimed
  <2>6. CASE UNCHANGED vars
    BY <2>6 DEF vars, LoopInv, AnswerIsClaimed
  <2> QED
    BY <2>1, <2>2, <2>3, <2>4, <2>5, <2>6 DEF Next
<1> QED
  BY <1>1, <1>2, TypeCorrect, PTL DEF Spec

(***************************************************************************)
(* GetTeamName returns a team (or "unknown") that the organisation data of *)
(* the call promises, in every iteration order and under every concurrent  *)
(* replacement of the shared data.                                         *)
(***************************************************************************)
THEOREM LookupSound == Spec => []AnswerIsClaimed
  BY Inductive, PTL DEF IInv

\* In data without overlapping claims the promise names a single team.
LEMMA UniqueAnswer ==
  ASSUME NEW o \in Orgs, Unambiguous(o),
         NEW c \in Component, NEW s \in SubcomponentOrNone,
         NEW a \in Answers(o, c, s)
  PROVE  Answers(o, c, s) = {a}
<1>1. \A t, u \in Owners(o, c, s) : t = u
  BY DEF Unambiguous, Owners
<1>2. \A t, u \in Defaults(o, c) : t = u
  BY DEF Unambiguous, Defaults, SubcomponentOrNone
<1> QED
  BY <1>1, <1>2 DEF Answers

(***************************************************************************)
(* Organisation data without overlapping claims determines the answer:     *)
(* neither the iteration order nor a concurrent reconcile can change it.   *)
(***************************************************************************)
THEOREM LookupDetermined == Spec => []AnswerIsDetermined
<1>1. IInv => AnswerIsDetermined
  BY UniqueAnswer DEF IInv, TypeOK, Query, AnswerIsClaimed, AnswerIsDetermined
<1> QED
  BY <1>1, Inductive, PTL

-----------------------------------------------------------------------------
(* CurrentVersion *)


(***************************************************************************)
(* Nothing is listed at first.                                             *)
(***************************************************************************)
LEMMA InitSorted == V!Init => V!IInv
  BY DEF V!Init, V!IInv, V!TypeOK, V!SortInv

(***************************************************************************)
(* Listing a release keeps the versions and their keys side by side.       *)
(***************************************************************************)
LEMMA VisitSorts == ASSUME V!IInv, NEW r \in Releases, V!Visit(r) PROVE V!IInv'
  <1>1. V!Listed(r) => r.version \in Nat
    BY DEF V!Listed
  <1>2. CASE V!Listed(r)
    <2>1. /\ active \in Seq(Nat) /\ active = order /\ r.version \in Nat
          /\ active' = Append(active, r.version) /\ order' = Append(order, r.version)
      BY <1>1, <1>2 DEF V!Visit, V!IInv, V!TypeOK
    <2>2. active' \in Seq(Nat) /\ active' = order'
      BY <2>1
    <2>3. /\ unvisited' \subseteq Releases /\ at = "list" /\ at' = at
          /\ i = 2 /\ j = 2 /\ i' = i /\ j' = j
      BY DEF V!Visit, V!IInv, V!TypeOK
    <2> QED BY <2>2, <2>3 DEF V!IInv, V!TypeOK, V!SortInv
  <1>3. CASE ~V!Listed(r)
    BY <1>3 DEF V!Visit, V!IInv, V!TypeOK, V!SortInv
  <1> QED BY <1>2, <1>3

(***************************************************************************)
(* At the start of the sort, the first version leads its run of one.       *)
(***************************************************************************)
LEMMA StartSortSorts == ASSUME V!IInv, V!StartSort PROVE V!IInv'
  <1>1. V!TypeOK'
    BY DEF V!StartSort, V!IInv, V!TypeOK
  <1>2. Len(order) >= 1 /\ i = 2 /\ j = 2 /\ active = order
    BY DEF V!StartSort, V!IInv, V!TypeOK
  <1>3. V!Leads(1)
    <2>1. V!Descends(1) BY DEF V!Descends
    <2> QED BY <2>1, <1>2 DEF V!Leads
  <1>4. V!SortInv'
    BY <1>2, <1>3 DEF V!StartSort, V!SortInv, V!Leads, V!Descends, V!IInv, V!TypeOK
  <1> QED BY <1>1, <1>4 DEF V!IInv

(***************************************************************************)
(* A swap moves the i-th version one place forward, past a larger key.     *)
(***************************************************************************)
LEMMA SinkSorts == ASSUME V!IInv, V!Sink PROVE V!IInv'
  <1> USE DEF V!IInv
  <1>1. /\ i \in Nat /\ j \in Nat /\ j > 1 /\ j <= i /\ i <= Len(order)
        /\ Len(active) = Len(order) /\ order[j] < order[j - 1]
        /\ active \in Seq(Nat) /\ order \in Seq(Nat)
    BY DEF V!Sink, V!Sinks, V!Less, V!TypeOK
  <1>2. /\ active' = [active EXCEPT ![j] = active[j - 1], ![j - 1] = active[j]]
        /\ j' = j - 1 /\ i' = i /\ order' = order /\ at' = "sort" /\ at = "sort"
        /\ unvisited' = unvisited
    BY DEF V!Sink
  <1>3. active' \in Seq(Nat) /\ Len(active') = Len(active)
    BY <1>1, <1>2
  <1> DEFINE swapped(k) == IF k = j - 1 THEN active[j]
                           ELSE IF k = j THEN active[j - 1] ELSE active[k]
  <1>swap. \A k \in 1..Len(active) : active'[k] = swapped(k)
    <2>1. DOMAIN active = 1..Len(active)
      BY <1>1
    <2> QED BY <2>1, <1>1, <1>2
  <1>4. V!TypeOK'
    <2>1. unvisited' \subseteq Releases
      BY <1>2 DEF V!TypeOK
    <2>2. active' \in Seq(Nat) /\ order' \in Seq(Nat) /\ Len(active') = Len(order')
      BY <1>1, <1>2, <1>3
    <2>3. /\ i' \in Nat /\ j' \in Nat
          /\ 1 <= Len(order') /\ 2 <= i' /\ 1 <= j' /\ j' <= i'
      BY <1>1, <1>2
    <2> QED BY <2>1, <2>2, <2>3, <1>2 DEF V!TypeOK
  <1>5. ASSUME NEW k \in (i + 1)..Len(order) PROVE active'[k] = order[k]
    <2>1. active[k] = order[k]
      BY <1>2 DEF V!SortInv
    <2>2. k \in 1..Len(active) /\ k # j /\ k # j - 1
      BY <1>1
    <2>3. active'[k] = active[k]
      BY <2>2, <1>swap
    <2> QED BY <2>1, <2>3
  <1>6. active'[j - 1] = order[i]
    <2>1. active[j] = order[i]
      BY <1>1, <1>2 DEF V!SortInv
    <2>2. active'[j - 1] = active[j]
      BY <1>1, <1>2
    <2> QED BY <2>1, <2>2
  <1>7. ASSUME NEW k \in j..i PROVE order[k] < order[k - 1]
    <2>1. \A m \in (j + 1)..i : m <= Len(order) => order[m] < order[m - 1]
      BY <1>2 DEF V!SortInv
    <2>2. CASE k = j
      BY <2>2, <1>1
    <2>3. CASE k # j
      BY <2>1, <2>3, <1>1
    <2> QED BY <2>2, <2>3
  <1>8. j - 1 > 1 => V!Leads(i - 1)'
    <2>1. ASSUME j - 1 > 1 PROVE active'[1] = active[1]
      <3>1. 1 \in 1..Len(active) /\ 1 # j - 1 /\ 1 # j
        BY <2>1, <1>1
      <3> QED BY <3>1, <1>swap
    <2>2. V!Leads(i - 1)
      BY <1>1, <1>2 DEF V!SortInv
    <2> QED BY <2>1, <2>2, <1>1, <1>2 DEF V!Leads, V!Descends
  <1>9. \A k \in (j' + 1)..i' : k <= Len(order') => order'[k] < order'[k - 1]
    <2>1. j' + 1 = j
      BY <1>1, <1>2
    <2> QED BY <2>1, <1>2, <1>7
  <1>10. V!SortInv'
    <2>1. ~(i' > Len(order'))
      BY <1>1, <1>2
    <2>2. j' > 1 => V!Leads(i - 1)'
      BY <1>2, <1>8
    <2>3. /\ \A k \in (i' + 1)..Len(order') : active'[k] = order'[k]
          /\ active'[j'] = order'[i']
      BY <1>2, <1>5, <1>6
    <2> QED BY <2>1, <2>2, <2>3, <1>9 DEF V!SortInv
  <1> QED BY <1>4, <1>10

(***************************************************************************)
(* When the i-th version rests, the leader is known for i versions: itself *)
(* if it came to the front, and else the leader of those before it.        *)
(***************************************************************************)
LEMMA ElementRests == ASSUME V!IInv, V!NextElement PROVE V!Leads(i)
  <1> USE DEF V!IInv
  <1>1. /\ i \in Nat /\ j \in Nat /\ 2 <= i /\ 1 <= j /\ j <= i /\ i <= Len(order)
        /\ order \in Seq(Nat) /\ at = "sort" /\ (j > 1 => ~(order[j] < order[j - 1]))
    BY DEF V!NextElement, V!Sinks, V!Less, V!TypeOK
  <1>2. CASE j = 1
    <2>1. V!Descends(i)
      BY <1>1, <1>2 DEF V!SortInv, V!Descends
    <2>2. active[1] = order[i]
      BY <1>1, <1>2 DEF V!SortInv
    <2> QED BY <2>1, <2>2, <1>1 DEF V!Leads
  <1>3. CASE j > 1
    <2>1. PICK e \in 1..(i - 1) : /\ V!Descends(e)
                                  /\ e < i - 1 => order[e + 1] >= order[e]
                                  /\ active[1] = order[e]
      BY <1>1, <1>3 DEF V!SortInv, V!Leads
    <2>2. order[j] >= order[j - 1] /\ order[j] \in Nat /\ order[j - 1] \in Nat
      BY <1>1, <1>3
    <2>3. e = i - 1 => order[e + 1] >= order[e]
      <3>1. e < j
        BY <2>1, <2>2, <1>1, <1>3 DEF V!Descends
      <3> QED BY <3>1, <2>2, <1>1
    <2> QED BY <2>1, <2>3, <1>1 DEF V!Leads
  <1> QED BY <1>1, <1>2, <1>3

(***************************************************************************)
(* The next version starts where it was listed.                            *)
(***************************************************************************)
LEMMA NextElementSorts == ASSUME V!IInv, V!NextElement PROVE V!IInv'
  <1>1. /\ i \in Nat /\ 2 <= i /\ i <= Len(order) /\ j \in Nat /\ j <= i
        /\ Len(active) = Len(order) /\ at = "sort"
        /\ active \in Seq(Nat) /\ order \in Seq(Nat)
    BY DEF V!NextElement, V!IInv, V!TypeOK
  <1>2. /\ i' = i + 1 /\ j' = i + 1
        /\ active' = active /\ order' = order /\ at' = at /\ unvisited' = unvisited
    BY DEF V!NextElement
  <1>3. V!TypeOK'
    BY <1>1, <1>2 DEF V!IInv, V!TypeOK
  <1>4. V!Leads(i - 1)'
    BY ElementRests, <1>1, <1>2 DEF V!Leads, V!Descends
  <1>5. /\ \A k \in (i' + 1)..Len(order') : active'[k] = order'[k]
        /\ i' <= Len(order') => active'[j'] = order'[i']
    BY <1>1, <1>2 DEF V!IInv, V!SortInv
  <1>6. /\ \A k \in (j' + 1)..i' : k <= Len(order') => order'[k] < order'[k - 1]
        /\ i' > Len(order') => j' = i' /\ i' = Len(order') + 1
    BY <1>1, <1>2
  <1>7. V!SortInv'
    BY <1>4, <1>5, <1>6 DEF V!SortInv
  <1> QED BY <1>3, <1>7 DEF V!IInv

(***************************************************************************)
(* Each step of CurrentVersion keeps the loop invariant.                   *)
(***************************************************************************)
LEMMA NextSorted == V!IInv /\ [V!Next]_V!vars => V!IInv'
  <1> SUFFICES ASSUME V!IInv, [V!Next]_V!vars PROVE V!IInv'
    OBVIOUS
  <1>1. ASSUME NEW r \in Releases, V!Visit(r) PROVE V!IInv'
    BY <1>1, VisitSorts
  <1>2. CASE V!NoRelease
    BY <1>2 DEF V!NoRelease, V!IInv, V!TypeOK, V!SortInv
  <1>3. CASE V!StartSort
    BY <1>3, StartSortSorts
  <1>4. CASE V!Sink
    BY <1>4, SinkSorts
  <1>5. CASE V!NextElement
    BY <1>5, NextElementSorts
  <1>6. CASE V!Return
    <2>1. at = "sort" /\ at' = "done" /\ Len(active) = Len(order) /\ i > Len(order)
      BY <1>6 DEF V!Return, V!IInv, V!TypeOK
    <2>2. V!TypeOK'
      BY <1>6, <2>1 DEF V!Return, V!IInv, V!TypeOK
    <2>3. V!SortInv'
      BY <1>6, <2>1 DEF V!Return, V!IInv, V!SortInv, V!Leads, V!Descends
    <2> QED BY <2>2, <2>3 DEF V!IInv
  <1>7. CASE UNCHANGED V!vars
    BY <1>7 DEF V!vars, V!IInv, V!TypeOK, V!SortInv, V!Leads, V!Descends
  <1> QED BY <1>1, <1>2, <1>3, <1>4, <1>5, <1>6, <1>7 DEF V!Next

(***************************************************************************)
(* After the sort, the leader of all versions is first.                    *)
(***************************************************************************)
LEMMA SortedReturns == V!IInv => V!ReturnsEndOfDescent
  <1> SUFFICES ASSUME V!IInv, at = "done" PROVE V!ReturnsEndOfDescent
    BY DEF V!ReturnsEndOfDescent
  <1>1. i = Len(order) + 1 /\ j = i /\ 1 <= Len(order) /\ Len(order) \in Nat
    BY DEF V!IInv, V!TypeOK, V!SortInv
  <1>2. V!Leads(Len(order))
    BY <1>1 DEF V!IInv, V!SortInv
  <1> QED BY <1>1, <1>2 DEF V!Leads, V!EndsDescent, V!ReturnsEndOfDescent

(***************************************************************************)
(* In every state, the indices stay in the list and the versions the sort  *)
(* has not reached are where their keys are.                               *)
(***************************************************************************)
THEOREM VersionInvariance == V!Spec => []V!IInv
  BY InitSorted, NextSorted, PTL DEF V!Spec

(***************************************************************************)
(* CurrentVersion returns the end of the descending run that the list of   *)
(* versions starts with.                                                   *)
(***************************************************************************)
THEOREM EndOfDescent == V!Spec => []V!ReturnsEndOfDescent
  BY VersionInvariance, SortedReturns, PTL

(***************************************************************************)
(* So, of at most two versions, it does return the lowest.                 *)
(***************************************************************************)
THEOREM LowestOfTwo == V!Spec => [](Len(order) <= 2 => V!ReturnsLowest)
  <1>1. V!IInv /\ V!ReturnsEndOfDescent => (Len(order) <= 2 => V!ReturnsLowest)
    <2> SUFFICES ASSUME V!IInv, V!ReturnsEndOfDescent, Len(order) <= 2, at = "done",
                        NEW m \in 1..Len(order)
                 PROVE active[1] <= order[m]
      BY DEF V!ReturnsLowest
    <2>1. PICK n \in 1..Len(order) : V!EndsDescent(n) /\ active[1] = order[n]
      BY DEF V!ReturnsEndOfDescent
    <2>2. order \in Seq(Nat) /\ Len(order) \in 1..2
      BY DEF V!IInv, V!TypeOK
    <2>3. order[m] \in Nat /\ order[n] \in Nat
      BY <2>2
    <2>4. CASE n = 1
      BY <2>1, <2>2, <2>3, <2>4 DEF V!EndsDescent
    <2>5. CASE n = 2
      BY <2>1, <2>2, <2>3, <2>5 DEF V!EndsDescent, V!Descends
    <2> QED BY <2>2, <2>4, <2>5
  <1> QED BY <1>1, VersionInvariance, EndOfDescent, PTL
=============================================================================
