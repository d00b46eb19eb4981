------------------------ MODULE BugAutomationProofs ------------------------
(***************************************************************************)
(* The rules of bug-automation settle every bug in two runs.  The first    *)
(* leaves nothing to do for the actions that unset the target release;     *)
(* with the target fixed, no action of the second makes work for another.  *)
(* The same is proved of runs of any selection of the actions, by any      *)
(* number of jobs that overlap, with people editing and calls failing; and *)
(* that no job keeps commenting.                                           *)
(***************************************************************************)
EXTENDS BugAutomation, TLAPS

\* The names in PotentialActions.
ActionName == DefaultActions \cup {"removeReviewedInSprint", "removeUpcomingSprint"}

\* No action has reason to unset the target release of the bug r.
StandsFor(r) == \A x \in UnsetsTarget : ~Matches(x, r)

\* The field tested by the queries that an update leaves alone.
Kept(b, r) ==
    /\ r.status = b.status /\ r.component = b.component
    /\ r.severity = b.severity /\ r.priority = b.priority
    /\ r.legacy = b.legacy /\ r.security = b.security /\ r.dependsOn = b.dependsOn

(***************************************************************************)
(* The names in PotentialActions are those eight.                          *)
(***************************************************************************)
LEMMA Names == \A i \in DOMAIN PotentialActions : PotentialActions[i] \in ActionName
  BY DEF PotentialActions, ActionName, DefaultActions

(***************************************************************************)
(* What an update makes of the fields of a bug.                            *)
(***************************************************************************)
LEMMA UpdatedFields ==
  ASSUME NEW a, NEW b \in Bug
  PROVE  /\ Updated(a, b) \in Bug
         /\ Kept(b, Updated(a, b))
         /\ Updated(a, b).target = IF a \in UnsetsTarget THEN "---" ELSE b.target
         /\ Updated(a, b).blocker = IF a \in RequestsBlocker THEN "?" ELSE b.blocker
         /\ Updated(a, b).reviewed = IF a = "removeReviewedInSprint" THEN FALSE ELSE b.reviewed
         /\ Updated(a, b).upcoming = IF a = "removeUpcomingSprint" THEN FALSE ELSE b.upcoming
  <1>1. Updated(a, b) \in Bug
    BY DEF Updated, Bug
  <1>2. Kept(b, Updated(a, b))
    BY DEF Updated, Bug, Kept
  <1>3. Updated(a, b).target = IF a \in UnsetsTarget THEN "---" ELSE b.target
    BY DEF Updated, Bug
  <1>4. Updated(a, b).blocker = IF a \in RequestsBlocker THEN "?" ELSE b.blocker
    BY DEF Updated, Bug
  <1>5. Updated(a, b).reviewed = IF a = "removeReviewedInSprint" THEN FALSE ELSE b.reviewed
    BY DEF Updated, Bug
  <1>6. Updated(a, b).upcoming = IF a = "removeUpcomingSprint" THEN FALSE ELSE b.upcoming
    BY DEF Updated, Bug
  <1> QED BY <1>1, <1>2, <1>3, <1>4, <1>5, <1>6

(***************************************************************************)
(* An action has nothing more to do for a bug after it has run on it.      *)
(***************************************************************************)
LEMMA RunOnOnce ==
  ASSUME NEW a \in ActionName, NEW b \in Bug
  PROVE  RunOn(a, b) \in Bug /\ ~Matches(a, RunOn(a, b))
  <1>1. CASE ~Matches(a, b)
    BY <1>1 DEF RunOn
  <1>2. CASE Matches(a, b)
    <2> DEFINE r == Updated(a, b)
    <2>1. /\ r \in Bug /\ RunOn(a, b) = r
          /\ r.target = IF a \in UnsetsTarget THEN "---" ELSE b.target
          /\ r.blocker = IF a \in RequestsBlocker THEN "?" ELSE b.blocker
          /\ r.reviewed = IF a = "removeReviewedInSprint" THEN FALSE ELSE b.reviewed
          /\ r.upcoming = IF a = "removeUpcomingSprint" THEN FALSE ELSE b.upcoming
      BY <1>2, UpdatedFields DEF RunOn
    <2> HIDE DEF r
    <2>2. ~Matches(a, r)
      BY <2>1
      DEF ActionName, DefaultActions, UnsetsTarget, RequestsBlocker, Matches,
          BlockerPlusWithoutTargetReleaseQuery, NeedsBlockerFlagQuery,
          BugsNeedBlockerFlagPriorityQuery, BugsNeedBlockerFlagSeverityQuery,
          BugsTargetOldZeroQuery, BugsWithReviewedInSprintFlagQuery,
          BugsWithUpcomingSprintQuery, TargetReleaseWithoutSeverityQuery,
          BugsWithoutZQuery
    <2> QED BY <2>1, <2>2
  <1> QED BY <1>1, <1>2

(***************************************************************************)
(* No action makes work for one that unsets the target release, and only   *)
(* these make work for others.                                             *)
(***************************************************************************)
LEMMA NoNewWork ==
  ASSUME NEW a \in ActionName, NEW x \in ActionName, NEW b \in Bug, ~Matches(x, b),
         x \in UnsetsTarget \/ a \notin UnsetsTarget \/ ~Matches(a, b)
  PROVE  ~Matches(x, RunOn(a, b))
  <1>1. CASE ~Matches(a, b)
    BY <1>1 DEF RunOn
  <1>2. CASE Matches(a, b)
    <2> DEFINE r == Updated(a, b)
    <2>1. /\ r \in Bug /\ RunOn(a, b) = r /\ Kept(b, r)
          /\ r.target = IF a \in UnsetsTarget THEN "---" ELSE b.target
          /\ r.blocker = IF a \in RequestsBlocker THEN "?" ELSE b.blocker
          /\ r.reviewed = IF a = "removeReviewedInSprint" THEN FALSE ELSE b.reviewed
          /\ r.upcoming = IF a = "removeUpcomingSprint" THEN FALSE ELSE b.upcoming
      BY <1>2, UpdatedFields DEF RunOn
    <2> HIDE DEF r
    <2>2. CASE x \in UnsetsTarget
      BY <1>2, <2>1, <2>2
      DEF ActionName, DefaultActions, UnsetsTarget, RequestsBlocker, Kept, Matches,
          InProduct, DefaultQuery, BlockerPlusWithoutTargetReleaseQuery,
          BugsTargetOldZeroQuery, NeedsBlockerFlagQuery,
          BugsNeedBlockerFlagPriorityQuery, BugsNeedBlockerFlagSeverityQuery,
          TargetReleaseWithoutSeverityQuery, BugsWithoutZQuery
    <2>3. CASE x \notin UnsetsTarget
      <3>1. a \notin UnsetsTarget
        BY <1>2, <2>3
      <3>2. r.target = b.target /\ (r.blocker = b.blocker \/ r.blocker = "?")
            /\ (r.reviewed => b.reviewed) /\ (r.upcoming => b.upcoming)
        BY <2>1, <3>1 DEF Bug
      <3> QED
        BY <2>1, <2>3, <3>2
        DEF ActionName, DefaultActions, UnsetsTarget, Kept, Matches,
            InProduct, DefaultQuery, BlockerPlusWithoutTargetReleaseQuery,
            NeedsBlockerFlagQuery, BugsNeedBlockerFlagPriorityQuery,
            BugsNeedBlockerFlagSeverityQuery, BugsWithReviewedInSprintFlagQuery,
            BugsWithUpcomingSprintQuery
    <2> QED BY <2>2, <2>3
  <1> QED BY <1>1, <1>2

(***************************************************************************)
(* So the target release keeps standing.                                   *)
(***************************************************************************)
LEMMA TargetStillStands ==
  ASSUME NEW a \in ActionName, NEW b \in Bug, StandsFor(b)
  PROVE  StandsFor(RunOn(a, b))
  BY NoNewWork DEF StandsFor, ActionName, DefaultActions, UnsetsTarget

(***************************************************************************)
(* A run leaves the actions that unset the target release nothing to do.   *)
(***************************************************************************)
LEMMA FirstRun ==
  ASSUME NEW b \in Bug
  PROVE  UndisturbedRun(b) \in Bug /\ StandsFor(UndisturbedRun(b))
  <1> DEFINE b1 == RunOn("blockerPlusWithoutTargetRelease", b)
             b2 == RunOn("bugsNeedBlockerFlagPriority", b1)
             b3 == RunOn("bugsNeedBlockerFlagSeverity", b2)
             b4 == RunOn("bugsTargetOldZero", b3)
             b5 == RunOn("removeReviewedInSprint", b4)
             b6 == RunOn("removeUpcomingSprint", b5)
             b7 == RunOn("targetReleaseWithoutSeverity", b6)
             b8 == RunOn("zNoDepends", b7)
  <1>1. /\ "blockerPlusWithoutTargetRelease" \in ActionName
        /\ "bugsNeedBlockerFlagPriority" \in ActionName
        /\ "bugsNeedBlockerFlagSeverity" \in ActionName
        /\ "bugsTargetOldZero" \in ActionName
        /\ "removeReviewedInSprint" \in ActionName
        /\ "removeUpcomingSprint" \in ActionName
        /\ "targetReleaseWithoutSeverity" \in ActionName
        /\ "zNoDepends" \in ActionName
    BY DEF ActionName, DefaultActions
  <1>2. b1 \in Bug
    BY <1>1, RunOnOnce
  <1>3. b2 \in Bug
    BY <1>1, <1>2, RunOnOnce
  <1>4. b3 \in Bug
    BY <1>1, <1>3, RunOnOnce
  <1>5. b4 \in Bug /\ ~Matches("bugsTargetOldZero", b4)
    BY <1>1, <1>4, RunOnOnce
  <1>6. b5 \in Bug /\ ~Matches("bugsTargetOldZero", b5)
    BY <1>1, <1>5, RunOnOnce, NoNewWork DEF UnsetsTarget
  <1>7. b6 \in Bug /\ ~Matches("bugsTargetOldZero", b6)
    BY <1>1, <1>6, RunOnOnce, NoNewWork DEF UnsetsTarget
  <1>8. b7 \in Bug /\ ~Matches("bugsTargetOldZero", b7)
        /\ ~Matches("targetReleaseWithoutSeverity", b7)
    BY <1>1, <1>7, RunOnOnce, NoNewWork DEF UnsetsTarget
  <1>9. b8 \in Bug /\ ~Matches("bugsTargetOldZero", b8)
        /\ ~Matches("targetReleaseWithoutSeverity", b8) /\ ~Matches("zNoDepends", b8)
    BY <1>1, <1>8, RunOnOnce, NoNewWork DEF UnsetsTarget
  <1>10. UndisturbedRun(b) = b8
    BY DEF UndisturbedRun
  <1> QED BY <1>9, <1>10 DEF StandsFor, UnsetsTarget

(***************************************************************************)
(* A run that begins like this leaves no action anything to do.            *)
(***************************************************************************)
LEMMA SecondRun ==
  ASSUME NEW b \in Bug, StandsFor(b), NEW x \in ActionName
  PROVE  ~Matches(x, UndisturbedRun(b))
  <1> DEFINE b1 == RunOn("blockerPlusWithoutTargetRelease", b)
             b2 == RunOn("bugsNeedBlockerFlagPriority", b1)
             b3 == RunOn("bugsNeedBlockerFlagSeverity", b2)
             b4 == RunOn("bugsTargetOldZero", b3)
             b5 == RunOn("removeReviewedInSprint", b4)
             b6 == RunOn("removeUpcomingSprint", b5)
             b7 == RunOn("targetReleaseWithoutSeverity", b6)
             b8 == RunOn("zNoDepends", b7)
  <1>1. /\ "blockerPlusWithoutTargetRelease" \in ActionName
        /\ "bugsNeedBlockerFlagPriority" \in ActionName
        /\ "bugsNeedBlockerFlagSeverity" \in ActionName
        /\ "bugsTargetOldZero" \in ActionName
        /\ "removeReviewedInSprint" \in ActionName
        /\ "removeUpcomingSprint" \in ActionName
        /\ "targetReleaseWithoutSeverity" \in ActionName
        /\ "zNoDepends" \in ActionName
    BY DEF ActionName, DefaultActions
  <1>2. ASSUME NEW a \in ActionName, NEW c \in Bug, StandsFor(c), NEW y \in ActionName,
               ~Matches(y, c) \/ y = a
        PROVE  ~Matches(y, RunOn(a, c))
    BY <1>2, RunOnOnce, NoNewWork DEF StandsFor
  <1>3. b1 \in Bug /\ StandsFor(b1)
    BY <1>1, RunOnOnce, TargetStillStands
  <1>4. b2 \in Bug /\ StandsFor(b2)
    BY <1>1, <1>3, RunOnOnce, TargetStillStands
  <1>5. b3 \in Bug /\ StandsFor(b3)
    BY <1>1, <1>4, RunOnOnce, TargetStillStands
  <1>6. b4 \in Bug /\ StandsFor(b4)
    BY <1>1, <1>5, RunOnOnce, TargetStillStands
  <1>7. b5 \in Bug /\ StandsFor(b5)
    BY <1>1, <1>6, RunOnOnce, TargetStillStands
  <1>8. b6 \in Bug /\ StandsFor(b6)
    BY <1>1, <1>7, RunOnOnce, TargetStillStands
  <1>9. b7 \in Bug /\ StandsFor(b7)
    BY <1>1, <1>8, RunOnOnce, TargetStillStands
  <1>10. b8 \in Bug /\ StandsFor(b8)
    BY <1>1, <1>9, RunOnOnce, TargetStillStands
  <1>11. UndisturbedRun(b) = b8
    BY DEF UndisturbedRun
  <1>12. PICK n \in 1..8 : x = PotentialActions[n]
    BY DEF ActionName, DefaultActions, PotentialActions
  <1>13. n <= 1 => ~Matches(x, b1)
    BY <1>1, <1>2, <1>12 DEF PotentialActions
  <1>14. n <= 2 => ~Matches(x, b2)
    BY <1>1, <1>2, <1>12, <1>3, <1>13 DEF PotentialActions
  <1>15. n <= 3 => ~Matches(x, b3)
    BY <1>1, <1>2, <1>12, <1>4, <1>14 DEF PotentialActions
  <1>16. n <= 4 => ~Matches(x, b4)
    BY <1>1, <1>2, <1>12, <1>5, <1>15 DEF PotentialActions
  <1>17. n <= 5 => ~Matches(x, b5)
    BY <1>1, <1>2, <1>12, <1>6, <1>16 DEF PotentialActions
  <1>18. n <= 6 => ~Matches(x, b6)
    BY <1>1, <1>2, <1>12, <1>7, <1>17 DEF PotentialActions
  <1>19. n <= 7 => ~Matches(x, b7)
    BY <1>1, <1>2, <1>12, <1>8, <1>18 DEF PotentialActions
  <1>20. n <= 8 => ~Matches(x, b8)
    BY <1>1, <1>2, <1>12, <1>9, <1>19 DEF PotentialActions
  <1> QED BY <1>11, <1>20

(***************************************************************************)
(* Two runs leave nothing to do, whatever the bug is.                      *)
(***************************************************************************)
THEOREM RulesHaveNoCycle == RulesSettle
  <1> SUFFICES ASSUME NEW b \in Bug, NEW i \in DOMAIN PotentialActions
               PROVE  ~Matches(PotentialActions[i], UndisturbedRun(UndisturbedRun(b)))
    BY DEF RulesSettle
  <1> QED BY Names, FirstRun, SecondRun

(***************************************************************************)
(* The selected actions are among the potential ones.                      *)
(***************************************************************************)
LEMMA ActionsAre ==
  /\ Actions \subseteq DOMAIN PotentialActions
  /\ DOMAIN PotentialActions = 1..8
  /\ \A i \in DOMAIN PotentialActions : PotentialActions[i] \in ActionName
  BY Names DEF Actions, SelectActions, PotentialActions

(***************************************************************************)
(* An update never gives a bug a reason for a comment, one that comments   *)
(* takes a reason away, and its own if its search is not outdated.         *)
(***************************************************************************)
LEMMA ReasonsGo ==
  ASSUME NEW a \in ActionName, NEW r \in Bug
  PROVE  /\ Reasons(r) \in 0..2
         /\ Reasons(Updated(a, r)) \in 0..2 /\ Reasons(Updated(a, r)) <= Reasons(r)
         /\ a \in Comments =>
              Reasons(r) <= 1 + Reasons(Updated(a, r)) /\ 1 + Reasons(Updated(a, r)) <= 2
         /\ a \in Comments /\ Matches(a, r) => 1 + Reasons(Updated(a, r)) <= Reasons(r)
<1> DEFINE u == Updated(a, r)
<1>1. /\ u \in Bug /\ u.target = (IF a \in UnsetsTarget THEN "---" ELSE r.target)
      /\ u.blocker = IF a \in RequestsBlocker THEN "?" ELSE r.blocker
  BY UpdatedFields
<1> HIDE DEF u
<1>2. /\ Reasons(r) \in 0..2 /\ Reasons(u) \in 0..2 /\ Reasons(u) <= Reasons(r)
  BY <1>1 DEF Reasons
<1>3. ASSUME a \in Comments PROVE Reasons(r) <= 1 + Reasons(u) /\ 1 + Reasons(u) <= 2
  BY <1>1, <1>3 DEF Reasons, Comments, UnsetsTarget, RequestsBlocker
<1>4. ASSUME a \in Comments, Matches(a, r) PROVE 1 + Reasons(u) <= Reasons(r)
  <2>1. a \in UnsetsTarget => r.target # "---"
    BY <1>4 DEF UnsetsTarget, Matches, BugsTargetOldZeroQuery,
                TargetReleaseWithoutSeverityQuery, BugsWithoutZQuery
  <2>2. a = "blockerPlusWithoutTargetRelease" => r.blocker = "+"
    BY <1>4 DEF Matches, BlockerPlusWithoutTargetReleaseQuery
  <2> QED BY <1>1, <1>4, <2>1, <2>2 DEF Reasons, Comments, UnsetsTarget, RequestsBlocker
<1> QED
  BY <1>2, <1>3, <1>4 DEF u

(***************************************************************************)
(* Updates by one job take no reason away from the comments of another     *)
(* that the other could still count on.                                    *)
(***************************************************************************)
LEMMA ReasonsGoTogether ==
  ASSUME NEW a \in ActionName, NEW x \in ActionName, NEW r \in Bug
  PROVE  /\ Reasons(Updated(x, Updated(a, r))) \in 0..2
         /\ Reasons(Updated(x, Updated(a, r))) <= Reasons(Updated(x, r))
<1> DEFINE u == Updated(a, r)
           v == Updated(x, r)
           w == Updated(x, u)
<1>1. /\ u \in Bug /\ u.target = (IF a \in UnsetsTarget THEN "---" ELSE r.target)
      /\ u.blocker = IF a \in RequestsBlocker THEN "?" ELSE r.blocker
  BY UpdatedFields
<1>2. /\ v.target = (IF x \in UnsetsTarget THEN "---" ELSE r.target)
      /\ v.blocker = IF x \in RequestsBlocker THEN "?" ELSE r.blocker
  BY UpdatedFields
<1> HIDE DEF u, v
<1>3. /\ w.target = (IF x \in UnsetsTarget THEN "---" ELSE u.target)
      /\ w.blocker = IF x \in RequestsBlocker THEN "?" ELSE u.blocker
  BY <1>1, UpdatedFields
<1> HIDE DEF w
<1>4. Reasons(w) \in 0..2 /\ Reasons(w) <= Reasons(v)
  BY <1>1, <1>2, <1>3 DEF Reasons
<1> QED
  BY <1>4 DEF u, v, w

(***************************************************************************)
(* The types, as facts about single jobs and bugs.                         *)
(***************************************************************************)
LEMMA Types ==
  ASSUME TypeOK
  PROVE  /\ \A b \in BugID : bug[b] \in Bug /\ settled[b] \in 0..2
         /\ \A j \in Job : current[j] \in DOMAIN PotentialActions
                          /\ ActionOf(j) \in ActionName /\ found[j] \subseteq BugID
         /\ \A j \in Job, b \in BugID : comments[j][b] \in 0..3 /\ base[j][b] \in 0..3
         /\ \A i \in Actions : i \in 1..8 /\ PotentialActions[i] \in ActionName
  BY ActionsAre DEF TypeOK, MaxComments, Disturbed, ActionOf

(***************************************************************************)
(* What a job can still make of comments is at least what the bug gives a  *)
(* reason for, and an edit does not take it beyond two.                    *)
(***************************************************************************)
LEMMA DueBounds ==
  TypeOK => \A j \in Job, b \in BugID :
              /\ Due(j, b) \in 0..2 /\ Reasons(bug[b]) \in 0..2
              /\ Reasons(bug[b]) <= Due(j, b)
<1> SUFFICES ASSUME TypeOK, NEW j \in Job, NEW b \in BugID
             PROVE  /\ Due(j, b) \in 0..2 /\ Reasons(bug[b]) \in 0..2
                    /\ Reasons(bug[b]) <= Due(j, b)
  OBVIOUS
<1>1. bug[b] \in Bug /\ ActionOf(j) \in ActionName
  BY Types
<1> QED
  BY <1>1, ReasonsGo DEF Due

(***************************************************************************)
(* A disturbed bug: the count of the runs starts again.                    *)
(***************************************************************************)
LEMMA DisturbMeans ==
  ASSUME TypeOK, NEW b \in BugID, Disturb(b)
  PROVE  /\ settled' \in [BugID -> 0..2] /\ base' \in [Job -> [BugID -> 0..Disturbed]]
         /\ settled'[b] = 0 /\ \A c \in BugID \ {b} : settled'[c] = settled[c]
         /\ \A j \in Job : base'[j][b] = 3 /\ \A c \in BugID \ {b} : base'[j][c] = base[j][c]
<1>1. settled' = [settled EXCEPT ![b] = 0] /\ settled \in [BugID -> 0..2]
  BY DEF Disturb, TypeOK
<1>2. /\ base' = [j \in Job |-> [base[j] EXCEPT ![b] = Disturbed]]
      /\ \A j \in Job : base[j] \in [BugID -> 0..Disturbed]
      /\ Disturbed = 3
  BY DEF Disturb, TypeOK, Disturbed
<1>3. ASSUME NEW j \in Job
      PROVE  /\ base'[j] \in [BugID -> 0..Disturbed]
             /\ base'[j][b] = 3 /\ \A c \in BugID \ {b} : base'[j][c] = base[j][c]
  <2>1. base'[j] = [base[j] EXCEPT ![b] = Disturbed] /\ base[j] \in [BugID -> 0..Disturbed]
    BY <1>2
  <2> QED BY <1>2, <2>1
<1>4. base' \in [Job -> [BugID -> 0..Disturbed]]
  BY <1>2, <1>3
<1> QED
  BY <1>1, <1>3, <1>4

(***************************************************************************)
(* What holds of a bug and of a job's work on it depends on these parts of *)
(* the state alone.                                                        *)
(***************************************************************************)
LEMMA SameBug ==
  ASSUME NEW b \in BugID, bug'[b] = bug[b], settled'[b] = settled[b], Settled(b)
  PROVE  Settled(b)'
  BY DEF Settled, TargetStands, Quiescent

LEMMA SameWork ==
  ASSUME NEW j \in Job, NEW b \in BugID, bug'[b] = bug[b], base'[j][b] = base[j][b],
         pc'[j] = pc[j], current'[j] = current[j], b \in found'[j] <=> b \in found[j],
         comments'[j][b] = comments[j][b],
         Achieved(j, b), comments[j][b] + Due(j, b) <= 2
  PROVE  Achieved(j, b)' /\ comments'[j][b] + Due(j, b)' <= 2
<1>1. ActionOf(j)' = ActionOf(j)
  BY DEF ActionOf
<1>2. Due(j, b)' = Due(j, b)
  BY <1>1 DEF Due
<1>3. Achieved(j, b)'
  BY DEF Achieved, Done, TargetStands
<1> QED
  BY <1>2, <1>3

(***************************************************************************)
(* A disturbed bug promises nothing.                                       *)
(***************************************************************************)
LEMMA DisturbedPromisesNothing ==
  ASSUME NEW b \in BugID, settled'[b] = 0
  PROVE  Settled(b)' /\ \A j \in Job : base'[j][b] = 3 => Achieved(j, b)'
  BY DEF Settled, Achieved

(***************************************************************************)
(* At first there is nothing to promise, and a bug gives reasons for two   *)
(* comments at most.                                                       *)
(***************************************************************************)
LEMMA InitIInv == Init => IInv
<1> SUFFICES ASSUME Init PROVE IInv
  OBVIOUS
<1>1. TypeOK
  <2>1. bug \in [BugID -> Bug]
    BY ConstantAssumption DEF Init
  <2>2. current \in [Job -> DOMAIN PotentialActions]
    BY ActionsAre DEF Init
  <2>3. comments \in [Job -> [BugID -> 0..MaxComments]]
    BY DEF Init, MaxComments
  <2>4. base \in [Job -> [BugID -> 0..Disturbed]]
    BY DEF Init, Disturbed
  <2> QED BY <2>1, <2>2, <2>3, <2>4, ConstantAssumption DEF Init, TypeOK
<1>2. JobInv
  BY DEF Init, JobInv
<1>3. \A b \in BugID : Settled(b)
  BY DEF Init, Settled
<1>4. ASSUME NEW j \in Job, NEW b \in BugID
      PROVE  Achieved(j, b) /\ comments[j][b] + Due(j, b) <= 2
  <2>1. Achieved(j, b)
    BY DEF Init, Achieved
  <2>2. comments[j][b] = 0
    BY DEF Init
  <2> QED BY <1>1, <2>1, <2>2, DueBounds
<1> QED
  BY <1>1, <1>2, <1>3, <1>4 DEF IInv

(***************************************************************************)
(* Somebody edits a bug: it promises nothing more, and comments are        *)
(* counted anew.                                                           *)
(***************************************************************************)
LEMMA EditIInv ==
  ASSUME IInv, NEW b \in BugID, NEW r \in EditedBugs, Edit(b, r)
  PROVE  IInv'
<1>1. /\ TypeOK /\ edits < MaxEdits /\ edits' = edits + 1
      /\ bug' = [bug EXCEPT ![b] = r]
      /\ comments' = [j \in Job |-> [comments[j] EXCEPT ![b] = 0]]
      /\ Disturb(b) /\ UNCHANGED <<pc, current, found, faults>>
  BY DEF Edit, IInv
<1>2. \A j \in Job : /\ comments'[j] \in [BugID -> 0..MaxComments] /\ comments'[j][b] = 0
                     /\ \A c \in BugID \ {b} : comments'[j][c] = comments[j][c]
  <2> SUFFICES ASSUME NEW j \in Job
               PROVE  /\ comments'[j] \in [BugID -> 0..MaxComments] /\ comments'[j][b] = 0
                      /\ \A c \in BugID \ {b} : comments'[j][c] = comments[j][c]
    OBVIOUS
  <2>1. comments'[j] = [comments[j] EXCEPT ![b] = 0] /\ comments[j] \in [BugID -> 0..MaxComments]
    BY <1>1 DEF TypeOK
  <2> QED BY <2>1 DEF MaxComments
<1>3. TypeOK'
  <2>1. comments' \in [Job -> [BugID -> 0..MaxComments]]
    BY <1>1, <1>2
  <2>2. bug' \in [BugID -> Bug]
    BY <1>1, ConstantAssumption DEF TypeOK
  <2>3. edits' \in 0..MaxEdits
    BY <1>1, ConstantAssumption DEF TypeOK
  <2> QED BY <1>1, <2>1, <2>2, <2>3, DisturbMeans DEF TypeOK
<1>4. JobInv'
  BY <1>1 DEF IInv, JobInv
<1>5. ASSUME NEW c \in BugID, c # b
      PROVE  bug'[c] = bug[c] /\ settled'[c] = settled[c] /\ \A j \in Job : base'[j][c] = base[j][c]
  BY <1>1, <1>5, DisturbMeans DEF TypeOK
<1>6. \A c \in BugID : Settled(c)'
  BY <1>1, <1>5, DisturbMeans, DisturbedPromisesNothing, SameBug DEF IInv
<1>7. ASSUME NEW j \in Job, NEW c \in BugID
      PROVE  Achieved(j, c)' /\ comments'[j][c] + Due(j, c)' <= 2
  <2>1. CASE c = b
    <3>1. Achieved(j, c)'
      BY <1>1, <2>1, DisturbMeans, DisturbedPromisesNothing
    <3>2. bug'[c] = r /\ r \in Bug /\ ActionOf(j)' = ActionOf(j) /\ ActionOf(j) \in ActionName
      BY <1>1, <2>1, ConstantAssumption, Types DEF ActionOf, TypeOK
    <3>3. Due(j, c)' \in 0..2
      BY <3>2, ReasonsGo DEF Due
    <3> QED BY <1>2, <2>1, <3>1, <3>3
  <2>2. CASE c # b
    BY <1>1, <1>2, <1>5, <2>2, SameWork DEF IInv
  <2> QED BY <2>1, <2>2
<1> QED
  BY <1>3, <1>4, <1>6, <1>7 DEF IInv

(***************************************************************************)
(* An update is applied.  If it is not outdated it leaves its own action   *)
(* nothing to do, and it undoes nothing that the runs have achieved.       *)
(***************************************************************************)
LEMMA ApplyIInv ==
  ASSUME IInv, NEW j \in Job, NEW b \in BugID, Apply(j, b),
         pc[j] = "update", b \in found[j], found' = [found EXCEPT ![j] = found[j] \ {b}],
         UNCHANGED <<pc, current, edits>>, faults' \in 0..MaxFaults
  PROVE  IInv'
<1> DEFINE a == ActionOf(j)
<1>1. /\ TypeOK /\ a \in ActionName /\ bug[b] \in Bug /\ current[j] \in Actions
      /\ \A k \in Job : ActionOf(k)' = ActionOf(k) /\ ActionOf(k) \in ActionName
      /\ \A i \in Actions : i \in 1..8 /\ PotentialActions[i] \in ActionName
  BY Types DEF IInv, JobInv, ActionOf
<1>2. /\ bug' = [bug EXCEPT ![b] = Updated(a, bug[b])] /\ Updated(a, bug[b]) \in Bug
      /\ bug' \in [BugID -> Bug]
      /\ bug'[b] = Updated(a, bug[b]) /\ \A c \in BugID \ {b} : bug'[c] = bug[c]
  BY <1>1, UpdatedFields DEF Apply, TypeOK
<1>3. /\ found' \in [Job -> SUBSET BugID] /\ b \notin found'[j]
      /\ \A k \in Job, c \in BugID : k # j \/ c # b => (c \in found'[k] <=> c \in found[k])
  BY <1>1 DEF TypeOK
<1>4. /\ comments' \in [Job -> [BugID -> 0..MaxComments]]
      /\ comments'[j][b] = IF a \in Comments /\ comments[j][b] < 3
                          THEN comments[j][b] + 1 ELSE comments[j][b]
      /\ \A k \in Job, c \in BugID : k # j \/ c # b => comments'[k][c] = comments[k][c]
  <2> DEFINE n == IF a \in Comments /\ comments[j][b] < 3
                  THEN comments[j][b] + 1 ELSE comments[j][b]
             row == [comments[j] EXCEPT ![b] = n]
  <2>1. comments' = [comments EXCEPT ![j] = row]
    BY <1>1 DEF Apply, TypeOK, MaxComments
  <2>2. n \in 0..MaxComments /\ comments[j] \in [BugID -> 0..MaxComments]
    BY <1>1 DEF TypeOK, MaxComments
  <2>3. row \in [BugID -> 0..MaxComments] /\ row[b] = n
        /\ \A c \in BugID \ {b} : row[c] = comments[j][c]
    BY <2>2
  <2>4. comments \in [Job -> [BugID -> 0..MaxComments]]
    BY <1>1 DEF TypeOK
  <2> HIDE DEF row
  <2>5. /\ comments' \in [Job -> [BugID -> 0..MaxComments]] /\ comments'[j] = row
        /\ \A k \in Job \ {j} : comments'[k] = comments[k]
    BY <2>1, <2>3, <2>4
  <2> QED BY <2>3, <2>5
<1>5. /\ settled' \in [BugID -> 0..2] /\ base' \in [Job -> [BugID -> 0..Disturbed]]
      /\ \A c \in BugID \ {b} : settled'[c] = settled[c]
      /\ \A k \in Job, c \in BugID \ {b} : base'[k][c] = base[k][c]
      /\ Matches(a, bug[b]) => settled' = settled /\ base' = base
      /\ ~Matches(a, bug[b]) => settled'[b] = 0 /\ \A k \in Job : base'[k][b] = 3
  <2>1. CASE Matches(a, bug[b])
    BY <1>1, <2>1 DEF Apply, TypeOK
  <2>2. CASE ~Matches(a, bug[b])
    BY <1>1, <2>2, DisturbMeans DEF Apply
  <2> QED BY <2>1, <2>2
<1>6. TypeOK'
  BY <1>1, <1>2, <1>3, <1>4, <1>5 DEF TypeOK
<1>7. JobInv'
  <2>1. ASSUME NEW k \in Job, pc[k] # "update" PROVE found'[k] = {}
    BY <1>1, <2>1 DEF IInv, JobInv, TypeOK
  <2> QED BY <2>1 DEF IInv, JobInv
<1>8. ASSUME Matches(a, bug[b]), NEW i \in Actions, ~Matches(PotentialActions[i], bug[b]),
             PotentialActions[i] \in UnsetsTarget \/ TargetStands(b)
      PROVE  ~Matches(PotentialActions[i], bug'[b])
  <2>1. RunOn(a, bug[b]) = bug'[b]
    BY <1>2, <1>8 DEF RunOn
  <2>2. a = PotentialActions[current[j]]
    BY DEF ActionOf
  <2>3. PotentialActions[i] \in UnsetsTarget \/ a \notin UnsetsTarget
    BY <1>1, <1>8, <2>2 DEF TargetStands
  <2> HIDE DEF a
  <2> QED BY <1>1, <1>8, <2>1, <2>3, NoNewWork
<1>9. Matches(a, bug[b]) => ~Matches(a, bug'[b])
  <2>1. Matches(a, bug[b]) => RunOn(a, bug[b]) = bug'[b]
    BY <1>2 DEF RunOn
  <2> QED BY <1>1, <2>1, RunOnOnce
<1>10. Matches(a, bug[b]) /\ TargetStands(b) => TargetStands(b)'
  BY <1>8 DEF TargetStands
<1>11. ASSUME NEW c \in BugID PROVE Settled(c)'
  <2>1. CASE c # b
    BY <1>2, <1>5, <2>1, SameBug DEF IInv
  <2>2. CASE c = b /\ Matches(a, bug[b])
    <3>1. settled[b] # 2
      BY <1>1, <2>2 DEF IInv, Settled, Quiescent, ActionOf
    <3> QED BY <1>5, <1>10, <2>2, <3>1 DEF IInv, Settled
  <2>3. CASE c = b /\ ~Matches(a, bug[b])
    BY <1>5, <2>3, DisturbedPromisesNothing
  <2> QED BY <2>1, <2>2, <2>3
<1>12. ASSUME NEW k \in Job PROVE Achieved(k, b)'
  <2>1. CASE Matches(a, bug[b])
    <3>1. Achieved(k, b) /\ base'[k][b] = base[k][b] /\ pc'[k] = pc[k] /\ current'[k] = current[k]
      BY <1>5, <2>1 DEF IInv
    <3>2. base[k][b] \in {1, 2} => TargetStands(b)'
      BY <1>10, <2>1, <3>1 DEF Achieved
    <3>3. ASSUME pc[k] # "off", NEW i \in Actions, Done(k, i, b)',
                 \/ base[k][b] = 0 /\ PotentialActions[i] \in UnsetsTarget
                 \/ base[k][b] = 1
          PROVE  ~Matches(PotentialActions[i], bug'[b])
      <4>1. CASE Done(k, i, b)
        <5>1. ~Matches(PotentialActions[i], bug[b])
          BY <3>1, <3>3, <4>1 DEF Achieved
        <5>2. PotentialActions[i] \in UnsetsTarget \/ TargetStands(b)
          BY <3>1, <3>3 DEF Achieved
        <5> QED BY <1>8, <2>1, <5>1, <5>2
      <4>2. CASE ~Done(k, i, b)
        <5>1. k = j /\ i = current[j]
          BY <1>3, <3>3, <4>2 DEF Done
        <5> QED BY <1>9, <2>1, <5>1 DEF ActionOf
      <4> QED BY <4>1, <4>2
    <3> QED BY <3>1, <3>2, <3>3 DEF Achieved
  <2>2. CASE ~Matches(a, bug[b])
    BY <1>5, <2>2, DisturbedPromisesNothing
  <2> QED BY <2>1, <2>2
<1>13. ASSUME NEW k \in Job PROVE comments'[k][b] + Due(k, b)' <= 2
  <2>1. comments[k][b] + Due(k, b) <= 2 /\ comments[k][b] \in 0..3
    BY <1>1, Types DEF IInv
  <2> DEFINE u == Updated(a, bug[b])
  <2>2. /\ Reasons(u) \in 0..2 /\ Reasons(u) <= Reasons(bug[b]) /\ Reasons(bug[b]) \in 0..2
    BY <1>1, ReasonsGo
  <2>3. CASE k = j
    <3>1. Due(j, b)' = Reasons(u)
      BY <1>2, <1>3 DEF Due
    <3>2. Due(j, b) = IF a \in Comments THEN 1 + Reasons(u) ELSE Reasons(bug[b])
      BY DEF Due
    <3> HIDE DEF u, a
    <3> QED BY <1>4, <2>1, <2>2, <2>3, <3>1, <3>2
  <2>4. CASE k # j
    <3>1. comments'[k][b] = comments[k][b] /\ (b \in found'[k] <=> b \in found[k])
      BY <1>3, <1>4, <2>4
    <3>2. CASE b \in found[k] /\ ActionOf(k) \in Comments
      <4>1. Due(k, b)' = 1 + Reasons(Updated(ActionOf(k), u))
        BY <1>1, <1>2, <3>1, <3>2 DEF Due
      <4>2. Due(k, b) = 1 + Reasons(Updated(ActionOf(k), bug[b]))
        BY <3>2 DEF Due
      <4>3. /\ Reasons(Updated(ActionOf(k), u)) \in 0..2
            /\ Reasons(Updated(ActionOf(k), u)) <= Reasons(Updated(ActionOf(k), bug[b]))
            /\ Reasons(Updated(ActionOf(k), bug[b])) \in 0..2
        BY <1>1, ReasonsGo, ReasonsGoTogether
      <4> QED BY <2>1, <3>1, <4>1, <4>2, <4>3
    <3>3. CASE ~(b \in found[k] /\ ActionOf(k) \in Comments)
      <4>1. Due(k, b)' = Reasons(u) /\ Due(k, b) = Reasons(bug[b])
        BY <1>1, <1>2, <3>1, <3>3 DEF Due
      <4> QED BY <2>1, <2>2, <3>1, <4>1
    <3> QED BY <3>2, <3>3
  <2> QED BY <2>3, <2>4
<1>14. ASSUME NEW k \in Job, NEW c \in BugID
       PROVE  Achieved(k, c)' /\ comments'[k][c] + Due(k, c)' <= 2
  <2>1. CASE c # b
    BY <1>2, <1>3, <1>4, <1>5, <2>1, SameWork DEF IInv
  <2> QED BY <1>12, <1>13, <2>1
<1> QED
  BY <1>6, <1>7, <1>11, <1>14 DEF IInv

(***************************************************************************)
(* Other steps of a job leave the bugs, the comments and the other jobs    *)
(* alone.                                                                  *)
(***************************************************************************)
LEMMA StepOfJob ==
  ASSUME IInv, TypeOK', JobInv', NEW j \in Job, UNCHANGED <<bug, comments>>,
         \A k \in Job \ {j} : /\ pc'[k] = pc[k] /\ current'[k] = current[k]
                              /\ found'[k] = found[k] /\ base'[k] = base[k],
         \A b \in BugID : Settled(b)' /\ Achieved(j, b)' /\ Due(j, b)' <= Due(j, b)
  PROVE  IInv'
<1>1. ASSUME NEW k \in Job, NEW b \in BugID
      PROVE  Achieved(k, b)' /\ comments'[k][b] + Due(k, b)' <= 2
  <2>1. CASE k # j
    BY <2>1, SameWork DEF IInv
  <2>2. CASE k = j
    <3>1. /\ comments[j][b] + Due(j, b) <= 2 /\ comments[j][b] \in 0..3
          /\ Due(j, b) \in 0..2 /\ Due(j, b)' <= Due(j, b)
      BY Types, DueBounds DEF IInv
    <3>2. Due(j, b)' \in 0..2
      <4>1. bug[b] \in Bug /\ ActionOf(j)' \in ActionName
        BY Types, ActionsAre DEF IInv, TypeOK, ActionOf
      <4> QED BY <4>1, ReasonsGo DEF Due
    <3> QED BY <2>2, <3>1, <3>2
  <2> QED BY <2>1, <2>2
<1> QED
  BY <1>1 DEF IInv

(***************************************************************************)
(* A run starts, with nothing behind it but the runs before.               *)
(***************************************************************************)
LEMMA StartRunIInv == ASSUME IInv, NEW j \in Job, StartRun(j) PROVE IInv'
<1>1. PICK i \in Actions : IsNext(i, 0) /\ current' = [current EXCEPT ![j] = i]
  BY DEF StartRun
<1>2. /\ TypeOK /\ pc[j] = "off" /\ pc' = [pc EXCEPT ![j] = "search"]
      /\ base' = [base EXCEPT ![j] = settled]
      /\ UNCHANGED <<bug, found, edits, faults, comments, settled>> /\ found[j] = {}
  BY DEF StartRun, IInv, JobInv
<1>3. /\ pc'[j] = "search" /\ current'[j] = i /\ base'[j] = settled
      /\ \A k \in Job \ {j} : pc'[k] = pc[k] /\ current'[k] = current[k] /\ base'[k] = base[k]
  BY <1>1, <1>2 DEF TypeOK
<1>4. TypeOK'
  <2>1. settled \in [BugID -> 0..Disturbed]
    BY <1>2 DEF TypeOK, Disturbed
  <2>2. base' \in [Job -> [BugID -> 0..Disturbed]]
    BY <1>2, <2>1 DEF TypeOK
  <2>3. current' \in [Job -> DOMAIN PotentialActions]
    BY <1>1, <1>2, ActionsAre DEF TypeOK
  <2> QED BY <1>2, <2>2, <2>3 DEF TypeOK
<1>5. JobInv'
  BY <1>1, <1>2, <1>3 DEF IInv, JobInv
<1>6. ASSUME NEW b \in BugID
      PROVE  Settled(b)' /\ Achieved(j, b)' /\ Due(j, b)' <= Due(j, b)
  <2>1. Settled(b)'
    BY <1>2, SameBug DEF IInv
  <2>2. Achieved(j, b)'
    <3>1. \A k \in Actions : ~Done(j, k, b)'
      BY <1>1, <1>2, <1>3, Types DEF Done, IsNext
    <3>2. settled[b] \in {1, 2} => TargetStands(b)
      BY DEF IInv, Settled
    <3>3. base'[j][b] \in {1, 2} => TargetStands(b)'
      BY <1>2, <1>3, <3>2 DEF TargetStands
    <3> QED BY <3>1, <3>3 DEF Achieved
  <2>3. Due(j, b)' = Reasons(bug[b]) /\ Due(j, b) = Reasons(bug[b])
    BY <1>2 DEF Due
  <2>4. Reasons(bug[b]) \in 0..2
    BY <1>2, DueBounds
  <2> QED BY <2>1, <2>2, <2>3, <2>4
<1> QED
  BY <1>2, <1>3, <1>4, <1>5, <1>6, StepOfJob

(***************************************************************************)
(* A search: the bugs it does not find are done with, those it finds give  *)
(* the action its reason.                                                  *)
(***************************************************************************)
LEMMA SearchIInv == ASSUME IInv, NEW j \in Job, Search(j) PROVE IInv'
<1> DEFINE hits == { b \in BugID : Matches(ActionOf(j), bug[b]) }
<1>1. /\ TypeOK /\ pc[j] = "search" /\ pc' = [pc EXCEPT ![j] = "update"]
      /\ found' = [found EXCEPT ![j] = hits] /\ found[j] = {} /\ current[j] \in Actions
      /\ UNCHANGED <<bug, current, edits, faults, comments, settled, base>>
  BY DEF Search, IInv, JobInv
<1>2. /\ pc'[j] = "update" /\ found'[j] = hits
      /\ \A k \in Job \ {j} : pc'[k] = pc[k] /\ found'[k] = found[k]
  BY <1>1 DEF TypeOK
<1>3. TypeOK'
  BY <1>1 DEF TypeOK
<1>4. JobInv'
  BY <1>1, <1>2 DEF IInv, JobInv
<1>5. ASSUME NEW b \in BugID
      PROVE  Settled(b)' /\ Achieved(j, b)' /\ Due(j, b)' <= Due(j, b)
  <2>1. Settled(b)'
    BY <1>1, SameBug DEF IInv
  <2>2. Achieved(j, b)'
    <3>1. ASSUME NEW i \in Actions, Done(j, i, b)'
          PROVE  Done(j, i, b) \/ ~Matches(PotentialActions[i], bug[b])
      BY <1>1, <1>2, <3>1 DEF Done, ActionOf
    <3>2. Achieved(j, b)
      BY DEF IInv
    <3> QED BY <1>1, <1>2, <3>1, <3>2 DEF Achieved, TargetStands
  <2>3. Due(j, b)' <= Due(j, b)
    <3>1. /\ ActionOf(j)' = ActionOf(j) /\ ActionOf(j) \in ActionName /\ bug[b] \in Bug
      BY <1>1, Types DEF ActionOf
    <3>2. Due(j, b) = Reasons(bug[b])
      BY <1>1 DEF Due
    <3>3. Due(j, b)' = IF Matches(ActionOf(j), bug[b]) /\ ActionOf(j) \in Comments
                       THEN 1 + Reasons(Updated(ActionOf(j), bug[b])) ELSE Reasons(bug[b])
      BY <1>1, <1>2, <3>1 DEF Due
    <3> QED BY <3>1, <3>2, <3>3, ReasonsGo
  <2> QED BY <2>1, <2>2, <2>3
<1> HIDE DEF hits
<1> QED
  BY <1>1, <1>2, <1>3, <1>4, <1>5, StepOfJob

(***************************************************************************)
(* A run ends before its time, and what it had still to do is forgotten.   *)
(***************************************************************************)
LEMMA AbortIInv ==
  ASSUME IInv, NEW j \in Job, Abort(j), faults' \in 0..MaxFaults
  PROVE  IInv'
<1>1. /\ TypeOK /\ pc' = [pc EXCEPT ![j] = "off"] /\ found' = [found EXCEPT ![j] = {}]
      /\ UNCHANGED <<bug, current, edits, comments, settled, base>>
  BY DEF Abort, IInv
<1>2. /\ pc'[j] = "off" /\ found'[j] = {}
      /\ \A k \in Job \ {j} : pc'[k] = pc[k] /\ found'[k] = found[k]
  BY <1>1 DEF TypeOK
<1>3. TypeOK'
  BY <1>1 DEF TypeOK
<1>4. JobInv'
  BY <1>1, <1>2 DEF IInv, JobInv
<1>5. ASSUME NEW b \in BugID
      PROVE  Settled(b)' /\ Achieved(j, b)' /\ Due(j, b)' <= Due(j, b)
  <2>1. Settled(b)'
    BY <1>1, SameBug DEF IInv
  <2>2. Achieved(j, b)'
    BY <1>1, <1>2 DEF IInv, Achieved, TargetStands
  <2>3. Due(j, b)' = Reasons(bug[b])
    BY <1>1, <1>2 DEF Due
  <2> QED BY <1>1, <2>1, <2>2, <2>3, DueBounds
<1> QED
  BY <1>1, <1>2, <1>3, <1>4, <1>5, StepOfJob

(***************************************************************************)
(* An update that is not applied: the run counts for nothing for its bug.  *)
(***************************************************************************)
LEMMA SkipIInv ==
  ASSUME IInv, NEW j \in Job, NEW b \in BugID, Skip(j, b), faults' \in 0..MaxFaults
  PROVE  IInv'
<1>1. /\ TypeOK /\ pc[j] = "update" /\ b \in found[j]
      /\ found' = [found EXCEPT ![j] = found[j] \ {b}]
      /\ base' = [base EXCEPT ![j] = [base[j] EXCEPT ![b] = 3]]
      /\ UNCHANGED <<bug, pc, current, edits, comments, settled>>
  BY DEF Skip, IInv, TypeOK, Disturbed
<1>2. /\ found'[j] = found[j] \ {b} /\ base'[j] = [base[j] EXCEPT ![b] = 3]
      /\ \A k \in Job \ {j} : found'[k] = found[k] /\ base'[k] = base[k]
  BY <1>1 DEF TypeOK
<1>3. /\ base'[j] \in [BugID -> 0..Disturbed] /\ base'[j][b] = 3
      /\ \A c \in BugID \ {b} : base'[j][c] = base[j][c]
  <2>1. base[j] \in [BugID -> 0..Disturbed]
    BY <1>1 DEF TypeOK
  <2> QED BY <1>2, <2>1 DEF Disturbed
<1>4. TypeOK'
  <2>1. base' \in [Job -> [BugID -> 0..Disturbed]]
    BY <1>1, <1>2, <1>3 DEF TypeOK
  <2> QED BY <1>1, <2>1 DEF TypeOK
<1>5. JobInv'
  BY <1>1, <1>2 DEF IInv, JobInv
<1>6. ASSUME NEW c \in BugID
      PROVE  Settled(c)' /\ Achieved(j, c)' /\ Due(j, c)' <= Due(j, c)
  <2>1. Settled(c)'
    BY <1>1, SameBug DEF IInv
  <2>2. /\ ActionOf(j)' = ActionOf(j)
        /\ Due(j, c) \in 0..2 /\ Reasons(bug[c]) <= Due(j, c)
    BY <1>1, DueBounds DEF ActionOf
  <2>3. CASE c = b
    <3>1. Achieved(j, c)'
      BY <1>3, <2>3 DEF Achieved
    <3>2. Due(j, c)' = Reasons(bug[c])
      BY <1>1, <1>2, <2>2, <2>3 DEF Due
    <3> QED BY <2>1, <2>2, <3>1, <3>2
  <2>4. CASE c # b
    <3>1. Achieved(j, c)'
      BY <1>1, <1>2, <1>3, <2>4 DEF IInv, Achieved, Done, TargetStands
    <3>2. Due(j, c)' = Due(j, c)
      BY <1>1, <1>2, <2>2, <2>4 DEF Due
    <3> QED BY <2>1, <2>2, <3>1, <3>2
  <2> QED BY <2>3, <2>4
<1> QED
  BY <1>1, <1>2, <1>4, <1>5, <1>6, StepOfJob

(***************************************************************************)
(* The loop goes on to the next action with the one it was at behind it.   *)
(***************************************************************************)
LEMMA NextActionIInv == ASSUME IInv, NEW j \in Job, NextAction(j) PROVE IInv'
<1>1. PICK i \in Actions : IsNext(i, current[j]) /\ current' = [current EXCEPT ![j] = i]
  BY DEF NextAction
<1>2. /\ TypeOK /\ pc[j] = "update" /\ found[j] = {} /\ pc' = [pc EXCEPT ![j] = "search"]
      /\ UNCHANGED <<bug, found, edits, faults, comments, settled, base>>
  BY DEF NextAction, IInv
<1>3. /\ pc'[j] = "search" /\ current'[j] = i
      /\ \A k \in Job \ {j} : pc'[k] = pc[k] /\ current'[k] = current[k]
  BY <1>1, <1>2 DEF TypeOK
<1>4. TypeOK'
  BY <1>1, <1>2, ActionsAre DEF TypeOK
<1>5. JobInv'
  BY <1>1, <1>2, <1>3 DEF IInv, JobInv
<1>6. ASSUME NEW b \in BugID
      PROVE  Settled(b)' /\ Achieved(j, b)' /\ Due(j, b)' <= Due(j, b)
  <2>1. Settled(b)'
    BY <1>2, SameBug DEF IInv
  <2>2. Achieved(j, b)'
    <3>1. ASSUME NEW k \in Actions, Done(j, k, b)' PROVE Done(j, k, b)
      <4>1. k \in 1..8 /\ i \in 1..8 /\ current[j] \in 1..8
        BY <1>2, ActionsAre, Types
      <4>2. k < i
        BY <1>2, <1>3, <3>1 DEF Done
      <4>3. k <= current[j]
        BY <1>1, <4>1, <4>2 DEF IsNext
      <4> QED BY <1>2, <4>1, <4>3 DEF Done
    <3>2. Achieved(j, b)
      BY DEF IInv
    <3> QED BY <1>2, <3>1, <3>2 DEF Achieved, TargetStands
  <2>3. Due(j, b)' = Reasons(bug[b]) /\ Due(j, b) = Reasons(bug[b])
    BY <1>2 DEF Due
  <2>4. Reasons(bug[b]) \in 0..2
    BY <1>2, DueBounds
  <2> QED BY <2>1, <2>2, <2>3, <2>4
<1> QED
  BY <1>2, <1>3, <1>4, <1>5, <1>6, StepOfJob

(***************************************************************************)
(* A run comes to its end with all the actions behind it: after a first    *)
(* the target release stands, after a second there is nothing to do.       *)
(***************************************************************************)
LEMMA EndRunIInv == ASSUME IInv, NEW j \in Job, EndRun(j) PROVE IInv'
<1>1. /\ TypeOK /\ pc[j] = "update" /\ found[j] = {} /\ \A i \in Actions : i <= current[j]
      /\ pc' = [pc EXCEPT ![j] = "off"]
      /\ settled' = [b \in BugID |-> IF base[j][b] < 2 /\ base[j][b] + 1 > settled[b]
                                     THEN base[j][b] + 1 ELSE settled[b]]
      /\ UNCHANGED <<bug, current, found, edits, faults, comments, base>>
  BY DEF EndRun, IInv
<1>2. /\ pc'[j] = "off" /\ \A k \in Job \ {j} : pc'[k] = pc[k]
  BY <1>1 DEF TypeOK
<1>3. \A b \in BugID : base[j][b] \in 0..3 /\ settled[b] \in 0..2
  BY <1>1, Types
<1>4. TypeOK'
  <2>1. settled' \in [BugID -> 0..2]
    BY <1>1, <1>3
  <2> QED BY <1>1, <2>1 DEF TypeOK
<1>5. JobInv'
  BY <1>1, <1>2 DEF IInv, JobInv
<1>6. ASSUME NEW b \in BugID
      PROVE  Settled(b)' /\ Achieved(j, b)' /\ Due(j, b)' <= Due(j, b)
  <2>1. ASSUME NEW i \in Actions PROVE Done(j, i, b)
    <3>1. i \in 1..8 /\ current[j] \in 1..8
      BY <1>1, ActionsAre, Types
    <3> QED BY <1>1, <3>1 DEF Done
  <2>2. Achieved(j, b) /\ Settled(b)
    BY DEF IInv
  <2>3. base[j][b] = 0 => TargetStands(b)
    BY <1>1, <2>1, <2>2 DEF Achieved, TargetStands
  <2>4. base[j][b] = 1 => TargetStands(b) /\ Quiescent(b)
    BY <1>1, <2>1, <2>2 DEF Achieved, Quiescent
  <2>5. Settled(b)'
    <3>1. TargetStands(b)' = TargetStands(b) /\ Quiescent(b)' = Quiescent(b)
      BY <1>1 DEF TargetStands, Quiescent
    <3>2. /\ settled'[b] # 0 => TargetStands(b)
          /\ settled'[b] = 2 => Quiescent(b)
      BY <1>1, <1>3, <2>2, <2>3, <2>4 DEF Settled
    <3> QED BY <3>1, <3>2 DEF Settled
  <2>6. Achieved(j, b)'
    BY <1>1, <1>2, <2>2 DEF Achieved, TargetStands
  <2>7. Due(j, b)' = Reasons(bug[b])
    BY <1>1 DEF Due
  <2> QED BY <1>1, <2>5, <2>6, <2>7, DueBounds
<1> QED
  BY <1>1, <1>2, <1>4, <1>5, <1>6, StepOfJob

\* Every step of a job keeps the invariant.
LEMMA RunIInv == ASSUME IInv, NEW j \in Job, Run(j) PROVE IInv'
<1>1. faults \in 0..MaxFaults /\ (Fault => faults' \in 0..MaxFaults)
  BY ConstantAssumption DEF IInv, TypeOK, Fault
<1>2. ASSUME NEW b \in BugID, Update(j, b) \/ UpdateAnswerLost(j, b) PROVE IInv'
  <2>1. /\ Apply(j, b) /\ pc[j] = "update" /\ b \in found[j]
        /\ found' = [found EXCEPT ![j] = found[j] \ {b}]
        /\ UNCHANGED <<pc, current, edits>> /\ faults' \in 0..MaxFaults
    BY <1>1, <1>2 DEF Update, UpdateAnswerLost, IInv, TypeOK
  <2> QED BY <2>1, ApplyIInv
<1>3. ASSUME NEW b \in BugID, UpdateRefused(j, b) \/ UpdateFails(j, b) PROVE IInv'
  <2>1. Skip(j, b) /\ faults' \in 0..MaxFaults
    BY <1>1, <1>3 DEF UpdateRefused, UpdateFails
  <2> QED BY <2>1, SkipIInv
<1>4. ASSUME SearchFails(j) \/ Killed(j) PROVE IInv'
  <2>1. Abort(j) /\ faults' \in 0..MaxFaults
    BY <1>1, <1>4 DEF SearchFails, Killed
  <2> QED BY <2>1, AbortIInv
<1> QED
  BY <1>2, <1>3, <1>4, StartRunIInv, SearchIInv, NextActionIInv, EndRunIInv DEF Run, Touch

\* Every step keeps the invariant.
LEMMA NextIInv == IInv /\ [Next]_vars => IInv'
<1> SUFFICES ASSUME IInv, [Next]_vars PROVE IInv'
  OBVIOUS
<1>1. CASE UNCHANGED vars
  <2>1. TypeOK' /\ JobInv'
    BY <1>1 DEF vars, IInv, TypeOK, JobInv
  <2>2. \A b \in BugID : Settled(b)'
    BY <1>1, SameBug DEF vars, IInv
  <2>3. \A j \in Job, b \in BugID : Achieved(j, b)' /\ comments'[j][b] + Due(j, b)' <= 2
    BY <1>1, SameWork DEF vars, IInv
  <2> QED BY <2>1, <2>2, <2>3 DEF IInv
<1> QED
  BY <1>1, EditIInv, RunIInv DEF Next

(***************************************************************************)
(* What runs have achieved lasts, and comments come to an end.             *)
(***************************************************************************)
THEOREM Invariance == Spec => []IInv
  BY InitIInv, NextIInv, PTL DEF Spec

\* Every reachable state has the types TypeOK states.
THEOREM TypeCorrect == Spec => []TypeOK
<1>1. IInv => TypeOK
  BY DEF IInv
<1> QED
  BY <1>1, Invariance, PTL

(***************************************************************************)
(* Two full runs that nothing disturbs leave nothing to do for a bug, with *)
(* any selection of the actions, any number of overlapping jobs, edits,    *)
(* failed calls and killed pods.                                           *)
(***************************************************************************)
THEOREM TwoRunsAreEnough == Spec => []TwoRunsSuffice
<1>1. IInv => TwoRunsSuffice
  BY DEF IInv, Settled, TwoRunsSuffice
<1> QED
  BY <1>1, Invariance, PTL

(***************************************************************************)
(* After an edit no job comments on a bug more than twice.                 *)
(***************************************************************************)
THEOREM TwoCommentsAtMost == Spec => []FewComments
<1>1. IInv => FewComments
  <2> SUFFICES ASSUME IInv, NEW j \in Job, NEW b \in BugID PROVE comments[j][b] <= 2
    BY DEF FewComments
  <2>1. comments[j][b] + Due(j, b) <= 2 /\ comments[j][b] \in 0..3 /\ Due(j, b) \in 0..2
    BY Types, DueBounds DEF IInv
  <2> QED BY <2>1
<1> QED
  BY <1>1, Invariance, PTL
=============================================================================
