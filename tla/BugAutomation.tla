--------------------------- MODULE BugAutomation ---------------------------
(***************************************************************************)
(* The runs of cmd/bug-automation.  The cron job starts one every hour and *)
(* does not forbid that they overlap; the job manifest starts one by hand. *)
(* A run takes its actions one after the other: it searches for the bugs   *)
(* that match, then updates them one by one, while people and other runs   *)
(* edit the same bugs.                                                     *)
(***************************************************************************)
EXTENDS BugRules, Naturals

CONSTANTS
    BugID,       \* the bugs
    Job,         \* the jobs that can run at a time
    Selected,    \* the value of --actions
    InitialBugs, \* what a bug can be at first
    EditedBugs,  \* what an edit can make of a bug
    Locked,      \* the bugs Bugzilla never lets the bot update
    MaxEdits,    \* bound: edits by people
    MaxFaults    \* bound: failed calls and killed pods

ASSUME ConstantAssumption ==
    /\ InitialBugs \subseteq Bug /\ EditedBugs \subseteq Bug
    /\ Locked \subseteq BugID
    /\ MaxEdits \in Nat /\ MaxFaults \in Nat

Actions == SelectActions(Selected)

\* The loop over the actions comes from position n to position i.
IsNext(i, n) == i \in Actions /\ i > n /\ \A k \in Actions : k > n => i <= k

VARIABLES
    bug,       \* Bugzilla's bugs
    pc,        \* a job: "off", "search" or "update"
    current,   \* a job's position in the loop over the actions
    found,     \* a job's bugs left to update
    edits, faults,
    comments,  \* history: a job's comments on a bug since people edited it
    settled,   \* history: the full runs, one after the other, since the bug was
               \* last disturbed, up to 2
    base       \* history: settled when a job started, 3 when the job was disturbed

\* The action that a job is at.
ActionOf(j) == PotentialActions[current[j]]

vars == <<bug, pc, current, found, edits, faults, comments, settled, base>>

\* The bound on comments, above what any job gets to.
MaxComments == 3
Disturbed == 3

TypeOK ==
    /\ bug \in [BugID -> Bug]
    /\ pc \in [Job -> {"off", "search", "update"}]
    /\ current \in [Job -> DOMAIN PotentialActions]
    /\ found \in [Job -> SUBSET BugID]
    /\ edits \in 0..MaxEdits /\ faults \in 0..MaxFaults
    /\ comments \in [Job -> [BugID -> 0..MaxComments]]
    /\ settled \in [BugID -> 0..2]
    /\ base \in [Job -> [BugID -> 0..Disturbed]]

Init ==
    /\ bug \in [BugID -> InitialBugs]
    /\ pc = [j \in Job |-> "off"]
    /\ current = [j \in Job |-> 1]
    /\ found = [j \in Job |-> {}]
    /\ edits = 0 /\ faults = 0
    /\ comments = [j \in Job |-> [b \in BugID |-> 0]]
    /\ settled = [b \in BugID |-> 0]
    /\ base = [j \in Job |-> [b \in BugID |-> 0]]

\* History: something other than a run on fresh data touched the bug.
Disturb(b) ==
    /\ settled' = [settled EXCEPT ![b] = 0]
    /\ base' = [j \in Job |-> [base[j] EXCEPT ![b] = Disturbed]]

-----------------------------------------------------------------------------
\* Somebody edits a bug.
Edit(b, r) ==
    /\ edits < MaxEdits
    /\ edits' = edits + 1
    /\ bug' = [bug EXCEPT ![b] = r]
    /\ comments' = [j \in Job |-> [comments[j] EXCEPT ![b] = 0]]
    /\ Disturb(b)
    /\ UNCHANGED <<pc, current, found, faults>>

\* The pod of a job starts, or starts anew after a failure.  A run without
\* actions does nothing.
StartRun(j) ==
    /\ pc[j] = "off"
    /\ pc' = [pc EXCEPT ![j] = "search"]
    /\ \E i \in Actions : IsNext(i, 0) /\ current' = [current EXCEPT ![j] = i]
    /\ base' = [base EXCEPT ![j] = settled]
    /\ UNCHANGED <<bug, found, edits, faults, comments, settled>>

\* client.Search(query)
Search(j) ==
    /\ pc[j] = "search"
    /\ pc' = [pc EXCEPT ![j] = "update"]
    /\ found' = [found EXCEPT ![j] = { b \in BugID : Matches(ActionOf(j), bug[b]) }]
    /\ UNCHANGED <<bug, current, edits, faults, comments, settled, base>>

Fault ==
    /\ faults < MaxFaults
    /\ faults' = faults + 1

\* The run is over before its end.
Abort(j) ==
    /\ pc' = [pc EXCEPT ![j] = "off"]
    /\ found' = [found EXCEPT ![j] = {}]
    /\ UNCHANGED <<bug, current, edits, comments, settled, base>>

\* Mutant of SearchFails: the error is logged and the run goes on.
SearchFailsGoesOn(j) ==
    /\ pc[j] = "search"
    /\ Fault
    /\ pc' = [pc EXCEPT ![j] = "update"]
    /\ UNCHANGED <<bug, current, found, edits, comments, settled, base>>

\* An error of Search ends the run; so does the end of the pod.
SearchFails(j) == pc[j] = "search" /\ Fault /\ Abort(j)
Killed(j) == pc[j] = "update" /\ Fault /\ Abort(j)

\* Bugzilla applies the update of the job's action to the bug as it is now.
Apply(j, b) ==
    /\ bug' = [bug EXCEPT ![b] = Updated(ActionOf(j), bug[b])]
    /\ comments' = [comments EXCEPT ![j][b] =
                        IF ActionOf(j) \in Comments /\ @ < MaxComments THEN @ + 1 ELSE @]
    /\ IF Matches(ActionOf(j), bug[b]) THEN UNCHANGED <<settled, base>> ELSE Disturb(b)

\* client.UpdateBug(bug.ID, update)
Update(j, b) ==
    /\ pc[j] = "update"
    /\ b \in found[j] \ Locked
    /\ found' = [found EXCEPT ![j] = @ \ {b}]
    /\ Apply(j, b)
    /\ UNCHANGED <<pc, current, edits, faults>>

\* Mutant of UpdateAnswerLost: the update is sent once more.
UpdateAnswerLostRetried(j, b) ==
    /\ pc[j] = "update"
    /\ b \in found[j] \ Locked
    /\ Fault
    /\ Apply(j, b)
    /\ UNCHANGED <<pc, current, found, edits>>

\* The update is applied but its answer is lost: the error is only logged.
UpdateAnswerLost(j, b) ==
    /\ pc[j] = "update"
    /\ b \in found[j] \ Locked
    /\ Fault
    /\ found' = [found EXCEPT ![j] = @ \ {b}]
    /\ Apply(j, b)
    /\ UNCHANGED <<pc, current, edits>>

\* The update is not applied: the error is only logged.
Skip(j, b) ==
    /\ pc[j] = "update"
    /\ b \in found[j]
    /\ found' = [found EXCEPT ![j] = @ \ {b}]
    /\ base' = [base EXCEPT ![j][b] = Disturbed]
    /\ UNCHANGED <<bug, pc, current, edits, comments, settled>>

\* Mutant of UpdateRefused: the error ends the run.
UpdateRefusedAborts(j, b) ==
    /\ pc[j] = "update"
    /\ b \in found[j] \cap Locked
    /\ Abort(j)
    /\ UNCHANGED faults

UpdateFails(j, b) == b \notin Locked /\ Fault /\ Skip(j, b)
UpdateRefused(j, b) == b \in Locked /\ Skip(j, b) /\ UNCHANGED faults

\* Mutant of NextAction: the loop runs past the last action.
NextActionUnbounded(j) ==
    /\ pc[j] = "update"
    /\ found[j] = {}
    /\ pc' = [pc EXCEPT ![j] = "search"]
    /\ current' = [current EXCEPT ![j] = @ + 1]
    /\ UNCHANGED <<bug, found, edits, faults, comments, settled, base>>

\* The loop over the actions goes on.
NextAction(j) ==
    /\ pc[j] = "update"
    /\ found[j] = {}
    /\ pc' = [pc EXCEPT ![j] = "search"]
    /\ \E i \in Actions : IsNext(i, current[j]) /\ current' = [current EXCEPT ![j] = i]
    /\ UNCHANGED <<bug, found, edits, faults, comments, settled, base>>

\* doBug returns nil.
EndRun(j) ==
    /\ pc[j] = "update"
    /\ found[j] = {}
    /\ \A i \in Actions : i <= current[j]
    /\ pc' = [pc EXCEPT ![j] = "off"]
    /\ settled' = [b \in BugID |->
                      IF base[j][b] < 2 /\ base[j][b] + 1 > settled[b]
                      THEN base[j][b] + 1 ELSE settled[b]]
    /\ UNCHANGED <<bug, current, found, edits, faults, comments, base>>

Touch(j) == \E b \in BugID : Update(j, b) \/ UpdateRefused(j, b)

Run(j) ==
    \/ StartRun(j) \/ Search(j) \/ NextAction(j) \/ EndRun(j) \/ Touch(j)
    \/ SearchFails(j) \/ Killed(j)
    \/ \E b \in BugID : UpdateAnswerLost(j, b) \/ UpdateFails(j, b)

Next ==
    \/ \E b \in BugID, r \in EditedBugs : Edit(b, r)
    \/ \E j \in Job : Run(j)

\* The cron job starts a run every hour, and a run that can go on goes on.
Fairness ==
    \A j \in Job :
        WF_vars(StartRun(j) \/ Search(j) \/ NextAction(j) \/ EndRun(j) \/ Touch(j))

Spec == Init /\ [][Next]_vars
FairSpec == Spec /\ Fairness

-----------------------------------------------------------------------------
\* None of the actions has anything to say about the bug.
Quiescent(b) == \A i \in Actions : ~Matches(PotentialActions[i], bug[b])

(***************************************************************************)
(* The actions do not work against each other: two full runs, one after    *)
(* the other, leave nothing to do, whatever the bug was.  One run is not   *)
(* enough, as later actions make bugs that earlier ones look for; bugs     *)
(* that somebody edits, an update that fails and an update that comes too  *)
(* late, from a run whose search is outdated, start the count again.       *)
(***************************************************************************)
TwoRunsSuffice == \A b \in BugID : settled[b] = 2 => Quiescent(b)

(***************************************************************************)
(* The bot does not talk to itself: after an edit a job comments on a bug  *)
(* at most twice, for ever, even if others work on the bug at the same     *)
(* time, answers get lost and the job is started again.                    *)
(***************************************************************************)
FewComments == \A j \in Job, b \in BugID : comments[j][b] <= 2

(***************************************************************************)
(* When people leave the bugs alone and the faults stop, all bugs come to  *)
(* rest, although there are others that the bot can never update.          *)
(***************************************************************************)
AllComeToRest == \A b \in BugID \ Locked : <>[]Quiescent(b)

-----------------------------------------------------------------------------
\* A job has its action at position i behind it, as far as bug b goes.
Done(j, i, b) ==
    \/ i < current[j]
    \/ i = current[j] /\ pc[j] = "update" /\ b \notin found[j]

\* No action has reason to unset the target release of the bug.
TargetStands(b) ==
    \A i \in Actions :
        PotentialActions[i] \in UnsetsTarget => ~Matches(PotentialActions[i], bug[b])

(***************************************************************************)
(* What a run has achieved for a bug that nothing disturbs: the actions    *)
(* that unset the target release have nothing left to do as soon as they   *)
(* are done; once they all are, the same goes for every other action.      *)
(***************************************************************************)
Achieved(j, b) ==
    /\ base[j][b] \in {1, 2} => TargetStands(b)
    /\ pc[j] # "off" =>
         \A i \in Actions :
             /\ Done(j, i, b)
             /\ \/ base[j][b] = 0 /\ PotentialActions[i] \in UnsetsTarget
                \/ base[j][b] = 1
             => ~Matches(PotentialActions[i], bug[b])

Settled(b) ==
    /\ settled[b] # 0 => TargetStands(b)
    /\ settled[b] = 2 => Quiescent(b)

JobInv ==
    \A j \in Job : /\ pc[j] # "off" => current[j] \in Actions
                   /\ pc[j] # "update" => found[j] = {}

\* The comments that a bug still gives a reason for.
Reasons(r) == (IF r.target = "---" THEN 0 ELSE 1) + (IF r.blocker = "+" THEN 1 ELSE 0)

\* The comments that a job can still make: one that it is about to make
\* takes away a reason, of which an edit gives two at most.
Due(j, b) ==
    IF b \in found[j] /\ ActionOf(j) \in Comments
    THEN 1 + Reasons(Updated(ActionOf(j), bug[b])) ELSE Reasons(bug[b])

\* The inductive invariant the proofs of BugAutomationProofs use.
IInv ==
    /\ TypeOK /\ JobInv
    /\ \A b \in BugID : Settled(b)
    /\ \A j \in Job, b \in BugID : Achieved(j, b) /\ comments[j][b] + Due(j, b) <= 2
=============================================================================
